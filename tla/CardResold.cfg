SPECIFICATION Spec
CONSTANTS
    None = None
    r1 = r1  r2 = r2  s1 = s1  s2 = s2  p1 = p1  p2 = p2  gift = gift
    k1 = k1  k2 = k2  h1 = h1  h2 = h2  es = es  en = en  mx = mx  us = us
    PackCode <- MCPackCode
    Reports = {r1}
    Orders = {1, 2, 3}
    MaxReserved = 2
    Sessions = {s1, s2}
    Codes = {p1, p2}
    PlansOnSale = {"single"}
    Langs = {es}
    Countries = {mx, us}
    Clicks = {k1, k2}
    Hooks = {h1}
    SecondSessions = FALSE
    PayUnattached = FALSE
PROPERTIES HeldIsNotSoldAgain
SYMMETRY Interchangeable
CHECK_DEADLOCK FALSE
