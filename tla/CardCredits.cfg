SPECIFICATION FairSpec
CONSTANTS
    None = None
    r1 = r1  r2 = r2  s1 = s1  s2 = s2  p1 = p1  p2 = p2  gift = gift
    k1 = k1  k2 = k2  h1 = h1  h2 = h2  es = es  en = en  mx = mx  us = us
    PackCode <- MCPackCode
    Reports = {r1, r2}
    Orders = {1, 2}
    MaxReserved = 1
    Sessions = {s1}
    Codes = {p1, gift}
    PlansOnSale = {"single", "pack"}
    Langs = {es}
    Countries = {mx, us}
    Clicks = {k1}
    Hooks = {h1, h2}
    SecondSessions = FALSE
    PayUnattached = TRUE
INVARIANTS CreditsBalance Inductive
PROPERTIES KeepsPromise ChargeIsRecorded
CHECK_DEADLOCK FALSE
