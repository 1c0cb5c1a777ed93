SPECIFICATION MCSpec
CONSTANTS
    None = None
    c = c
    r1 = r1
    r2 = r2
    ana = ana
    dan = dan
    eva = eva
    ivo = ivo
    lia = lia
    joy = joy
    kim = kim
    s1 = s1
    s2 = s2
    o1 = o1
    Accounts = {ana, dan, eva, ivo, joy, kim, lia}
    Invitees = {ivo, joy, kim, lia}
    InviterOf <- MCInviter
    Orders = {o1}
    BuyerOf <- MCBuyer
    Sessions = {s1, s2}
    OrderOf <- MCOrder
    Codes = {c}
    Runs = {r1, r2}
    MonthlyCap = 1
    Budget = 2
    Early = {dan, eva, joy, kim, lia}
    Rewarded = {lia}
    Leavers = {ana, ivo}
    MaxDeaths = 1
INVARIANTS RewardLimits BoughtOnce NoInviteForgotten
CHECK_DEADLOCK FALSE
