SPECIFICATION Spec
CONSTANTS
    o1 = o1  o2 = o2  d1 = d1  d2 = d2  t1 = t1  t2 = t2  s1 = s1
    Orders = {o1}
    Trades = {t1}
    Deposits = {d1}
    Seeds = {{}}
    OrderOf <- OneOrder
    Amount <- Amounts
    Fee <- Fees
    IsWithdraw <- Withdraws
    NegativeAs = 0
    MaxMoves = 0
    MaxFaults = 0
    MaxCrashes = 0
INVARIANTS MonitorSurvives
