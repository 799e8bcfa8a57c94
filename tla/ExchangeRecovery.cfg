SPECIFICATION Spec
CONSTANTS
    o1 = o1  o2 = o2  d1 = d1  d2 = d2  t1 = t1  t2 = t2  s1 = s1
    Orders = {o1, o2}
    Trades = {t1, t2}
    Deposits = {d1}
    Seeds = {{}, {t2}}
    OrderOf <- TwoOrders
    Amount <- Amounts
    Fee <- Fees
    IsWithdraw <- Withdraws
    NegativeAs = 9
    MaxMoves = 1
    MaxFaults = 1
    MaxCrashes = 1
INVARIANTS BalanceTracked UndecidedAhead HeapCoversOpen
