SPECIFICATION MCSpec
CONSTANTS
    Trades = {1, 2}
    Invoices = {i1, i2}
    None = None
    MaxEdits = 2
    MaxPays = 3
    Tokens = {a, b, c, d, x}
    Forged = {x}
    Threads = {th1, th2}
    CacheSize = 1
INVARIANTS MarksAreTrue CacheBounded RecentKept
CHECK_DEADLOCK FALSE
