SPECIFICATION SessionSpec
CONSTANTS
    Tokens = {a, b, c, x}
    Forged = {x}
    Threads = {th1, th2}
    CacheSize = 1
INVARIANTS RefusedIsBad
