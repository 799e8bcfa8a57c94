SPECIFICATION Spec
CONSTANTS
    Trades = {1, 2}
    Invoices = {i1, i2}
    None = None
    MaxEdits = 2
    MaxPays = 3
INVARIANTS PaidIsNoted
CHECK_DEADLOCK FALSE
