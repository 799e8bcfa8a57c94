SPECIFICATION FairSpec
CONSTANTS
    Deposits = {d1}
    Buys = {u1}
    Requests = {r1, r2, r3}
    None = None
    PingPeriod = 1
    MaxEdits = 1
    MaxFaults = 1
INVARIANTS TypeOK PaidStaysUntilFilled FilledWasPaid
PROPERTIES InvoiceKept UserInvoiceKept PaidIsSettled RequestsAnswered
