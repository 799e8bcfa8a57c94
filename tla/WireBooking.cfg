SPECIFICATION FairSpec
CONSTANTS
    Trades = {1, 2}
    Payments = {1, 2, 3, 4, 5}
    Idents = {"a1", "a2", "z"}
    Buyer <- Buyers
    Seller <- Sellers
    Price <- Prices
    Paid <- Sends
    Connection <- Connections
    Ident <- Accounts
    PayAmount <- InParts
    Identifies <- Targets
    InitialStatuses = {"created", "open"}
    MaxEdits = 2
INVARIANTS TypeOK FilledWasPaid BooksAgree
PROPERTIES Linearizable CallsEnd
CHECK_DEADLOCK FALSE
