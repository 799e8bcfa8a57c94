SPECIFICATION ClientsSpec
CONSTANTS
    c1 = c1
    c2 = c2
    ma = ma
    mb = mb
    Calls = {c1, c2}
    Falsy = {c2}
    Considered = {c1}
    MaxRepeats = 1
    MaxRetryCnt = 1
    MaxRequests = 9
    MaxLosses = 3
    Posts = {0, 1, 2, 3}
    Listing = {0}
    LastRetry = 1
    Insistent = {3}
    MaxAgain = 1
    Names <- Methods
    Wanted = {ma, mb}
    MaxBatches = 2
    MaxExecs = 2
    KeyNames = {"0", "1", "m", "n"}
    Positions <- MCPositions
    Scalars = {1, 2}
    Depth = 1
    Objects <- MCObjects
INVARIANTS CallsKept RetriesCounted ItemsCarried FunctionsAgree
PROPERTIES ContextIsLatest ClientsAnswer
CHECK_DEADLOCK FALSE
