SPECIFICATION FairSpec
CONSTANTS
    v1 = v1
    v2 = v2
    v3 = v3
    Views = {v1, v2, v3}
    Opening = {v1, v3}
    Closing = {v1, v2, v3}
    Style <- Styles
    Present <- First
    MaxCalls = 3
    MaxWaits = 1
    Timeouts = 2
INVARIANTS TypeOK NoMissedRender RestsInOrder
PROPERTIES ComesToRest
CHECK_DEADLOCK FALSE
