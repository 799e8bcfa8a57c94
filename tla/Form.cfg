SPECIFICATION FormSpec
CONSTANTS
    TabIndexes = {0, 1}
    MaxElements = 3
    MaxTurns = 2
    MaxId = 3
    MaxRows = 3
    MaxSets = 3
    c1 = c1
    c2 = c2
    Contents = {c1, c2}
    NoContent = NoContent
    Named = {x, y}
    On = On
    MaxSteps = 5
    i1 = i1
    i2 = i2
    e = e
    l1 = l1
    l2 = l2
    p = p
    z = z
    Items = {i1, i2}
    None = None
    Texts = {e, l1, l2, p, z}
    Empty = e
    Label <- Labels
    Found <- Finds
    MaxAsks = 4
INVARIANTS FormTypeOK RowsInOrder ShownIsRead TabCycles
PROPERTIES RowsKept Restores AnswersStay
CHECK_DEADLOCK FALSE
