SPECIFICATION Spec
CONSTANTS
    Item = {c1, c2}
    Id = {1, 2}
    NoItem = NoItem
    RealTime = 1
    AddTime = 2
    MaxReply = 3
INVARIANTS Counted
CHECK_DEADLOCK FALSE
