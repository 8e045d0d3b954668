SPECIFICATION FairSpec
CONSTANTS
    Item = {c1, c2, c3}
    Id = {1, 2, 3}
    NoItem = NoItem
    RealTime = 2
    AddTime = 3
    MaxReply = 2
INVARIANTS TypeOK Counted OneItemPerId ItemsExpire
PROPERTIES ItemsFreed
CHECK_DEADLOCK FALSE
