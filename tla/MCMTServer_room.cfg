CONSTANTS
    Workers = {w1}
    Clients = {c1, c2, c3}
    NoThread = NoThread
    NoJob = NoJob
    BufferSize = 1
    SpuriousWakeups = FALSE
    Commands <- IssueAndStop
SPECIFICATION FairSpec
CHECK_DEADLOCK FALSE
CONSTRAINT
    TwoAtATime
PROPERTY
    RoomIsUsed
