CONSTANTS
    Workers = {w1, w2}
    Clients = {c1, c2}
    NoThread = NoThread
    NoJob = NoJob
    BufferSize = 1
    SpuriousWakeups = FALSE
    Commands <- AllButPoll
SPECIFICATION FairSpec
CHECK_DEADLOCK FALSE
PROPERTY
    ShutdownEnds QueuedJobEnds
