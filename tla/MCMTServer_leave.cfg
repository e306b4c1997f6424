CONSTANTS
    Workers = {w1}
    Clients = {c1, c2}
    NoThread = NoThread
    NoJob = NoJob
    BufferSize = 1
    SpuriousWakeups = FALSE
    Commands <- IssueAndExit
SPECIFICATION FairSpec
CHECK_DEADLOCK FALSE
PROPERTY
    EveryoneLeaves
