CONSTANTS
    Workers = {w1}
    Clients = {c1, c2, c3, c4}
    NoThread = NoThread
    NoJob = NoJob
    BufferSize = 2
    SpuriousWakeups = FALSE
    Commands <- IssueStopExitFall
SPECIFICATION Spec
CHECK_DEADLOCK FALSE
CONSTRAINT FourthStops
SYMMETRY ThreeSymmetry
INVARIANTS TypeOK CountersExact JobsAccounted OutcomeGoesHome
    AllToldAtEnd
PROPERTY ImplementsPool
