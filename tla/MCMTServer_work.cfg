CONSTANTS
    Workers = {w1, w2}
    Clients = {c1, c2, c3}
    NoThread = NoThread
    NoJob = NoJob
    BufferSize = 1
    SpuriousWakeups = TRUE
    Commands <- IssueVaryPoll
SPECIFICATION Spec
CHECK_DEADLOCK FALSE
SYMMETRY ThreadSymmetry
INVARIANTS BufferRespected ConcurrencyRespected JobsAccounted NonemptyWakeup
    NonfullWakeup SlotWakeup
