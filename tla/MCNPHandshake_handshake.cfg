SPECIFICATION FairSpec
CONSTANTS
    Commanders = {c1, c2}
    Commands = {"issueJob", "exit", "malformed"}
    MayDie = TRUE
    Nobody = Nobody
CHECK_DEADLOCK FALSE
INVARIANTS
    TypeOK
    PipesAreThere
    ExitCleansUp
    ServerIsReachable
PROPERTY CommanderAnswered
