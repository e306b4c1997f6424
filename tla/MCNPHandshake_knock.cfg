SPECIFICATION Spec
CONSTANTS
    Commanders = {c1, c2}
    Commands = {"issueJob", "exit", "blank"}
    MayDie = FALSE
    Nobody = Nobody
CHECK_DEADLOCK FALSE
INVARIANT PidReachesServer
