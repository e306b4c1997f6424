CONSTANTS
    Commanders = {c1, c2, c3, c4}
    Nobody = Nobody
    Commands <- IssueSetExit
SPECIFICATION Spec
CHECK_DEADLOCK FALSE
INVARIANT ExitKillsJobs
SYMMETRY CommanderSymmetry
