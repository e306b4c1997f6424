CONSTANTS
    Commanders = {c1, c2, c3}
    Nobody = Nobody
    Commands <- AllCommands
SPECIFICATION FairSpec
CHECK_DEADLOCK FALSE
INVARIANTS TypeOK RunningCovers ZombiesAreReaped ListedOnce
PROPERTIES ForksWithinConcurrency ImplementsPool CommandAnswered
