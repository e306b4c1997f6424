CONSTANTS
    Block = 5
    StartLen = 2
    EndLen = 2
    TextLen = 3
    Lengths <- UpToThreeBlocks
    Nuls <- NowhereOrInTwoBlocks
    Leftovers = {0, 3, 9}
    Polled = 2
    Room = 6
    ShortReads = TRUE
SPECIFICATION FairSpec
CHECK_DEADLOCK FALSE
INVARIANTS TypeOK   
PROPERTY BothEnd
