CONSTANTS
    Commanders = {c1, c2, c3}
    Nobody = Nobody
    Commands <- IssueOnly
SPECIFICATION FairSpec
CHECK_DEADLOCK FALSE
PROPERTY FreedSlotIsUsed
