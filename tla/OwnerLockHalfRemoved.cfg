SPECIFICATION FairSpec
CONSTANTS
    Contender = {c1, c2}
    NoOne = NoOne
CHECK_DEADLOCK FALSE
PROPERTIES DeadOwnerReplaced
