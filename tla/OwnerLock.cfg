SPECIFICATION FairSpec
CONSTANTS
    Contender = {c1, c2, c3}
    NoOne = NoOne
CHECK_DEADLOCK FALSE
INVARIANTS TypeOK ExclusiveUnlessDisturbed EpochsFence
PROPERTIES OwnerKeepsRecord LoneContenderAcquires AttemptsSettle
