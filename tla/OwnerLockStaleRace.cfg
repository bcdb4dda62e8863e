SPECIFICATION Spec
CONSTANTS
    Contender = {c1, c2, c3}
    NoOne = NoOne
CHECK_DEADLOCK FALSE
INVARIANT OneLiveOwner
