SPECIFICATION Spec
CONSTANTS
    a = a  b = b  h = h
    Client = {h, a, b}
    Mutator = {h}
    None = None
    MaxFaults = 1
SYMMETRY Twins
CHECK_DEADLOCK FALSE
INVARIANTS TypeOK Exclusive NeverStranded ReleaseTakesEffect
