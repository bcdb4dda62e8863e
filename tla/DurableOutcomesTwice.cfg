SPECIFICATION Spec
CONSTANTS
    k1 = k1  k2 = k2  a1 = a1  a2 = a2  a3 = a3
    Attempt = {a1, a2, a3}
    Key = {k1, k2}
    KeyOf <- ThreeAttempts
    SurfaceKey = {k1}
    None = None
    Shorter = Shorter
    Trigger = 2
    Retain = 1
    Budget = 2
    MaxCrashes = 1
    MaxFaults = 1
SYMMETRY Twins
CHECK_DEADLOCK FALSE
INVARIANTS NeverTwice
