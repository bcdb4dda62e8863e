SPECIFICATION Spec
CONSTANTS
    x = x  y = y  r1 = r1  r2 = r2  g1 = g1  g2 = g2
    Action = {x, y}
    Guarded = {x}
    Resolver = {r1, r2}
    Granter = {g1, g2}
    None = None
    QueueDepth = 2
    MaxGeneration = 2
    MaxRestarts = 1
    MaxFaults = 1
SYMMETRY Twins
CHECK_DEADLOCK FALSE
INVARIANTS TypeOK ConsentedOnce NotRunStays OneAtATime IdleMeansSettled
PROPERTIES Authorized KeepsConsent
