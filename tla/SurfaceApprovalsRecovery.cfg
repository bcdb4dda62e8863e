SPECIFICATION Spec
CONSTANTS
    x = x  y = y  r1 = r1  r2 = r2  g1 = g1  g2 = g2
    Action = {x}
    Guarded = {x}
    Resolver = {r1}
    Granter = {g1}
    None = None
    QueueDepth = 1
    MaxGeneration = 1
    MaxRestarts = 1
    MaxFaults = 0
CHECK_DEADLOCK FALSE
INVARIANT RecoveryReportsUnknown
