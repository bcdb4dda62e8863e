SPECIFICATION FairApprovalSpec
CONSTANTS
    k1 = k1  k2 = k2  a1 = a1  a2 = a2  a3 = a3
    Attempt = {a1, a2, a3}
    Key = {k1, k2}
    KeyOf <- ThreeAttempts
    SurfaceKey = {k2}
    Gated = {k2}
    Verdict = Verdict
    None = None
    Shorter = Shorter
    Trigger = 2
    Retain = 1
    Budget = 1
    MaxCrashes = 1
    MaxFaults = 2
CHECK_DEADLOCK FALSE
 
PROPERTIES SubmitsSettle
