SPECIFICATION FairSpec
CONSTANTS
    c1 = c1  a1 = a1  a2 = a2  p1 = p1  p2 = p2
    Creation = {c1}
    Adoption = {a1, a2}
    Shell = {}
    Attempts = 2
    Project = {p1, p2}
    Home <- TwoProjects
    None = None
    MaxCrashes = 2
    MaxFaults = 1
CHECK_DEADLOCK FALSE
INVARIANTS TypeOK UniqueSlug CleanupFailsClosed AdoptsStrays
PROPERTIES SettledStays ProducerUndisturbed OrphansReported
