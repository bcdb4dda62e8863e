SPECIFICATION FairSpec
CONSTANTS
    r = r  h = h  t = t  d = d
    Command = {r, h}
    Automation = {r}
    Leased = {h}
    Takeover = {t}
    Delegate = {d}
    None = None
    MaxGeneration = 1
    MaxEpoch = 2
    MaxFaults = 1
CHECK_DEADLOCK FALSE
INVARIANTS TypeOK TakeoverFences ReportsHold Serialized RunsUnderItsLease
PROPERTIES TakeoverSettles CommandsSettle
