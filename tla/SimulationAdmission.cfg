CONSTANTS
    Requests = {r1, r2, r3}
    Servers = {s1, s2}
    Ids = {i1, i2}
    Readers = {q1}
    MaxFaults = 1
    ServerOf <- MCServerOf
    r1 = r1
    r2 = r2
    r3 = r3
    s1 = s1
    s2 = s2
    None = None
SPECIFICATION FairSpec
INVARIANTS
    RunsAreAccepted
    SlotTellsTheRun
PROPERTIES
    ReportsAreCurrent
    SlotComesFree
CHECK_DEADLOCK FALSE
