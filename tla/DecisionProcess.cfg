CONSTANTS
    Limit <- MCLimit
    MaxWritten <- MCMaxWritten
    Answer = 1
    MaxRuns = 1
    PerDay = TRUE
    LastDay = 2
    None = None
SPECIFICATION FairSpec
INVARIANTS
    AcceptedIsWhole
    TerminationTold
PROPERTIES
    EveryCallAnswered
