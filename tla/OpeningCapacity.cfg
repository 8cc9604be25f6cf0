\* A refresh, a publication and an append, on one portfolio or on two.
CONSTANTS
  Refreshers = {r}
  Publishers = {p}
  Appenders = {a}
  Portfolios = {f, g}
  Nobody = Nobody
  Absent = Absent
  MaxClock = 1
  MaxRetries = 1
  MaxFaults = 1
SYMMETRY MCSymmetry
SPECIFICATION Spec
INVARIANTS
  OneOwner
  JournalSound
  ProjectionsStable
  AcknowledgedStands
CHECK_DEADLOCK FALSE
