\* A valuation run and a writer of either journaled log, one fault.
CONSTANTS
  Runs = {r1}
  Markers = {}
  EquityWriters = {e}
  PositionWriters = {w}
  x = x
  y = y
  Items = {x, y}
  ItemOf <- MCItemOf
  AsOf <- MCAsOf
  Nobody = Nobody
  Abandoned = Abandoned
  Origin = Origin
  MaxAttempts = 2
  MaxFaults = 1
SPECIFICATION Spec
INVARIANTS
  Recoverable
  OneJournal
  LocksGivenBack
PROPERTIES
  ImplementsLedger
CHECK_DEADLOCK FALSE
