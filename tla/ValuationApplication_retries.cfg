\* A run and a marker of its valuation that fail and are called again, and end.
CONSTANTS
  Runs = {r1}
  Markers = {m}
  EquityWriters = {}
  PositionWriters = {}
  x = x
  y = y
  Items = {x}
  ItemOf <- MCItemOf
  AsOf <- MCAsOf
  Nobody = Nobody
  Abandoned = Abandoned
  Origin = Origin
  MaxAttempts = 2
  MaxFaults = 2
SPECIFICATION LiveSpec
INVARIANTS
  AcknowledgedIsCommitted
PROPERTIES
  EveryCallEnds
CHECK_DEADLOCK FALSE
