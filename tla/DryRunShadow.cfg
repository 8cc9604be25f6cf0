\* Two scenarios; up to five handles, of one lineage or more.
CONSTANTS
  first = first
  again = again
  refused = refused
  order = order
  other = other
  s1 = s1
  s2 = s2
  Evaluations <- MCEvaluations
  Approved <- MCApproved
  IntentHash <- MCIntentHash
  Scenarios = {s1, s2}
  MaxHandles = 5
  MaxApprovals = 2
SYMMETRY MCSymmetry
SPECIFICATION Spec
INVARIANTS
  LineageIsLinear
  AuditExplainsRecords
  ValidatedOnce
  ApprovalSpentOnce
PROPERTIES
  ImplementsOrders
CHECK_DEADLOCK FALSE
