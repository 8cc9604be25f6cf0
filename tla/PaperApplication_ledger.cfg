\* A run among a writer and a snapshot update: the files implement the ledger.
CONSTANTS
  Runs = {r1}
  Writers = {w}
  ValueUpdates = {}
  SnapshotUpdates = {u}
  Portfolios = {a, b}
  InitialPortfolio = a
  Decisions <- MCDecisions
  NoPortfolio = NoPortfolio
  NoRevision = NoRevision
  NoApplication = NoApplication
  NoRecord = NoRecord
  Nobody = Nobody
  Abandoned = Abandoned
  Torn = Torn
SPECIFICATION Spec
INVARIANTS
  HistoryReadable
PROPERTIES
  AppendsOntoObserved
  ImplementsLedger
CHECK_DEADLOCK FALSE
