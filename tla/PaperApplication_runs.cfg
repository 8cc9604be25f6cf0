\* Two paper runs on one directory: what they leave, and that they end.
CONSTANTS
  Runs = {r1, r2}
  Writers = {}
  ValueUpdates = {}
  SnapshotUpdates = {}
  Portfolios = {a, b}
  InitialPortfolio = a
  Decisions <- MCDecisions
  NoPortfolio = NoPortfolio
  NoRevision = NoRevision
  NoApplication = NoApplication
  NoRecord = NoRecord
  Nobody = Nobody
  Abandoned = Abandoned
  Torn = Torn
SPECIFICATION FairSpec
INVARIANTS
  EffectsFenced
  OneApplicationPerRevision
  RetryableMeansUnapplied
  NoWaitCycle
  NeverStuck
PROPERTIES
  EveryStartEnds
CHECK_DEADLOCK FALSE
