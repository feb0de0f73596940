SPECIFICATION FairSpec
CONSTANTS
  a = a
  b = b
  Signatures <- TwoSignatures
  Severity = {0, 1}
  MaxPending = 1
  BatchSize = 2
  RefreshInterval = 1
  MaxRevision = 6
  MaxTime = 1
INVARIANTS
  TypeOK
  QueuesCoverTables
  BuffersBounded
  EscalationNeverForgotten
  DrainLeavesNothing
PROPERTIES
  EscalationSettles
CHECK_DEADLOCK FALSE
