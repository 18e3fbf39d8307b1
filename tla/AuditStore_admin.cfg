SPECIFICATION AuditSpec
CONSTANTS
  Entries = {e1, e2, e3}
  Guarded = {e1}
  Admin = {e2}
  Loggable = {e1, e3}
  Replicas = {r1, r2}
  Modes = {"required"}
  QueueSize = 1
  ReplayBatch = 2
  MaxFaults = 0
INVARIANTS HighRiskFailsClosed
CHECK_DEADLOCK FALSE
