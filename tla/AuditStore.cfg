SPECIFICATION AuditFairSpec
CONSTANTS
  Entries = {e1, e2, e3}
  Guarded = {e1}
  Admin = {e2}
  Loggable = {e1, e3}
  Replicas = {r1, r2}
  Modes = {"best_effort", "required", "buffered"}
  QueueSize = 1
  ReplayBatch = 2
  MaxFaults = 1
INVARIANTS EntriesAccountedFor DuplicatesCostFaults GuardFailsClosed CleanShutdown
PROPERTIES BufferedUntilLogged BufferDrains
CHECK_DEADLOCK FALSE
