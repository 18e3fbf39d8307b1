SPECIFICATION FairSpec
CONSTANTS
  Schedules = {s1}
  Deliveries = {r1, r2}
  Workers = {w1}
  Clients = {c1}
  Sweepers = {p1}
  Senders = {w1, c1, p1}
  WebhookSchedules = {s1}
  MaxAttempts = 1
  SweepLimit = 1
  MaxScheduleAttempts = 3
  LeaseCoversAttempt = TRUE
  RlsEnforced = FALSE
  MaxDisruptions = 1
  MaxSlot = 1
  Operations = {"run_now", "retry", "update", "delete", "revoke"}
  MaxOps = 1
INVARIANTS ExclusiveGeneration
PROPERTIES EveryRunSettles ServedUnlessDisturbed
CHECK_DEADLOCK FALSE
