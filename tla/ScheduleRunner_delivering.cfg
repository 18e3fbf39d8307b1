SPECIFICATION Spec
CONSTANTS
  Schedules = {s1}
  Deliveries = {r1}
  Workers = {w1}
  Clients = {}
  Sweepers = {p1}
  Senders = {w1, p1}
  WebhookSchedules = {s1}
  MaxAttempts = 2
  SweepLimit = 1
  MaxScheduleAttempts = 3
  LeaseCoversAttempt = TRUE
  RlsEnforced = FALSE
  MaxDisruptions = 0
  MaxSlot = 1
  Operations = {}
  MaxOps = 0
INVARIANTS CompletedMeansDelivered
CHECK_DEADLOCK FALSE
