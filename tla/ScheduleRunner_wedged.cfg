SPECIFICATION FairSpec
CONSTANTS
  Schedules = {s1}
  Deliveries = {r1, r2}
  Workers = {w1}
  Clients = {}
  Sweepers = {p1}
  Senders = {w1, p1}
  WebhookSchedules = {s1}
  MaxAttempts = 2
  SweepLimit = 1
  MaxScheduleAttempts = 3
  LeaseCoversAttempt = TRUE
  RlsEnforced = FALSE
  MaxDisruptions = 1
  MaxSlot = 2
  Operations = {}
  MaxOps = 0
PROPERTIES DueScheduleIsServed
CHECK_DEADLOCK FALSE
