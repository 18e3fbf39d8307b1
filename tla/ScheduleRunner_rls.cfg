SPECIFICATION Spec
CONSTANTS
  Schedules = {s1}
  Deliveries = {r1}
  Workers = {w1}
  Clients = {}
  Sweepers = {}
  Senders = {w1}
  WebhookSchedules = {}
  MaxAttempts = 2
  SweepLimit = 1
  MaxScheduleAttempts = 3
  LeaseCoversAttempt = TRUE
  RlsEnforced = TRUE
  MaxDisruptions = 0
  MaxSlot = 1
  Operations = {}
  MaxOps = 0
PROPERTIES DisabledOnlyIfUnauthorized
CHECK_DEADLOCK FALSE
