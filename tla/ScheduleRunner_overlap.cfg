SPECIFICATION Spec
CONSTANTS
  Schedules = {s1}
  Deliveries = {r1, r2}
  Workers = {w1, w2}
  Clients = {}
  Sweepers = {p1}
  Senders = {w1, w2, p1}
  WebhookSchedules = {s1}
  MaxAttempts = 2
  SweepLimit = 1
  MaxScheduleAttempts = 3
  LeaseCoversAttempt = FALSE
  RlsEnforced = FALSE
  MaxDisruptions = 2
  MaxSlot = 1
  Operations = {}
  MaxOps = 0
SYMMETRY Symmetry
INVARIANTS OneRunPerSlot PayloadIsStoredReport CompletedHasDelivery RunAttemptsBounded
  AttemptOwnedOnce DeliveredWasReceived
CHECK_DEADLOCK FALSE
