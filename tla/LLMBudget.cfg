SPECIFICATION FairSpec
CONSTANTS
  c1 = c1  c2 = c2  c3 = c3  u1 = u1  u2 = u2  p1 = p1  p2 = p2
  Anonymous = Anonymous
  Calls = {c1, c2, c3}
  Users = {u1, u2}
  Processes = {p1, p2}
  UserOf <- MCUserOf
  ProcessOf <- MCProcessOf
  OrgLimit = 4
  UserLimit = 3
  Estimate = 2
  Usages = {1}
  Inputs <- MCInputs
  Threshold = 2
  FailClosedValues = {TRUE, FALSE}
  TtlCoversCall = TRUE
  RlsEnforced = FALSE
  MaxFaults = 1
INVARIANTS UserReservationsFit UsageIsSpend CountedWhileInFlight BreakerOpensOnStreak
PROPERTIES SoloAdmissionFits EveryCallEnds ReservationsEnd
CHECK_DEADLOCK FALSE
