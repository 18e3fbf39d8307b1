SPECIFICATION Spec
CONSTANTS
  Deliveries = {d1, d2}
  Senders = {p1, p2}
  MaxAttempts = 2
  SweepLimit = 2
  LeaseCoversAttempt = TRUE
  MaxDisruptions = 2
  Logins = {l1}
  Browser = {0, 1, 2}
  Earlier = {0}
  Orgs = {o1, o2}
  DefaultOrg = o1
  Roles = {analyst, viewer}
  Analyst = analyst
  NotMember = none
  AutoJoin = TRUE
  MayRevoke = TRUE
  MaxAdmin = 1
  MaxFailures = 1
  Requests = {1, 2}
  Conns = {c1, c2}
  Shared = shared
  Nobody = nobody
  Server = server
  MaxOrgPools = 1
  MaxChanges = 1
  Slots = {s1, s2}
  Replicas = {r1}
  Cost = 1
  Capacity = 2
  Timeout = 1
  CleanupAge = 3
  MaxTime = 4
  Calls = {1, 2, 3}
  Dims = {3, 5}
  MaxConcurrency = 2
  EmbedThreshold = 2
  ResultRows = {1, 2}
  Results <- MCResults
  Original = original
  Candidates = {c3}
  NoSql = nosql
  Testers = {1, 2}
  SampleCap = 2
  MaxRows = 2
  MaxWrites = 1
INVARIANTS ServicesTypeOK PoolsAccountedFor WithinBudget PoolIsWhatWasResolved
  OneSessionPerLogin SessionIsMembership WindowBound OneDimension
  VerdictsAreTrue
PROPERTIES ImplementsPromise RevokedIsFinal EveryQueryEnds EveryEmbedEnds
CHECK_DEADLOCK FALSE
