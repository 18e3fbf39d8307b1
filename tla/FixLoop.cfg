SPECIFICATION MCSpec
CONSTANTS
  p2 = p2  a1 = a1  a2 = a2  i1 = i1
  Connections = {c1}
  Queries = {q1}
  Pollers = {p1, p2}
  Alerts = {a1, a2}
  Means = {5, 10}
  MaxFaults = 1
  Investigations = {i1, i2}
  Clients = {u1, u2}
  MaxOps = 2
INVARIANTS RecurrenceIsLinked ConfirmedIsMeasured
PROPERTIES ResolvedOnRecovery LinkIsFinal ImprovementIsConfirmed
