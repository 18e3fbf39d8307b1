---------------------------- MODULE RegressionAlerts ----------------------------
(***************************************************************************)
(* The regression poller: every replica polls every connection, stores the *)
(* pg_stat_statements counters, compares the last interval of each query   *)
(* with its baseline, opens or refreshes an alert, and resolves the alerts *)
(* of queries that recovered.                                              *)
(*                                                                         *)
(* Nothing of a cycle is one transaction: every statement is a step, and   *)
(* users acknowledge alerts in between.  Counters are abstracted to what   *)
(* is decided on them: the finding of a poll per query, and the mean       *)
(* latency of the query's latest interval, over all connections.           *)
(***************************************************************************)
EXTENDS Naturals, FiniteSets

CONSTANTS
  Connections, Queries, Pollers,
  Alerts,     \* alert ids: bounds the alerts that are opened
  Means,      \* the interval means that occur: a statement that was called took time
  MaxFaults   \* bound on failing statements, crashes and lost sessions

NoInterval == 0  \* no calls in the interval, a counter reset, or no snapshot
Nobody == "nobody"
None == "none"

ASSUME AlertAssumption ==
  /\ Means \subseteq Nat \ {0}
  /\ MaxFaults \in Nat
  /\ IsFiniteSet(Alerts)
  /\ Nobody \notin Pollers /\ None \notin Alerts \cup Queries \cup Connections

VARIABLES
  alert,   \* app.regression_alerts
  latest,  \* per query, the mean of the latest interval in the stored snapshots
  holder,  \* per connection, the holder of its advisory lock
  poller,  \* per replica, the cycle in progress
  seen,    \* history: whether the last poll of a connection found a query recovered
  faults   \* failing statements, crashes and lost sessions so far

alertVars == <<alert, latest, holder, poller, seen, faults>>

\* What a poll finds of a query: no usable interval; no verdict, its latency at the
\* baseline or not; a verdict, which may be on the load (total time, calls, rows)
\* while the latency, the only thing recovery looks at, is at the baseline.
Regressing == {"regressed", "regressed_at_baseline"}
Recovered == {"recovered", "regressed_at_baseline"}
Findings == {"unknown", "steady"} \cup Regressing \cup Recovered
NothingFound == [q \in Queries |-> "unknown"]

\* resolved is 0 or the place of the alert among the resolved ones.
Alert == [used : BOOLEAN, connection : Connections \cup {None}, query : Queries \cup {None},
          acknowledged : BOOLEAN, resolved : Nat, previous : Alerts \cup {None}]
Poller == [step : {"idle", "capture", "detect", "alert", "resolve", "reconcile"},
           connection : Connections \cup {None},
           found : [Queries -> Findings],
           regressing : SUBSET Queries,
           query : Queries \cup {None},
           previous : Alerts \cup {None},
           resolving : SUBSET Alerts]

UnusedAlert == [used |-> FALSE, connection |-> None, query |-> None,
                acknowledged |-> FALSE, resolved |-> 0, previous |-> None]
Idle == [step |-> "idle", connection |-> None, found |-> NothingFound, regressing |-> {},
         query |-> None, previous |-> None, resolving |-> {}]

AlertInit ==
  /\ alert = [a \in Alerts |-> UnusedAlert]
  /\ latest = [q \in Queries |-> NoInterval]
  /\ holder = [c \in Connections |-> Nobody]
  /\ poller = [p \in Pollers |-> Idle]
  /\ seen = [c \in Connections |-> {}]
  /\ faults = 0

-----------------------------------------------------------------------------
(* One cycle over one connection.                                          *)

At(p, step) == poller[p].step = step
Fault == faults < MaxFaults /\ faults' = faults + 1

Of(c, q) == {a \in Alerts : alert[a].used /\ alert[a].connection = c /\ alert[a].query = q}
Open(a) == alert[a].used /\ ~alert[a].acknowledged /\ alert[a].resolved = 0
OpenOf(c, q) == {a \in Of(c, q) : Open(a)}
UnusedAlerts == {a \in Alerts : ~alert[a].used}
FreshAlert == CHOOSE a \in UnusedAlerts : TRUE

\* Mutant: the try-lock is ignored.
LockIgnored(c) == TRUE

LockFree(c) == holder[c] = Nobody

\* pg_try_advisory_lock: a replica that does not get the lock skips the connection.
StartPoll(p, c) ==
  /\ At(p, "idle")
  /\ LockFree(c)
  /\ holder' = [holder EXCEPT ![c] = p]
  /\ poller' = [poller EXCEPT ![p] = [Idle EXCEPT !.step = "capture", !.connection = c]]
  /\ UNCHANGED <<alert, latest, seen, faults>>

Unlocked(p) == [c \in Connections |-> IF holder[c] = p THEN Nobody ELSE holder[c]]

\* The cycle ends, by an error or at its end: the lock is released.
FinishPoll(p) ==
  /\ holder' = Unlocked(p)
  /\ poller' = [poller EXCEPT ![p] = Idle]

\* The snapshots in S are stored, each with the interval since the query's last.
Stored(S) ==
  \E m \in [S -> Means \cup {NoInterval}] :
    latest' = [q \in Queries |-> IF q \in S THEN m[q] ELSE latest[q]]

\* Reading pg_stat_statements, and the poll's inserts.
CaptureSnapshots(p, S) ==
  /\ At(p, "capture")
  /\ S # {}
  /\ Stored(S)
  /\ poller' = [poller EXCEPT ![p].step = "detect"]
  /\ UNCHANGED <<alert, holder, seen, faults>>

\* No statistics, or only the program's own statements: nothing is evaluated.
CaptureNothing(p) ==
  /\ At(p, "capture")
  /\ FinishPoll(p)
  /\ UNCHANGED <<alert, latest, seen, faults>>

\* An insert fails after some snapshots are stored.
CaptureFails(p, S) ==
  /\ At(p, "capture")
  /\ Fault
  /\ Stored(S)
  /\ FinishPoll(p)
  /\ UNCHANGED <<alert, seen>>

\* The query over the snapshots; the regressions it finds are bounded by Alerts.
Detect(p) ==
  LET c == poller[p].connection
  IN  /\ At(p, "detect")
      /\ \E found \in [Queries -> Findings] :
           LET regressing == {q \in Queries : found[q] \in Regressing}
           IN  /\ Cardinality({q \in regressing : OpenOf(c, q) = {}}) <= Cardinality(UnusedAlerts)
               /\ poller' = [poller EXCEPT ![p].step = "alert", ![p].found = found,
                                           ![p].regressing = regressing]
               /\ seen' = [seen EXCEPT ![c] =
                             {q \in Queries : IF found[q] = "unknown" THEN q \in @ ELSE found[q] \in Recovered}]
      /\ UNCHANGED <<alert, latest, holder, faults>>

\* Mutant: an acknowledged alert counts as the resolved one.
SettledOf(c, q) == {a \in Of(c, q) : ~Open(a)}

ResolvedOf(c, q) == {a \in Of(c, q) : alert[a].resolved # 0}

\* The alert of the query that was resolved last, if any.
LastResolved(c, q) ==
  LET R == ResolvedOf(c, q)
  IN  IF R = {} THEN None
      ELSE CHOOSE a \in R : \A b \in R : alert[b].resolved <= alert[a].resolved

\* upsertAlert's first statement.  Its error is ignored: no predecessor is known.
LookBack(p) ==
  /\ At(p, "alert")
  /\ poller[p].query = None
  /\ \E q \in poller[p].regressing :
       \/ /\ poller' = [poller EXCEPT ![p].query = q,
                                      ![p].previous = LastResolved(poller[p].connection, q),
                                      ![p].regressing = @ \ {q}]
          /\ UNCHANGED faults
       \/ /\ poller' = [poller EXCEPT ![p].query = q, ![p].previous = None,
                                      ![p].regressing = @ \ {q}]
          /\ Fault
  /\ UNCHANGED <<alert, latest, holder, seen>>

NewAlert(p) ==
  [used |-> TRUE, connection |-> poller[p].connection, query |-> poller[p].query,
   acknowledged |-> FALSE, resolved |-> 0, previous |-> poller[p].previous]

\* The partial unique index has an open alert of the connection and the query.
Conflict(p) == OpenOf(poller[p].connection, poller[p].query) # {}

\* INSERT ... ON CONFLICT: an open alert is refreshed, which changes nothing here.
UpsertAlert(p) ==
  /\ At(p, "alert")
  /\ poller[p].query # None
  /\ \/ /\ Conflict(p)
        /\ UNCHANGED alert
     \/ /\ ~Conflict(p)
        /\ UnusedAlerts # {}
        /\ alert' = [alert EXCEPT ![FreshAlert] = NewAlert(p)]
  /\ poller' = [poller EXCEPT ![p].query = None, ![p].previous = None]
  /\ UNCHANGED <<latest, holder, seen, faults>>

\* The bound Alerts is met: the insert fails and ends the cycle.
AlertsExhausted(p) ==
  /\ At(p, "alert")
  /\ poller[p].query # None
  /\ ~Conflict(p) /\ UnusedAlerts = {}
  /\ FinishPoll(p)
  /\ UNCHANGED <<alert, latest, seen, faults>>

\* The open alerts of the connection whose query is back at its baseline.
ReadOpenAlerts(p) ==
  /\ At(p, "alert")
  /\ poller[p].regressing = {} /\ poller[p].query = None
  /\ poller' = [poller EXCEPT ![p].step = "resolve", ![p].found = NothingFound,
                              ![p].resolving =
       {a \in Alerts : /\ Open(a)
                       /\ alert[a].connection = poller[p].connection
                       /\ poller[p].found[alert[a].query] \in Recovered}]
  /\ UNCHANGED <<alert, latest, holder, seen, faults>>

NextPlace == 1 + Cardinality({a \in Alerts : alert[a].resolved # 0})

\* UPDATE ... WHERE resolved_at IS NULL, one statement per alert.
ResolveAlert(p) ==
  /\ At(p, "resolve")
  /\ \E a \in poller[p].resolving :
       /\ alert' = IF alert[a].resolved = 0
                   THEN [alert EXCEPT ![a].resolved = NextPlace] ELSE alert
       /\ poller' = [poller EXCEPT ![p].resolving = @ \ {a}]
  /\ UNCHANGED <<latest, holder, seen, faults>>

ResolvedAll(p) ==
  /\ At(p, "resolve")
  /\ poller[p].resolving = {}
  /\ poller' = [poller EXCEPT ![p].step = "reconcile"]
  /\ UNCHANGED <<alert, latest, holder, seen, faults>>

\* The reconciliation of fixes (FixLoop) ends the cycle.
EndPoll(p) ==
  /\ At(p, "reconcile")
  /\ FinishPoll(p)
  /\ UNCHANGED <<alert, latest, seen, faults>>

\* A statement fails or the replica dies: the cycle ends where it is.
PollFails(p) ==
  /\ ~At(p, "idle")
  /\ Fault
  /\ FinishPoll(p)
  /\ UNCHANGED <<alert, latest, seen>>

\* The session that holds the lock breaks; the cycle runs on other connections.
LoseLock(p) ==
  /\ Fault
  /\ \E c \in Connections : holder[c] = p
  /\ holder' = Unlocked(p)
  /\ UNCHANGED <<alert, latest, poller, seen>>

-----------------------------------------------------------------------------

\* AcknowledgeRegression, also of a resolved alert.
AcknowledgeRegression(a) ==
  /\ alert[a].used /\ ~alert[a].acknowledged
  /\ alert' = [alert EXCEPT ![a].acknowledged = TRUE]
  /\ UNCHANGED <<latest, holder, poller, seen, faults>>

\* cleanupOldPolls has removed the last snapshots of a query.
CleanupOldPolls(q) ==
  /\ latest[q] # NoInterval
  /\ latest' = [latest EXCEPT ![q] = NoInterval]
  /\ UNCHANGED <<alert, holder, poller, seen, faults>>

PollStep(p) ==
  \/ Detect(p) \/ LookBack(p) \/ UpsertAlert(p) \/ AlertsExhausted(p)
  \/ ReadOpenAlerts(p) \/ ResolveAlert(p) \/ ResolvedAll(p)

PollDisturbed(p) == PollFails(p) \/ LoseLock(p)

AlertNext ==
  \/ \E p \in Pollers :
       \/ \E c \in Connections : StartPoll(p, c)
       \/ \E S \in SUBSET Queries : CaptureSnapshots(p, S) \/ CaptureFails(p, S)
       \/ CaptureNothing(p) \/ PollStep(p) \/ EndPoll(p) \/ PollDisturbed(p)
  \/ \E a \in Alerts : AcknowledgeRegression(a)
  \/ \E q \in Queries : CleanupOldPolls(q)

AlertSpec == AlertInit /\ [][AlertNext]_alertVars
-----------------------------------------------------------------------------
(* Properties.                                                             *)

\* Types of the alerts, the snapshots and the pollers' local state.
AlertTypeOK ==
  /\ alert \in [Alerts -> Alert]
  /\ latest \in [Queries -> Means \cup {NoInterval}]
  /\ holder \in [Connections -> Pollers \cup {Nobody}]
  /\ poller \in [Pollers -> Poller]
  /\ \A p \in Pollers : At(p, "idle") <=> poller[p].connection = None
  /\ seen \in [Connections -> SUBSET Queries]
  /\ faults \in 0..MaxFaults

\* The inbox shows a query of a connection once: also when two replicas poll the
\* connection at a time and users acknowledge alerts between their statements.
OneOpenAlert ==
  \A c \in Connections : \A q \in Queries :
    \A a, b \in OpenOf(c, q) : a = b

\* "It regressed again after recovering": an alert's predecessor is a resolved
\* alert of the same query on the same connection, and never its own successor.
RecurrenceIsLinked ==
  \A a \in Alerts :
    LET b == alert[a].previous
    IN  alert[a].used /\ b # None =>
          /\ b \in ResolvedOf(alert[a].connection, alert[a].query)
          /\ alert[b].previous # a
          /\ alert[a].resolved # 0 => alert[b].resolved < alert[a].resolved

\* While the locks hold, an alert is resolved only when the newest poll of its
\* connection found the query back at its baseline, never on older findings.
ResolvedOnRecovery ==
  [][\A a \in Alerts :
       alert[a].resolved = 0 /\ alert'[a].resolved # 0
         => alert[a].query \in seen[alert[a].connection] \/ faults > 0]_alertVars
=============================================================================
