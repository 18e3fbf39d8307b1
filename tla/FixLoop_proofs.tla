----------------------------- MODULE FixLoop_proofs -----------------------------
(***************************************************************************)
(* Proofs about the regression alerts and the fix loop built on them.      *)
(*                                                                         *)
(* For every set of connections, queries, replicas and alerts: typing, the *)
(* one open alert of a query, the links of recurrences, and the findings   *)
(* alerts are resolved on.  For every set of investigations and handlers   *)
(* besides: the fix loop is a run of the regression alerts, so what holds  *)
(* of them holds of it; an alert keeps its investigation; and a fix is     *)
(* confirmed on what was measured after it.                                *)
(***************************************************************************)
EXTENDS FixLoop, Sums

USE AlertAssumption, FixAssumption


-----------------------------------------------------------------------------
(* Typing.                                                                 *)

LEMMA FreshAlertIsUnused ==
  ASSUME UnusedAlerts # {}
  PROVE  FreshAlert \in Alerts /\ ~alert[FreshAlert].used
  BY DEF FreshAlert, UnusedAlerts

LEMMA PlaceTyped == NextPlace \in Nat \ {0}
  BY FS_Subset, FS_CardinalityType DEF NextPlace

\* A finite set of alerts has one resolved last: of the sets of alerts resolved
\* after each, one contains no other, and is empty.
LEMMA LastExists ==
  ASSUME AlertTypeOK, NEW R \in SUBSET Alerts, R # {}
  PROVE  \E a \in R : \A b \in R : alert[b].resolved <= alert[a].resolved
<1>. DEFINE After(a) == {b \in R : alert[b].resolved > alert[a].resolved}
            T == {After(a) : a \in R}
<1>1. IsFiniteSet(R)
  BY FS_Subset
<1>3. T \in SUBSET SUBSET R /\ T # {}
  <2>1. \A a \in R : After(a) \in SUBSET R
    OBVIOUS
  <2>. HIDE DEF After
  <2>. QED BY <2>1
<1>4. PICK X \in T : \A Y \in T : ~(Y \subseteq X /\ Y # X)
  <2>. HIDE DEF T
  <2>. QED BY <1>1, <1>3, Smallest
<1>5. PICK a \in R : X = After(a)
  BY <1>4
<1>6. \A b \in R : alert[b].resolved \in Nat
  BY DEF AlertTypeOK, Alert
<1>7. ASSUME NEW b \in After(a) PROVE FALSE
  <2>1. After(b) \subseteq After(a) /\ b \notin After(b)
    BY <1>6
  <2>2. After(b) # After(a) /\ After(b) \in T
    BY <2>1, <1>7
  <2>. QED BY <2>1, <2>2, <1>4, <1>5
<1>. QED BY <1>6, <1>7

LEMMA LastResolvedTyped ==
  ASSUME AlertTypeOK, NEW c, NEW q
  PROVE  LastResolved(c, q) = None \/ LastResolved(c, q) \in ResolvedOf(c, q)
<1>1. ResolvedOf(c, q) \in SUBSET Alerts
  BY DEF ResolvedOf, Of
<1>2. CASE ResolvedOf(c, q) = {}
  BY <1>2 DEF LastResolved
<1>3. CASE ResolvedOf(c, q) # {}
  <2>1. \E a \in ResolvedOf(c, q) :
          \A b \in ResolvedOf(c, q) : alert[b].resolved <= alert[a].resolved
    BY <1>1, <1>3, LastExists
  <2>. QED BY <2>1, <1>3 DEF LastResolved
<1>. QED BY <1>2, <1>3

\* A query with a verdict is taken up, and a predecessor looked for.
LEMMA LooksBack ==
  ASSUME AlertTypeOK, NEW p \in Pollers, LookBack(p)
  PROVE  \E q \in poller[p].regressing, b \in Alerts \cup {None} :
           /\ b \in {LastResolved(poller[p].connection, q), None}
           /\ poller' = [poller EXCEPT ![p].query = q, ![p].previous = b,
                                      ![p].regressing = @ \ {q}]
<1>1. \A c, q : LastResolved(c, q) \in Alerts \cup {None}
  BY LastResolvedTyped DEF ResolvedOf, Of
<1>. QED BY <1>1 DEF LookBack

LEMMA RecordsTyped ==
  ASSUME AlertTypeOK
  PROVE  /\ \A p \in Pollers : poller[p] \in Poller
         /\ \A a \in Alerts : alert[a] \in Alert
  BY DEF AlertTypeOK

LEMMA FinishTyped ==
  ASSUME AlertTypeOK, NEW p \in Pollers, FinishPoll(p)
  PROVE  /\ holder' \in [Connections -> Pollers \cup {Nobody}]
         /\ poller' \in [Pollers -> Poller]
         /\ \A r \in Pollers : poller'[r].step = "idle" <=> poller'[r].connection = None
<1>1. Idle \in Poller
  BY DEF Idle, Poller, NothingFound, Findings
<1>2. Idle.step = "idle" /\ Idle.connection = None
  BY DEF Idle
<1>. QED BY <1>1, <1>2 DEF AlertTypeOK, FinishPoll, Unlocked, At

\* A cycle that goes on over its connection.
LEMMA MoveTyped ==
  ASSUME AlertTypeOK, NEW p \in Pollers, NEW P \in Poller,
         P.step # "idle", P.connection = poller[p].connection, poller[p].step # "idle",
         poller' = [poller EXCEPT ![p] = P]
  PROVE  /\ poller' \in [Pollers -> Poller]
         /\ \A r \in Pollers : poller'[r].step = "idle" <=> poller'[r].connection = None
  BY DEF AlertTypeOK, At

\* The alerts, the snapshots, the locks and the cycles keep their types under every
\* statement of the poller (app/service/regression_poller.go).
THEOREM AlertTypeCorrect == AlertSpec => []AlertTypeOK
<1>1. AlertInit => AlertTypeOK
  BY DEF AlertInit, AlertTypeOK, UnusedAlert, Alert, Idle, Poller, NothingFound, Findings, At
<1>2. AlertTypeOK /\ [AlertNext]_alertVars => AlertTypeOK'
  <2>. SUFFICES ASSUME AlertTypeOK, [AlertNext]_alertVars PROVE AlertTypeOK'
    OBVIOUS
  <2>. USE DEF At
  <2>1. ASSUME NEW p \in Pollers, NEW c \in Connections, StartPoll(p, c) PROVE AlertTypeOK'
    <3>1. [Idle EXCEPT !.step = "capture", !.connection = c] \in Poller
      BY DEF Idle, Poller, NothingFound, Findings
    <3>. QED BY <2>1, <3>1 DEF AlertTypeOK, StartPoll, Idle
  <2>2. ASSUME NEW S \in SUBSET Queries, Stored(S) PROVE latest' \in [Queries -> Means \cup {NoInterval}]
    BY <2>2 DEF AlertTypeOK, Stored
  <2>3. ASSUME NEW p \in Pollers, NEW S \in SUBSET Queries, CaptureSnapshots(p, S) PROVE AlertTypeOK'
    <3>. DEFINE P == [poller[p] EXCEPT !.step = "detect"]
    <3>1. P \in Poller /\ P.step # "idle" /\ P.connection = poller[p].connection
      BY <2>3, RecordsTyped DEF Poller
    <3>2. poller' = [poller EXCEPT ![p] = P] /\ poller[p].step # "idle"
      BY <2>3 DEF CaptureSnapshots
    <3>. HIDE DEF P
    <3>3. /\ poller' \in [Pollers -> Poller]
          /\ \A r \in Pollers : poller'[r].step = "idle" <=> poller'[r].connection = None
      BY <3>1, <3>2, MoveTyped
    <3>. QED BY <2>2, <2>3, <3>3 DEF AlertTypeOK, CaptureSnapshots
  <2>4. ASSUME NEW p \in Pollers, NEW S \in SUBSET Queries, CaptureFails(p, S) PROVE AlertTypeOK'
    BY <2>2, <2>4, FinishTyped DEF AlertTypeOK, CaptureFails, Fault
  <2>5. ASSUME NEW p \in Pollers, CaptureNothing(p) \/ EndPoll(p) \/ AlertsExhausted(p) PROVE AlertTypeOK'
    BY <2>5, FinishTyped DEF AlertTypeOK, CaptureNothing, EndPoll, AlertsExhausted
  <2>6. ASSUME NEW p \in Pollers, PollFails(p) PROVE AlertTypeOK'
    BY <2>6, FinishTyped DEF AlertTypeOK, PollFails, Fault
  <2>7. ASSUME NEW p \in Pollers, LoseLock(p) PROVE AlertTypeOK'
    BY <2>7 DEF AlertTypeOK, LoseLock, Unlocked, Fault
  <2>8. ASSUME NEW p \in Pollers, Detect(p) PROVE AlertTypeOK'
    <3>. DEFINE c == poller[p].connection
    <3>1. PICK found \in [Queries -> Findings] :
            LET regressing == {q \in Queries : found[q] \in Regressing}
            IN  /\ poller' = [poller EXCEPT ![p].step = "alert", ![p].found = found,
                                            ![p].regressing = regressing]
                /\ seen' = [seen EXCEPT ![c] =
                             {q \in Queries : IF found[q] = "unknown" THEN q \in @
                                              ELSE found[q] \in Recovered}]
      BY <2>8 DEF Detect
    <3>. DEFINE P == [poller[p] EXCEPT !.step = "alert", !.found = found,
                        !.regressing = {q \in Queries : found[q] \in Regressing}]
    <3>4. P \in Poller /\ P.step # "idle" /\ P.connection = poller[p].connection
      BY RecordsTyped DEF Poller
    <3>5. poller' = [poller EXCEPT ![p] = P] /\ poller[p].step # "idle"
      BY <2>8, <3>1, ZenonT(60) DEF Detect
    <3>2. /\ poller' \in [Pollers -> Poller]
          /\ \A r \in Pollers : poller'[r].step = "idle" <=> poller'[r].connection = None
      <4>. HIDE DEF P
      <4>. QED BY <3>4, <3>5, MoveTyped
    <3>3. seen' \in [Connections -> SUBSET Queries]
      BY <3>1 DEF AlertTypeOK
    <3>. QED BY <2>8, <3>1, <3>2, <3>3 DEF AlertTypeOK, Detect
  <2>9. ASSUME NEW p \in Pollers, LookBack(p) PROVE AlertTypeOK'
    <3>1. \A c, q : LastResolved(c, q) \in Alerts \cup {None}
      BY LastResolvedTyped DEF ResolvedOf, Of
    <3>. QED BY <2>9, <3>1 DEF AlertTypeOK, LookBack, Poller
  <2>10. ASSUME NEW p \in Pollers, UpsertAlert(p) PROVE AlertTypeOK'
    <3>1. poller[p].connection \in Connections /\ poller[p].query \in Queries
          /\ poller[p].previous \in Alerts \cup {None}
      BY <2>10 DEF AlertTypeOK, UpsertAlert, Poller
    <3>2. NewAlert(p) \in Alert
      BY <3>1 DEF NewAlert, Alert
    <3>3. alert' \in [Alerts -> Alert]
      BY <2>10, <3>2 DEF AlertTypeOK, UpsertAlert
    <3>. DEFINE P == [poller[p] EXCEPT !.query = None, !.previous = None]
    <3>4. P \in Poller /\ P.step # "idle" /\ P.connection = poller[p].connection
      <4>1. poller[p].step = "alert"
        BY <2>10 DEF UpsertAlert
      <4>. QED BY <4>1, RecordsTyped, ZenonT(60) DEF Poller
    <3>5. poller' = [poller EXCEPT ![p] = P] /\ poller[p].step # "idle"
      BY <2>10 DEF UpsertAlert
    <3>. HIDE DEF P
    <3>6. /\ poller' \in [Pollers -> Poller]
          /\ \A r \in Pollers : poller'[r].step = "idle" <=> poller'[r].connection = None
      BY <3>4, <3>5, MoveTyped
    <3>. QED BY <2>10, <3>3, <3>6 DEF AlertTypeOK, UpsertAlert
  <2>11. ASSUME NEW p \in Pollers, ReadOpenAlerts(p) PROVE AlertTypeOK'
    <3>1. NothingFound \in [Queries -> Findings]
      BY DEF NothingFound, Findings
    <3>. DEFINE A == {a \in Alerts : /\ Open(a)
                                      /\ alert[a].connection = poller[p].connection
                                      /\ poller[p].found[alert[a].query] \in Recovered}
                P == [poller[p] EXCEPT !.step = "resolve", !.found = NothingFound, !.resolving = A]
    <3>2. P \in Poller /\ P.step # "idle" /\ P.connection = poller[p].connection
      <4>. A \in SUBSET Alerts
        OBVIOUS
      <4>. HIDE DEF A
      <4>. QED BY <3>1, RecordsTyped DEF Poller
    <3>3. poller' = [poller EXCEPT ![p] = P] /\ poller[p].step # "idle"
      BY <2>11 DEF ReadOpenAlerts
    <3>. HIDE DEF P
    <3>4. /\ poller' \in [Pollers -> Poller]
          /\ \A r \in Pollers : poller'[r].step = "idle" <=> poller'[r].connection = None
      BY <3>2, <3>3, MoveTyped
    <3>. QED BY <2>11, <3>4 DEF AlertTypeOK, ReadOpenAlerts
  <2>12. ASSUME NEW p \in Pollers, ResolveAlert(p) PROVE AlertTypeOK'
    <3>1. PICK a \in poller[p].resolving :
            /\ alert' = IF alert[a].resolved = 0
                        THEN [alert EXCEPT ![a].resolved = NextPlace] ELSE alert
            /\ poller' = [poller EXCEPT ![p].resolving = @ \ {a}]
      BY <2>12 DEF ResolveAlert
    <3>2. alert' \in [Alerts -> Alert]
      <4>1. \A b \in Alerts : [alert[b] EXCEPT !.resolved = NextPlace] \in Alert
        BY RecordsTyped, PlaceTyped DEF Alert
      <4>. QED BY <3>1, <4>1 DEF AlertTypeOK
    <3>. DEFINE P == [poller[p] EXCEPT !.resolving = @ \ {a}]
    <3>3. P \in Poller /\ P.step # "idle" /\ P.connection = poller[p].connection
      <4>1. poller[p].step = "resolve"
        BY <2>12 DEF ResolveAlert
      <4>. QED BY <4>1, RecordsTyped DEF Poller
    <3>4. poller' = [poller EXCEPT ![p] = P] /\ poller[p].step # "idle"
      BY <2>12, <3>1 DEF ResolveAlert
    <3>. HIDE DEF P
    <3>5. /\ poller' \in [Pollers -> Poller]
          /\ \A r \in Pollers : poller'[r].step = "idle" <=> poller'[r].connection = None
      BY <3>3, <3>4, MoveTyped
    <3>. QED BY <2>12, <3>2, <3>5 DEF AlertTypeOK, ResolveAlert
  <2>13. ASSUME NEW p \in Pollers, ResolvedAll(p) PROVE AlertTypeOK'
    <3>. DEFINE P == [poller[p] EXCEPT !.step = "reconcile"]
    <3>1. P \in Poller /\ P.step # "idle" /\ P.connection = poller[p].connection
      BY <2>13, RecordsTyped DEF Poller
    <3>2. poller' = [poller EXCEPT ![p] = P] /\ poller[p].step # "idle"
      BY <2>13 DEF ResolvedAll
    <3>. HIDE DEF P
    <3>3. /\ poller' \in [Pollers -> Poller]
          /\ \A r \in Pollers : poller'[r].step = "idle" <=> poller'[r].connection = None
      BY <3>1, <3>2, MoveTyped
    <3>. QED BY <2>13, <3>3 DEF AlertTypeOK, ResolvedAll
  <2>14. ASSUME NEW a \in Alerts, AcknowledgeRegression(a) PROVE AlertTypeOK'
    <3>1. alert' \in [Alerts -> Alert]
      <4>1. [alert[a] EXCEPT !.acknowledged = TRUE] \in Alert
        BY RecordsTyped DEF Alert
      <4>. QED BY <2>14, <4>1 DEF AlertTypeOK, AcknowledgeRegression
    <3>. QED BY <2>14, <3>1 DEF AlertTypeOK, AcknowledgeRegression
  <2>15. ASSUME NEW q \in Queries, CleanupOldPolls(q) PROVE AlertTypeOK'
    BY <2>15 DEF AlertTypeOK, CleanupOldPolls
  <2>16. CASE UNCHANGED alertVars
    BY <2>16 DEF AlertTypeOK, alertVars
  <2>. QED BY <2>1, <2>3, <2>4, <2>5, <2>6, <2>7, <2>8, <2>9, <2>10, <2>11, <2>12, <2>13, <2>14,
              <2>15, <2>16 DEF AlertNext, PollStep, PollDisturbed
<1>. QED BY <1>1, <1>2, PTL DEF AlertSpec

-----------------------------------------------------------------------------
(* One open alert.                                                         *)

\* The statements that write the alerts: an insert, a resolution, an
\* acknowledgement.
Inserted(p) ==
  /\ UpsertAlert(p)
  /\ ~Conflict(p) /\ UnusedAlerts # {}
  /\ alert' = [alert EXCEPT ![FreshAlert] = NewAlert(p)]

Resolved(a) ==
  /\ alert[a].resolved = 0
  /\ alert' = [alert EXCEPT ![a].resolved = NextPlace]

LEMMA AlertSteps ==
  ASSUME AlertTypeOK, [AlertNext]_alertVars
  PROVE  \/ UNCHANGED alert
         \/ \E p \in Pollers : Inserted(p)
         \/ \E p \in Pollers : /\ ResolveAlert(p)
                               /\ \E a \in poller[p].resolving : Resolved(a)
         \/ \E a \in Alerts : AcknowledgeRegression(a)
<1>1. ASSUME NEW p \in Pollers, PollStep(p)
      PROVE  \/ UNCHANGED alert
             \/ Inserted(p)
             \/ ResolveAlert(p) /\ \E a \in poller[p].resolving : Resolved(a)
  <2>1. CASE UpsertAlert(p)
    BY <2>1 DEF UpsertAlert, Inserted
  <2>2. CASE ResolveAlert(p)
    BY <2>2 DEF ResolveAlert, Resolved
  <2>. QED BY <1>1, <2>1, <2>2
       DEF PollStep, Detect, LookBack, AlertsExhausted, ReadOpenAlerts, ResolvedAll
<1>2. ASSUME NEW p \in Pollers,
             \/ \E c \in Connections : StartPoll(p, c)
             \/ \E S \in SUBSET Queries : CaptureSnapshots(p, S) \/ CaptureFails(p, S)
             \/ CaptureNothing(p) \/ EndPoll(p) \/ PollDisturbed(p)
      PROVE  UNCHANGED alert
  BY <1>2 DEF StartPoll, CaptureSnapshots, CaptureFails, CaptureNothing, EndPoll,
              PollDisturbed, PollFails, LoseLock
<1>3. ASSUME NEW q \in Queries, CleanupOldPolls(q) PROVE UNCHANGED alert
  BY <1>3 DEF CleanupOldPolls
<1>4. CASE UNCHANGED alertVars
  BY <1>4 DEF alertVars
<1>. QED BY <1>1, <1>2, <1>3, <1>4 DEF AlertNext

\* Two pollers that find the same query regressed, with a resolution or an
\* acknowledgement between their statements, never leave two open alerts of it:
\* the insert of upsertAlert conflicts with the open one (migration 000055).
THEOREM OneOpenAlertHolds == AlertSpec => []OneOpenAlert
<1>1. AlertInit => OneOpenAlert
  BY DEF AlertInit, OneOpenAlert, OpenOf, Of, Open, UnusedAlert
<1>2. AlertTypeOK /\ OneOpenAlert /\ [AlertNext]_alertVars => OneOpenAlert'
  <2>. SUFFICES ASSUME AlertTypeOK, OneOpenAlert, [AlertNext]_alertVars,
                       NEW c \in Connections, NEW q \in Queries,
                       NEW a \in OpenOf(c, q)', NEW b \in OpenOf(c, q)'
                PROVE  a = b
    BY DEF OneOpenAlert
  <2>. USE DEF OpenOf, Of, Open
  <2>1. CASE UNCHANGED alert
    BY <2>1 DEF OneOpenAlert
  <2>2. ASSUME NEW p \in Pollers, Inserted(p) PROVE a = b
    <3>1. FreshAlert \in Alerts /\ ~alert[FreshAlert].used
      BY <2>2, FreshAlertIsUnused DEF Inserted
    <3>2. \A d \in Alerts : alert'[d] = IF d = FreshAlert THEN NewAlert(p) ELSE alert[d]
      BY <2>2, <3>1 DEF Inserted, AlertTypeOK
    <3>3. CASE a # FreshAlert /\ b # FreshAlert
      BY <3>2, <3>3 DEF OneOpenAlert
    <3>4. CASE a = FreshAlert \/ b = FreshAlert
      <4>1. c = poller[p].connection /\ q = poller[p].query
        BY <3>1, <3>2, <3>4 DEF NewAlert
      <4>2. \A d \in Alerts : d \in OpenOf(c, q)' => d = FreshAlert
        BY <2>2, <3>2, <4>1 DEF Inserted, Conflict
      <4>. QED BY <4>2
    <3>. QED BY <3>3, <3>4
  <2>3. ASSUME NEW p \in Pollers, NEW d \in poller[p].resolving, Resolved(d) PROVE a = b
    <3>1. \A e \in Alerts : e \in OpenOf(c, q)' => e \in OpenOf(c, q)
      BY <2>3, PlaceTyped DEF Resolved, AlertTypeOK, Alert
    <3>. QED BY <3>1 DEF OneOpenAlert
  <2>4. ASSUME NEW d \in Alerts, AcknowledgeRegression(d) PROVE a = b
    <3>1. \A e \in Alerts : e \in OpenOf(c, q)' => e \in OpenOf(c, q)
      BY <2>4 DEF AcknowledgeRegression, AlertTypeOK, Alert
    <3>. QED BY <3>1 DEF OneOpenAlert
  <2>. QED BY <2>1, <2>2, <2>3, <2>4, AlertSteps
<1>. QED BY <1>1, <1>2, AlertTypeCorrect, PTL DEF AlertSpec

-----------------------------------------------------------------------------
(* Recurrences.  The places of the resolved alerts are bounded by their    *)
(* number, so the next place is after all of them; an alert and a          *)
(* statement in flight know a predecessor that is resolved.                *)

ResolvedAlerts == {a \in Alerts : alert[a].resolved # 0}

AlertsInUse ==
  /\ \A a \in Alerts : alert[a].used => alert[a].connection \in Connections /\ alert[a].query \in Queries
  /\ \A p \in Pollers : \A a \in poller[p].resolving : alert[a].used
  /\ \A p \in Pollers : poller[p].step \in {"idle", "capture", "detect"} =>
                          poller[p].query = None /\ poller[p].resolving = {}

PlacesInOrder ==
  \A a \in ResolvedAlerts : alert[a].used /\ alert[a].resolved <= Cardinality(ResolvedAlerts)

Settles(al, b, c, q) ==
  b \in Alerts /\ al[b].used /\ al[b].connection = c /\ al[b].query = q /\ al[b].resolved # 0

PredecessorsResolved ==
  \A a \in Alerts : alert[a].used /\ alert[a].previous # None =>
    /\ Settles(alert, alert[a].previous, alert[a].connection, alert[a].query)
    /\ alert[a].resolved # 0 => alert[alert[a].previous].resolved < alert[a].resolved

LookedBack ==
  \A p \in Pollers : poller[p].query # None /\ poller[p].previous # None =>
    Settles(alert, poller[p].previous, poller[p].connection, poller[p].query)

RecurrenceInv == AlertsInUse /\ PlacesInOrder /\ PredecessorsResolved /\ LookedBack

\* What is settled of an alert stays.
LEMMA AlertsKept ==
  ASSUME AlertTypeOK, [AlertNext]_alertVars, NEW a \in Alerts, alert[a].used
  PROVE  /\ alert'[a].used
         /\ alert'[a].connection = alert[a].connection /\ alert'[a].query = alert[a].query
         /\ alert'[a].previous = alert[a].previous
         /\ alert[a].resolved # 0 => alert'[a].resolved = alert[a].resolved
<1>1. ASSUME NEW p \in Pollers, Inserted(p) PROVE alert'[a] = alert[a]
  BY <1>1, FreshAlertIsUnused DEF Inserted, AlertTypeOK
<1>2. ASSUME NEW b, Resolved(b)
      PROVE  alert'[a] = alert[a] \/ (a = b /\ alert'[a] = [alert[a] EXCEPT !.resolved = NextPlace])
  BY <1>2 DEF Resolved, AlertTypeOK
<1>3. ASSUME NEW b \in Alerts, AcknowledgeRegression(b)
      PROVE  alert'[a] = alert[a] \/ alert'[a] = [alert[a] EXCEPT !.acknowledged = TRUE]
  BY <1>3 DEF AcknowledgeRegression, AlertTypeOK
<1>4. alert[a] \in Alert
  BY RecordsTyped
<1>. QED BY <1>1, <1>2, <1>3, <1>4, AlertSteps DEF Alert, Resolved

\* A step of a cycle on its own local state.
LEMMA PollersMove ==
  ASSUME AlertTypeOK, [AlertNext]_alertVars, NEW p \in Pollers
  PROVE  \/ poller'[p] = poller[p]
         \/ poller'[p] = Idle
         \/ \E c \in Connections : StartPoll(p, c)
         \/ \E S \in SUBSET Queries : CaptureSnapshots(p, S)
         \/ Detect(p) \/ LookBack(p) \/ UpsertAlert(p) \/ ReadOpenAlerts(p)
         \/ ResolveAlert(p) \/ ResolvedAll(p)
<1>1. ASSUME NEW r \in Pollers, FinishPoll(r)
      PROVE  poller'[p] = poller[p] \/ poller'[p] = Idle
  BY <1>1 DEF FinishPoll, AlertTypeOK
<1>2. ASSUME NEW r \in Pollers, r # p,
             \/ \E c \in Connections : StartPoll(r, c)
             \/ \E S \in SUBSET Queries : CaptureSnapshots(r, S)
             \/ Detect(r) \/ LookBack(r) \/ UpsertAlert(r) \/ ReadOpenAlerts(r)
             \/ ResolveAlert(r) \/ ResolvedAll(r)
      PROVE  poller'[p] = poller[p]
  BY <1>2 DEF StartPoll, CaptureSnapshots, Detect, LookBack, UpsertAlert, ReadOpenAlerts,
              ResolveAlert, ResolvedAll, AlertTypeOK
<1>3. ASSUME NEW r \in Pollers,
             \/ CaptureNothing(r) \/ EndPoll(r) \/ PollFails(r) \/ AlertsExhausted(r)
             \/ \E S \in SUBSET Queries : CaptureFails(r, S)
      PROVE  FinishPoll(r)
  BY <1>3 DEF CaptureNothing, EndPoll, PollFails, AlertsExhausted, CaptureFails
<1>4. ASSUME \/ UNCHANGED alertVars
             \/ \E r \in Pollers : LoseLock(r)
             \/ \E a \in Alerts : AcknowledgeRegression(a)
             \/ \E q \in Queries : CleanupOldPolls(q)
      PROVE  poller'[p] = poller[p]
  BY <1>4 DEF alertVars, LoseLock, AcknowledgeRegression, CleanupOldPolls
<1>. QED BY <1>1, <1>2, <1>3, <1>4 DEF AlertNext, PollStep, PollDisturbed

LEMMA SettledKept ==
  ASSUME AlertTypeOK, [AlertNext]_alertVars, NEW a, NEW c, NEW q, Settles(alert, a, c, q)
  PROVE  Settles(alert', a, c, q)
  BY AlertsKept DEF Settles

LEMMA InUseStep ==
  ASSUME AlertTypeOK, AlertTypeOK', AlertsInUse, [AlertNext]_alertVars
  PROVE  AlertsInUse'
<1>1. ASSUME NEW a \in Alerts, alert'[a].used
      PROVE  alert'[a].connection \in Connections /\ alert'[a].query \in Queries
  <2>1. ASSUME NEW p \in Pollers, Inserted(p)
        PROVE  alert'[a] = alert[a]
               \/ (alert'[a].connection = poller[p].connection /\ alert'[a].query = poller[p].query)
    BY <2>1, FreshAlertIsUnused DEF Inserted, NewAlert, AlertTypeOK
  <2>2. ASSUME NEW p \in Pollers, Inserted(p)
        PROVE  poller[p].connection \in Connections /\ poller[p].query \in Queries
    BY <2>2 DEF Inserted, UpsertAlert, At, AlertTypeOK, Poller
  <2>3. ASSUME NEW b, Resolved(b) PROVE alert[a].used
    BY <1>1, <2>3, RecordsTyped DEF Resolved, AlertTypeOK, Alert
  <2>4. ASSUME NEW b \in Alerts, AcknowledgeRegression(b) PROVE alert[a].used
    BY <1>1, <2>4, RecordsTyped DEF AcknowledgeRegression, AlertTypeOK, Alert
  <2>5. CASE alert[a].used
    BY <2>5, AlertsKept DEF AlertsInUse
  <2>. QED BY <1>1, <2>1, <2>2, <2>3, <2>4, <2>5, AlertSteps DEF AlertsInUse
<1>2. ASSUME NEW p \in Pollers
      PROVE  /\ \A a \in poller'[p].resolving : alert'[a].used
             /\ poller'[p].step \in {"idle", "capture", "detect"} =>
                  poller'[p].query = None /\ poller'[p].resolving = {}
  <2>1. /\ poller'[p].resolving \in SUBSET {a \in Alerts : alert[a].used}
        /\ poller'[p].step \in {"idle", "capture", "detect"} =>
             poller'[p].query = None /\ poller'[p].resolving = {}
    <3>0. poller[p] \in Poller /\ poller \in [Pollers -> Poller]
      BY DEF AlertTypeOK
    <3>1. CASE poller'[p] = poller[p]
      BY <3>0, <3>1 DEF AlertsInUse, Poller
    <3>2. CASE poller'[p] = Idle
      BY <3>2 DEF Idle
    <3>3. CASE \E c \in Connections : StartPoll(p, c)
      BY <3>0, <3>3 DEF StartPoll, Idle
    <3>4. CASE \E S \in SUBSET Queries : CaptureSnapshots(p, S)
      <4>1. poller'[p] = [poller[p] EXCEPT !.step = "detect"] /\ poller[p].step = "capture"
        BY <3>0, <3>4 DEF CaptureSnapshots, At
      <4>. QED BY <3>0, <4>1 DEF AlertsInUse, Poller
    <3>5. CASE Detect(p)
      <4>1. PICK f \in [Queries -> Findings] :
              poller' = [poller EXCEPT ![p].step = "alert", ![p].found = f,
                           ![p].regressing = {q \in Queries : f[q] \in Regressing}]
        BY <3>5 DEF Detect
      <4>2. poller'[p] = [poller[p] EXCEPT !.step = "alert", !.found = f,
                            !.regressing = {q \in Queries : f[q] \in Regressing}]
        BY <3>0, <4>1
      <4>3. poller'[p].step = "alert" /\ poller'[p].resolving = poller[p].resolving
        BY <3>0, <4>2 DEF Poller
      <4>. QED BY <3>0, <4>3 DEF AlertsInUse, Poller
    <3>6. CASE LookBack(p)
      <4>1. PICK q \in poller[p].regressing, b \in Alerts \cup {None} :
              /\ b \in {LastResolved(poller[p].connection, q), None}
              /\ poller' = [poller EXCEPT ![p].query = q, ![p].previous = b,
                                           ![p].regressing = @ \ {q}]
        BY <3>6, LooksBack
      <4>2. poller'[p].step = "alert" /\ poller'[p].resolving = poller[p].resolving
        BY <3>0, <3>6, <4>1 DEF Poller, LookBack, At
      <4>. QED BY <3>0, <4>2 DEF AlertsInUse, Poller
    <3>7. CASE UpsertAlert(p)
      <4>1. poller'[p] = [poller[p] EXCEPT !.query = None, !.previous = None] /\ poller[p].step = "alert"
        BY <3>0, <3>7 DEF UpsertAlert, At
      <4>. QED BY <3>0, <4>1 DEF AlertsInUse, Poller
    <3>8. CASE ReadOpenAlerts(p)
      <4>. DEFINE A == {a \in Alerts : /\ Open(a)
                                        /\ alert[a].connection = poller[p].connection
                                        /\ poller[p].found[alert[a].query] \in Recovered}
      <4>1. A \in SUBSET {a \in Alerts : alert[a].used}
        BY DEF Open
      <4>2. poller'[p].step = "resolve" /\ poller'[p].resolving = A
        <5>1. poller'[p] = [poller[p] EXCEPT !.step = "resolve", !.found = NothingFound, !.resolving = A]
          BY <3>0, <3>8 DEF ReadOpenAlerts
        <5>. HIDE DEF A
        <5>. QED BY <3>0, <5>1 DEF Poller
      <4>. QED BY <4>1, <4>2
    <3>9. CASE ResolveAlert(p)
      <4>1. PICK b \in poller[p].resolving : poller' = [poller EXCEPT ![p].resolving = @ \ {b}]
        BY <3>9 DEF ResolveAlert
      <4>2. poller'[p].step = "resolve" /\ poller'[p].resolving = poller[p].resolving \ {b}
        BY <3>0, <3>9, <4>1 DEF Poller, ResolveAlert, At
      <4>. QED BY <3>0, <4>2 DEF AlertsInUse, Poller
    <3>10. CASE ResolvedAll(p)
      <4>1. poller'[p] = [poller[p] EXCEPT !.step = "reconcile"]
        BY <3>0, <3>10 DEF ResolvedAll
      <4>. QED BY <3>0, <4>1 DEF AlertsInUse, Poller
    <3>. QED BY <3>1, <3>2, <3>3, <3>4, <3>5, <3>6, <3>7, <3>8, <3>9, <3>10, PollersMove
  <2>. QED BY <2>1, AlertsKept
<1>. QED BY <1>1, <1>2 DEF AlertsInUse

LEMMA InUseAlways == AlertSpec => []AlertsInUse
<1>1. AlertInit => AlertsInUse
  BY DEF AlertInit, AlertsInUse, UnusedAlert, Idle
<1>. QED BY <1>1, InUseStep, AlertTypeCorrect, PTL DEF AlertSpec

LEMMA ResolvedAlertsFinite ==
  /\ IsFiniteSet(ResolvedAlerts) /\ Cardinality(ResolvedAlerts) \in Nat
  /\ NextPlace = 1 + Cardinality(ResolvedAlerts)
  BY FS_Subset, FS_CardinalityType DEF ResolvedAlerts, NextPlace

LEMMA ResolvedAlertsGrow ==
  ASSUME AlertTypeOK, NEW a \in Alerts, Resolved(a)
  PROVE  /\ \A b \in Alerts : alert'[b] = IF b = a THEN [alert[a] EXCEPT !.resolved = NextPlace] ELSE alert[b]
         /\ alert'[a].resolved = NextPlace
         /\ ResolvedAlerts' = ResolvedAlerts \cup {a}
         /\ Cardinality(ResolvedAlerts)' = NextPlace
<1>1. \A b \in Alerts : alert'[b] = IF b = a THEN [alert[a] EXCEPT !.resolved = NextPlace] ELSE alert[b]
  BY DEF Resolved, AlertTypeOK
<1>2. alert'[a].resolved = NextPlace
  BY <1>1, RecordsTyped DEF Alert
<1>3. ResolvedAlerts' = ResolvedAlerts \cup {a}
  BY <1>1, <1>2, PlaceTyped DEF ResolvedAlerts
<1>4. a \notin ResolvedAlerts
  BY DEF ResolvedAlerts, Resolved
<1>5. Cardinality(ResolvedAlerts \cup {a}) = NextPlace
  <2>1. IsFiniteSet(ResolvedAlerts)
    BY ResolvedAlertsFinite
  <2>2. Cardinality(ResolvedAlerts \cup {a}) = Cardinality(ResolvedAlerts) + 1
    BY <1>4, <2>1, FS_AddElement, Zenon
  <2>. QED BY <2>2, ResolvedAlertsFinite
<1>. QED BY <1>1, <1>2, <1>3, <1>5

LEMMA PlacesStep ==
  ASSUME AlertTypeOK, AlertsInUse, PlacesInOrder, [AlertNext]_alertVars
  PROVE  PlacesInOrder'
<1>1. CASE UNCHANGED alert
  BY <1>1 DEF PlacesInOrder, ResolvedAlerts
<1>2. ASSUME NEW p \in Pollers, Inserted(p) PROVE PlacesInOrder'
  <2>1. FreshAlert \in Alerts /\ ~alert[FreshAlert].used
    BY <1>2, FreshAlertIsUnused DEF Inserted
  <2>2. \A d \in Alerts : alert'[d] = IF d = FreshAlert THEN NewAlert(p) ELSE alert[d]
    BY <1>2, <2>1 DEF Inserted, AlertTypeOK
  <2>3. FreshAlert \notin ResolvedAlerts
    BY <2>1 DEF PlacesInOrder
  <2>4. NewAlert(p).resolved = 0
    BY DEF NewAlert
  <2>5. ResolvedAlerts' = ResolvedAlerts
    BY <2>1, <2>2, <2>3, <2>4 DEF ResolvedAlerts
  <2>. QED BY <2>2, <2>3, <2>5 DEF PlacesInOrder, ResolvedAlerts
<1>3. ASSUME NEW p \in Pollers, NEW a \in poller[p].resolving, Resolved(a) PROVE PlacesInOrder'
  <2>1. a \in Alerts /\ alert[a].used
    BY RecordsTyped DEF AlertsInUse, Poller
  <2>2. \A b \in ResolvedAlerts : alert[b].resolved \in Nat
    BY RecordsTyped DEF ResolvedAlerts, Alert
  <2>3. alert'[a].used
    BY <1>3, <2>1, RecordsTyped, ResolvedAlertsGrow, ZenonT(60) DEF Alert
  <2>4. ASSUME NEW b \in ResolvedAlerts'
        PROVE  alert'[b].used /\ alert'[b].resolved <= NextPlace
    <3>1. CASE b = a
      <4>1. alert'[a].resolved = NextPlace
        BY <1>3, <2>1, ResolvedAlertsGrow
      <4>. QED BY <2>3, <3>1, <4>1, PlaceTyped
    <3>2. CASE b # a
      <4>1. b \in ResolvedAlerts /\ alert'[b] = alert[b]
        BY <1>3, <2>1, <3>2, ResolvedAlertsGrow DEF ResolvedAlerts
      <4>. QED BY <2>2, <4>1, ResolvedAlertsFinite DEF PlacesInOrder
    <3>. QED BY <3>1, <3>2
  <2>. QED BY <1>3, <2>1, <2>4, ResolvedAlertsGrow DEF PlacesInOrder
<1>4. ASSUME NEW a \in Alerts, AcknowledgeRegression(a) PROVE PlacesInOrder'
  <2>1. \A d \in Alerts : /\ alert'[d].used = alert[d].used
                          /\ alert'[d].resolved = alert[d].resolved
    BY <1>4, RecordsTyped DEF AcknowledgeRegression, AlertTypeOK, Alert
  <2>2. ResolvedAlerts' = ResolvedAlerts
    BY <2>1 DEF ResolvedAlerts
  <2>. QED BY <2>1, <2>2 DEF PlacesInOrder, ResolvedAlerts
<1>. QED BY <1>1, <1>2, <1>3, <1>4, AlertSteps

LEMMA PredecessorsStep ==
  ASSUME AlertTypeOK, RecurrenceInv, [AlertNext]_alertVars
  PROVE  PredecessorsResolved'
<1>. USE DEF RecurrenceInv
<1>. SUFFICES ASSUME NEW a \in Alerts, alert'[a].used, alert'[a].previous # None
              PROVE  LET b == alert'[a].previous
                     IN  /\ Settles(alert', b, alert'[a].connection, alert'[a].query)
                         /\ alert'[a].resolved # 0 => alert'[b].resolved < alert'[a].resolved
  BY DEF PredecessorsResolved
<1>1. CASE alert[a].used
  <2>. DEFINE b == alert[a].previous
  <2>1. /\ alert'[a].previous = b
        /\ Settles(alert, b, alert[a].connection, alert[a].query)
        /\ alert[a].resolved # 0 => alert[b].resolved < alert[a].resolved
    BY <1>1, AlertsKept DEF PredecessorsResolved
  <2>2. Settles(alert', b, alert'[a].connection, alert'[a].query)
    BY <1>1, <2>1, AlertsKept, SettledKept
  <2>3. b \in ResolvedAlerts /\ alert[b].used /\ alert'[b].resolved = alert[b].resolved
    BY <2>1, AlertsKept DEF Settles, ResolvedAlerts
  <2>4. CASE alert[a].resolved # 0
    BY <1>1, <2>1, <2>2, <2>3, <2>4, AlertsKept
  <2>5. CASE alert[a].resolved = 0 /\ alert'[a].resolved # 0
    <3>1. alert'[a].resolved = NextPlace
      <4>1. ASSUME NEW p \in Pollers, Inserted(p) PROVE alert'[a] = alert[a]
        BY <1>1, <4>1, FreshAlertIsUnused DEF Inserted, AlertTypeOK
      <4>2. ASSUME NEW d, Resolved(d) PROVE alert'[a].resolved = NextPlace
        BY <2>5, <4>2, RecordsTyped DEF Resolved, AlertTypeOK, Alert
      <4>3. ASSUME NEW d \in Alerts, AcknowledgeRegression(d) PROVE alert'[a].resolved = alert[a].resolved
        BY <4>3, RecordsTyped DEF AcknowledgeRegression, AlertTypeOK, Alert
      <4>. QED BY <2>5, <4>1, <4>2, <4>3, AlertSteps
    <3>2. alert[b].resolved <= Cardinality(ResolvedAlerts) /\ alert[b].resolved \in Nat
      BY <2>3, RecordsTyped DEF PlacesInOrder, ResolvedAlerts, Alert
    <3>3. alert'[b].resolved < alert'[a].resolved
      BY <2>3, <3>1, <3>2, ResolvedAlertsFinite
    <3>. QED BY <2>1, <2>2, <3>3
  <2>. QED BY <2>1, <2>2, <2>4, <2>5
<1>2. CASE ~alert[a].used
  <2>1. PICK p \in Pollers : Inserted(p)
    <3>1. ASSUME NEW d, Resolved(d) PROVE alert'[a].used = alert[a].used
      BY <3>1, RecordsTyped, ZenonT(60) DEF Resolved, AlertTypeOK, Alert
    <3>2. ASSUME NEW d \in Alerts, AcknowledgeRegression(d) PROVE alert'[a].used = alert[a].used
      BY <3>2, RecordsTyped DEF AcknowledgeRegression, AlertTypeOK, Alert
    <3>. QED BY <1>2, <3>1, <3>2, AlertSteps
  <2>2. alert'[a] = NewAlert(p)
    BY <1>2, <2>1 DEF Inserted, AlertTypeOK
  <2>3. poller[p].query # None /\ poller[p].previous # None
    BY <2>1, <2>2 DEF Inserted, UpsertAlert, NewAlert
  <2>4. Settles(alert', poller[p].previous, poller[p].connection, poller[p].query)
    BY <2>3, SettledKept DEF LookedBack
  <2>. QED BY <2>2, <2>4 DEF NewAlert
<1>. QED BY <1>1, <1>2

LEMMA LookedBackStep ==
  ASSUME AlertTypeOK, AlertTypeOK', LookedBack, [AlertNext]_alertVars
  PROVE  LookedBack'
<1>. SUFFICES ASSUME NEW p \in Pollers, poller'[p].query # None, poller'[p].previous # None
              PROVE  Settles(alert', poller'[p].previous, poller'[p].connection, poller'[p].query)
  BY DEF LookedBack
<1>0. poller[p] \in Poller /\ poller \in [Pollers -> Poller]
  BY DEF AlertTypeOK
<1>1. CASE /\ poller'[p].query = poller[p].query /\ poller'[p].previous = poller[p].previous
           /\ poller'[p].connection = poller[p].connection
  BY <1>1, SettledKept DEF LookedBack
<1>2. CASE LookBack(p)
  <2>1. PICK q \in poller[p].regressing, b \in Alerts \cup {None} :
          /\ b \in {LastResolved(poller[p].connection, q), None}
          /\ poller' = [poller EXCEPT ![p].query = q, ![p].previous = b,
                                       ![p].regressing = @ \ {q}]
    BY <1>2, LooksBack
  <2>2. /\ poller'[p].query = q /\ poller'[p].connection = poller[p].connection
        /\ poller'[p].previous \in {LastResolved(poller[p].connection, q), None}
    BY <1>0, <2>1 DEF Poller
  <2>3. Settles(alert, poller'[p].previous, poller[p].connection, q)
    BY <2>2, LastResolvedTyped DEF Settles, ResolvedOf, Of
  <2>. QED BY <2>2, <2>3, SettledKept
<1>3. CASE poller'[p] = Idle \/ \E c \in Connections : StartPoll(p, c)
  <2>1. Idle.query = None
    BY DEF Idle
  <2>2. \A c \in Connections : StartPoll(p, c) => poller'[p].query = None
    BY <1>0 DEF StartPoll, Idle
  <2>. QED BY <1>3, <2>1, <2>2
<1>4. CASE UpsertAlert(p)
  BY <1>0, <1>4 DEF UpsertAlert, Poller
<1>5. CASE Detect(p)
  <2>1. PICK f \in [Queries -> Findings] :
          poller' = [poller EXCEPT ![p].step = "alert", ![p].found = f,
                       ![p].regressing = {q \in Queries : f[q] \in Regressing}]
    BY <1>5 DEF Detect
  <2>. QED BY <1>0, <1>1, <2>1 DEF Poller
<1>6. CASE ResolveAlert(p)
  <2>1. PICK b \in poller[p].resolving : poller' = [poller EXCEPT ![p].resolving = @ \ {b}]
    BY <1>6 DEF ResolveAlert
  <2>. QED BY <1>0, <1>1, <2>1 DEF Poller
<1>7. CASE ReadOpenAlerts(p)
  <2>. DEFINE A == {a \in Alerts : /\ Open(a)
                                    /\ alert[a].connection = poller[p].connection
                                    /\ poller[p].found[alert[a].query] \in Recovered}
  <2>1. poller'[p] = [poller[p] EXCEPT !.step = "resolve", !.found = NothingFound, !.resolving = A]
    BY <1>0, <1>7 DEF ReadOpenAlerts
  <2>. HIDE DEF A
  <2>. QED BY <1>0, <1>1, <2>1 DEF Poller
<1>8. CASE ResolvedAll(p)
  BY <1>0, <1>1, <1>8 DEF ResolvedAll, Poller
<1>9. CASE \E S \in SUBSET Queries : CaptureSnapshots(p, S)
  BY <1>0, <1>1, <1>9 DEF CaptureSnapshots, Poller
<1>. QED BY <1>1, <1>2, <1>3, <1>4, <1>5, <1>6, <1>7, <1>8, <1>9, PollersMove

\* An alert that recurs names a resolved alert of its own query and connection,
\* resolved before it, whatever happened between upsertAlert's look back and its
\* insert: the bound on the places and what the statement in flight has read are
\* what makes it inductive.
THEOREM RecurrenceIsLinkedHolds == AlertSpec => []RecurrenceIsLinked
<1>1. AlertInit => RecurrenceInv
  BY DEF AlertInit, RecurrenceInv, AlertsInUse, PlacesInOrder, PredecessorsResolved, LookedBack,
         ResolvedAlerts, UnusedAlert, Idle
<1>2. AlertTypeOK /\ AlertTypeOK' /\ RecurrenceInv /\ [AlertNext]_alertVars => RecurrenceInv'
  BY InUseStep, PlacesStep, PredecessorsStep, LookedBackStep DEF RecurrenceInv
<1>3. AlertTypeOK /\ RecurrenceInv => RecurrenceIsLinked
  <2>. SUFFICES ASSUME AlertTypeOK, RecurrenceInv, NEW a \in Alerts,
                       alert[a].used, alert[a].previous # None
                PROVE  LET b == alert[a].previous
                       IN  /\ b \in ResolvedOf(alert[a].connection, alert[a].query)
                           /\ alert[b].previous # a
                           /\ alert[a].resolved # 0 => alert[b].resolved < alert[a].resolved
    BY DEF RecurrenceIsLinked
  <2>. DEFINE b == alert[a].previous
  <2>1. /\ b \in ResolvedOf(alert[a].connection, alert[a].query)
        /\ alert[a].resolved # 0 => alert[b].resolved < alert[a].resolved
    BY DEF RecurrenceInv, PredecessorsResolved, Settles, ResolvedOf, Of
  <2>2. b \in Alerts /\ alert[b].used /\ alert[b].resolved # 0
    BY <2>1 DEF ResolvedOf, Of
  <2>3. ASSUME alert[b].previous = a PROVE FALSE
    <3>1. a # None
      OBVIOUS
    <3>2. alert[a].resolved # 0 /\ alert[a].resolved < alert[b].resolved
      BY <2>2, <2>3, <3>1 DEF RecurrenceInv, PredecessorsResolved, Settles
    <3>3. alert[a].resolved \in Nat /\ alert[b].resolved \in Nat
      BY <2>2, RecordsTyped DEF Alert
    <3>. QED BY <2>1, <3>2, <3>3
  <2>. QED BY <2>1, <2>3
<1>. QED BY <1>1, <1>2, <1>3, AlertTypeCorrect, PTL DEF AlertSpec

-----------------------------------------------------------------------------
(* Resolutions.  Without faults a cycle holds the lock of its connection,  *)
(* so nobody polls the connection between its findings and its updates.    *)

Running(p) == poller[p].step # "idle"

LocksHeld == \A p \in Pollers : Running(p) => holder[poller[p].connection] = p

FindingsCurrent ==
  \A p \in Pollers :
    LET c == poller[p].connection
    IN  /\ poller[p].step = "alert" =>
             \A q \in Queries : poller[p].found[q] \in Recovered => q \in seen[c]
        /\ \A a \in poller[p].resolving : alert[a].connection = c /\ alert[a].query \in seen[c]

FaultFreeInv == faults = 0 => LocksHeld /\ FindingsCurrent

LEMMA FaultsCount ==
  ASSUME AlertTypeOK, [AlertNext]_alertVars, faults' = 0
  PROVE  /\ faults = 0
         /\ \A p \in Pollers : /\ \A S \in SUBSET Queries : ~CaptureFails(p, S)
                               /\ ~PollDisturbed(p)
<1>1. ASSUME Fault PROVE FALSE
  BY <1>1 DEF Fault, AlertTypeOK
<1>2. \A p \in Pollers : /\ \A S \in SUBSET Queries : ~CaptureFails(p, S)
                         /\ ~PollDisturbed(p)
  BY <1>1 DEF CaptureFails, PollDisturbed, PollFails, LoseLock
<1>3. faults' = faults
  <2>1. ASSUME NEW p \in Pollers, PollStep(p) PROVE faults' = faults
    BY <1>1, <2>1 DEF PollStep, Detect, LookBack, UpsertAlert, AlertsExhausted, ReadOpenAlerts,
                ResolveAlert, ResolvedAll
  <2>. QED BY <1>2, <2>1 DEF AlertNext, alertVars, StartPoll, CaptureSnapshots, CaptureNothing,
              EndPoll, AcknowledgeRegression, CleanupOldPolls
<1>. QED BY <1>2, <1>3

\* The locks change only where a cycle starts or ends, and the findings only in Detect.
LEMMA SharedSteps ==
  ASSUME AlertTypeOK, [AlertNext]_alertVars, faults' = 0
  PROVE  /\ \/ UNCHANGED holder
            \/ \E p \in Pollers : \E c \in Connections : StartPoll(p, c)
            \/ \E p \in Pollers : FinishPoll(p)
         /\ UNCHANGED seen \/ \E p \in Pollers : Detect(p)
<1>1. ASSUME NEW p \in Pollers, PollStep(p)
      PROVE  /\ UNCHANGED holder \/ FinishPoll(p)
             /\ UNCHANGED seen \/ Detect(p)
  BY <1>1 DEF PollStep, Detect, LookBack, UpsertAlert, AlertsExhausted, ReadOpenAlerts,
              ResolveAlert, ResolvedAll
<1>2. ASSUME NEW p \in Pollers,
             \/ \E c \in Connections : StartPoll(p, c)
             \/ \E S \in SUBSET Queries : CaptureSnapshots(p, S)
             \/ CaptureNothing(p) \/ EndPoll(p)
      PROVE  /\ \/ UNCHANGED holder \/ FinishPoll(p)
                \/ \E c \in Connections : StartPoll(p, c)
             /\ UNCHANGED seen
  BY <1>2 DEF StartPoll, CaptureSnapshots, CaptureNothing, EndPoll
<1>3. ASSUME \/ \E a \in Alerts : AcknowledgeRegression(a)
             \/ \E q \in Queries : CleanupOldPolls(q)
             \/ UNCHANGED alertVars
      PROVE  UNCHANGED <<holder, seen>>
  BY <1>3 DEF AcknowledgeRegression, CleanupOldPolls, alertVars
<1>. QED BY <1>1, <1>2, <1>3, FaultsCount DEF AlertNext

\* What the steps inside a cycle leave alone.
LEMMA CycleGoesOn ==
  ASSUME AlertTypeOK, NEW p \in Pollers,
         \/ \E S \in SUBSET Queries : CaptureSnapshots(p, S)
         \/ Detect(p) \/ LookBack(p) \/ UpsertAlert(p) \/ ReadOpenAlerts(p)
         \/ ResolveAlert(p) \/ ResolvedAll(p)
  PROVE  /\ Running(p) /\ UNCHANGED holder
         /\ poller'[p].connection = poller[p].connection
<1>0. poller[p] \in Poller /\ poller \in [Pollers -> Poller]
  BY DEF AlertTypeOK
<1>1. Running(p) /\ UNCHANGED holder
  BY DEF CaptureSnapshots, Detect, LookBack, UpsertAlert, ReadOpenAlerts, ResolveAlert,
         ResolvedAll, At, Running
<1>2. CASE \E S \in SUBSET Queries : CaptureSnapshots(p, S)
  BY <1>0, <1>1, <1>2 DEF CaptureSnapshots, Poller
<1>3. CASE Detect(p)
  <2>1. PICK f \in [Queries -> Findings] :
          poller' = [poller EXCEPT ![p].step = "alert", ![p].found = f,
                       ![p].regressing = {q \in Queries : f[q] \in Regressing}]
    BY <1>3 DEF Detect
  <2>. QED BY <1>0, <1>1, <2>1 DEF Poller
<1>4. CASE LookBack(p)
  <2>1. PICK q \in poller[p].regressing, b \in Alerts \cup {None} :
          /\ b \in {LastResolved(poller[p].connection, q), None}
          /\ poller' = [poller EXCEPT ![p].query = q, ![p].previous = b,
                                       ![p].regressing = @ \ {q}]
    BY <1>4, LooksBack
  <2>. QED BY <1>0, <1>1, <2>1 DEF Poller
<1>5. CASE UpsertAlert(p)
  BY <1>0, <1>1, <1>5 DEF UpsertAlert, Poller
<1>6. CASE ReadOpenAlerts(p)
  <2>. DEFINE A == {a \in Alerts : /\ Open(a)
                                    /\ alert[a].connection = poller[p].connection
                                    /\ poller[p].found[alert[a].query] \in Recovered}
  <2>1. poller'[p] = [poller[p] EXCEPT !.step = "resolve", !.found = NothingFound, !.resolving = A]
    BY <1>0, <1>6 DEF ReadOpenAlerts
  <2>. HIDE DEF A
  <2>. QED BY <1>0, <1>1, <2>1 DEF Poller
<1>7. CASE ResolveAlert(p)
  <2>1. PICK b \in poller[p].resolving : poller' = [poller EXCEPT ![p].resolving = @ \ {b}]
    BY <1>7 DEF ResolveAlert
  <2>. QED BY <1>0, <1>1, <2>1 DEF Poller
<1>8. CASE ResolvedAll(p)
  BY <1>0, <1>1, <1>8 DEF ResolvedAll, Poller
<1>. QED BY <1>2, <1>3, <1>4, <1>5, <1>6, <1>7, <1>8

LEMMA LocksStep ==
  ASSUME AlertTypeOK, AlertTypeOK', LocksHeld, [AlertNext]_alertVars, faults' = 0
  PROVE  LocksHeld'
<1>. SUFFICES ASSUME NEW p \in Pollers, poller'[p].step # "idle"
              PROVE  holder'[poller'[p].connection] = p
  BY DEF LocksHeld, Running
<1>0. poller[p] \in Poller /\ poller \in [Pollers -> Poller]
  BY DEF AlertTypeOK
<1>1. CASE poller'[p] = poller[p]
  <2>0. holder[poller[p].connection] = p /\ poller[p].connection \in Connections
    BY <1>0, <1>1 DEF LocksHeld, Running, AlertTypeOK, At, Poller
  <2>1. ASSUME NEW r \in Pollers, NEW c \in Connections, StartPoll(r, c)
        PROVE  holder'[poller[p].connection] = p
    BY <2>0, <2>1 DEF StartPoll, LockFree, AlertTypeOK
  <2>2. ASSUME NEW r \in Pollers, FinishPoll(r) PROVE holder'[poller[p].connection] = p
    <3>1. r # p
      BY <1>0, <2>2 DEF FinishPoll, Idle
    <3>. QED BY <2>0, <2>2, <3>1 DEF FinishPoll, Unlocked
  <2>. QED BY <1>1, <2>0, <2>1, <2>2, SharedSteps
<1>2. CASE poller'[p] = Idle
  BY <1>2 DEF Idle
<1>3. CASE \E c \in Connections : StartPoll(p, c)
  <2>1. PICK c \in Connections : StartPoll(p, c)
    BY <1>3
  <2>2. poller'[p].connection = c
    BY <1>0, <2>1 DEF StartPoll, Idle
  <2>. QED BY <2>1, <2>2 DEF StartPoll, AlertTypeOK
<1>4. CASE \/ \E S \in SUBSET Queries : CaptureSnapshots(p, S)
           \/ Detect(p) \/ LookBack(p) \/ UpsertAlert(p) \/ ReadOpenAlerts(p)
           \/ ResolveAlert(p) \/ ResolvedAll(p)
  BY <1>4, CycleGoesOn DEF LocksHeld
<1>. QED BY <1>1, <1>2, <1>3, <1>4, PollersMove

\* The findings on a connection that a cycle holds are its own.
LEMMA SeenKept ==
  ASSUME AlertTypeOK, LocksHeld, [AlertNext]_alertVars, faults' = 0,
         NEW p \in Pollers, Running(p), ~Detect(p)
  PROVE  seen'[poller[p].connection] = seen[poller[p].connection]
<1>1. ASSUME NEW r \in Pollers, Detect(r)
      PROVE  seen'[poller[p].connection] = seen[poller[p].connection]
  <2>0. r # p
    BY <1>1
  <2>1. Running(r)
    BY <1>1 DEF Detect, At, Running
  <2>2. poller[r].connection # poller[p].connection
    BY <2>0, <2>1 DEF LocksHeld
  <2>3. \E S : seen' = [seen EXCEPT ![poller[r].connection] = S]
    BY <1>1 DEF Detect
  <2>. QED BY <2>2, <2>3 DEF AlertTypeOK
<1>. QED BY <1>1, SharedSteps

LEMMA FindingsStep ==
  ASSUME AlertTypeOK, AlertTypeOK', AlertsInUse, LocksHeld, FindingsCurrent,
         [AlertNext]_alertVars, faults' = 0
  PROVE  FindingsCurrent'
<1>. SUFFICES ASSUME NEW p \in Pollers
              PROVE  LET c == poller'[p].connection
                     IN  /\ poller'[p].step = "alert" =>
                              \A q \in Queries : poller'[p].found[q] \in Recovered => q \in seen'[c]
                         /\ \A a \in poller'[p].resolving :
                              alert'[a].connection = c /\ alert'[a].query \in seen'[c]
  BY DEF FindingsCurrent
<1>0. poller[p] \in Poller /\ poller \in [Pollers -> Poller]
  BY DEF AlertTypeOK
<1>. DEFINE c == poller[p].connection
<1>1. /\ poller[p].step = "alert" =>
           \A q \in Queries : poller[p].found[q] \in Recovered => q \in seen[c]
      /\ \A a \in poller[p].resolving : alert[a].connection = c /\ alert[a].query \in seen[c]
  BY DEF FindingsCurrent
<1>2. \A a \in poller[p].resolving :
        alert'[a].connection = alert[a].connection /\ alert'[a].query = alert[a].query
  BY <1>0, AlertsKept DEF AlertsInUse, Poller
<1>3. CASE poller'[p] = poller[p]
  <2>1. CASE Running(p)
    <3>1. ASSUME Detect(p) PROVE FALSE
      <4>1. PICK f \in [Queries -> Findings] :
              poller' = [poller EXCEPT ![p].step = "alert", ![p].found = f,
                           ![p].regressing = {q \in Queries : f[q] \in Regressing}]
        BY <3>1 DEF Detect
      <4>2. poller'[p].step = "alert" /\ poller[p].step = "detect"
        BY <1>0, <3>1, <4>1 DEF Detect, At, Poller
      <4>. QED BY <1>3, <4>2
    <3>2. seen'[c] = seen[c]
      BY <2>1, <3>1, SeenKept
    <3>. QED BY <1>1, <1>2, <1>3, <3>2
  <2>2. CASE ~Running(p)
    BY <1>3, <2>2 DEF Running, AlertsInUse
  <2>. QED BY <2>1, <2>2
<1>4. CASE poller'[p] = Idle
  BY <1>4 DEF Idle
<1>5. CASE \E d \in Connections : StartPoll(p, d)
  BY <1>0, <1>5 DEF StartPoll, Idle
<1>6. CASE \E S \in SUBSET Queries : CaptureSnapshots(p, S)
  <2>1. poller'[p].step = "detect" /\ poller'[p].resolving = poller[p].resolving
    BY <1>0, <1>6 DEF CaptureSnapshots, Poller
  <2>2. poller[p].resolving = {}
    BY <1>6 DEF AlertsInUse, CaptureSnapshots, At
  <2>. QED BY <2>1, <2>2
<1>7. CASE Detect(p)
  <2>1. PICK f \in [Queries -> Findings] :
          LET regressing == {q \in Queries : f[q] \in Regressing}
          IN  /\ poller' = [poller EXCEPT ![p].step = "alert", ![p].found = f,
                                          ![p].regressing = regressing]
              /\ seen' = [seen EXCEPT ![c] =
                            {q \in Queries : IF f[q] = "unknown" THEN q \in @ ELSE f[q] \in Recovered}]
    BY <1>7 DEF Detect
  <2>2. /\ poller'[p].found = f /\ poller'[p].resolving = poller[p].resolving
        /\ poller'[p].connection = c
    BY <1>0, <2>1 DEF Poller
  <2>3. poller[p].resolving = {}
    BY <1>7 DEF AlertsInUse, Detect, At
  <2>4. c \in Connections
    BY <1>7 DEF Detect, At, AlertTypeOK, Poller
  <2>5. \A q \in Queries : f[q] \in Recovered => q \in seen'[c]
    BY <2>1, <2>4 DEF AlertTypeOK, Recovered
  <2>. QED BY <2>2, <2>3, <2>5
<1>8. CASE LookBack(p)
  <2>1. PICK q \in poller[p].regressing, b \in Alerts \cup {None} :
          /\ b \in {LastResolved(poller[p].connection, q), None}
          /\ poller' = [poller EXCEPT ![p].query = q, ![p].previous = b,
                                       ![p].regressing = @ \ {q}]
    BY <1>8, LooksBack
  <2>2. /\ poller'[p].found = poller[p].found /\ poller'[p].resolving = poller[p].resolving
        /\ poller'[p].connection = c /\ poller'[p].step = poller[p].step
    BY <1>0, <2>1 DEF Poller
  <2>3. seen'[c] = seen[c]
    BY <1>8 DEF LookBack
  <2>. QED BY <1>1, <1>2, <2>2, <2>3
<1>9. CASE UpsertAlert(p)
  <2>1. /\ poller'[p].found = poller[p].found /\ poller'[p].resolving = poller[p].resolving
        /\ poller'[p].connection = c /\ poller'[p].step = poller[p].step
    BY <1>0, <1>9 DEF UpsertAlert, Poller
  <2>2. seen'[c] = seen[c]
    BY <1>9 DEF UpsertAlert
  <2>. QED BY <1>1, <1>2, <2>1, <2>2
<1>10. CASE ReadOpenAlerts(p)
  <2>. DEFINE A == {a \in Alerts : /\ Open(a)
                                    /\ alert[a].connection = poller[p].connection
                                    /\ poller[p].found[alert[a].query] \in Recovered}
  <2>1. /\ poller'[p].step = "resolve" /\ poller'[p].connection = c /\ poller'[p].resolving = A
    <3>1. poller'[p] = [poller[p] EXCEPT !.step = "resolve", !.found = NothingFound, !.resolving = A]
      BY <1>0, <1>10 DEF ReadOpenAlerts
    <3>. HIDE DEF A
    <3>. QED BY <1>0, <3>1 DEF Poller
  <2>2. UNCHANGED <<alert, seen>> /\ poller[p].step = "alert"
    BY <1>10 DEF ReadOpenAlerts, At
  <2>3. \A a \in A : alert[a].connection = c /\ alert[a].query \in seen[c]
    BY <1>1, <2>2 DEF AlertsInUse, Open
  <2>. HIDE DEF A
  <2>. QED BY <2>1, <2>2, <2>3
<1>11. CASE ResolveAlert(p)
  <2>1. PICK b \in poller[p].resolving : poller' = [poller EXCEPT ![p].resolving = @ \ {b}]
    BY <1>11 DEF ResolveAlert
  <2>2. /\ poller'[p].resolving \subseteq poller[p].resolving
        /\ poller'[p].connection = c /\ poller'[p].step = poller[p].step
    BY <1>0, <2>1 DEF Poller
  <2>3. seen'[c] = seen[c] /\ poller[p].step = "resolve"
    BY <1>11 DEF ResolveAlert, At
  <2>. QED BY <1>1, <1>2, <2>2, <2>3
<1>12. CASE ResolvedAll(p)
  <2>1. /\ poller'[p].resolving = poller[p].resolving
        /\ poller'[p].connection = c /\ poller'[p].step = "reconcile"
    BY <1>0, <1>12 DEF ResolvedAll, Poller
  <2>2. seen'[c] = seen[c]
    BY <1>12 DEF ResolvedAll
  <2>. QED BY <1>1, <1>2, <2>1, <2>2
<1>. QED BY <1>3, <1>4, <1>5, <1>6, <1>7, <1>8, <1>9, <1>10, <1>11, <1>12, PollersMove

\* resolveRecoveredAlerts updates an alert by its id, on findings it read several
\* statements ago: while no statement fails and no lock is lost, the newest poll of
\* the alert's connection found its query back at the baseline, by the advisory lock
\* of pollOrgConnection.
THEOREM ResolvedOnRecoveryHolds == AlertSpec => ResolvedOnRecovery
<1>. DEFINE IInv == AlertTypeOK /\ AlertsInUse /\ FaultFreeInv
            Resolution == \A a \in Alerts :
              alert[a].resolved = 0 /\ alert'[a].resolved # 0
                => alert[a].query \in seen[alert[a].connection] \/ faults > 0
<1>1. AlertInit => AlertsInUse /\ FaultFreeInv
  BY DEF AlertInit, AlertsInUse, FaultFreeInv, LocksHeld, FindingsCurrent, Running, UnusedAlert, Idle
<1>2. /\ AlertTypeOK /\ AlertTypeOK' /\ AlertsInUse /\ FaultFreeInv /\ [AlertNext]_alertVars
      => AlertsInUse' /\ FaultFreeInv'
  BY InUseStep, FaultsCount, LocksStep, FindingsStep DEF FaultFreeInv
<1>3. IInv /\ [AlertNext]_alertVars => [Resolution]_alertVars
  <2>. SUFFICES ASSUME IInv, [AlertNext]_alertVars, NEW a \in Alerts,
                       alert[a].resolved = 0, alert'[a].resolved # 0, ~(faults > 0)
                PROVE  alert[a].query \in seen[alert[a].connection]
    OBVIOUS
  <2>0. faults = 0
    BY DEF AlertTypeOK
  <2>1. ASSUME NEW p \in Pollers, Inserted(p) PROVE alert'[a].resolved = 0
    BY <2>1, FreshAlertIsUnused DEF Inserted, AlertTypeOK, NewAlert
  <2>2. ASSUME NEW d \in Alerts, AcknowledgeRegression(d) PROVE alert'[a].resolved = 0
    BY <2>2, RecordsTyped DEF AcknowledgeRegression, AlertTypeOK, Alert
  <2>3. ASSUME NEW p \in Pollers, NEW d \in poller[p].resolving, Resolved(d)
        PROVE  alert[a].query \in seen[alert[a].connection]
    <3>1. a = d
      BY <2>3 DEF Resolved, AlertTypeOK
    <3>. QED BY <2>0, <2>3, <3>1 DEF FaultFreeInv, FindingsCurrent
  <2>. QED BY <2>1, <2>2, <2>3, AlertSteps
<1>. QED BY <1>1, <1>2, <1>3, AlertTypeCorrect, PTL DEF AlertSpec, ResolvedOnRecovery

-----------------------------------------------------------------------------
(* The fix loop is the poller with investigations beside it.               *)

LEMMA StepsArePolls ==
  ASSUME [Next]_vars
  PROVE  [AlertNext]_alertVars
<1>1. ASSUME NEW p \in Pollers, Reconcile(p) PROVE EndPoll(p) \/ UNCHANGED alertVars
  BY <1>1 DEF Reconcile, JudgeFixes, NothingToJudge, WriteVerdicts
<1>2. ASSUME NEW p \in Pollers, Poll(p) PROVE AlertNext \/ UNCHANGED alertVars
  BY <1>1, <1>2 DEF Poll, Capture, CaptureBreaks, PollBreaks, AlertNext, PollDisturbed
<1>3. ASSUME NEW c \in Clients,
             \/ \E a \in Alerts : OpenFromRegression(c, a)
             \/ \E i \in Investigations : ReadFix(c, i)
             \/ Create(c) \/ ClientStep(c)
      PROVE  UNCHANGED alertVars
  BY <1>3 DEF OpenFromRegression, ReadFix, Create, ClientStep, CreateForAlert, LinkAlert,
              WriteFix, UpdateFails
<1>4. ASSUME NEW i \in Investigations, GraceElapses(i) PROVE UNCHANGED alertVars
  BY <1>4 DEF GraceElapses
<1>5. CASE UNCHANGED vars
  BY <1>5 DEF vars
<1>. QED BY <1>2, <1>3, <1>4, <1>5 DEF Next, AlertNext

\* Whatever users do with investigations, the alerts see only the poller and
\* acknowledgements: CreateFromRegression, UpdateFix and reconcileAppliedFixes
\* write no column of app.regression_alerts but the link.
THEOREM FixLoopRunsAlerts == Spec => AlertSpec
<1>1. Init => AlertInit
  BY DEF Init
<1>2. [Next]_vars => [AlertNext]_alertVars
  BY StepsArePolls
<1>. QED BY <1>1, <1>2, PTL DEF Spec, AlertSpec

\* What is proved of the alerts holds of the whole system: one open alert of a
\* query in the inbox, recurrences linked to what they recur from, and resolutions
\* on the newest findings only.
THEOREM FixLoopKeepsAlerts ==
  Spec => []OneOpenAlert /\ []RecurrenceIsLinked /\ ResolvedOnRecovery
  BY FixLoopRunsAlerts, OneOpenAlertHolds, RecurrenceIsLinkedHolds, ResolvedOnRecoveryHolds

-----------------------------------------------------------------------------
(* Typing.                                                                 *)

LEMMA FreshIdIsUnused ==
  ASSUME UnusedIds # {}
  PROVE  FreshId \in Investigations /\ ~inv[FreshId].used
  BY DEF FreshId, UnusedIds

LEMMA InsertTyped ==
  ASSUME FixTypeOK, NEW M \in SUBSET Mean, InsertInvestigation(M)
  PROVE  inv' \in [Investigations -> Investigation]
<1>1. PICK m \in M : inv' = [inv EXCEPT ![FreshId] = [NoInvestigation EXCEPT !.used = TRUE, !.stat = m]]
  BY DEF InsertInvestigation
<1>2. [NoInvestigation EXCEPT !.used = TRUE, !.stat = m] \in Investigation
  BY DEF NoInvestigation, Investigation, Mean, FixStatuses
<1>. QED BY <1>1, <1>2 DEF FixTypeOK

LEMMA RestsTyped ==
  ASSUME FixTypeOK, NEW c \in Clients, Rests(c)
  PROVE  client' \in [Clients -> Client]
<1>1. Resting \in Client
  BY DEF Resting, Client, FixStatuses
<1>. QED BY <1>1 DEF FixTypeOK, Rests

LEMMA BaselineTyped ==
  ASSUME FixTypeOK, NEW i \in Investigations, NEW b \in Baseline(i), LinkedQueries(i) \subseteq Queries
  PROVE  b \in Mean
<1>1. inv[i] \in Investigation /\ latest \in [Queries -> Mean]
  BY DEF FixTypeOK, AlertTypeOK, Mean
<1>2. inv[i].baseline \in Mean /\ inv[i].stat \in Mean
  BY <1>1 DEF Investigation
<1>. QED BY <1>1, <1>2 DEF Baseline

\* The alerts of investigations are alerts in use.
LinksInUse ==
  /\ \A a \in Alerts : link[a] # None => alert[a].used
  /\ \A c \in Clients : client[c].step \in {"create", "link"} =>
                          client[c].alert \in Alerts /\ alert[client[c].alert].used
  /\ \A c \in Clients : client[c].step \in {"link", "update"} => client[c].id \in Investigations

FixInUse == FixTypeOK /\ LinksInUse /\ AlertsInUse

\* The steps of the poller, with what they do to the investigations.
LEMMA PollTyped ==
  ASSUME FixInUse, AlertTypeOK', AlertsInUse', NEW p \in Pollers, Poll(p)
  PROVE  FixTypeOK' /\ UNCHANGED <<link, client>>
<1>. USE DEF FixInUse
<1>0. /\ inv \in [Investigations -> Investigation] /\ fresh \in [Investigations -> SUBSET Queries]
      /\ verdicts \in [Pollers -> SUBSET Verdict] /\ evidence \in [Investigations -> Evidence]
  BY DEF FixTypeOK
<1>1. CASE UNCHANGED fixVars
  BY <1>1 DEF FixTypeOK, fixVars
<1>2. ASSUME NEW S \in SUBSET Queries, Capture(p, S) \/ CaptureBreaks(p, S)
      PROVE  FixTypeOK' /\ UNCHANGED <<link, client>>
  BY <1>2 DEF FixTypeOK, Capture, CaptureBreaks
<1>3. CASE PollBreaks(p)
  BY <1>3 DEF FixTypeOK, PollBreaks
<1>4. CASE JudgeFixes(p)
  <2>. DEFINE J == {[id |-> m[1], query |-> m[2], status |-> Judge(m[1], latest[m[2]]), raced |-> FALSE] :
                      m \in {iq \in Investigations \X Queries : Measurable(iq[1], iq[2])}}
  <2>1. \A i, mean : Judge(i, mean) \in FixStatuses
    BY DEF Judge, FixStatuses
  <2>2. J \in SUBSET Verdict
    <3>1. ASSUME NEW i \in Investigations, NEW q \in Queries, NEW s \in FixStatuses
          PROVE  [id |-> i, query |-> q, status |-> s, raced |-> FALSE] \in Verdict
      BY DEF Verdict
    <3>. QED BY <2>1, <3>1
  <2>3. verdicts' = [verdicts EXCEPT ![p] = J]
    BY <1>4 DEF JudgeFixes
  <2>. HIDE DEF J
  <2>. QED BY <1>4, <2>2, <2>3 DEF FixTypeOK, JudgeFixes
<1>5. CASE WriteVerdicts(p)
  <2>. DEFINE Judged(i) == {v \in verdicts[p] : v.id = i}
              The(i) == CHOOSE v \in Judged(i) : TRUE
  <2>1. \A i \in Investigations : Judged(i) # {} => The(i) \in Verdict
    BY <1>0
  <2>2. \A i \in Investigations : Judged(i) # {} => The(i).status \in FixStatuses /\ The(i).id \in Investigations
    <3>. HIDE DEF The
    <3>. QED BY <2>1 DEF Verdict
  <2>3. \A i \in Investigations : Judged(i) # {} => EvidenceOf(The(i)) \in Evidence
    <3>. HIDE DEF The
    <3>. QED BY <1>0, <2>2 DEF EvidenceOf, Evidence
  <2>4. inv' = [i \in Investigations |->
                  IF Judged(i) = {} THEN inv[i] ELSE [inv[i] EXCEPT !.fix = The(i).status]]
    BY <1>5 DEF WriteVerdicts
  <2>5. evidence' = [i \in Investigations |->
                       IF Judged(i) = {} THEN evidence[i] ELSE EvidenceOf(The(i))]
    BY <1>5 DEF WriteVerdicts
  <2>. HIDE DEF Judged, The
  <2>6. inv' \in [Investigations -> Investigation]
    BY <1>0, <2>2, <2>4 DEF Investigation
  <2>7. evidence' \in [Investigations -> Evidence]
    BY <1>0, <2>3, <2>5
  <2>. QED BY <1>5, <2>6, <2>7 DEF FixTypeOK, WriteVerdicts
<1>. QED BY <1>1, <1>2, <1>3, <1>4, <1>5 DEF Poll, Reconcile, NothingToJudge, fixVars

LEMMA ClientTyped ==
  ASSUME FixInUse, NEW c \in Clients,
         \/ \E a \in Alerts : OpenFromRegression(c, a)
         \/ \E i \in Investigations : ReadFix(c, i)
         \/ Create(c) \/ ClientStep(c)
  PROVE  FixTypeOK' /\ LinksInUse'
<1>. USE DEF FixInUse
<1>0. /\ inv \in [Investigations -> Investigation] /\ client \in [Clients -> Client]
      /\ ops \in Nat /\ evidence \in [Investigations -> Evidence] /\ link \in [Alerts -> Investigations \cup {None}]
      /\ fresh \in [Investigations -> SUBSET Queries] /\ verdicts \in [Pollers -> SUBSET Verdict]
  BY DEF FixTypeOK
<1>1. UNCHANGED alertVars
  BY DEF OpenFromRegression, ReadFix, Create, ClientStep, CreateForAlert, LinkAlert, WriteFix, UpdateFails
<1>2. AlertTypeOK'
  BY <1>1 DEF FixTypeOK, AlertTypeOK, alertVars, At
<1>3. ASSUME Operation PROVE ops' \in 0..MaxOps
  BY <1>0, <1>3 DEF Operation
<1>4. ASSUME Rests(c), link' = link PROVE LinksInUse'
  <2>1. Resting.step = "idle"
    BY DEF Resting
  <2>. QED BY <1>0, <1>1, <1>4, <2>1 DEF LinksInUse, Rests, alertVars
<1>5. ASSUME NEW a \in Alerts, OpenFromRegression(c, a) PROVE FixTypeOK' /\ LinksInUse'
  <2>1. client' = [client EXCEPT ![c] = [Resting EXCEPT !.step = "create", !.alert = a]]
    BY <1>0, <1>5 DEF OpenFromRegression
  <2>2. [Resting EXCEPT !.step = "create", !.alert = a] \in Client
    BY DEF Resting, Client, FixStatuses
  <2>3. client' \in [Clients -> Client]
    BY <1>0, <2>1, <2>2
  <2>4. LinksInUse'
    <3>1. /\ client'[c].step = "create" /\ client'[c].alert = a
      BY <1>0, <2>1 DEF Resting
    <3>2. \A d \in Clients \ {c} : client'[d] = client[d]
      BY <1>0, <2>1
    <3>3. UNCHANGED <<alert, link>> /\ alert[a].used
      BY <1>5 DEF OpenFromRegression, alertVars
    <3>. QED BY <3>1, <3>2, <3>3 DEF LinksInUse
  <2>. QED BY <1>2, <1>3, <1>5, <2>3, <2>4 DEF FixTypeOK, OpenFromRegression
<1>6. CASE CreateForAlert(c)
  <2>1. CASE Rests(c) /\ UNCHANGED inv
    BY <1>2, <1>4, <1>6, <2>1, RestsTyped DEF FixTypeOK, CreateForAlert
  <2>2. CASE /\ InsertInvestigation(Means)
             /\ client' = [client EXCEPT ![c].step = "link", ![c].id = FreshId]
    <3>1. FreshId \in Investigations
      BY <2>2, FreshIdIsUnused DEF InsertInvestigation
    <3>2. inv' \in [Investigations -> Investigation]
      BY <2>2, InsertTyped DEF Mean
    <3>3. client' \in [Clients -> Client]
      <4>1. [client[c] EXCEPT !.step = "link", !.id = FreshId] \in Client
        <5>1. client[c] \in Client
          BY <1>0
        <5>. QED BY <3>1, <5>1, ZenonT(60) DEF Client
      <4>2. client' = [client EXCEPT ![c] = [client[c] EXCEPT !.step = "link", !.id = FreshId]]
        BY <1>0, <2>2
      <4>. QED BY <1>0, <4>1, <4>2
    <3>4. LinksInUse'
      <4>1. \A d \in Clients \ {c} : client'[d] = client[d]
        BY <1>0, <2>2
      <4>2. client'[c].step = "link" /\ client'[c].id = FreshId /\ client'[c].alert = client[c].alert
        BY <1>0, <2>2 DEF Client
      <4>. QED BY <1>1, <1>6, <3>1, <4>1, <4>2 DEF LinksInUse, CreateForAlert, alertVars
    <3>. QED BY <1>2, <1>6, <3>2, <3>3, <3>4 DEF FixTypeOK, CreateForAlert
  <2>. QED BY <1>6, <2>1, <2>2 DEF CreateForAlert
<1>7. CASE Create(c)
  <2>1. inv' \in [Investigations -> Investigation]
    BY <1>7, InsertTyped DEF Create
  <2>2. LinksInUse'
    BY <1>1, <1>7 DEF LinksInUse, Create, alertVars
  <2>. QED BY <1>2, <1>3, <1>7, <2>1, <2>2 DEF FixTypeOK, Create
<1>8. CASE LinkAlert(c)
  <2>1. client[c].alert \in Alerts /\ alert[client[c].alert].used /\ client[c].id \in Investigations
    BY <1>8 DEF LinksInUse, LinkAlert
  <2>2. link' = link \/ link' = [link EXCEPT ![client[c].alert] = client[c].id]
    BY <1>8 DEF LinkAlert
  <2>3. link' \in [Alerts -> Investigations \cup {None}]
    BY <1>0, <2>1, <2>2
  <2>4. LinksInUse'
    <3>1. Resting.step = "idle" /\ Rests(c)
      BY <1>8 DEF Resting, LinkAlert
    <3>2. \A a \in Alerts : link'[a] = link[a] \/ a = client[c].alert
      BY <1>0, <2>2
    <3>. QED BY <1>0, <1>1, <2>1, <3>1, <3>2 DEF LinksInUse, Rests, alertVars
  <2>. QED BY <1>2, <1>8, <2>3, <2>4, RestsTyped DEF FixTypeOK, LinkAlert
<1>9. ASSUME NEW i \in Investigations, ReadFix(c, i) PROVE FixTypeOK' /\ LinksInUse'
  <2>1. PICK to \in FixStatuses :
          client' = [client EXCEPT ![c] = [step |-> "update", alert |-> None, id |-> i,
                                           from |-> inv[i].fix, to |-> to]]
    BY <1>9 DEF ReadFix
  <2>2. [step |-> "update", alert |-> None, id |-> i, from |-> inv[i].fix, to |-> to] \in Client
    BY <1>0 DEF Client, Investigation
  <2>3. client' \in [Clients -> Client]
    BY <1>0, <2>1, <2>2
  <2>4. LinksInUse'
    BY <1>0, <1>1, <1>9, <2>1 DEF LinksInUse, ReadFix, alertVars
  <2>. QED BY <1>2, <1>3, <1>9, <2>3, <2>4 DEF FixTypeOK, ReadFix
<1>10. CASE WriteFix(c)
  <2>. DEFINE i == client[c].id
              to == client[c].to
  <2>1. i \in Investigations /\ to \in FixStatuses
    BY <1>0, <1>10 DEF LinksInUse, WriteFix, Client
  <2>2. LinkedQueries(i) \subseteq Queries
    <3>. HIDE DEF i
    <3>. QED BY <2>1 DEF LinkedQueries, LinkedAlerts, LinksInUse, AlertsInUse
  <2>3. PICK b \in Baseline(i) \cup {inv[i].baseline}, o \in BOOLEAN :
          inv' = [inv EXCEPT ![i] = [inv[i] EXCEPT !.fix = to, !.baseline = b, !.overdue = o]]
    <3>1. inv[i].overdue \in BOOLEAN
      BY <1>0, <2>1 DEF Investigation
    <3>2. PICK b \in Baseline(i) \cup {inv[i].baseline} :
            inv' = [inv EXCEPT ![i].fix = to, ![i].baseline = b,
                               ![i].overdue = IF to = "applied" /\ client[c].from # "applied" THEN FALSE ELSE @]
      BY <1>10 DEF WriteFix
    <3>3. inv' = [inv EXCEPT ![i] = [inv[i] EXCEPT !.fix = to, !.baseline = b,
                    !.overdue = IF to = "applied" /\ client[c].from # "applied" THEN FALSE ELSE inv[i].overdue]]
      BY <1>0, <2>1, <3>2 DEF Investigation
    <3>. QED BY <3>1, <3>3
  <2>4. inv' \in [Investigations -> Investigation]
    <3>1. b \in Mean
      BY <1>0, <2>1, <2>2, BaselineTyped DEF Investigation
    <3>2. [inv[i] EXCEPT !.fix = to, !.baseline = b, !.overdue = o] \in Investigation
      <4>1. inv[i] \in Investigation
        BY <1>0, <2>1
      <4>. HIDE DEF i, to
      <4>. QED BY <2>1, <3>1, <4>1 DEF Investigation
    <3>. QED BY <1>0, <2>3, <3>2
  <2>5. fresh' \in [Investigations -> SUBSET Queries]
    BY <1>0, <1>10 DEF WriteFix
  <2>6. evidence' \in [Investigations -> Evidence]
    BY <1>0, <1>10 DEF WriteFix, Evidence
  <2>7. verdicts' \in [Pollers -> SUBSET Verdict]
    <3>1. \A v \in Verdict : [v EXCEPT !.raced = @ \/ v.id = i] \in Verdict
      BY DEF Verdict
    <3>2. verdicts' = [p \in Pollers |-> {[v EXCEPT !.raced = @ \/ v.id = i] : v \in verdicts[p]}]
      BY <1>10 DEF WriteFix
    <3>. QED BY <1>0, <3>1, <3>2
  <2>8. Rests(c) /\ UNCHANGED <<link, ops>>
    BY <1>10 DEF WriteFix
  <2>. QED BY <1>2, <1>4, <2>4, <2>5, <2>6, <2>7, <2>8, RestsTyped DEF FixTypeOK
<1>11. CASE UpdateFails(c)
  BY <1>2, <1>4, <1>11, RestsTyped DEF FixTypeOK, UpdateFails
<1>. QED BY <1>5, <1>6, <1>7, <1>8, <1>9, <1>10, <1>11 DEF ClientStep

\* The investigations, the links, the requests and the verdicts in flight keep their
\* types (app/service/investigations.go, reconcileAppliedFixes).
THEOREM FixTypeCorrect == Spec => [](FixTypeOK /\ LinksInUse)
<1>1. Init => FixTypeOK /\ LinksInUse
  <2>1. AlertInit => AlertTypeOK
    BY AlertAssumption
       DEF AlertInit, AlertTypeOK, UnusedAlert, Alert, Idle, Poller, NothingFound, Findings, At
  <2>2. FixInit => inv \in [Investigations -> Investigation] /\ client \in [Clients -> Client]
    BY DEF FixInit, NoInvestigation, Investigation, Mean, FixStatuses, Resting, Client
  <2>3. FixInit => LinksInUse
    BY DEF FixInit, LinksInUse, Resting
  <2>4. FixInit => link \in [Alerts -> Investigations \cup {None}] /\ ops \in 0..MaxOps
    BY DEF FixInit
  <2>5. FixInit => /\ verdicts \in [Pollers -> SUBSET Verdict]
                   /\ fresh \in [Investigations -> SUBSET Queries]
                   /\ evidence \in [Investigations -> Evidence]
    BY DEF FixInit, Evidence
  <2>. QED BY <2>1, <2>2, <2>3, <2>4, <2>5 DEF Init, FixTypeOK
<1>2. /\ FixTypeOK /\ LinksInUse /\ AlertsInUse /\ AlertTypeOK' /\ AlertsInUse' /\ [Next]_vars
      => FixTypeOK' /\ LinksInUse'
  <2>. SUFFICES ASSUME FixInUse, AlertTypeOK', AlertsInUse', [Next]_vars
                PROVE  FixTypeOK' /\ LinksInUse'
    BY DEF FixInUse
  <2>0. ASSUME UNCHANGED <<link, client>> PROVE LinksInUse'
    <3>1. \A a \in Alerts : alert[a].used => alert'[a].used
      BY StepsArePolls, AlertsKept DEF FixInUse, FixTypeOK
    <3>. QED BY <2>0, <3>1 DEF FixInUse, LinksInUse
  <2>1. ASSUME NEW p \in Pollers, Poll(p) PROVE FixTypeOK' /\ LinksInUse'
    BY <2>0, <2>1, PollTyped
  <2>2. ASSUME NEW c \in Clients,
               \/ \E a \in Alerts : OpenFromRegression(c, a)
               \/ \E i \in Investigations : ReadFix(c, i)
               \/ Create(c) \/ ClientStep(c)
        PROVE  FixTypeOK' /\ LinksInUse'
    BY <2>2, ClientTyped
  <2>3. ASSUME NEW i \in Investigations, GraceElapses(i) PROVE FixTypeOK' /\ LinksInUse'
    <3>1. inv' \in [Investigations -> Investigation]
      BY <2>3, ZenonT(60) DEF GraceElapses, FixInUse, FixTypeOK, Investigation
    <3>. QED BY <2>0, <2>3, <3>1 DEF GraceElapses, FixInUse, FixTypeOK
  <2>4. CASE UNCHANGED fixVars
    BY <2>0, <2>4 DEF FixInUse, FixTypeOK, fixVars
  <2>. QED BY <2>1, <2>2, <2>3, <2>4 DEF Next, vars
<1>. QED BY <1>1, <1>2, FixLoopRunsAlerts, AlertTypeCorrect, InUseAlways, PTL DEF Spec

-----------------------------------------------------------------------------
(* Links.                                                                  *)

\* The steps of the fix loop, by what they may write of the links.
LEMMA LinkSteps ==
  ASSUME FixTypeOK, LinksInUse, [Next]_vars
  PROVE  \/ UNCHANGED link
         \/ \E c \in Clients : /\ LinkAlert(c)
                               /\ Unlinked(client[c].alert)
                               /\ link' = [link EXCEPT ![client[c].alert] = client[c].id]
<1>1. ASSUME NEW p \in Pollers, Poll(p) PROVE UNCHANGED link
  BY <1>1 DEF Poll, fixVars, Capture, CaptureBreaks, Reconcile, JudgeFixes, NothingToJudge,
              WriteVerdicts, PollBreaks
<1>2. ASSUME NEW c \in Clients,
             \/ \E a \in Alerts : OpenFromRegression(c, a)
             \/ \E i \in Investigations : ReadFix(c, i)
             \/ Create(c) \/ CreateForAlert(c) \/ WriteFix(c) \/ UpdateFails(c)
      PROVE  UNCHANGED link
  BY <1>2 DEF OpenFromRegression, ReadFix, Create, CreateForAlert, WriteFix, UpdateFails
<1>3. ASSUME NEW c \in Clients, LinkAlert(c)
      PROVE  \/ UNCHANGED link
             \/ /\ Unlinked(client[c].alert)
                /\ link' = [link EXCEPT ![client[c].alert] = client[c].id]
  BY <1>3 DEF LinkAlert
<1>4. ASSUME \/ \E i \in Investigations : GraceElapses(i)
             \/ UNCHANGED fixVars
      PROVE  UNCHANGED link
  BY <1>4 DEF GraceElapses, fixVars
<1>. QED BY <1>1, <1>2, <1>3, <1>4 DEF Next, ClientStep, vars

\* Two users who open an investigation from the same alert both insert one; the
\* conditional UPDATE of CreateFromRegression links the first and leaves it.
THEOREM LinkIsFinalHolds == Spec => LinkIsFinal
<1>1. FixTypeOK /\ LinksInUse /\ [Next]_vars
      => [\A a \in Alerts : link[a] # None => link'[a] = link[a]]_vars
  BY LinkSteps DEF FixTypeOK, Unlinked
<1>. QED BY <1>1, FixTypeCorrect, PTL DEF Spec, LinkIsFinal

-----------------------------------------------------------------------------
(* Verdicts.  An investigation has one alert.  Unless its fix was applied  *)
(* with no alert linked, the query of the alert is fresh or its latest     *)
(* interval is the very baseline the fix is measured against; and that is  *)
(* never an improvement of itself.                                         *)

OneAlertEach ==
  /\ \A a, b \in Alerts : link[a] = link[b] /\ link[a] # None => a = b
  /\ \A a \in Alerts : link[a] # None => inv[link[a]].used
  /\ \A c \in Clients : client[c].step = "link" =>
       /\ inv[client[c].id].used
       /\ LinkedAlerts(client[c].id) = {}
       /\ \A d \in Clients \ {c} : client[d].step = "link" => client[d].id # client[c].id

BaselinesAreLatest ==
  \A i \in Investigations : inv[i].baseline # NoInterval /\ evidence[i] # "unlinked" =>
    /\ LinkedAlerts(i) # {}
    /\ \A q \in LinkedQueries(i) \ fresh[i] : latest[q] \in {inv[i].baseline, NoInterval}

ConfirmationsMeasured ==
  \A p \in Pollers : \A v \in verdicts[p] :
    v.status = "confirmed" /\ ~v.raced /\ evidence[v.id] # "unlinked" => v.query \in fresh[v.id]

MeasureInv == OneAlertEach /\ BaselinesAreLatest /\ ConfirmationsMeasured /\ ConfirmedIsMeasured

FixSound == FixTypeOK /\ LinksInUse /\ AlertsInUse

LEMMA OneAlertStep ==
  ASSUME FixSound, OneAlertEach, [Next]_vars
  PROVE  OneAlertEach'
<1>. USE DEF FixSound
<1>0. /\ inv \in [Investigations -> Investigation] /\ client \in [Clients -> Client]
      /\ link \in [Alerts -> Investigations \cup {None}]
  BY DEF FixTypeOK
<1>1. ASSUME UNCHANGED <<link, client>>,
             \A i \in Investigations : inv[i].used => inv'[i].used
      PROVE  OneAlertEach'
  BY <1>0, <1>1 DEF OneAlertEach, LinkedAlerts, LinksInUse
<1>2. ASSUME NEW c \in Clients, UNCHANGED link, client'[c].step # "link",
             \A d \in Clients \ {c} : client'[d] = client[d],
             \A i \in Investigations : inv[i].used => inv'[i].used
      PROVE  OneAlertEach'
  BY <1>0, <1>2 DEF OneAlertEach, LinkedAlerts, LinksInUse
<1>3. ASSUME NEW M, InsertInvestigation(M)
      PROVE  /\ \A i \in Investigations : inv[i].used => inv'[i].used
             /\ FreshId \in Investigations /\ ~inv[FreshId].used /\ inv'[FreshId].used
  <2>1. PICK m \in M : inv' = [inv EXCEPT ![FreshId] = [NoInvestigation EXCEPT !.used = TRUE, !.stat = m]]
    BY <1>3 DEF InsertInvestigation
  <2>2. FreshId \in Investigations /\ ~inv[FreshId].used
    BY <1>3, FreshIdIsUnused DEF InsertInvestigation
  <2>. QED BY <1>0, <2>1, <2>2 DEF NoInvestigation
<1>4. ASSUME NEW c \in Clients, Rests(c)
      PROVE  client'[c].step # "link" /\ \A d \in Clients \ {c} : client'[d] = client[d]
  BY <1>0, <1>4 DEF Rests, Resting
<1>5. ASSUME NEW p \in Pollers, Poll(p) PROVE OneAlertEach'
  <2>1. UNCHANGED <<link, client>>
    BY <1>5 DEF Poll, fixVars, Capture, CaptureBreaks, Reconcile, JudgeFixes, NothingToJudge,
                WriteVerdicts, PollBreaks
  <2>2. CASE UNCHANGED inv
    BY <1>1, <2>1, <2>2
  <2>3. CASE WriteVerdicts(p)
    <3>1. \A i \in Investigations : \E s : inv'[i] \in {inv[i], [inv[i] EXCEPT !.fix = s]}
      BY <2>3 DEF WriteVerdicts
    <3>2. \A i \in Investigations : inv'[i].used = inv[i].used
      BY <1>0, <3>1 DEF Investigation
    <3>. QED BY <1>1, <2>1, <3>2
  <2>. QED BY <1>5, <2>2, <2>3 DEF Poll, fixVars, Capture, CaptureBreaks, Reconcile, JudgeFixes,
              NothingToJudge, PollBreaks
<1>6. ASSUME NEW c \in Clients, NEW a \in Alerts, OpenFromRegression(c, a) PROVE OneAlertEach'
  <2>1. client'[c].step # "link" /\ \A d \in Clients \ {c} : client'[d] = client[d]
    BY <1>0, <1>6 DEF OpenFromRegression, Resting
  <2>. QED BY <1>2, <1>6, <2>1 DEF OpenFromRegression
<1>7. ASSUME NEW c \in Clients, CreateForAlert(c) PROVE OneAlertEach'
  <2>1. CASE Rests(c) /\ UNCHANGED inv
    BY <1>2, <1>4, <1>7, <2>1 DEF CreateForAlert
  <2>2. CASE /\ InsertInvestigation(Means)
             /\ client' = [client EXCEPT ![c].step = "link", ![c].id = FreshId]
    <3>1. \A d \in Clients \ {c} : client'[d] = client[d]
      BY <1>0, <2>2
    <3>2. client'[c].step = "link" /\ client'[c].id = FreshId /\ UNCHANGED link
      BY <1>0, <1>7, <2>2 DEF Client, CreateForAlert
    <3>3. /\ \A i \in Investigations : inv[i].used => inv'[i].used
          /\ FreshId \in Investigations /\ ~inv[FreshId].used /\ inv'[FreshId].used
      BY <1>3, <2>2
    <3>4. LinkedAlerts(FreshId) = {}
      BY <3>3 DEF LinkedAlerts, OneAlertEach
    <3>5. \A d \in Clients \ {c} : client[d].step = "link" => client[d].id # FreshId
      BY <3>3 DEF OneAlertEach
    <3>. DEFINE f == FreshId
    <3>. HIDE DEF f
    <3>6. \A d \in Clients : client'[d].step = "link" =>
            /\ inv'[client'[d].id].used
            /\ \A a \in Alerts : link'[a] # client'[d].id
            /\ \A e \in Clients \ {d} : client'[e].step = "link" => client'[e].id # client'[d].id
      BY <3>1, <3>2, <3>3, <3>4, <3>5 DEF OneAlertEach, LinkedAlerts, LinksInUse
    <3>7. \A d \in Clients : LinkedAlerts(client[d].id)' = {a \in Alerts : link'[a] = client'[d].id}
      BY DEF LinkedAlerts
    <3>8. /\ \A a, b \in Alerts : link'[a] = link'[b] /\ link'[a] # None => a = b
          /\ \A a \in Alerts : link'[a] # None => inv'[link'[a]].used
      <4>1. \A a \in Alerts : link[a] # None => link[a] \in Investigations /\ inv[link[a]].used
        BY <1>0 DEF OneAlertEach
      <4>. QED BY <3>2, <3>3, <4>1 DEF OneAlertEach
    <3>9. \A d \in Clients : LinkedAlerts(client[d].id)' = {} <=>
                              \A a \in Alerts : link'[a] # client'[d].id
      BY <3>7
    <3>. QED BY <3>6, <3>8, <3>9 DEF OneAlertEach
  <2>. QED BY <1>7, <2>1, <2>2 DEF CreateForAlert
<1>8. ASSUME NEW c \in Clients, Create(c) PROVE OneAlertEach'
  BY <1>1, <1>3, <1>8 DEF Create
<1>9. ASSUME NEW c \in Clients, LinkAlert(c) PROVE OneAlertEach'
  <2>1. client'[c].step # "link" /\ \A d \in Clients \ {c} : client'[d] = client[d]
    BY <1>4, <1>9 DEF LinkAlert
  <2>2. CASE UNCHANGED link
    BY <1>2, <1>9, <2>1, <2>2 DEF LinkAlert
  <2>3. CASE link' = [link EXCEPT ![client[c].alert] = client[c].id]
    <3>1. client[c].step = "link" /\ UNCHANGED inv
      BY <1>9 DEF LinkAlert
    <3>2. /\ client[c].id \in Investigations /\ inv[client[c].id].used
          /\ \A a \in Alerts : link[a] # client[c].id
          /\ \A d \in Clients \ {c} : client[d].step = "link" => client[d].id # client[c].id
      BY <3>1 DEF OneAlertEach, LinkedAlerts, LinksInUse
    <3>3. \A a \in Alerts : link'[a] = IF a = client[c].alert THEN client[c].id ELSE link[a]
      BY <1>0, <2>3
    <3>4. \A a, b \in Alerts : link'[a] = link'[b] /\ link'[a] # None => a = b
      BY <3>2, <3>3 DEF OneAlertEach
    <3>5. \A a \in Alerts : link'[a] # None => inv'[link'[a]].used
      BY <3>1, <3>2, <3>3 DEF OneAlertEach
    <3>6. ASSUME NEW d \in Clients, client'[d].step = "link"
          PROVE  /\ inv'[client'[d].id].used
                 /\ \A a \in Alerts : link'[a] # client'[d].id
                 /\ \A e \in Clients \ {d} : client'[e].step = "link" => client'[e].id # client'[d].id
      <4>1. d # c /\ client'[d] = client[d]
        BY <2>1, <3>6
      <4>2. /\ inv[client[d].id].used
            /\ \A a \in Alerts : link[a] # client[d].id
            /\ \A e \in Clients \ {d} : client[e].step = "link" => client[e].id # client[d].id
        BY <3>6, <4>1 DEF OneAlertEach, LinkedAlerts
      <4>. QED BY <2>1, <3>1, <3>2, <3>3, <3>6, <4>1, <4>2
    <3>. QED BY <3>4, <3>5, <3>6 DEF OneAlertEach, LinkedAlerts
  <2>. QED BY <1>9, <2>2, <2>3 DEF LinkAlert
<1>10. ASSUME NEW c \in Clients, NEW i \in Investigations, ReadFix(c, i) PROVE OneAlertEach'
  <2>1. client'[c].step # "link" /\ \A d \in Clients \ {c} : client'[d] = client[d]
    BY <1>0, <1>10 DEF ReadFix
  <2>. QED BY <1>2, <1>10, <2>1 DEF ReadFix
<1>11. ASSUME NEW c \in Clients, WriteFix(c) PROVE OneAlertEach'
  <2>1. \A i \in Investigations : inv'[i].used = inv[i].used
    <3>1. PICK b : inv' = [inv EXCEPT ![client[c].id].fix = client[c].to, ![client[c].id].baseline = b,
                             ![client[c].id].overdue =
                                IF client[c].to = "applied" /\ client[c].from # "applied" THEN FALSE ELSE @]
      BY <1>11 DEF WriteFix
    <3>. QED BY <1>0, <3>1 DEF Investigation
  <2>. QED BY <1>2, <1>4, <1>11, <2>1 DEF WriteFix
<1>12. ASSUME NEW c \in Clients, UpdateFails(c) PROVE OneAlertEach'
  BY <1>2, <1>4, <1>12 DEF UpdateFails
<1>13. ASSUME NEW i \in Investigations, GraceElapses(i) PROVE OneAlertEach'
  <2>1. \A j \in Investigations : inv'[j].used = inv[j].used
    BY <1>0, <1>13 DEF GraceElapses, Investigation
  <2>. QED BY <1>1, <1>13, <2>1 DEF GraceElapses
<1>14. CASE UNCHANGED fixVars
  BY <1>1, <1>14 DEF fixVars
<1>. QED BY <1>5, <1>6, <1>7, <1>8, <1>9, <1>10, <1>11, <1>12, <1>13, <1>14
     DEF Next, ClientStep, vars

\* WriteFix marks the fix of i applied.
Applies(c, i) ==
  WriteFix(c) /\ client[c].id = i /\ client[c].to = "applied" /\ client[c].from # "applied"

\* A step that does not mark the fix applied.
Keeps(i) ==
  /\ inv'[i].baseline \in {inv[i].baseline, NoInterval}
  /\ evidence[i] = "unlinked" => evidence'[i] = "unlinked"
  /\ fresh[i] \subseteq fresh'[i]

LEMMA MeasureSteps ==
  ASSUME FixSound, [Next]_vars, NEW i \in Investigations
  PROVE  Keeps(i) \/ \E c \in Clients : Applies(c, i)
<1>. USE DEF FixSound
<1>0. /\ inv \in [Investigations -> Investigation] /\ evidence \in [Investigations -> Evidence]
      /\ fresh \in [Investigations -> SUBSET Queries]
  BY DEF FixTypeOK
<1>1. ASSUME inv' = inv, evidence' = evidence, fresh' = fresh PROVE Keeps(i)
  BY <1>1 DEF Keeps
<1>2. ASSUME NEW S \in SUBSET Queries, NEW p \in Pollers, Capture(p, S) \/ CaptureBreaks(p, S)
      PROVE  Keeps(i)
  BY <1>2 DEF Keeps, Capture, CaptureBreaks
<1>3. ASSUME NEW p \in Pollers, WriteVerdicts(p) PROVE Keeps(i)
  <2>. DEFINE Judged(j) == {v \in verdicts[p] : v.id = j}
              The(j) == CHOOSE v \in Judged(j) : TRUE
  <2>1. \E s : inv'[i] \in {inv[i], [inv[i] EXCEPT !.fix = s]}
    BY <1>3 DEF WriteVerdicts
  <2>2. inv'[i].baseline = inv[i].baseline
    BY <1>0, <2>1 DEF Investigation
  <2>3. evidence'[i] = IF Judged(i) = {} THEN evidence[i] ELSE EvidenceOf(The(i))
    BY <1>3 DEF WriteVerdicts
  <2>4. Judged(i) # {} => The(i).id = i
    OBVIOUS
  <2>. HIDE DEF Judged, The
  <2>5. evidence[i] = "unlinked" => evidence'[i] = "unlinked"
    BY <2>3, <2>4 DEF EvidenceOf
  <2>. QED BY <1>3, <2>2, <2>5 DEF Keeps, WriteVerdicts
<1>4. ASSUME NEW c \in Clients, WriteFix(c), ~Applies(c, i) PROVE Keeps(i)
  <2>. DEFINE j == client[c].id
              applied == client[c].to = "applied" /\ client[c].from # "applied"
  <2>1. PICK b \in IF applied THEN Baseline(j) ELSE {inv[j].baseline} :
          inv' = [inv EXCEPT ![j].fix = client[c].to, ![j].baseline = b,
                             ![j].overdue = IF applied THEN FALSE ELSE @]
    BY <1>4 DEF WriteFix
  <2>2. i # j \/ ~applied
    BY <1>4 DEF Applies
  <2>3. inv'[i].baseline = inv[i].baseline
    BY <1>0, <2>1, <2>2 DEF Investigation
  <2>4. evidence[i] = "unlinked" => evidence'[i] = "unlinked"
    BY <1>0, <1>4, <2>2 DEF WriteFix
  <2>5. fresh[i] \subseteq fresh'[i]
    BY <1>0, <1>4, <2>2 DEF WriteFix
  <2>. QED BY <2>3, <2>4, <2>5 DEF Keeps
<1>5. ASSUME NEW M, InsertInvestigation(M), evidence' = evidence, fresh' = fresh PROVE Keeps(i)
  <2>1. PICK m \in M : inv' = [inv EXCEPT ![FreshId] = [NoInvestigation EXCEPT !.used = TRUE, !.stat = m]]
    BY <1>5 DEF InsertInvestigation
  <2>. QED BY <1>0, <1>5, <2>1 DEF Keeps, NoInvestigation
<1>6. ASSUME NEW c \in Clients,
             \/ \E a \in Alerts : OpenFromRegression(c, a)
             \/ \E j \in Investigations : ReadFix(c, j)
             \/ Create(c) \/ CreateForAlert(c) \/ LinkAlert(c) \/ UpdateFails(c)
      PROVE  Keeps(i)
  <2>1. evidence' = evidence /\ fresh' = fresh
    BY <1>6 DEF OpenFromRegression, ReadFix, Create, CreateForAlert, LinkAlert, UpdateFails
  <2>2. inv' = inv \/ InsertInvestigation(Mean) \/ InsertInvestigation(Means)
    BY <1>6 DEF OpenFromRegression, ReadFix, Create, CreateForAlert, LinkAlert, UpdateFails
  <2>. QED BY <1>1, <1>5, <2>1, <2>2
<1>7. ASSUME NEW j \in Investigations, GraceElapses(j) PROVE Keeps(i)
  <2>1. inv' = [inv EXCEPT ![j] = [inv[j] EXCEPT !.overdue = TRUE]] /\ UNCHANGED <<evidence, fresh>>
    BY <1>7 DEF GraceElapses
  <2>. QED BY <1>0, <2>1 DEF Keeps, Investigation
<1>8. ASSUME NEW p \in Pollers, Poll(p) PROVE Keeps(i)
  <2>1. CASE inv' = inv /\ evidence' = evidence /\ fresh' = fresh
    BY <1>1, <2>1
  <2>2. CASE WriteVerdicts(p)
    BY <1>3, <2>2
  <2>3. CASE \E S \in SUBSET Queries : Capture(p, S) \/ CaptureBreaks(p, S)
    BY <1>2, <2>3
  <2>. QED BY <1>8, <2>1, <2>2, <2>3 DEF Poll, Reconcile, fixVars, JudgeFixes, NothingToJudge, PollBreaks
<1>9. CASE UNCHANGED fixVars
  BY <1>1, <1>9 DEF fixVars
<1>. QED BY <1>4, <1>6, <1>7, <1>8, <1>9 DEF Next, ClientStep, vars

\* A new latest interval of a query is fresh for every fix.
LEMMA LatestSteps ==
  ASSUME FixSound, [Next]_vars, NEW q \in Queries
  PROVE  \/ latest'[q] \in {latest[q], NoInterval}
         \/ \A i \in Investigations : q \in fresh'[i]
<1>. USE DEF FixSound
<1>1. ASSUME NEW p \in Pollers, NEW S \in SUBSET Queries, Capture(p, S) \/ CaptureBreaks(p, S)
      PROVE  latest'[q] = latest[q] \/ \A i \in Investigations : q \in fresh'[i]
  <2>1. Stored(S) /\ \A i \in Investigations : fresh'[i] = fresh[i] \cup S
    BY <1>1 DEF Capture, CaptureBreaks, CaptureSnapshots, CaptureFails
  <2>. QED BY <2>1 DEF Stored
<1>2. ASSUME NEW p \in Pollers,
             \/ \E c \in Connections : StartPoll(p, c)
             \/ CaptureNothing(p) \/ PollStep(p) \/ EndPoll(p) \/ PollDisturbed(p)
      PROVE  UNCHANGED latest
  BY <1>2 DEF StartPoll, CaptureNothing, PollStep, EndPoll, PollDisturbed, PollFails, LoseLock, Detect,
              LookBack, UpsertAlert, AlertsExhausted, ReadOpenAlerts, ResolveAlert, ResolvedAll
<1>3. ASSUME NEW p \in Pollers, Poll(p)
      PROVE  latest'[q] = latest[q] \/ \A i \in Investigations : q \in fresh'[i]
  <2>1. CASE Reconcile(p) \/ PollBreaks(p)
    BY <1>2, <2>1 DEF Reconcile, JudgeFixes, NothingToJudge, WriteVerdicts, PollBreaks, PollDisturbed,
                      alertVars
  <2>. QED BY <1>1, <1>2, <1>3, <2>1 DEF Poll, PollDisturbed
<1>4. ASSUME NEW c \in Clients,
             \/ \E a \in Alerts : OpenFromRegression(c, a)
             \/ \E j \in Investigations : ReadFix(c, j)
             \/ Create(c) \/ ClientStep(c)
      PROVE  UNCHANGED latest
  BY <1>4 DEF OpenFromRegression, ReadFix, Create, ClientStep, CreateForAlert, LinkAlert, WriteFix,
              UpdateFails, alertVars
<1>5. ASSUME NEW r \in Queries, CleanupOldPolls(r) PROVE latest'[q] \in {latest[q], NoInterval}
  BY <1>5 DEF CleanupOldPolls, FixTypeOK, AlertTypeOK
<1>6. ASSUME \/ \E a \in Alerts : AcknowledgeRegression(a)
             \/ \E j \in Investigations : GraceElapses(j)
             \/ UNCHANGED vars
      PROVE  UNCHANGED latest
  BY <1>6 DEF AcknowledgeRegression, GraceElapses, vars, alertVars
<1>. QED BY <1>3, <1>4, <1>5, <1>6 DEF Next

\* The alert of an investigation that has one stays, with its query.
LEMMA LinkedKept ==
  ASSUME FixSound, OneAlertEach, [Next]_vars, NEW i \in Investigations, LinkedAlerts(i) # {}
  PROVE  LinkedAlerts(i)' = LinkedAlerts(i) /\ LinkedQueries(i)' = LinkedQueries(i)
<1>. USE DEF FixSound
<1>1. LinkedAlerts(i)' = LinkedAlerts(i)
  <2>1. CASE UNCHANGED link
    BY <2>1 DEF LinkedAlerts
  <2>2. ASSUME NEW c \in Clients, LinkAlert(c), Unlinked(client[c].alert),
               link' = [link EXCEPT ![client[c].alert] = client[c].id]
        PROVE  LinkedAlerts(i)' = LinkedAlerts(i)
    <3>1. client[c].id # i
      BY <2>2 DEF OneAlertEach, LinkAlert
    <3>2. \A a \in Alerts : link'[a] = i <=> link[a] = i
      BY <2>2, <3>1 DEF Unlinked, FixTypeOK
    <3>. QED BY <3>2 DEF LinkedAlerts
  <2>. QED BY <2>1, <2>2, LinkSteps
<1>2. \A a \in LinkedAlerts(i) : alert'[a].query = alert[a].query
  <2>1. \A a \in LinkedAlerts(i) : a \in Alerts /\ alert[a].used
    BY DEF LinkedAlerts, LinksInUse
  <2>. QED BY <2>1, StepsArePolls, AlertsKept DEF FixTypeOK
<1>. QED BY <1>1, <1>2 DEF LinkedQueries

LEMMA BaselinesStep ==
  ASSUME FixSound, OneAlertEach, BaselinesAreLatest, [Next]_vars
  PROVE  BaselinesAreLatest'
<1>. USE DEF FixSound
<1>. SUFFICES ASSUME NEW i \in Investigations,
                     inv'[i].baseline # NoInterval, evidence'[i] # "unlinked"
              PROVE  /\ LinkedAlerts(i)' # {}
                     /\ \A q \in LinkedQueries(i)' \ fresh'[i] : latest'[q] \in {inv'[i].baseline, NoInterval}
  BY DEF BaselinesAreLatest
<1>0. ASSUME NEW q \in LinkedQueries(i) PROVE q \in Queries
  BY DEF LinkedQueries, LinkedAlerts, LinksInUse, AlertsInUse
<1>1. CASE Keeps(i)
  <2>1. inv'[i].baseline = inv[i].baseline /\ inv[i].baseline # NoInterval /\ evidence[i] # "unlinked"
    BY <1>1 DEF Keeps
  <2>2. LinkedAlerts(i)' # {} /\ LinkedQueries(i)' = LinkedQueries(i)
    BY <2>1, LinkedKept DEF BaselinesAreLatest
  <2>3. ASSUME NEW q \in LinkedQueries(i), q \notin fresh'[i]
        PROVE  latest'[q] \in {inv[i].baseline, NoInterval}
    <3>1. q \notin fresh[i]
      BY <1>1, <2>3 DEF Keeps
    <3>2. latest[q] \in {inv[i].baseline, NoInterval}
      BY <2>1, <3>1 DEF BaselinesAreLatest
    <3>3. latest'[q] \in {latest[q], NoInterval}
      BY <1>0, <2>3, LatestSteps
    <3>. QED BY <3>2, <3>3
  <2>. QED BY <2>1, <2>2, <2>3
<1>2. ASSUME NEW c \in Clients, Applies(c, i)
      PROVE  /\ LinkedAlerts(i)' # {}
             /\ \A q \in LinkedQueries(i)' \ fresh'[i] : latest'[q] \in {inv'[i].baseline, NoInterval}
  <2>1. WriteFix(c) /\ client[c].id = i /\ client[c].to = "applied" /\ client[c].from # "applied"
    BY <1>2 DEF Applies
  <2>2. UNCHANGED <<alert, latest, link>>
    BY <2>1 DEF WriteFix, alertVars
  <2>3. evidence'[i] = IF LinkedAlerts(i) = {} THEN "unlinked" ELSE "none"
    BY <2>1 DEF WriteFix, FixTypeOK
  <2>4. LinkedAlerts(i) # {}
    BY <2>3
  <2>5. PICK a \in Alerts : LinkedAlerts(i) = {a}
    BY <2>4 DEF LinkedAlerts, OneAlertEach
  <2>6. LinkedQueries(i) = {alert[a].query}
    BY <2>5 DEF LinkedQueries
  <2>7. LinkedAlerts(i)' = {a} /\ LinkedQueries(i)' = {alert[a].query}
    BY <2>2, <2>5, <2>6 DEF LinkedAlerts, LinkedQueries
  <2>8. inv'[i].baseline \in Baseline(i)
    <3>1. PICK b \in Baseline(i) :
            inv' = [inv EXCEPT ![i].fix = "applied", ![i].baseline = b, ![i].overdue = FALSE]
      BY <2>1 DEF WriteFix
    <3>. QED BY <3>1 DEF FixTypeOK, Investigation
  <2>9. latest[alert[a].query] \in {inv'[i].baseline, NoInterval}
    BY <2>6, <2>8 DEF Baseline
  <2>. QED BY <2>2, <2>7, <2>9
<1>. QED BY <1>1, <1>2, MeasureSteps

\* A mean is no improvement of itself.
LEMMA SameIsNoImprovement ==
  ASSUME NEW m \in Nat \ {0}
  PROVE  ~Improved(m, m)
  BY DEF Improved

LEMMA ConfirmationsStep ==
  ASSUME FixSound, BaselinesAreLatest, ConfirmationsMeasured, [Next]_vars
  PROVE  ConfirmationsMeasured'
<1>. USE DEF FixSound
<1>. SUFFICES ASSUME NEW p \in Pollers, NEW v \in verdicts'[p],
                     v.status = "confirmed", ~v.raced, evidence'[v.id] # "unlinked"
              PROVE  v.query \in fresh'[v.id]
  BY DEF ConfirmationsMeasured
<1>0. verdicts \in [Pollers -> SUBSET Verdict]
  BY DEF FixTypeOK
<1>1. ASSUME NEW w \in verdicts[p], w.id = v.id, w.query = v.query, w.status = v.status, ~w.raced,
             Keeps(v.id)
      PROVE  v.query \in fresh'[v.id]
  BY <1>1 DEF ConfirmationsMeasured, Keeps
<1>2. CASE v \in verdicts[p] /\ ~\E c \in Clients : WriteFix(c)
  <2>1. v.id \in Investigations
    BY <1>0, <1>2 DEF Verdict
  <2>2. Keeps(v.id)
    BY <1>2, <2>1, MeasureSteps DEF Applies
  <2>. QED BY <1>1, <1>2, <2>2
<1>3. ASSUME NEW c \in Clients, WriteFix(c) PROVE v.query \in fresh'[v.id]
  <2>1. PICK w \in verdicts[p] : v = [w EXCEPT !.raced = @ \/ w.id = client[c].id]
    BY <1>3 DEF WriteFix
  <2>2. w \in Verdict
    BY <1>0
  <2>3. /\ w.id = v.id /\ w.query = v.query /\ w.status = v.status
        /\ v.raced = (w.raced \/ w.id = client[c].id)
    BY <2>1, <2>2 DEF Verdict
  <2>4. ~w.raced /\ v.id # client[c].id /\ v.id \in Investigations
    BY <2>2, <2>3 DEF Verdict
  <2>5. fresh' = fresh \/ fresh' = [fresh EXCEPT ![client[c].id] = {}]
    BY <1>3 DEF WriteFix
  <2>6. evidence'[v.id] = evidence[v.id]
    BY <1>3, <2>4 DEF WriteFix, FixTypeOK
  <2>7. v.query \in fresh[v.id]
    BY <2>3, <2>4, <2>6 DEF ConfirmationsMeasured
  <2>. QED BY <2>4, <2>5, <2>7 DEF FixTypeOK
<1>4. ASSUME NEW r \in Pollers, JudgeFixes(r), v \notin verdicts[p] PROVE v.query \in fresh'[v.id]
  <2>1. /\ verdicts' = [verdicts EXCEPT ![r] =
             {[id |-> m[1], query |-> m[2], status |-> Judge(m[1], latest[m[2]]), raced |-> FALSE] :
                m \in {iq \in Investigations \X Queries : Measurable(iq[1], iq[2])}}]
        /\ UNCHANGED <<evidence, fresh>>
    BY <1>4 DEF JudgeFixes
  <2>2. PICK m \in Investigations \X Queries :
          /\ Measurable(m[1], m[2])
          /\ v = [id |-> m[1], query |-> m[2], status |-> Judge(m[1], latest[m[2]]), raced |-> FALSE]
    BY <1>0, <1>4, <2>1
  <2>. DEFINE i == m[1]
              q == m[2]
  <2>3. /\ i \in Investigations /\ q \in Queries /\ v.id = i /\ v.query = q
        /\ Measurable(i, q) /\ Judge(i, latest[q]) = "confirmed"
    BY <2>2
  <2>. HIDE DEF i, q
  <2>4. Improved(latest[q], inv[i].baseline)
    BY <2>3 DEF Judge
  <2>5. inv[i].baseline # NoInterval /\ latest[q] # NoInterval /\ q \in LinkedQueries(i)
    BY <2>3 DEF Measurable
  <2>6. latest[q] \in Nat \ {0}
    BY <2>3, <2>5, AlertAssumption DEF FixTypeOK, AlertTypeOK, NoInterval
  <2>7. latest[q] # inv[i].baseline
    BY <2>4, <2>6, SameIsNoImprovement
  <2>8. q \in fresh[i]
    BY <2>1, <2>3, <2>5, <2>7 DEF BaselinesAreLatest
  <2>. QED BY <2>1, <2>3, <2>8
<1>5. CASE \A r \in Pollers : verdicts'[r] \in {verdicts[r], {}}
  <2>1. v \in verdicts[p]
    BY <1>5
  <2>. QED BY <1>2, <1>3, <2>1
<1>6. ASSUME NEW r \in Pollers, Poll(r), ~JudgeFixes(r)
      PROVE  \A x \in Pollers : verdicts'[x] \in {verdicts[x], {}}
  BY <1>0, <1>6 DEF Poll, fixVars, Capture, CaptureBreaks, Reconcile, NothingToJudge, WriteVerdicts,
              PollBreaks
<1>7. ASSUME NEW c \in Clients,
             \/ \E a \in Alerts : OpenFromRegression(c, a)
             \/ \E j \in Investigations : ReadFix(c, j)
             \/ Create(c) \/ CreateForAlert(c) \/ LinkAlert(c) \/ UpdateFails(c)
      PROVE  UNCHANGED verdicts
  BY <1>7 DEF OpenFromRegression, ReadFix, Create, CreateForAlert, LinkAlert, UpdateFails
<1>8. ASSUME \/ \E j \in Investigations : GraceElapses(j)
             \/ UNCHANGED fixVars
      PROVE  UNCHANGED verdicts
  BY <1>8 DEF GraceElapses, fixVars
<1>9. CASE v \in verdicts[p]
  BY <1>2, <1>3, <1>9
<1>. QED BY <1>3, <1>4, <1>5, <1>6, <1>7, <1>8, <1>9 DEF Next, ClientStep, vars

LEMMA ConfirmedStep ==
  ASSUME FixSound, ConfirmationsMeasured, ConfirmedIsMeasured, [Next]_vars
  PROVE  ConfirmedIsMeasured'
<1>. USE DEF FixSound
<1>. SUFFICES ASSUME NEW i \in Investigations, inv'[i].fix = "confirmed"
              PROVE  evidence'[i] # "unmeasured"
  BY DEF ConfirmedIsMeasured
<1>0. /\ inv \in [Investigations -> Investigation] /\ evidence \in [Investigations -> Evidence]
      /\ verdicts \in [Pollers -> SUBSET Verdict]
  BY DEF FixTypeOK
<1>1. CASE inv'[i].fix = inv[i].fix /\ evidence'[i] = evidence[i]
  BY <1>1 DEF ConfirmedIsMeasured
<1>2. ASSUME NEW p \in Pollers, WriteVerdicts(p) PROVE evidence'[i] # "unmeasured"
  <2>. DEFINE Judged(j) == {v \in verdicts[p] : v.id = j}
              The(j) == CHOOSE v \in Judged(j) : TRUE
  <2>1. /\ inv'[i] = IF Judged(i) = {} THEN inv[i] ELSE [inv[i] EXCEPT !.fix = The(i).status]
        /\ evidence'[i] = IF Judged(i) = {} THEN evidence[i] ELSE EvidenceOf(The(i))
    BY <1>2 DEF WriteVerdicts
  <2>2. CASE Judged(i) = {}
    BY <1>1, <2>1, <2>2
  <2>3. CASE Judged(i) # {}
    <3>1. The(i) \in verdicts[p] /\ The(i).id = i
      BY <2>3
    <3>. HIDE DEF Judged, The
    <3>2. The(i).status = "confirmed"
      BY <1>0, <2>1, <2>3 DEF Investigation
    <3>3. evidence[i] = "unlinked" \/ The(i).raced \/ The(i).query \in fresh[i]
      BY <3>1, <3>2 DEF ConfirmationsMeasured
    <3>4. EvidenceOf(The(i)) # "unmeasured"
      BY <3>1, <3>2, <3>3 DEF EvidenceOf
    <3>. QED BY <2>1, <2>3, <3>4
  <2>. QED BY <2>2, <2>3
<1>3. ASSUME NEW c \in Clients, WriteFix(c) PROVE evidence'[i] # "unmeasured"
  <2>1. CASE i = client[c].id
    BY <1>0, <1>3, <2>1 DEF WriteFix
  <2>2. CASE i # client[c].id
    <3>1. \E r : inv' = [inv EXCEPT ![client[c].id] = r]
      BY <1>0, <1>3 DEF WriteFix
    <3>2. evidence'[i] = evidence[i]
      BY <1>0, <1>3, <2>2 DEF WriteFix
    <3>. QED BY <1>0, <1>1, <2>2, <3>1, <3>2
  <2>. QED BY <2>1, <2>2
<1>4. ASSUME NEW M, InsertInvestigation(M), UNCHANGED evidence PROVE evidence'[i] # "unmeasured"
  <2>1. PICK m \in M : inv' = [inv EXCEPT ![FreshId] = [NoInvestigation EXCEPT !.used = TRUE, !.stat = m]]
    BY <1>4 DEF InsertInvestigation
  <2>2. i # FreshId
    BY <1>0, <2>1 DEF NoInvestigation
  <2>. QED BY <1>0, <1>1, <1>4, <2>1, <2>2
<1>5. ASSUME NEW c \in Clients,
             \/ \E a \in Alerts : OpenFromRegression(c, a)
             \/ \E j \in Investigations : ReadFix(c, j)
             \/ Create(c) \/ CreateForAlert(c) \/ LinkAlert(c) \/ UpdateFails(c)
      PROVE  evidence'[i] # "unmeasured"
  BY <1>1, <1>4, <1>5 DEF OpenFromRegression, ReadFix, Create, CreateForAlert, LinkAlert, UpdateFails
<1>6. ASSUME NEW j \in Investigations, GraceElapses(j) PROVE evidence'[i] # "unmeasured"
  <2>1. inv' = [inv EXCEPT ![j] = [inv[j] EXCEPT !.overdue = TRUE]] /\ UNCHANGED evidence
    BY <1>6 DEF GraceElapses
  <2>. QED BY <1>0, <1>1, <2>1 DEF Investigation
<1>7. ASSUME NEW p \in Pollers, Poll(p) PROVE evidence'[i] # "unmeasured"
  BY <1>1, <1>2, <1>7 DEF Poll, fixVars, Capture, CaptureBreaks, Reconcile, JudgeFixes, NothingToJudge,
                          PollBreaks
<1>8. CASE UNCHANGED fixVars
  BY <1>1, <1>8 DEF fixVars
<1>. QED BY <1>3, <1>5, <1>6, <1>7, <1>8 DEF Next, ClientStep, vars

\* reconcileAppliedFixes confirms a fix that was applied on a linked alert only on an
\* interval captured since: before that the latest interval of its query is the
\* baseline UpdateFix took, and no mean is 20% below itself.
THEOREM ConfirmedIsMeasuredHolds == Spec => []ConfirmedIsMeasured
<1>1. Init => MeasureInv
  BY DEF Init, FixInit, MeasureInv, OneAlertEach, BaselinesAreLatest, ConfirmationsMeasured,
         ConfirmedIsMeasured, NoInvestigation, Resting
<1>2. /\ FixTypeOK /\ LinksInUse /\ AlertsInUse /\ MeasureInv /\ [Next]_vars
      => MeasureInv'
  BY OneAlertStep, BaselinesStep, ConfirmationsStep, ConfirmedStep DEF MeasureInv, FixSound
<1>3. MeasureInv => ConfirmedIsMeasured
  BY DEF MeasureInv
<1>. QED BY <1>1, <1>2, <1>3, FixTypeCorrect, FixLoopRunsAlerts, InUseAlways, PTL DEF Spec
=============================================================================
