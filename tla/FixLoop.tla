-------------------------------- MODULE FixLoop --------------------------------
(***************************************************************************)
(* The life of a fix: an investigation opened from a regression alert, its *)
(* fix moved by its users (UpdateFix) and judged by the regression poller, *)
(* which measures an applied fix against the mean latency its query had    *)
(* when it was applied (reconcileAppliedFixes).                            *)
(*                                                                         *)
(* UpdateFix reads, checks and writes in separate statements.  The poller  *)
(* judges and writes in one statement, but under READ COMMITTED a row that *)
(* a concurrent update has locked is written with the verdict reached on   *)
(* its old version: judging and writing are two steps here.                *)
(***************************************************************************)
EXTENDS RegressionAlerts

CONSTANTS
  Investigations,  \* ids: bounds the investigations created
  Clients,         \* request handlers
  MaxOps           \* bound on API operations

ASSUME FixAssumption ==
  /\ MaxOps \in Nat
  /\ None \notin Investigations

VARIABLES
  inv,       \* app.investigations, the fix columns
  link,      \* regression_alerts.investigation_id
  client,    \* per handler, the operation in progress
  verdicts,  \* per replica, the verdicts it has still to write
  fresh,     \* history: queries measured since the fix was last applied
  evidence,  \* history: what the poller's verdict rests on
  ops        \* API operations so far

fixVars == <<inv, link, client, verdicts, fresh, evidence, ops>>
vars == <<alertVars, fixVars>>

FixStatuses == {"proposed", "verified", "applied", "confirmed", "regressed", "abandoned"}
Mean == Means \cup {NoInterval}
Investigation == [used : BOOLEAN, fix : FixStatuses,
                  baseline : Mean,     \* fix_baseline_mean_ms
                  stat : Mean,         \* mean_time_ms of the stat snapshot
                  overdue : BOOLEAN]   \* fixRegressGraceHours have passed since it was applied
Verdict == [id : Investigations, query : Queries, status : FixStatuses, raced : BOOLEAN]
Client == [step : {"idle", "create", "link", "update"}, alert : Alerts \cup {None},
           id : Investigations \cup {None}, from : FixStatuses, to : FixStatuses]
Evidence == {"none", "unlinked", "measured", "unmeasured", "raced"}

NoInvestigation == [used |-> FALSE, fix |-> "proposed", baseline |-> NoInterval,
                    stat |-> NoInterval, overdue |-> FALSE]
Resting == [step |-> "idle", alert |-> None, id |-> None, from |-> "proposed", to |-> "proposed"]

FixInit ==
  /\ inv = [i \in Investigations |-> NoInvestigation]
  /\ link = [a \in Alerts |-> None]
  /\ client = [c \in Clients |-> Resting]
  /\ verdicts = [p \in Pollers |-> {}]
  /\ fresh = [i \in Investigations |-> {}]
  /\ evidence = [i \in Investigations |-> "none"]
  /\ ops = 0

Init == AlertInit /\ FixInit

-----------------------------------------------------------------------------
(* Creating investigations.                                                *)

Operation == ops < MaxOps /\ ops' = ops + 1
Rests(c) == client' = [client EXCEPT ![c] = Resting]

\* CreateFromRegression reads the alert; one that has an investigation gets that.
OpenFromRegression(c, a) ==
  /\ Operation
  /\ client[c] = Resting
  /\ alert[a].used /\ link[a] = None
  /\ client' = [client EXCEPT ![c].step = "create", ![c].alert = a]
  /\ UNCHANGED <<alertVars, inv, link, verdicts, fresh, evidence>>

UnusedIds == {i \in Investigations : ~inv[i].used}
FreshId == CHOOSE i \in UnusedIds : TRUE

\* A row with a fresh id, and the latency of the alert or the statement as it was.
InsertInvestigation(M) ==
  /\ UnusedIds # {}
  /\ \E m \in M :
       inv' = [inv EXCEPT ![FreshId] = [NoInvestigation EXCEPT !.used = TRUE, !.stat = m]]

\* Create, after its EXPLAIN, which may be refused: the request then ends.
CreateForAlert(c) ==
  /\ client[c].step = "create"
  /\ \/ /\ InsertInvestigation(Means)
        /\ client' = [client EXCEPT ![c].step = "link", ![c].id = FreshId]
     \/ Rests(c) /\ UNCHANGED inv
  /\ UNCHANGED <<alertVars, link, verdicts, fresh, evidence, ops>>

\* Create by itself: an investigation of any statement, linked to no alert.
Create(c) ==
  /\ Operation
  /\ client[c] = Resting
  /\ InsertInvestigation(Mean)
  /\ UNCHANGED <<alertVars, link, client, verdicts, fresh, evidence>>

\* Mutant: the link is set whatever it was.
UnlinkedNotCompared(a) == TRUE

Unlinked(a) == link[a] = None

\* UPDATE ... WHERE investigation_id IS NULL; an error is ignored.
LinkAlert(c) ==
  LET a == client[c].alert
  IN  /\ client[c].step = "link"
      /\ link' \in {link, IF Unlinked(a) THEN [link EXCEPT ![a] = client[c].id] ELSE link}
      /\ Rests(c)
      /\ UNCHANGED <<alertVars, inv, verdicts, fresh, evidence, ops>>

-----------------------------------------------------------------------------
(* The users move a fix.                                                   *)

fixTransitions ==
  [proposed  |-> {"verified", "applied", "abandoned"},
   verified  |-> {"applied", "proposed", "abandoned"},
   applied   |-> {"confirmed", "regressed", "verified", "abandoned"},
   regressed |-> {"applied", "abandoned"},
   confirmed |-> {"applied"},
   abandoned |-> {"proposed"}]

FixTransitionAllowed(from, to) == to \in fixTransitions[from]

\* UpdateFix reads the investigation and checks the transition; a request without
\* a status keeps the one it has read.
ReadFix(c, i) ==
  /\ Operation
  /\ client[c] = Resting
  /\ inv[i].used
  /\ \E to \in FixStatuses :
       /\ to = inv[i].fix \/ FixTransitionAllowed(inv[i].fix, to)
       /\ client' = [client EXCEPT ![c] = [step |-> "update", alert |-> None, id |-> i,
                                           from |-> inv[i].fix, to |-> to]]
  /\ UNCHANGED <<alertVars, inv, link, verdicts, fresh, evidence>>

LinkedAlerts(i) == {a \in Alerts : link[a] = i}
LinkedQueries(i) == {alert[a].query : a \in LinkedAlerts(i)}

\* Mutant: the snapshot of the alert comes first.
BaselineOfStat(i) ==
  IF inv[i].stat # NoInterval THEN {inv[i].stat}
  ELSE {latest[q] : q \in LinkedQueries(i)} \cup {NoInterval}

\* COALESCE(latest interval of the linked query, stat snapshot, old baseline).
Baseline(i) ==
  LET measured == {latest[q] : q \in LinkedQueries(i)} \ {NoInterval}
  IN  IF measured # {} THEN measured
      ELSE IF inv[i].stat # NoInterval THEN {inv[i].stat} ELSE {inv[i].baseline}

\* The UPDATE compares nothing with what was read.  Marking a fix applied takes
\* the latency its query has now as the baseline of the later verdict.
WriteFix(c) ==
  LET i == client[c].id
      to == client[c].to
      setApplied == to = "applied" /\ client[c].from # "applied"
  IN  /\ client[c].step = "update"
      /\ \E baseline \in IF setApplied THEN Baseline(i) ELSE {inv[i].baseline} :
           inv' = [inv EXCEPT ![i].fix = to, ![i].baseline = baseline,
                              ![i].overdue = IF setApplied THEN FALSE ELSE @]
      /\ fresh' = IF setApplied THEN [fresh EXCEPT ![i] = {}] ELSE fresh
      /\ evidence' = [evidence EXCEPT ![i] =
                        IF setApplied THEN (IF LinkedAlerts(i) = {} THEN "unlinked" ELSE "none")
                        ELSE IF @ = "unlinked" THEN @ ELSE "none"]
      /\ verdicts' = [p \in Pollers |->
                        {[v EXCEPT !.raced = @ \/ v.id = i] : v \in verdicts[p]}]
      /\ Rests(c)
      /\ UNCHANGED <<alertVars, link, ops>>

UpdateFails(c) ==
  /\ client[c].step = "update"
  /\ Rests(c)
  /\ UNCHANGED <<alertVars, inv, link, verdicts, fresh, evidence, ops>>

-----------------------------------------------------------------------------
(* The poller judges applied fixes at the end of a cycle.                  *)

\* Mutant: the drop is taken for what may remain.
ImprovedToFraction(mean, baseline) == 100 * mean <= 20 * baseline

\* fixConfirmDropPct below the baseline.
Improved(mean, baseline) == 100 * mean <= 80 * baseline
Unimproved(mean, baseline) == 100 * mean >= 95 * baseline

Judge(i, mean) ==
  IF Improved(mean, inv[i].baseline) THEN "confirmed"
  ELSE IF inv[i].overdue /\ Unimproved(mean, inv[i].baseline) THEN "regressed"
  ELSE "applied"

\* The applied fixes with a baseline whose linked query has a latest interval.
Measurable(i, q) ==
  /\ inv[i].used /\ inv[i].fix = "applied" /\ inv[i].baseline # NoInterval
  /\ q \in LinkedQueries(i) /\ latest[q] # NoInterval

JudgeFixes(p) ==
  /\ At(p, "reconcile")
  /\ verdicts[p] = {}
  /\ \E i \in Investigations, q \in Queries : Measurable(i, q)
  /\ verdicts' = [verdicts EXCEPT ![p] =
       {[id |-> m[1], query |-> m[2], status |-> Judge(m[1], latest[m[2]]), raced |-> FALSE] :
          m \in {iq \in Investigations \X Queries : Measurable(iq[1], iq[2])}}]
  /\ UNCHANGED <<alertVars, inv, link, client, fresh, evidence, ops>>

NothingToJudge(p) ==
  /\ verdicts[p] = {}
  /\ ~\E i \in Investigations, q \in Queries : Measurable(i, q)
  /\ EndPoll(p)
  /\ UNCHANGED fixVars

\* What a confirming or regressing verdict rests on when it is written.
EvidenceOf(v) ==
  IF v.status = "applied" \/ evidence[v.id] = "unlinked" THEN evidence[v.id]
  ELSE IF v.raced THEN "raced"
  ELSE IF v.query \in fresh[v.id] THEN "measured" ELSE "unmeasured"

\* An investigation is linked to one alert, so it has at most one verdict.  The
\* status is written whatever the row's status has become.
WriteVerdicts(p) ==
  LET Judged(i) == {v \in verdicts[p] : v.id = i}
      The(i) == CHOOSE v \in Judged(i) : TRUE
  IN  /\ verdicts[p] # {}
      /\ inv' = [i \in Investigations |->
                   IF Judged(i) = {} THEN inv[i] ELSE [inv[i] EXCEPT !.fix = The(i).status]]
      /\ evidence' = [i \in Investigations |->
                        IF Judged(i) = {} THEN evidence[i] ELSE EvidenceOf(The(i))]
      /\ verdicts' = [verdicts EXCEPT ![p] = {}]
      /\ EndPoll(p)
      /\ UNCHANGED <<link, client, fresh, ops>>

Reconcile(p) == JudgeFixes(p) \/ NothingToJudge(p) \/ WriteVerdicts(p)

-----------------------------------------------------------------------------

\* The queries in S are captured: their intervals are fresh for every fix.
Capture(p, S) ==
  /\ CaptureSnapshots(p, S)
  /\ fresh' = [i \in Investigations |-> fresh[i] \cup S]
  /\ UNCHANGED <<inv, link, client, verdicts, evidence, ops>>

CaptureBreaks(p, S) ==
  /\ CaptureFails(p, S)
  /\ fresh' = [i \in Investigations |-> fresh[i] \cup S]
  /\ UNCHANGED <<inv, link, client, verdicts, evidence, ops>>

\* A cycle that fails takes the verdicts it has not written with it.
PollBreaks(p) ==
  /\ PollFails(p)
  /\ verdicts' = [verdicts EXCEPT ![p] = {}]
  /\ UNCHANGED <<inv, link, client, fresh, evidence, ops>>

\* fixRegressGraceHours pass since the fix was applied.
GraceElapses(i) ==
  /\ inv[i].used /\ inv[i].fix = "applied" /\ ~inv[i].overdue
  /\ inv' = [inv EXCEPT ![i].overdue = TRUE]
  /\ UNCHANGED <<alertVars, link, client, verdicts, fresh, evidence, ops>>

ClientStep(c) == CreateForAlert(c) \/ LinkAlert(c) \/ WriteFix(c) \/ UpdateFails(c)

Poll(p) ==
  \/ (\E c \in Connections : StartPoll(p, c)) /\ UNCHANGED fixVars
  \/ (CaptureNothing(p) \/ PollStep(p) \/ LoseLock(p)) /\ UNCHANGED fixVars
  \/ \E S \in SUBSET Queries : Capture(p, S) \/ CaptureBreaks(p, S)
  \/ Reconcile(p) \/ PollBreaks(p)

Next ==
  \/ \E p \in Pollers : Poll(p)
  \/ \E c \in Clients :
       \/ \E a \in Alerts : OpenFromRegression(c, a)
       \/ \E i \in Investigations : ReadFix(c, i)
       \/ Create(c) \/ ClientStep(c)
  \/ \E i \in Investigations : GraceElapses(i)
  \/ (\E a \in Alerts : AcknowledgeRegression(a)) /\ UNCHANGED fixVars
  \/ (\E q \in Queries : CleanupOldPolls(q)) /\ UNCHANGED fixVars

Spec == Init /\ [][Next]_vars

\* The tickers keep starting cycles and a cycle goes on statement by statement;
\* the statistics of a connection in use are not empty for ever.  Users, faults
\* and the clean-up are never fair.
Fairness ==
  \A p \in Pollers :
    /\ WF_vars((\E c \in Connections : StartPoll(p, c)) /\ UNCHANGED fixVars)
    /\ SF_vars(\E S \in SUBSET Queries : Capture(p, S))
    /\ WF_vars(PollStep(p) /\ UNCHANGED fixVars)
    /\ WF_vars(Reconcile(p))

FairSpec == Spec /\ Fairness
-----------------------------------------------------------------------------
(* Properties.                                                             *)

\* Types of the investigations, the handlers and the verdicts, with the alerts'.
FixTypeOK ==
  /\ AlertTypeOK
  /\ inv \in [Investigations -> Investigation]
  /\ link \in [Alerts -> Investigations \cup {None}]
  /\ client \in [Clients -> Client]
  /\ verdicts \in [Pollers -> SUBSET Verdict]
  /\ fresh \in [Investigations -> SUBSET Queries]
  /\ evidence \in [Investigations -> Evidence]
  /\ ops \in 0..MaxOps

\* An alert keeps its investigation: of two requests that open one each from the
\* same alert, the second does not take the alert away from the first.
LinkIsFinal ==
  [][\A a \in Alerts : link[a] # None => link'[a] = link[a]]_vars

\* The poller confirms a fix only on an interval captured after the fix was
\* applied: a fix applied on a linked alert is never confirmed on the traffic
\* before it, unless an update raced the verdict.
ConfirmedIsMeasured ==
  \A i \in Investigations : inv[i].fix = "confirmed" => evidence[i] # "unmeasured"

\* The same of a fix that is declared regressed.
RegressedIsMeasured ==
  \A i \in Investigations : inv[i].fix = "regressed" => evidence[i] # "unmeasured"

\* A fifth of the baseline or more is gone.
Dropped(mean, baseline) == mean # NoInterval /\ 5 * mean + baseline <= 5 * baseline

\* The loop is closed: a fix that stays applied while the latest interval of its
\* linked query is always a fifth below its baseline is confirmed in the end.
ImprovementIsConfirmed ==
  \A i \in Investigations :
    LET improved == \E q \in Queries : Measurable(i, q) /\ Dropped(latest[q], inv[i].baseline)
    IN  improved ~> ~improved
=============================================================================
