------------------------ MODULE ScheduleRunner_proofs ------------------------
(***************************************************************************)
(* Proofs about the schedule runner and the outbox it delivers through,    *)
(* for every set of schedules, runs, workers, clients and sweepers and     *)
(* every limit: what is proved of the outbox alone holds under the runner, *)
(* a slot has one run, a run one report that one executor generates, a     *)
(* completed run its delivery.                                             *)
(***************************************************************************)
EXTENDS ScheduleRunner, WebhookOutbox_proofs, FiniteSetTheorems

USE RunnerAssumption, OutboxAssumption

-----------------------------------------------------------------------------
(* What is in use.                                                         *)

\* Runs that exist know their schedule.
RunsInUse == \A r \in Runs : run[r].status # "free" <=> run[r].schedule # Nobody

\* A run has what its completion promises.
HasDelivery(r) ==
  /\ report[r] # NoReport
  /\ run[r].schedule \in WebhookSchedules => row[r].status # "absent"

\* What an executor works on exists, and what it goes on with is stored: its
\* report when it delivers, a row when it attempts, both when it does not end
\* with a failure.
ExecOK(w) ==
  /\ At(w, "idle") => ~exec[w].beat
  /\ ~At(w, "idle") => RunOf(w) \in Runs /\ run[RunOf(w)].status # "free"
  /\ \A r \in todo[w] : run[r].status # "free"
  /\ At(w, "deliver") => exec[w].report = report[RunOf(w)] /\ report[RunOf(w)] # NoReport
  /\ exec[w].step \in {"attempt", "post", "settle"} =>
       report[RunOf(w)] # NoReport /\ row[RunOf(w)].status # "absent"
  /\ exec[w].step \in {"advance", "finish"} => exec[w].result = "failed" \/ HasDelivery(RunOf(w))

ClaimsInUse == \A p \in Senders : \A c \in claims[p] : row[c.delivery].status # "absent"
SettleInUse == \A p \in Sweepers : \A f \in settle[p] : row[f.run].status # "absent"

RunnerTables ==
  /\ sched \in [Schedules -> Schedule]
  /\ run \in [Runs -> RunRecord]
  /\ report \in [Runs -> Executors \cup {NoReport}]
  /\ payload \in [Runs -> Executors \cup {NoReport}]
  /\ todo \in [Executors -> SUBSET Runs]
  /\ exec \in [Executors -> Execution]
  /\ settle \in [Sweepers -> SUBSET [run : Runs, delivery : Terminal]]
  /\ ops \in 0..MaxOps

RunnerInv ==
  /\ RunnerTables
  /\ OwnershipInv
  /\ RunsInUse
  /\ \A w \in Executors : ExecOK(w)
  /\ ClaimsInUse
  /\ SettleInUse
  /\ PayloadIsStoredReport
  /\ CompletedHasDelivery

-----------------------------------------------------------------------------
(* The runner and the outbox.                                              *)

\* A failing statement, or a crash that loses no claim.
Disrupted == QueryFails /\ UNCHANGED OutboxExceptDisruptions

\* A report that is delivered is enqueued, or the outbox is left alone.
LEMMA DeliverOutbox ==
  ASSUME NEW w \in Executors, DeliverReport(w)
  PROVE  \/ UNCHANGED <<outboxVars, payload>>
         \/ Disrupted /\ payload' = payload
         \/ /\ EnqueueWebhookDelivery(RunOf(w))
            /\ payload' = IF row[RunOf(w)].status \in {"absent", "pending"}
                          THEN [payload EXCEPT ![RunOf(w)] = exec[w].report] ELSE payload
  BY DEF DeliverReport, Disrupted, OutboxExceptDisruptions, outboxVars

LEMMA ClaimsLost ==
  ASSUME OwnershipInv, NEW p \in Senders, LoseClaims(p)
  PROVE  CrashSender(p) \/ Disrupted
<1>1. CASE claims[p] # {}
  BY <1>1 DEF LoseClaims, QueryFails, CrashSender
<1>2. CASE claims[p] = {}
  <2>1. ~answer[p].sent
    BY <1>2 DEF OwnershipInv, AnswerIsClaimed
  <2>2. answer[p] = NoAnswer
    BY <2>1 DEF OwnershipInv, OutboxTypeOK, Answer
  <2>3. claims' = claims /\ answer' = answer
    BY <1>2, <2>2 DEF LoseClaims, OwnershipInv, OutboxTypeOK
  <2>. QED BY <2>3 DEF LoseClaims, Disrupted, OutboxExceptDisruptions, QueryFails
<1>. QED BY <1>1, <1>2

\* The operations of the outbox but the one that makes a row.
OutboxSends ==
  \/ \E d \in Deliveries : LeaseExpires(d) \/ LeaseExpiresEarly(d) \/ BackoffElapses(d)
  \/ ReclaimStuckOutboxLeases
  \/ \E p \in Senders :
       \/ \E d \in Deliveries : AttemptOutboxDelivery(p, d)
       \/ SweepClaim(p)
       \/ SenderStep(p)
       \/ LoseRecord(p)
       \/ CrashSender(p)

\* Every step of the runner delivers a report, or is one of the outbox that
\* makes no row, or leaves the outbox alone.
LEMMA RunnerMovesOutbox ==
  ASSUME RunnerInv, [Next]_vars
  PROVE  [OutboxSends]_outboxVars \/ Disrupted \/ \E w \in Executors : DeliverReport(w)
<1>. DEFINE Moves == [OutboxSends]_outboxVars \/ Disrupted \/ \E w \in Executors : DeliverReport(w)
<1>0. /\ Executors \subseteq Senders /\ Sweepers \subseteq Senders /\ OwnershipInv
      /\ \A w \in Executors : ~At(w, "idle") => RunOf(w) \in Deliveries
  BY DEF RunnerInv, ExecOK, Executors, Runs
<1>1. CASE UNCHANGED vars
  BY <1>1 DEF vars
<1>2. ASSUME NEW w \in Workers, ClaimDueSchedules(w) \/ RecoverExpiredScheduleLeases(w)
      PROVE  Moves
  BY <1>2 DEF ClaimDueSchedules, RecoverExpiredScheduleLeases
<1>3. ASSUME NEW w \in Executors, ExecutionStep(w) PROVE Moves
  <2>1. CASE Begin(w) \/ ReuseReport(w) \/ ReportFails(w) \/ StoreReport(w) \/ SettleInline(w)
    BY <2>1 DEF Begin, ReuseReport, ReportFails, StoreReport, SettleInline
  <2>2. CASE LockSchedule(w) \/ ResolveScheduleOwner(w) \/ DisableSchedule(w) \/ LoadSchedule(w)
    BY <2>2 DEF LockSchedule, ResolveScheduleOwner, DisableSchedule, LoadSchedule, Disrupted
  <2>3. CASE AdvanceSchedule(w) \/ FinishScheduleRun(w)
    BY <2>3 DEF AdvanceSchedule, FinishScheduleRun, Disrupted
  <2>4. CASE DeliverReport(w)
    BY <2>4
  <2>5. CASE AttemptInline(w)
    <3>1. RunOf(w) \in Deliveries
      BY <1>0, <2>5 DEF AttemptInline, At
    <3>. QED BY <1>0, <2>5, <3>1 DEF AttemptInline, OutboxSends, Disrupted
  <2>6. CASE PostInline(w)
    BY <1>0, <2>6 DEF PostInline, OutboxSends, SenderStep
  <2>7. CASE RecordInline(w)
    BY <1>0, <2>7 DEF RecordInline, OutboxSends, SenderStep
  <2>. QED BY <1>3, <2>1, <2>2, <2>3, <2>4, <2>5, <2>6, <2>7 DEF ExecutionStep
<1>4. ASSUME NEW w \in Executors, RenewRunLease(w) \/ RenewScheduleLock(w) PROVE Moves
  BY <1>4 DEF RenewRunLease, RenewScheduleLock
<1>5. ASSUME NEW w \in Executors, CrashExecutor(w) PROVE Moves
  BY <1>0, <1>5, ClaimsLost DEF CrashExecutor, OutboxSends
<1>6. ASSUME NEW p \in Sweepers, SweepOutbox(p) \/ SweepStep(p) PROVE Moves
  <2>1. CASE SweepOutbox(p)
    BY <1>0, <2>1 DEF SweepOutbox, OutboxSends
  <2>2. CASE SweepPost(p)
    BY <1>0, <2>2 DEF SweepPost, OutboxSends, SenderStep
  <2>3. CASE SweepRecord(p)
    BY <1>0, <2>3 DEF SweepRecord, OutboxSends, SenderStep
  <2>4. CASE SweepSettle(p)
    BY <2>4 DEF SweepSettle, Disrupted
  <2>. QED BY <1>6, <2>1, <2>2, <2>3, <2>4 DEF SweepStep
<1>7. ASSUME NEW p \in Sweepers, CrashSweeper(p) PROVE Moves
  BY <1>0, <1>7, ClaimsLost DEF CrashSweeper, OutboxSends
<1>8. CASE Reclaim \/ OutboxTime
  BY <1>8 DEF Reclaim, OutboxTime, OutboxSends
<1>9. CASE ApiNext
  BY <1>9 DEF ApiNext, RunNow, RetryRun, Update, Delete, Revoke
<1>10. ASSUME NEW s \in Schedules, BecomesDue(s) \/ LockExpires(s) PROVE Moves
  BY <1>10 DEF BecomesDue, LockExpires
<1>11. ASSUME NEW r \in Runs, RunLeaseExpires(r) PROVE Moves
  BY <1>11 DEF RunLeaseExpires
<1>. QED BY <1>1, <1>2, <1>3, <1>4, <1>5, <1>6, <1>7, <1>8, <1>9, <1>10, <1>11 DEF Next

\* A disruption alone disturbs nothing of the outbox.
LEMMA OutboxUndisturbed ==
  ASSUME RunnerInv, Disrupted
  PROVE  OutboxTypeOK' /\ OwnershipInv'
<1>1. OutboxTypeOK'
  BY DEF RunnerInv, OwnershipInv, OutboxTypeOK, Disrupted, QueryFails, OutboxExceptDisruptions
<1>. QED BY <1>1, CountingPreserved DEF RunnerInv, Disrupted, OutboxExceptDisruptions

LEMMA OutboxKept ==
  ASSUME RunnerInv, [Next]_vars
  PROVE  OutboxTypeOK' /\ OwnershipInv'
<1>1. ASSUME [OutboxNext]_outboxVars PROVE OutboxTypeOK' /\ OwnershipInv'
  BY <1>1, OutboxTypeStep, OwnershipStep DEF RunnerInv, OwnershipInv
<1>2. CASE [OutboxSends]_outboxVars
  BY <1>1, <1>2 DEF OutboxSends, OutboxNext
<1>3. ASSUME NEW w \in Executors, DeliverReport(w) PROVE OutboxTypeOK' /\ OwnershipInv'
  <2>1. RunOf(w) \in Deliveries
    BY <1>3 DEF RunnerInv, ExecOK, DeliverReport, At, Runs
  <2>2. [OutboxNext]_outboxVars \/ Disrupted
    BY <1>3, <2>1, DeliverOutbox DEF OutboxNext
  <2>. QED BY <1>1, <2>2, OutboxUndisturbed
<1>. QED BY <1>2, <1>3, RunnerMovesOutbox, OutboxUndisturbed

\* Rows are never removed, and only a report that is delivered makes one.
LEMMA SendsMakeNoRow ==
  ASSUME OwnershipInv, ClaimsInUse, [OutboxSends]_outboxVars \/ Disrupted
  PROVE  /\ \A d \in Deliveries : row'[d].status = "absent" <=> row[d].status = "absent"
         /\ ClaimsInUse'
<1>0. OutboxTypeOK /\ \A p \in Senders : \A c \in claims[p] : c \in Claim /\ c.delivery \in Deliveries
  BY DEF OwnershipInv, OutboxTypeOK, Claim
<1>. DEFINE Rows == \A d \in Deliveries : row'[d].status = "absent" <=> row[d].status = "absent"
<1>1. ASSUME Rows, \A p \in Senders : claims'[p] \subseteq claims[p] PROVE ClaimsInUse'
  BY <1>0, <1>1 DEF ClaimsInUse
<1>2. ASSUME UNCHANGED <<row, claims>> PROVE Rows /\ ClaimsInUse'
  BY <1>1, <1>2
<1>3. ASSUME NEW d \in Deliveries, LeaseExpires(d) \/ LeaseExpiresEarly(d) \/ BackoffElapses(d)
      PROVE  Rows /\ ClaimsInUse'
  <2>0. row \in [Deliveries -> Row] /\ claims' = claims
    BY <1>0, <1>3 DEF LeaseExpires, LeaseExpiresEarly, BackoffElapses, OutboxTypeOK
  <2>1. Rows /\ claims' = claims
    BY <1>3, <2>0 DEF LeaseExpires, LeaseExpiresEarly, BackoffElapses, Row
  <2>. QED BY <1>1, <2>1
<1>4. CASE ReclaimStuckOutboxLeases
  <2>1. Rows /\ claims' = claims
    BY <1>0, <1>4 DEF ReclaimStuckOutboxLeases, Stuck, Reclaimed, OutboxTypeOK, Row
  <2>. QED BY <1>1, <2>1
<1>5. ASSUME NEW p \in Senders, NEW S \in SUBSET Deliveries, ClaimRows(p, S)
      PROVE  Rows /\ ClaimsInUse'
  <2>1. /\ \A d \in S : row[d].status = "pending" /\ row'[d].status = "delivering"
        /\ \A d \in Deliveries \ S : row'[d] = row[d]
    BY <1>0, <1>5 DEF ClaimRows, Eligible, Claimed, OutboxTypeOK
  <2>2. Rows
    BY <2>1
  <2>3. \A q \in Senders : \A c \in claims'[q] : c \in claims[q] \/ c.delivery \in S
    BY <1>0, <1>5 DEF ClaimRows, OutboxTypeOK
  <2>. QED BY <1>0, <2>1, <2>2, <2>3 DEF ClaimsInUse
<1>6. ASSUME NEW p \in Senders, NEW c \in claims[p], AttemptOutboxHTTP(p, c)
      PROVE  Rows /\ ClaimsInUse'
  BY <1>2, <1>6 DEF AttemptOutboxHTTP
<1>7. ASSUME NEW p \in Senders, RecordAttempt(p)
      PROVE  Rows /\ ClaimsInUse'
  <2>1. answer[p].sent
    BY <1>7 DEF RecordAttempt
  <2>2. /\ answer[p].claim \in claims[p] /\ answer[p].claim.delivery \in Deliveries
        /\ row[answer[p].claim.delivery].status # "absent"
    BY <1>0, <2>1 DEF OwnershipInv, AnswerIsClaimed, ClaimsInUse
  <2>3. FinalStatus(p) # "absent"
    BY <1>0, <2>1, SentAnswerTyped DEF Terminal
  <2>4. Rows
    <3>. DEFINE d == answer[p].claim.delivery
    <3>1. /\ row \in [Deliveries -> Row] /\ row[d] \in Row
          /\ row' = [row EXCEPT ![d].status = FinalStatus(p), ![d].lease = "none",
                                ![d].due = FinalStatus(p) \in Terminal]
      BY <1>0, <1>7, <2>2 DEF RecordAttempt, OutboxTypeOK
    <3>. HIDE DEF d
    <3>2. row'[d].status = FinalStatus(p) /\ \A e \in Deliveries : e # d => row'[e] = row[e]
      BY <2>2, <3>1 DEF Row, d
    <3>. QED BY <2>2, <2>3, <3>2 DEF d
  <2>5. \A q \in Senders : claims'[q] \subseteq claims[q]
    BY <1>0, <1>7 DEF RecordAttempt, DropClaim, OutboxTypeOK
  <2>. QED BY <1>1, <2>4, <2>5
<1>8. ASSUME NEW p \in Senders, LoseRecord(p) \/ CrashSender(p)
      PROVE  Rows /\ ClaimsInUse'
  <2>1. \A q \in Senders : claims'[q] \subseteq claims[q]
    BY <1>0, <1>8 DEF LoseRecord, CrashSender, DropClaim, OutboxTypeOK
  <2>. QED BY <1>1, <1>8, <2>1 DEF LoseRecord, CrashSender
<1>9. CASE UNCHANGED outboxVars \/ Disrupted
  BY <1>2, <1>9 DEF outboxVars, Disrupted, OutboxExceptDisruptions
<1>. QED BY <1>3, <1>4, <1>5, <1>6, <1>7, <1>8, <1>9
         DEF OutboxSends, AttemptOutboxDelivery, SweepClaim, SenderStep

-----------------------------------------------------------------------------
(* What a step of the runner may do to its tables.                         *)

\* A run that is neither new nor claimed again.
Same(r) ==
  /\ run'[r].schedule = run[r].schedule /\ run'[r].slot = run[r].slot
  /\ run'[r].attempts = run[r].attempts
  /\ run'[r].status = "free" <=> run[r].status = "free"
  /\ run'[r].status = "running" => run[r].status = "running"

\* A run that is claimed for the first time.
Fresh(r) ==
  /\ run[r].status = "free"
  /\ run'[r].status = "running" /\ run'[r].schedule \in Schedules

\* A run that is claimed again, or given up.
Again(r) ==
  /\ run'[r].schedule = run[r].schedule /\ run'[r].slot = run[r].slot
  /\ run[r].status # "free" /\ run'[r].status \in {"running", "dead_letter"}

ClaimStep ==
  \/ \E w \in Workers : ClaimDueSchedules(w) \/ RecoverExpiredScheduleLeases(w)
  \/ \E c \in Clients : (\E s \in Schedules : RunNow(c, s)) \/ \E r \in Runs : RetryRun(c, r)

RunsMove == \A r \in Runs : Same(r) \/ Fresh(r) \/ Again(r)
RunsKept ==
  /\ \A r \in Runs : run'[r].status = "completed" => run[r].status = "completed" \/ HasDelivery(r)
  /\ RunsMove
  /\ (\A r \in Runs : Same(r)) \/ ClaimStep

ReportsKept == \A r \in Runs : report[r] # NoReport => report'[r] = report[r]

ExecsMove == \A w \in Executors : (exec'[w] = exec[w] /\ todo'[w] \subseteq todo[w]) \/ ExecOK(w)'

SettlesMove == \A p \in Sweepers : \A f \in settle'[p] : f \in settle[p] \/ row[f.run].status # "absent"

StepOK ==
  /\ RunnerTables'
  /\ RunsKept
  /\ ReportsKept
  /\ payload' = payload \/ \E w \in Executors : DeliverReport(w)
  /\ ExecsMove
  /\ SettlesMove

\* Rows stay, whatever the runner does.
LEMMA RowsStay ==
  ASSUME RunnerInv, [Next]_vars
  PROVE  /\ \A r \in Runs : row[r].status # "absent" => row'[r].status # "absent"
         /\ ClaimsInUse'
<1>0. OwnershipInv /\ ClaimsInUse /\ OutboxTypeOK
  BY DEF RunnerInv, OwnershipInv
<1>1. CASE [OutboxSends]_outboxVars \/ Disrupted
  BY <1>0, <1>1, SendsMakeNoRow DEF Runs
<1>2. ASSUME NEW w \in Executors, DeliverReport(w)
      PROVE  /\ \A r \in Runs : row[r].status # "absent" => row'[r].status # "absent"
             /\ ClaimsInUse'
  <2>1. \A r \in Runs : row[r].status # "absent" => row'[r] = row[r]
    BY <1>0, <1>2, DeliverOutbox
       DEF EnqueueWebhookDelivery, OutboxTypeOK, Runs, outboxVars, Disrupted, OutboxExceptDisruptions
  <2>2. claims' = claims
    BY <1>2, DeliverOutbox DEF EnqueueWebhookDelivery, outboxVars, Disrupted, OutboxExceptDisruptions
  <2>3. \A p \in Senders : \A c \in claims[p] : c.delivery \in Runs
    BY <1>0 DEF OutboxTypeOK, Claim, Runs
  <2>. QED BY <1>0, <2>1, <2>2, <2>3 DEF ClaimsInUse
<1>. QED BY <1>1, <1>2, RunnerMovesOutbox

LEMMA RunsStay ==
  ASSUME RunnerInv, RunnerTables', RunsMove
  PROVE  /\ RunsInUse'
         /\ \A r \in Runs : run[r].status # "free" =>
              run'[r].status # "free" /\ run'[r].schedule = run[r].schedule
<1>1. Nobody \notin Schedules
  BY DEF Nobody
<1>. QED BY <1>1 DEF RunnerInv, RunsInUse, RunsMove, Same, Fresh, Again

\* What an executor that does not move knows stays true.
LEMMA ExecStays ==
  ASSUME RunnerInv, [Next]_vars, RunnerTables', RunsMove, ReportsKept,
         NEW w \in Executors, exec'[w] = exec[w], todo'[w] \subseteq todo[w]
  PROVE  ExecOK(w)'
<1>0. ExecOK(w) /\ todo[w] \subseteq Runs
  BY DEF RunnerInv, RunnerTables
<1>1. /\ \A r \in Runs : run[r].status # "free" =>
           run'[r].status # "free" /\ run'[r].schedule = run[r].schedule
      /\ \A r \in Runs : row[r].status # "absent" => row'[r].status # "absent"
      /\ \A r \in Runs : report[r] # NoReport => report'[r] = report[r]
  BY RunsStay, RowsStay DEF ReportsKept
<1>. QED BY <1>0, <1>1 DEF ExecOK, At, RunOf, HasDelivery

LEMMA DeliveryStays ==
  ASSUME RunnerInv, [Next]_vars, RunnerTables', RunsMove, ReportsKept,
         NEW r \in Runs, HasDelivery(r), run[r].status # "free"
  PROVE  HasDelivery(r)'
<1>1. /\ run'[r].schedule = run[r].schedule
      /\ row[r].status # "absent" => row'[r].status # "absent"
      /\ report[r] # NoReport => report'[r] = report[r]
  BY RunsStay, RowsStay DEF ReportsKept
<1>. QED BY <1>1 DEF HasDelivery

LEMMA PayloadStays ==
  ASSUME RunnerInv, [Next]_vars, RunnerTables', ReportsKept,
         payload' = payload \/ \E w \in Executors : DeliverReport(w)
  PROVE  PayloadIsStoredReport'
<1>0. OwnershipInv /\ ClaimsInUse /\ PayloadIsStoredReport /\ OutboxTypeOK /\ RunnerTables
  BY DEF RunnerInv, OwnershipInv
<1>1. ASSUME NEW w \in Executors, DeliverReport(w) PROVE PayloadIsStoredReport'
  <2>. DEFINE d == RunOf(w)
  <2>1. /\ d \in Runs /\ report' = report
        /\ exec[w].report = report[d] /\ report[d] # NoReport
    BY <1>1 DEF RunnerInv, ExecOK, At, DeliverReport
  <2>2. CASE UNCHANGED <<row, payload>>
    BY <1>0, <2>1, <2>2 DEF PayloadIsStoredReport
  <2>3. CASE /\ EnqueueWebhookDelivery(d)
             /\ payload' = IF row[d].status \in {"absent", "pending"}
                           THEN [payload EXCEPT ![d] = exec[w].report] ELSE payload
    <3>1. \A r \in Runs \ {d} : row'[r] = row[r] /\ payload'[r] = payload[r]
      BY <1>0, <2>1, <2>3 DEF EnqueueWebhookDelivery, OutboxTypeOK, RunnerTables, Runs
    <3>2. CASE row[d].status \in {"absent", "pending"}
      <4>1. payload'[d] = report[d]
        BY <1>0, <2>1, <2>3, <3>2 DEF RunnerTables
      <4>. QED BY <1>0, <2>1, <3>1, <4>1 DEF PayloadIsStoredReport
    <3>3. CASE row[d].status \notin {"absent", "pending"}
      <4>1. payload' = payload /\ row' = row
        BY <2>3, <3>3 DEF EnqueueWebhookDelivery
      <4>. QED BY <1>0, <2>1, <4>1 DEF PayloadIsStoredReport
    <3>. QED BY <3>2, <3>3
  <2>. QED BY <1>1, <2>2, <2>3, DeliverOutbox DEF Disrupted, OutboxExceptDisruptions, outboxVars
<1>2. CASE payload' = payload /\ ([OutboxSends]_outboxVars \/ Disrupted)
  <2>1. \A r \in Runs : row'[r].status = "absent" <=> row[r].status = "absent"
    BY <1>0, <1>2, SendsMakeNoRow DEF Runs
  <2>. QED BY <1>0, <1>2, <2>1 DEF PayloadIsStoredReport, ReportsKept
<1>. QED BY <1>1, <1>2, RunnerMovesOutbox

\* Steps that are in order keep the invariant.
LEMMA StepKeepsInv ==
  ASSUME RunnerInv, [Next]_vars, StepOK
  PROVE  RunnerInv'
<1>1. /\ RunnerTables' /\ RunsMove /\ ReportsKept
      /\ OwnershipInv' /\ ClaimsInUse' /\ RunsInUse' /\ PayloadIsStoredReport'
  BY OutboxKept, RowsStay, RunsStay, PayloadStays DEF StepOK, RunsKept
<1>2. ASSUME NEW w \in Executors PROVE ExecOK(w)'
  BY <1>1, ExecStays DEF StepOK, ExecsMove
<1>3. SettleInUse'
  <2>. SUFFICES ASSUME NEW p \in Sweepers, NEW f \in settle'[p]
                PROVE  row'[f.run].status # "absent"
    BY DEF SettleInUse
  <2>1. f.run \in Runs
    BY <1>1 DEF RunnerTables
  <2>2. row[f.run].status # "absent"
    BY DEF StepOK, SettlesMove, RunnerInv, SettleInUse
  <2>. QED BY <2>1, <2>2, RowsStay
<1>4. CompletedHasDelivery'
  <2>. SUFFICES ASSUME NEW r \in Runs, run'[r].status = "completed"
                PROVE  HasDelivery(r)'
    BY DEF CompletedHasDelivery, HasDelivery
  <2>1. HasDelivery(r)
    BY DEF StepOK, RunsKept, RunnerInv, CompletedHasDelivery, HasDelivery
  <2>2. run[r].status # "free"
    BY <1>1 DEF RunsMove, Same, Fresh, Again
  <2>. QED BY <1>1, <2>1, <2>2, DeliveryStays
<1>. QED BY <1>1, <1>2, <1>3, <1>4 DEF RunnerInv

-----------------------------------------------------------------------------
(* The kinds of step.                                                      *)

LEMMA Standing ==
  ASSUME RunnerInv, NEW w \in Executors, ~At(w, "idle")
  PROVE  /\ RunOf(w) \in Runs /\ run[RunOf(w)] \in RunRecord /\ run[RunOf(w)].status # "free"
         /\ ScheduleOf(w) \in Schedules
<1>1. RunOf(w) \in Runs /\ run[RunOf(w)].status # "free"
  BY DEF RunnerInv, ExecOK
<1>2. run[RunOf(w)] \in RunRecord
  BY <1>1 DEF RunnerInv, RunnerTables
<1>. QED BY <1>1, <1>2 DEF RunnerInv, RunsInUse, ScheduleOf, RunRecord

\* A step that moves schedules at most.
LEMMA SchedulesMove ==
  ASSUME RunnerInv, sched' \in [Schedules -> Schedule], ops' \in 0..MaxOps,
         UNCHANGED <<run, report, payload, todo, exec, settle>>
  PROVE  StepOK
<1>1. RunnerTables'
  BY DEF RunnerInv, RunnerTables
<1>. QED BY <1>1 DEF StepOK, RunsKept, RunsMove, Same, ReportsKept, ExecsMove, SettlesMove

\* A step of one executor that moves no run and stores no report.
ExecMoves(w) ==
  /\ exec' \in [Executors -> Execution]
  /\ \A v \in Executors \ {w} : exec'[v] = exec[v]
TodoShrinks ==
  /\ todo' \in [Executors -> SUBSET Runs]
  /\ \A v \in Executors : todo'[v] \subseteq todo[v]
PayloadMoves(w) ==
  /\ payload' \in [Runs -> Executors \cup {NoReport}]
  /\ payload' = payload \/ DeliverReport(w)
SchedulesKept == sched' \in [Schedules -> Schedule]

LEMMA ExecutorMoves ==
  ASSUME RunnerInv, NEW w \in Executors,
         UNCHANGED <<run, report, settle, ops>>,
         SchedulesKept, PayloadMoves(w), TodoShrinks, ExecMoves(w), ExecOK(w)'
  PROVE  StepOK
<1>1. RunnerTables'
  BY DEF RunnerInv, RunnerTables, SchedulesKept, PayloadMoves, TodoShrinks, ExecMoves
<1>2. ExecsMove
  BY DEF ExecsMove, ExecMoves, TodoShrinks
<1>. QED BY <1>1, <1>2 DEF StepOK, RunsKept, RunsMove, Same, ReportsKept, SettlesMove, PayloadMoves

\* What a step leaves alone.
LEMMA Rests ==
  ASSUME RunnerInv
  PROVE  /\ sched' = sched => SchedulesKept
         /\ todo' = todo => TodoShrinks
         /\ \A w \in Executors : payload' = payload => PayloadMoves(w)
BY DEF RunnerInv, RunnerTables, SchedulesKept, TodoShrinks, PayloadMoves

\* A run is finalized for the delivery it has.
LEMMA Finalizes ==
  ASSUME RunnerInv, NEW r \in Runs, NEW d \in Terminal, HasDelivery(r), FinalizeRun(r, d)
  PROVE  run' \in [Runs -> RunRecord] /\ RunsKept
<1>0. run \in [Runs -> RunRecord]
  BY DEF RunnerInv, RunnerTables
<1>1. CASE run[r].status = "running"
  <2>. DEFINE to == IF d = "dead_letter" THEN "dead_letter" ELSE "completed"
  <2>1. run' = [run EXCEPT ![r].status = to, ![r].lease = "none"]
    BY <1>1 DEF FinalizeRun
  <2>2. to \in RunTerminal
    BY DEF RunTerminal
  <2>3. run' \in [Runs -> RunRecord]
    <3>1. [run[r] EXCEPT !.status = to, !.lease = "none"] \in RunRecord
      BY <1>0, <2>2 DEF RunRecord
    <3>2. run' = [run EXCEPT ![r] = [run[r] EXCEPT !.status = to, !.lease = "none"]]
      BY <1>0, <2>1 DEF RunRecord
    <3>. QED BY <1>0, <3>1, <3>2
  <2>4. /\ run'[r].status = to /\ run'[r].schedule = run[r].schedule
        /\ run'[r].slot = run[r].slot /\ run'[r].attempts = run[r].attempts
        /\ \A q \in Runs \ {r} : run'[q] = run[q]
    BY <1>0, <2>1 DEF RunRecord
  <2>5. \A q \in Runs : Same(q)
    BY <1>1, <2>2, <2>4 DEF Same, RunTerminal
  <2>. QED BY <2>3, <2>4, <2>5 DEF RunsKept, RunsMove
<1>2. CASE run[r].status # "running"
  BY <1>0, <1>2 DEF FinalizeRun, RunsKept, RunsMove, Same
<1>. QED BY <1>1, <1>2

\* What is finalized has its delivery.
LEMMA SettledHasDelivery ==
  ASSUME RunnerInv, NEW r \in Runs, row[r].status # "absent"
  PROVE  HasDelivery(r)
BY DEF RunnerInv, PayloadIsStoredReport, HasDelivery

-----------------------------------------------------------------------------
(* The steps of an execution.                                              *)

\* The executor of w goes to another step: what it then knows.
LEMMA GoesOn ==
  ASSUME RunnerInv, NEW w \in Executors, ~At(w, "idle"), UNCHANGED <<run, report, todo>>,
         NEW s \in Steps \ {"idle", "attempt", "post", "settle", "advance", "finish", "deliver"},
         NEW e \in Execution, e.step = s, e.run = RunOf(w), exec' = [exec EXCEPT ![w] = e]
  PROVE  ExecOK(w)' /\ ExecMoves(w)
<1>1. exec'[w] = e /\ ExecMoves(w)
  BY DEF RunnerInv, RunnerTables, ExecMoves
<1>. QED BY <1>1, Standing DEF RunnerInv, ExecOK, At, RunOf

\* Either it ends with a failure, or with the delivery its run needs.
LEMMA GoesToEnd ==
  ASSUME RunnerInv, [Next]_vars, NEW w \in Executors, ~At(w, "idle"), UNCHANGED <<run, report, todo>>,
         NEW e \in Execution, e.step \in {"advance", "finish"}, e.run = RunOf(w),
         exec' = [exec EXCEPT ![w] = e],
         e.result = "failed" \/ HasDelivery(RunOf(w))
  PROVE  ExecOK(w)' /\ ExecMoves(w)
<1>1. exec'[w] = e /\ ExecMoves(w)
  BY DEF RunnerInv, RunnerTables, ExecMoves
<1>2. e.result = "failed" \/ HasDelivery(e.run)'
  BY Standing, RowsStay DEF HasDelivery
<1>. QED BY <1>1, <1>2, Standing DEF RunnerInv, ExecOK, At, RunOf

\* Or with a report that is stored, and once it attempts with a row.
LEMMA GoesToDeliver ==
  ASSUME RunnerInv, NEW w \in Executors, ~At(w, "idle"), UNCHANGED <<run, todo>>,
         NEW e \in Execution, e.run = RunOf(w), exec' = [exec EXCEPT ![w] = e],
         report'[RunOf(w)] # NoReport,
         \/ e.step = "deliver" /\ e.report = report'[RunOf(w)]
         \/ e.step \in {"attempt", "post", "settle"} /\ row'[RunOf(w)].status # "absent"
  PROVE  ExecOK(w)' /\ ExecMoves(w)
<1>1. exec'[w] = e /\ ExecMoves(w)
  BY DEF RunnerInv, RunnerTables, ExecMoves
<1>. QED BY <1>1, Standing DEF RunnerInv, ExecOK, At, RunOf

\* An executor that rests knows nothing.
LEMMA GoesToRest ==
  ASSUME RunnerInv, NEW w \in Executors, exec' = [exec EXCEPT ![w] = Resting],
         \A r \in todo'[w] : run'[r].status # "free"
  PROVE  ExecOK(w)' /\ ExecMoves(w)
<1>1. exec'[w] = Resting /\ ExecMoves(w)
  BY DEF RunnerInv, RunnerTables, ExecMoves, Resting, Execution, Steps, Results
<1>. QED BY <1>1 DEF ExecOK, At, Resting

LEMMA Editing ==
  ASSUME RunnerInv, NEW w \in Executors, NEW s \in Steps
  PROVE  /\ Goto(w, s) => \E e \in Execution :
              e.step = s /\ e.run = RunOf(w) /\ exec' = [exec EXCEPT ![w] = e]
         /\ \A x \in Results : GotoWith(w, s, x) => \E e \in Execution :
              e.step = s /\ e.run = RunOf(w) /\ e.result = x /\ exec' = [exec EXCEPT ![w] = e]
<1>1. exec \in [Executors -> Execution]
  BY DEF RunnerInv, RunnerTables
<1>2. ASSUME Goto(w, s)
      PROVE  \E e \in Execution : e.step = s /\ e.run = RunOf(w) /\ exec' = [exec EXCEPT ![w] = e]
  <2>. DEFINE e == [exec[w] EXCEPT !.step = s]
  <2>1. e \in Execution /\ e.step = s /\ e.run = RunOf(w)
    BY <1>1 DEF Execution, RunOf
  <2>2. exec' = [exec EXCEPT ![w] = e]
    BY <1>2 DEF Goto
  <2>. QED BY <2>1, <2>2
<1>3. ASSUME NEW x \in Results, GotoWith(w, s, x)
      PROVE  \E e \in Execution :
               e.step = s /\ e.run = RunOf(w) /\ e.result = x /\ exec' = [exec EXCEPT ![w] = e]
  <2>. DEFINE e == [exec[w] EXCEPT !.step = s, !.result = x]
  <2>1. e \in Execution /\ e.step = s /\ e.run = RunOf(w) /\ e.result = x
    BY <1>1 DEF Execution, RunOf
  <2>2. exec' = [exec EXCEPT ![w] = e]
    BY <1>1, <1>3 DEF GotoWith
  <2>. QED BY <2>1, <2>2
<1>. QED BY <1>2, <1>3

\* The three ways most statements leave the execution.
LEMMA GotoOK ==
  ASSUME RunnerInv, NEW w \in Executors, ~At(w, "idle"),
         UNCHANGED <<run, report, payload, todo, settle, ops>>, SchedulesKept,
         NEW s \in {"owner", "disable", "load", "report", "store"}, Goto(w, s)
  PROVE  StepOK
<1>1. s \in Steps \ {"idle", "attempt", "post", "settle", "advance", "finish", "deliver"}
  BY DEF Steps
<1>2. PICK e \in Execution : e.step = s /\ e.run = RunOf(w) /\ exec' = [exec EXCEPT ![w] = e]
  BY <1>1, Editing
<1>3. ExecOK(w)' /\ ExecMoves(w)
  BY <1>1, <1>2, GoesOn
<1>. QED BY <1>2, <1>3, ExecutorMoves, Rests

LEMMA EndOK ==
  ASSUME RunnerInv, [Next]_vars, NEW w \in Executors, ~At(w, "idle"),
         UNCHANGED <<run, report, payload, todo, settle, ops>>, SchedulesKept,
         NEW s \in {"advance", "finish"}, NEW x \in Results, GotoWith(w, s, x),
         x = "failed" \/ HasDelivery(RunOf(w))
  PROVE  StepOK
<1>1. s \in Steps
  BY DEF Steps
<1>2. PICK e \in Execution :
        e.step = s /\ e.run = RunOf(w) /\ e.result = x /\ exec' = [exec EXCEPT ![w] = e]
  BY <1>1, Editing
<1>3. ExecOK(w)' /\ ExecMoves(w)
  BY <1>2, GoesToEnd
<1>. QED BY <1>2, <1>3, ExecutorMoves, Rests

\* What the schedule statements write.
LEMMA SchedulesTyped ==
  ASSUME RunnerInv, NEW s \in Schedules
  PROVE  /\ sched[s] \in Schedule /\ sched \in [Schedules -> Schedule]
         /\ \A S \in SUBSET Schedules, b \in BOOLEAN : Lock(S, b) \in [Schedules -> Schedule]
         /\ NextSlot(s) \in 1..(MaxSlot + 1)
<1>1. sched \in [Schedules -> Schedule] /\ sched[s] \in Schedule
  BY DEF RunnerInv, RunnerTables
<1>2. ASSUME NEW S \in SUBSET Schedules, NEW b \in BOOLEAN PROVE Lock(S, b) \in [Schedules -> Schedule]
  <2>1. \A t \in Schedules : [sched[t] EXCEPT !.locked = b] \in Schedule
    BY <1>1 DEF Schedule
  <2>. QED BY <1>1, <2>1 DEF Lock
<1>3. NextSlot(s) \in 1..(MaxSlot + 1)
  <2>1. sched[s].slot \in 1..(MaxSlot + 1) /\ MaxSlot \in Nat
    BY <1>1 DEF Schedule
  <2>. QED BY <2>1 DEF NextSlot
<1>. QED BY <1>1, <1>2, <1>3

LEMMA LockStep ==
  ASSUME RunnerInv, NEW w \in Executors, LockSchedule(w) PROVE StepOK
<1>1. ~At(w, "idle")
  BY DEF LockSchedule, At
<1>2. ScheduleOf(w) \in Schedules
  BY <1>1, Standing
<1>3. SchedulesKept
  <2>1. Lock({ScheduleOf(w)}, TRUE) \in [Schedules -> Schedule] /\ sched \in [Schedules -> Schedule]
    BY <1>2, SchedulesTyped
  <2>2. sched' = Lock({ScheduleOf(w)}, TRUE) \/ sched' = sched
    BY DEF LockSchedule
  <2>. QED BY <2>1, <2>2 DEF SchedulesKept
<1>. QED BY <1>1, <1>3, GotoOK DEF LockSchedule

LEMMA OwnerStep ==
  ASSUME RunnerInv, NEW w \in Executors, ResolveScheduleOwner(w) PROVE StepOK
<1>0. ~At(w, "idle") /\ UNCHANGED <<sched, run, report, payload, todo, settle, ops>>
  BY DEF ResolveScheduleOwner, At
<1>1. CASE Goto(w, "disable")
  BY <1>0, <1>1, GotoOK, Rests
<1>2. CASE exec' = [exec EXCEPT ![w].step = "load", ![w].beat = TRUE]
  <2>. DEFINE e == [exec[w] EXCEPT !.step = "load", !.beat = TRUE]
  <2>1. exec \in [Executors -> Execution] /\ todo \in [Executors -> SUBSET Runs]
    BY DEF RunnerInv, RunnerTables
  <2>2. exec' = [exec EXCEPT ![w] = e]
    BY <1>2, <2>1
  <2>3. e \in Execution /\ e.step = "load" /\ e.run = RunOf(w) /\ "load" \in Steps
    <3>1. exec[w] \in Execution
      BY <2>1
    <3>2. "load" \in Steps
      BY DEF Steps
    <3>. QED BY <3>1, <3>2 DEF Execution, RunOf
  <2>. HIDE DEF e
  <2>4. ExecOK(w)' /\ ExecMoves(w)
    BY <1>0, <2>2, <2>3, GoesOn
  <2>. QED BY <1>0, <2>2, <2>3, <2>4, ExecutorMoves, Rests
<1>. QED BY <1>1, <1>2 DEF ResolveScheduleOwner

LEMMA DisableStep ==
  ASSUME RunnerInv, [Next]_vars, NEW w \in Executors, DisableSchedule(w) PROVE StepOK
<1>. DEFINE s == ScheduleOf(w)
<1>1. ~At(w, "idle") /\ "failed" \in Results
  BY DEF DisableSchedule, At, Results
<1>2. s \in Schedules /\ sched \in [Schedules -> Schedule]
  BY <1>1, Standing DEF RunnerInv, RunnerTables
<1>3. SchedulesKept
  <2>1. [sched[s] EXCEPT !.enabled = FALSE, !.locked = FALSE] \in Schedule
    BY <1>2 DEF Schedule
  <2>2. [sched EXCEPT ![s].enabled = FALSE, ![s].locked = FALSE]
           = [sched EXCEPT ![s] = [sched[s] EXCEPT !.enabled = FALSE, !.locked = FALSE]]
    BY <1>2 DEF Schedule
  <2>. QED BY <1>2, <2>1, <2>2 DEF DisableSchedule, SchedulesKept
<1>. QED BY <1>1, <1>3, EndOK DEF DisableSchedule

LEMMA LoadStep ==
  ASSUME RunnerInv, [Next]_vars, NEW w \in Executors, LoadSchedule(w) PROVE StepOK
<1>1. ~At(w, "idle") /\ "failed" \in Results /\ SchedulesKept
  BY Rests DEF LoadSchedule, At, Results
<1>2. CASE Goto(w, "disable") \/ Goto(w, "report")
  BY <1>1, <1>2, GotoOK DEF LoadSchedule
<1>3. CASE GotoWith(w, "finish", "failed")
  BY <1>1, <1>3, EndOK DEF LoadSchedule
<1>. QED BY <1>2, <1>3 DEF LoadSchedule

LEMMA ReportFailsStep ==
  ASSUME RunnerInv, [Next]_vars, NEW w \in Executors, ReportFails(w) PROVE StepOK
<1>1. ~At(w, "idle") /\ "failed" \in Results /\ SchedulesKept
  BY Rests DEF ReportFails, At, Results
<1>. QED BY <1>1, EndOK DEF ReportFails

LEMMA BeginStep ==
  ASSUME RunnerInv, NEW w \in Executors, Begin(w) PROVE StepOK
<1>1. PICK r \in todo[w] : /\ todo' = [todo EXCEPT ![w] = @ \ {r}]
                           /\ exec' = [exec EXCEPT ![w] = [Resting EXCEPT !.step = "owner", !.run = r]]
  BY DEF Begin
<1>. DEFINE e == [Resting EXCEPT !.step = "owner", !.run = r]
<1>2. /\ exec \in [Executors -> Execution] /\ todo \in [Executors -> SUBSET Runs]
      /\ sched \in [Schedules -> Schedule]
      /\ \A q \in todo[w] : run[q].status # "free"
  BY DEF RunnerInv, RunnerTables, ExecOK
<1>3. e \in Execution /\ e.step = "owner" /\ e.run = r
  BY <1>2 DEF Resting, Execution, Steps, Results
<1>. HIDE DEF e
<1>4. exec'[w] = e /\ todo'[w] \subseteq todo[w] /\ run' = run
  BY <1>1, <1>2 DEF Begin, e
<1>5. ExecOK(w)'
  BY <1>1, <1>2, <1>3, <1>4 DEF ExecOK, At, RunOf
<1>6. TodoShrinks
  BY <1>1, <1>2 DEF TodoShrinks
<1>7. ExecMoves(w)
  BY <1>1, <1>2, <1>3 DEF e, ExecMoves
<1>8. UNCHANGED <<run, report, settle, ops, payload>> /\ SchedulesKept
  BY Rests DEF Begin
<1>. QED BY <1>5, <1>6, <1>7, <1>8, ExecutorMoves, Rests

LEMMA ReuseStep ==
  ASSUME RunnerInv, NEW w \in Executors, ReuseReport(w) PROVE StepOK
<1>. DEFINE stored == report[RunOf(w)]
<1>1. /\ ~At(w, "idle") /\ UNCHANGED <<sched, run, report, payload, todo, settle, ops>>
      /\ SchedulesKept
  BY Rests DEF ReuseReport, At
<1>2. CASE stored = NoReport
  BY <1>1, <1>2, GotoOK DEF ReuseReport, Goto
<1>3. CASE stored # NoReport
  <2>. DEFINE e == [exec[w] EXCEPT !.step = "deliver", !.report = stored]
  <2>1. /\ exec \in [Executors -> Execution] /\ TodoShrinks
        /\ stored \in Executors \cup {NoReport}
    BY <1>1, Standing, Rests DEF RunnerInv, RunnerTables
  <2>2. exec' = [exec EXCEPT ![w] = e]
    BY <1>3, <2>1 DEF ReuseReport
  <2>3. e \in Execution /\ e.step = "deliver" /\ e.run = RunOf(w) /\ e.report = stored
    <3>1. exec[w] \in Execution
      BY <2>1
    <3>. QED BY <2>1, <3>1 DEF Execution, Steps, RunOf
  <2>. HIDE DEF e
  <2>4. ExecOK(w)' /\ ExecMoves(w)
    BY <1>1, <1>3, <2>2, <2>3, GoesToDeliver
  <2>. QED BY <1>1, <2>1, <2>2, <2>3, <2>4, ExecutorMoves, Rests
<1>. QED BY <1>2, <1>3

LEMMA DeliverStep ==
  ASSUME RunnerInv, [Next]_vars, NEW w \in Executors, DeliverReport(w) PROVE StepOK
<1>. DEFINE r == RunOf(w)
<1>1. /\ ~At(w, "idle") /\ At(w, "deliver") /\ UNCHANGED <<sched, run, report, todo, settle, ops>>
      /\ SchedulesKept /\ TodoShrinks
      /\ {"failed", "completed"} \subseteq Results
  BY Rests DEF DeliverReport, At, Results
<1>2. r \in Runs /\ report[r] # NoReport /\ exec[w].report = report[r]
  BY <1>1, Standing DEF RunnerInv, ExecOK
<1>3. CASE ScheduleOf(w) \notin WebhookSchedules
  <2>1. GotoWith(w, "advance", "completed") /\ payload' = payload
    BY <1>3 DEF DeliverReport
  <2>2. HasDelivery(r)
    BY <1>2, <1>3 DEF HasDelivery, ScheduleOf
  <2>. QED BY <1>1, <2>1, <2>2, EndOK
<1>4. CASE GotoWith(w, "advance", "failed") /\ payload' = payload
  BY <1>1, <1>4, EndOK
<1>5. CASE /\ Goto(w, "attempt") /\ EnqueueWebhookDelivery(r)
           /\ payload' = IF row[r].status \in {"absent", "pending"}
                         THEN [payload EXCEPT ![r] = exec[w].report] ELSE payload
  <2>1. row'[r].status # "absent"
    BY <1>2, <1>5 DEF EnqueueWebhookDelivery, Enqueued, RunnerInv, OwnershipInv, OutboxTypeOK, Runs
  <2>2. "attempt" \in Steps
    BY DEF Steps
  <2>3. PICK e \in Execution : e.step = "attempt" /\ e.run = RunOf(w) /\ exec' = [exec EXCEPT ![w] = e]
    BY <1>5, <2>2, Editing
  <2>4. ExecOK(w)' /\ ExecMoves(w)
    BY <1>1, <1>2, <2>1, <2>3, GoesToDeliver
  <2>5. PayloadMoves(w)
    BY <1>2, <1>5 DEF RunnerInv, RunnerTables, PayloadMoves
  <2>. QED BY <1>1, <2>3, <2>4, <2>5, ExecutorMoves, Rests
<1>. QED BY <1>3, <1>4, <1>5 DEF DeliverReport

LEMMA AttemptStep ==
  ASSUME RunnerInv, [Next]_vars, NEW w \in Executors, AttemptInline(w) PROVE StepOK
<1>. DEFINE r == RunOf(w)
<1>1. /\ ~At(w, "idle") /\ UNCHANGED <<sched, run, report, payload, todo, settle, ops>>
      /\ SchedulesKept /\ TodoShrinks
      /\ {"pending", "failed"} \subseteq Results
  BY Rests DEF AttemptInline, At, Results
<1>2. r \in Runs /\ report[r] # NoReport /\ row[r].status # "absent"
  BY <1>1, Standing DEF AttemptInline, At, RunnerInv, ExecOK
<1>3. HasDelivery(r)
  BY <1>2 DEF HasDelivery
<1>4. CASE Goto(w, "post")
  <2>1. row'[r].status # "absent"
    BY <1>2, RowsStay
  <2>2. "post" \in Steps
    BY DEF Steps
  <2>3. PICK e \in Execution : e.step = "post" /\ e.run = RunOf(w) /\ exec' = [exec EXCEPT ![w] = e]
    BY <1>4, <2>2, Editing
  <2>4. ExecOK(w)' /\ ExecMoves(w)
    BY <1>1, <1>2, <2>1, <2>3, GoesToDeliver
  <2>. QED BY <1>1, <2>3, <2>4, ExecutorMoves, Rests
<1>5. CASE GotoWith(w, "advance", row[r].status)
  <2>1. row[r].status \in Results
    BY <1>2 DEF RunnerInv, OwnershipInv, OutboxTypeOK, Row, Terminal, Results, Runs
  <2>. QED BY <1>1, <1>3, <1>5, <2>1, EndOK
<1>6. CASE GotoWith(w, "advance", "pending") \/ GotoWith(w, "advance", "failed")
  BY <1>1, <1>3, <1>6, EndOK
<1>. QED BY <1>4, <1>5, <1>6 DEF AttemptInline

LEMMA RecordStep ==
  ASSUME RunnerInv, [Next]_vars, NEW w \in Executors, RecordInline(w) PROVE StepOK
<1>. DEFINE r == RunOf(w)
<1>1. /\ ~At(w, "idle") /\ UNCHANGED <<sched, run, report, payload, todo, settle, ops>>
      /\ SchedulesKept /\ TodoShrinks
      /\ "pending" \in Results
  BY Rests DEF RecordInline, At, Results
<1>2. r \in Runs /\ report[r] # NoReport /\ row[r].status # "absent"
  BY <1>1, Standing DEF RecordInline, At, RunnerInv, ExecOK
<1>3. HasDelivery(r)
  BY <1>2 DEF HasDelivery
<1>4. CASE GotoWith(w, "advance", "pending")
  BY <1>1, <1>3, <1>4, EndOK
<1>5. CASE /\ answer[w].sent
           /\ GotoWith(w, IF FinalStatus(w) \in Terminal THEN "settle" ELSE "advance", FinalStatus(w))
  <2>1. FinalStatus(w) \in Terminal \cup {"pending"} /\ FinalStatus(w) \in Results
    BY <1>5, SentAnswerTyped DEF RunnerInv, OwnershipInv, Executors, Results, Terminal
  <2>2. CASE FinalStatus(w) \in Terminal
    <3>1. row'[r].status # "absent" /\ "settle" \in Steps
      BY <1>2, RowsStay DEF Steps
    <3>2. PICK e \in Execution : e.step = "settle" /\ e.run = RunOf(w) /\ exec' = [exec EXCEPT ![w] = e]
      BY <1>5, <2>1, <2>2, <3>1, Editing
    <3>3. ExecOK(w)' /\ ExecMoves(w)
      BY <1>1, <1>2, <3>1, <3>2, GoesToDeliver
    <3>. QED BY <1>1, <3>2, <3>3, ExecutorMoves, Rests
  <2>3. CASE FinalStatus(w) \notin Terminal
    BY <1>1, <1>3, <1>5, <2>1, <2>3, EndOK
  <2>. QED BY <2>2, <2>3
<1>. QED BY <1>4, <1>5 DEF RecordInline, RecordAttempt

LEMMA StoreStep ==
  ASSUME RunnerInv, [Next]_vars, NEW w \in Executors, StoreReport(w) PROVE StepOK
<1>. DEFINE r == RunOf(w)
            stored == StoredReport(w)
            e == [exec[w] EXCEPT !.step = "deliver", !.report = stored]
<1>1. ~At(w, "idle") /\ UNCHANGED <<sched, run, payload, todo, settle, ops>>
  BY DEF StoreReport, At
<1>2. RunnerTables /\ r \in Runs
  BY <1>1, Standing DEF RunnerInv
<1>3. /\ stored \in Executors /\ stored # NoReport
      /\ report[r] # NoReport => stored = report[r]
  BY <1>2 DEF StoredReport, RunnerTables, NoReport, Executors
<1>4. report' = [report EXCEPT ![r] = stored]
  BY DEF StoreReport
<1>5. exec' = [exec EXCEPT ![w] = e] /\ e \in Execution /\ e.step = "deliver" /\ e.run = r /\ e.report = stored
  <2>1. exec[w] \in Execution
    BY <1>2 DEF RunnerTables
  <2>2. exec' = [exec EXCEPT ![w] = e]
    BY DEF StoreReport
  <2>. QED BY <1>3, <2>1, <2>2 DEF Execution, Steps, RunOf
<1>6. report'[r] = stored
  BY <1>2, <1>4 DEF RunnerTables
<1>. HIDE DEF e, stored
<1>7. ExecOK(w)' /\ ExecMoves(w)
  BY <1>1, <1>3, <1>5, <1>6, GoesToDeliver
<1>8. ReportsKept
  BY <1>2, <1>3, <1>4 DEF ReportsKept, RunnerTables
<1>9. RunnerTables'
  BY <1>1, <1>2, <1>3, <1>4, <1>7 DEF RunnerTables, ExecMoves
<1>10. ExecsMove
  BY <1>1, <1>7 DEF ExecsMove, ExecMoves
<1>. QED BY <1>1, <1>8, <1>9, <1>10 DEF StepOK, RunsKept, RunsMove, Same, SettlesMove

LEMMA AdvanceStep ==
  ASSUME RunnerInv, [Next]_vars, NEW w \in Executors, AdvanceSchedule(w) PROVE StepOK
<1>. DEFINE s == ScheduleOf(w)
<1>1. ~At(w, "idle") /\ At(w, "advance") /\ UNCHANGED <<run, report, payload, todo, settle, ops>>
  BY DEF AdvanceSchedule, At
<1>2. RunnerTables /\ s \in Schedules
  BY <1>1, Standing DEF RunnerInv
<1>3. SchedulesKept
  <2>1. [sched[s] EXCEPT !.slot = NextSlot(s), !.due = FALSE, !.locked = FALSE] \in Schedule
    BY <1>2, SchedulesTyped DEF Schedule
  <2>2. [sched EXCEPT ![s].slot = NextSlot(s), ![s].due = FALSE, ![s].locked = FALSE]
          = [sched EXCEPT ![s] = [sched[s] EXCEPT !.slot = NextSlot(s), !.due = FALSE, !.locked = FALSE]]
    BY <1>2 DEF RunnerTables
  <2>. QED BY <1>2, <2>1, <2>2 DEF AdvanceSchedule, RunnerTables, SchedulesKept
<1>4. TodoShrinks /\ \A q \in todo'[w] : run'[q].status # "free"
  BY <1>1, Rests DEF RunnerInv, ExecOK
<1>5. CASE exec[w].result = "pending"
  <2>1. exec' = [exec EXCEPT ![w] = Resting] /\ Resting \in Execution
    BY <1>5 DEF AdvanceSchedule, Resting, Execution, Steps, Results
  <2>2. ExecOK(w)' /\ ExecMoves(w)
    BY <1>4, <2>1, GoesToRest
  <2>. QED BY <1>1, <1>3, <1>4, <2>1, <2>2, ExecutorMoves, Rests
<1>6. CASE exec[w].result # "pending"
  <2>. DEFINE e == [exec[w] EXCEPT !.step = "finish"]
  <2>1. /\ exec' = [exec EXCEPT ![w] = e] /\ e \in Execution
        /\ e.step = "finish" /\ e.run = RunOf(w) /\ e.result = exec[w].result
    BY <1>2, <1>6 DEF AdvanceSchedule, RunnerTables, Execution, Steps, RunOf
  <2>2. exec[w].result = "failed" \/ HasDelivery(RunOf(w))
    BY <1>1 DEF RunnerInv, ExecOK, At
  <2>. HIDE DEF e
  <2>3. ExecOK(w)' /\ ExecMoves(w)
    BY <1>1, <2>1, <2>2, GoesToEnd
  <2>. QED BY <1>1, <1>3, <1>4, <2>1, <2>3, ExecutorMoves, Rests
<1>. QED BY <1>5, <1>6

-----------------------------------------------------------------------------
(* The steps that move runs.                                               *)

\* Runs may move as long as they keep what they are.
RunsGo == run' \in [Runs -> RunRecord] /\ RunsKept

LEMMA ExecutorActs ==
  ASSUME RunnerInv, NEW w \in Executors, UNCHANGED <<sched, report, payload, settle, ops>>,
         RunsGo, TodoShrinks, ExecMoves(w), ExecOK(w)'
  PROVE  StepOK
<1>1. RunnerTables'
  BY DEF RunnerInv, RunnerTables, RunsGo, TodoShrinks, ExecMoves
<1>2. ExecsMove
  BY DEF ExecsMove, ExecMoves, TodoShrinks
<1>. QED BY <1>1, <1>2 DEF StepOK, RunsGo, ReportsKept, SettlesMove

LEMMA RunsAct ==
  ASSUME RunnerInv, SchedulesKept, ops' \in 0..MaxOps, RunsGo,
         UNCHANGED <<report, payload, todo, exec, settle>>
  PROVE  StepOK
<1>1. RunnerTables'
  BY DEF RunnerInv, RunnerTables, RunsGo, SchedulesKept
<1>. QED BY <1>1 DEF StepOK, RunsGo, ReportsKept, ExecsMove, SettlesMove

LEMMA FinishStep ==
  ASSUME RunnerInv, NEW w \in Executors, FinishScheduleRun(w) PROVE StepOK
<1>. DEFINE r == RunOf(w)
            x == exec[w].result
            to == [run[r] EXCEPT !.status = FinishStatus(x), !.lease = "none"]
<1>1. /\ ~At(w, "idle") /\ At(w, "finish") /\ UNCHANGED <<sched, report, payload, todo, settle, ops>>
      /\ exec' = [exec EXCEPT ![w] = Resting]
  BY DEF FinishScheduleRun, At
<1>2. /\ run \in [Runs -> RunRecord] /\ r \in Runs /\ run[r] \in RunRecord /\ run[r].status # "free"
      /\ x \in Results
  BY <1>1, Standing DEF RunnerInv, RunnerTables, Execution
<1>3. x = "failed" \/ HasDelivery(r)
  BY <1>1 DEF RunnerInv, ExecOK, At
<1>4. FinishStatus(x) \in RunTerminal /\ (FinishStatus(x) = "completed" => x # "failed")
  BY DEF FinishStatus, RunTerminal
<1>. HIDE DEF x
<1>5. RunsGo
  <2>1. CASE run' = run
    BY <1>2, <2>1 DEF RunsGo, RunsKept, RunsMove, Same
  <2>2. CASE run' = [run EXCEPT ![r].status = FinishStatus(x), ![r].lease = "none"]
    <3>1. to \in RunRecord
      BY <1>2, <1>4 DEF RunRecord
    <3>2. run' = [run EXCEPT ![r] = to]
      BY <1>2, <2>2
    <3>3. /\ run'[r].status = FinishStatus(x) /\ run'[r].schedule = run[r].schedule
          /\ run'[r].slot = run[r].slot /\ run'[r].attempts = run[r].attempts
          /\ \A q \in Runs \ {r} : run'[q] = run[q]
      BY <1>2, <3>2 DEF RunRecord
    <3>4. \A q \in Runs : Same(q)
      BY <1>2, <1>4, <3>3 DEF Same, RunTerminal
    <3>5. run' \in [Runs -> RunRecord]
      BY <1>2, <3>1, <3>2
    <3>. QED BY <1>3, <1>4, <3>3, <3>4, <3>5 DEF RunsGo, RunsKept, RunsMove
  <2>. QED BY <2>1, <2>2 DEF FinishScheduleRun, x
<1>6. TodoShrinks
  BY <1>1, Rests
<1>7. \A q \in todo'[w] : run'[q].status # "free"
  BY <1>1, <1>5 DEF RunnerInv, RunnerTables, ExecOK, RunsGo, RunsKept, RunsMove, Same, Fresh, Again
<1>8. ExecOK(w)' /\ ExecMoves(w)
  BY <1>1, <1>7, GoesToRest
<1>. QED BY <1>1, <1>5, <1>6, <1>8, ExecutorActs

LEMMA SettleStep ==
  ASSUME RunnerInv, [Next]_vars, NEW w \in Executors, SettleInline(w) PROVE StepOK
<1>. DEFINE r == RunOf(w)
<1>1. /\ ~At(w, "idle") /\ UNCHANGED <<sched, report, payload, todo, settle, ops>>
      /\ Goto(w, "advance") /\ "advance" \in Steps
  BY DEF SettleInline, At, Steps
<1>2. r \in Runs /\ report[r] # NoReport /\ row[r].status # "absent"
  BY <1>1, Standing DEF SettleInline, At, RunnerInv, ExecOK
<1>3. HasDelivery(r)
  BY <1>2 DEF HasDelivery
<1>4. RunsGo
  <2>1. CASE exec[w].result \in Terminal
    BY <1>2, <1>3, <2>1, Finalizes DEF SettleInline, RunsGo
  <2>2. CASE exec[w].result \notin Terminal
    <3>1. FinalizeRun(r, "delivered")
      BY <2>2 DEF SettleInline, FinalizeRun, Terminal
    <3>2. "delivered" \in Terminal
      BY DEF Terminal
    <3>. QED BY <1>2, <1>3, <3>1, <3>2, Finalizes DEF RunsGo
  <2>. QED BY <2>1, <2>2
<1>5. PICK e \in Execution : e.step = "advance" /\ e.run = r /\ exec' = [exec EXCEPT ![w] = e]
  BY <1>1, Editing
<1>6. exec'[w] = e /\ ExecMoves(w)
  BY <1>5 DEF RunnerInv, RunnerTables, ExecMoves
<1>7. \A q \in Runs : run[q].status # "free" => run'[q].status # "free" /\ run'[q].schedule = run[q].schedule
  BY <1>4 DEF RunsGo, RunsKept, RunsMove, Same, Fresh, Again
<1>8. row'[r].status # "absent" /\ report'[r] # NoReport
  BY <1>1, <1>2, RowsStay
<1>9. run'[r].status # "free" /\ \A q \in todo'[w] : run'[q].status # "free"
  BY <1>1, <1>7, Standing DEF RunnerInv, RunnerTables, ExecOK
<1>10. ExecOK(w)'
  BY <1>2, <1>5, <1>6, <1>8, <1>9 DEF ExecOK, At, RunOf, HasDelivery
<1>11. TodoShrinks
  BY <1>1, Rests
<1>. QED BY <1>1, <1>4, <1>6, <1>10, <1>11, ExecutorActs

LEMMA CrashExecutorStep ==
  ASSUME RunnerInv, NEW w \in Executors, CrashExecutor(w) PROVE StepOK
<1>1. /\ UNCHANGED <<sched, run, report, payload, settle, ops>>
      /\ todo' = [todo EXCEPT ![w] = {}] /\ exec' = [exec EXCEPT ![w] = Resting]
  BY DEF CrashExecutor
<1>2. TodoShrinks /\ todo'[w] = {}
  BY <1>1 DEF RunnerInv, RunnerTables, TodoShrinks
<1>3. ExecOK(w)' /\ ExecMoves(w)
  BY <1>1, <1>2, GoesToRest
<1>. QED BY <1>1, <1>2, <1>3, ExecutorMoves, Rests

\* One run's lease changes hands or runs out.
LEMMA LeaseMoves ==
  ASSUME RunnerInv, NEW r \in Runs, NEW l \in {"held", "expired"}, run' = [run EXCEPT ![r].lease = l],
         UNCHANGED <<sched, report, payload, todo, exec, settle, ops>>
  PROVE  StepOK
<1>1. run \in [Runs -> RunRecord] /\ run[r] \in RunRecord
  BY DEF RunnerInv, RunnerTables
<1>2. [run[r] EXCEPT !.lease = l] \in RunRecord
  BY <1>1 DEF RunRecord
<1>3. run' = [run EXCEPT ![r] = [run[r] EXCEPT !.lease = l]]
  OBVIOUS
<1>4. run' \in [Runs -> RunRecord]
  BY <1>1, <1>2, <1>3
<1>5. \A q \in Runs : /\ run'[q].status = run[q].status /\ run'[q].schedule = run[q].schedule
                      /\ run'[q].slot = run[q].slot /\ run'[q].attempts = run[q].attempts
  BY <1>1, <1>3 DEF RunRecord
<1>6. RunsGo
  BY <1>4, <1>5 DEF RunsGo, RunsKept, RunsMove, Same
<1>7. ops' \in 0..MaxOps
  BY DEF RunnerInv, RunnerTables
<1>. QED BY <1>6, <1>7, RunsAct, Rests

LEMMA OperationsCounted ==
  ASSUME RunnerInv, NEW op, Operation(op)
  PROVE  ops' \in 0..MaxOps
<1>1. ops \in 0..MaxOps /\ MaxOps \in Nat
  BY DEF RunnerInv, RunnerTables
<1>2. ops < MaxOps /\ ops' = ops + 1
  BY DEF Operation
<1>. QED BY <1>1, <1>2

LEMMA DeleteStep ==
  ASSUME RunnerInv, NEW s \in Schedules, Delete(s) PROVE StepOK
<1>1. RunnerTables /\ RunsInUse /\ UNCHANGED <<report, payload, todo, exec, settle>> /\ s # Nobody
  BY DEF RunnerInv, Delete, Nobody
<1>2. ops' \in 0..MaxOps
  BY OperationsCounted DEF Delete
<1>3. SchedulesKept
  <2>1. [sched[s] EXCEPT !.live = FALSE] \in Schedule
    <3>1. sched[s] \in Schedule
      BY <1>1 DEF RunnerTables
    <3>. QED BY <3>1 DEF Schedule
  <2>2. sched' = [sched EXCEPT ![s] = [sched[s] EXCEPT !.live = FALSE]]
    BY DEF Delete
  <2>. QED BY <1>1, <2>1, <2>2 DEF RunnerTables, SchedulesKept
<1>. DEFINE gone(r) == [run[r] EXCEPT !.status = "gone", !.lease = "none"]
<1>4. \A r \in Runs : run'[r] = IF run[r].schedule = s THEN gone(r) ELSE run[r]
  BY DEF Delete
<1>5. \A r \in Runs : /\ run[r] \in RunRecord /\ gone(r) \in RunRecord
                      /\ gone(r).status = "gone" /\ gone(r).schedule = run[r].schedule
                      /\ gone(r).slot = run[r].slot /\ gone(r).attempts = run[r].attempts
  <2>. SUFFICES ASSUME NEW r \in Runs
                PROVE  /\ run[r] \in RunRecord /\ gone(r) \in RunRecord
                       /\ gone(r).status = "gone" /\ gone(r).schedule = run[r].schedule
                       /\ gone(r).slot = run[r].slot /\ gone(r).attempts = run[r].attempts
    OBVIOUS
  <2>1. run[r] \in RunRecord
    BY <1>1 DEF RunnerTables
  <2>. QED BY <2>1 DEF RunRecord
<1>. HIDE DEF gone
<1>6. run' \in [Runs -> RunRecord]
  <2>1. \A r \in Runs : run'[r] \in RunRecord
    BY <1>4, <1>5
  <2>2. run' = [r \in Runs |-> run'[r]]
    BY DEF Delete
  <2>. QED BY <2>1, <2>2
<1>7. \A r \in Runs : Same(r)
  BY <1>1, <1>4, <1>5 DEF Same, RunsInUse
<1>8. \A r \in Runs : run'[r].status = "completed" => run[r].status = "completed"
  BY <1>4, <1>5
<1>9. RunsGo
  BY <1>6, <1>7, <1>8 DEF RunsGo, RunsKept, RunsMove
<1>. QED BY <1>1, <1>2, <1>3, <1>9, RunsAct

\* The other statements on schedules: one field or two of one of them.
LEMMA ScheduleSteps ==
  ASSUME RunnerInv,
         \/ \E s \in Schedules : Update(s) \/ Revoke(s) \/ BecomesDue(s) \/ LockExpires(s)
         \/ \E w \in Executors : RenewScheduleLock(w)
  PROVE  StepOK
<1>0. sched \in [Schedules -> Schedule] /\ ops \in 0..MaxOps
  BY DEF RunnerInv, RunnerTables
<1>1. ASSUME NEW s \in Schedules, NEW x \in Schedule, sched' = [sched EXCEPT ![s] = x], ops' \in 0..MaxOps,
             UNCHANGED <<run, report, payload, todo, exec, settle>>
      PROVE  StepOK
  BY <1>0, <1>1, SchedulesMove
<1>2. ASSUME NEW s \in Schedules, Update(s) PROVE StepOK
  <2>1. PICK b \in BOOLEAN : sched' = [sched EXCEPT ![s].enabled = b, ![s].slot = NextSlot(s), ![s].due = FALSE]
    BY <1>2 DEF Update
  <2>. DEFINE x == [sched[s] EXCEPT !.enabled = b, !.slot = NextSlot(s), !.due = FALSE]
  <2>2. x \in Schedule
    BY <1>0, SchedulesTyped DEF Schedule
  <2>3. sched' = [sched EXCEPT ![s] = x]
    BY <1>0, <2>1
  <2>4. ops' \in 0..MaxOps
    BY <1>2, OperationsCounted DEF Update
  <2>. QED BY <1>1, <1>2, <2>2, <2>3, <2>4 DEF Update
<1>3. ASSUME NEW s \in Schedules, Revoke(s) PROVE StepOK
  <2>1. [sched[s] EXCEPT !.authorized = FALSE] \in Schedule
    BY <1>0 DEF Schedule
  <2>2. ops' \in 0..MaxOps
    BY <1>3, OperationsCounted DEF Revoke
  <2>. QED BY <1>1, <1>3, <2>1, <2>2 DEF Revoke
<1>4. ASSUME NEW s \in Schedules, BecomesDue(s) PROVE StepOK
  <2>1. [sched[s] EXCEPT !.due = TRUE] \in Schedule
    BY <1>0 DEF Schedule
  <2>. QED BY <1>0, <1>1, <1>4, <2>1 DEF BecomesDue
<1>5. ASSUME NEW s \in Schedules, LockExpires(s) PROVE StepOK
  <2>1. sched' \in [Schedules -> Schedule]
    BY <1>5, SchedulesTyped DEF LockExpires
  <2>. QED BY <1>0, <1>5, <2>1, SchedulesMove DEF LockExpires
<1>6. ASSUME NEW w \in Executors, RenewScheduleLock(w) PROVE StepOK
  <2>. DEFINE s == ScheduleOf(w)
  <2>1. s \in Schedules
    BY <1>6, Standing DEF RenewScheduleLock, RunnerInv, ExecOK
  <2>2. [sched[s] EXCEPT !.locked = TRUE] \in Schedule
    BY <1>0, <2>1 DEF Schedule
  <2>. QED BY <1>0, <1>1, <1>6, <2>1, <2>2 DEF RenewScheduleLock
<1>. QED BY <1>2, <1>3, <1>4, <1>5, <1>6

\* Requests that start a run.
LEMMA RunNowStep ==
  ASSUME RunnerInv, NEW c \in Clients, NEW s \in Schedules, RunNow(c, s) PROVE StepOK
<1>1. PICK r \in Unused : /\ run' = [run EXCEPT ![r] = NewRun(s, Manual)]
                          /\ exec' = [exec EXCEPT ![c] = [Resting EXCEPT !.step = "lock", !.run = r]]
  BY DEF RunNow
<1>. DEFINE e == [Resting EXCEPT !.step = "lock", !.run = r]
<1>2. /\ RunnerTables /\ c \in Executors /\ r \in Runs /\ run[r].status = "free"
      /\ UNCHANGED <<sched, report, payload, todo, settle>>
      /\ \A q \in todo[c] : run[q].status # "free"
  BY DEF RunnerInv, Executors, Unused, RunNow, ExecOK
<1>3. e \in Execution /\ e.step = "lock" /\ e.run = r
  BY <1>2 DEF Resting, Execution, Steps, Results
<1>. HIDE DEF e
<1>4. /\ NewRun(s, Manual) \in RunRecord
      /\ NewRun(s, Manual).status = "running" /\ NewRun(s, Manual).schedule = s
  <2>1. Manual \in 0..(MaxSlot + 1)
    BY DEF Manual
  <2>. QED BY <2>1 DEF NewRun, RunRecord
<1>5. /\ run' \in [Runs -> RunRecord]
      /\ Fresh(r) /\ \A q \in Runs \ {r} : run'[q] = run[q]
  BY <1>1, <1>2, <1>4 DEF RunnerTables, Fresh
<1>6. RunsGo
  <2>1. ClaimStep
    BY DEF ClaimStep
  <2>2. RunsMove
    BY <1>5 DEF RunsMove, Same
  <2>3. \A q \in Runs : run'[q].status = "completed" => run[q].status = "completed"
    BY <1>5 DEF Fresh
  <2>. QED BY <1>5, <2>1, <2>2, <2>3 DEF RunsGo, RunsKept
<1>7. exec'[c] = e /\ ExecMoves(c)
  BY <1>1, <1>2, <1>3 DEF RunnerTables, ExecMoves, e
<1>8. run'[r].status # "free" /\ \A q \in todo'[c] : run'[q].status # "free"
  BY <1>2, <1>5 DEF Fresh, RunnerTables
<1>9. ExecOK(c)'
  BY <1>2, <1>3, <1>7, <1>8 DEF ExecOK, At, RunOf
<1>10. RunnerTables'
  BY <1>2, <1>5, <1>7, OperationsCounted DEF RunnerTables, ExecMoves, RunNow
<1>11. ExecsMove
  BY <1>2, <1>7, <1>9 DEF ExecsMove, ExecMoves
<1>. QED BY <1>2, <1>6, <1>10, <1>11 DEF StepOK, RunsGo, ReportsKept, SettlesMove

LEMMA RetryRunStep ==
  ASSUME RunnerInv, NEW c \in Clients, NEW r \in Runs, RetryRun(c, r) PROVE StepOK
<1>. DEFINE e == [Resting EXCEPT !.step = "lock", !.run = r]
            x == [run[r] EXCEPT !.status = "running", !.attempts = @ + 1, !.lease = "held"]
<1>2. /\ RunnerTables /\ c \in Executors /\ run[r].status \in {"failed", "dead_letter"}
      /\ UNCHANGED <<sched, report, payload, todo, settle>>
      /\ \A q \in todo[c] : run[q].status # "free"
      /\ exec' = [exec EXCEPT ![c] = e]
  BY DEF RunnerInv, Executors, RetryRun, ExecOK
<1>3. e \in Execution /\ e.step = "lock" /\ e.run = r
  BY <1>2 DEF Resting, Execution, Steps, Results
<1>4. run[r] \in RunRecord
  BY <1>2 DEF RunnerTables
<1>5. /\ x \in RunRecord /\ x.status = "running"
      /\ x.schedule = run[r].schedule /\ x.slot = run[r].slot
  <2>1. run[r].attempts + 1 \in Nat
    BY <1>4 DEF RunRecord
  <2>. QED BY <1>4, <2>1 DEF RunRecord
<1>6. run' = [run EXCEPT ![r] = x]
  BY <1>2 DEF RetryRun, RunnerTables
<1>. HIDE DEF e, x
<1>7. /\ run' \in [Runs -> RunRecord]
      /\ Again(r) /\ run'[r].status = "running" /\ \A q \in Runs \ {r} : run'[q] = run[q]
  BY <1>2, <1>5, <1>6 DEF RunnerTables, Again
<1>8. RunsGo
  <2>1. ClaimStep
    BY DEF ClaimStep
  <2>2. RunsMove
    BY <1>7 DEF RunsMove, Same
  <2>3. \A q \in Runs : run'[q].status = "completed" => run[q].status = "completed"
    BY <1>7
  <2>. QED BY <1>7, <2>1, <2>2, <2>3 DEF RunsGo, RunsKept
<1>9. exec'[c] = e /\ ExecMoves(c)
  BY <1>2, <1>3 DEF RunnerTables, ExecMoves
<1>10. run'[r].status # "free" /\ \A q \in todo'[c] : run'[q].status # "free"
  BY <1>2, <1>7 DEF RunnerTables
<1>11. ExecOK(c)'
  BY <1>3, <1>9, <1>10 DEF ExecOK, At, RunOf
<1>12. RunnerTables'
  BY <1>2, <1>7, <1>9, OperationsCounted DEF RunnerTables, ExecMoves, RetryRun
<1>13. ExecsMove
  BY <1>2, <1>9, <1>11 DEF ExecsMove, ExecMoves
<1>. QED BY <1>2, <1>8, <1>12, <1>13 DEF StepOK, RunsGo, ReportsKept, SettlesMove

\* A worker's batch: the runs it claims are in use when it has claimed them.
LEMMA BatchOK ==
  ASSUME RunnerInv, NEW w \in Executors, RunsGo, UNCHANGED <<report, payload, exec, settle, ops>>,
         SchedulesKept, At(w, "idle"),
         NEW B \in SUBSET Runs, todo' = [todo EXCEPT ![w] = B],
         \A r \in B : run'[r].status # "free"
  PROVE  StepOK
<1>1. /\ todo' \in [Executors -> SUBSET Runs] /\ todo'[w] = B
      /\ \A v \in Executors \ {w} : todo'[v] = todo[v]
  BY DEF RunnerInv, RunnerTables
<1>2. RunnerTables'
  BY <1>1 DEF RunnerInv, RunnerTables, RunsGo, SchedulesKept
<1>3. ~exec[w].beat
  BY DEF RunnerInv, ExecOK
<1>4. ExecOK(w)'
  BY <1>1, <1>3 DEF ExecOK, At, RunOf
<1>5. ExecsMove
  BY <1>1, <1>4 DEF ExecsMove
<1>. QED BY <1>2, <1>5 DEF StepOK, RunsGo, ReportsKept, SettlesMove

LEMMA ClaimDueStep ==
  ASSUME RunnerInv, NEW w \in Workers, ClaimDueSchedules(w) PROVE StepOK
<1>1. PICK S \in SUBSET {s \in Schedules : Claimable(s)} :
        LET New == {s \in S : ~SlotTaken(s)}
        IN  /\ \E id \in [New -> Unused] :
                 /\ \A s, t \in New : s # t => id[s] # id[t]
                 /\ run' = [r \in Runs |->
                              IF \E s \in New : id[s] = r
                              THEN LET s == CHOOSE s \in New : id[s] = r IN NewRun(s, sched[s].slot)
                              ELSE run[r]]
                 /\ todo' = [todo EXCEPT ![w] = {id[s] : s \in New}]
            /\ sched' = Lock(New, TRUE)
  BY DEF ClaimDueSchedules
<1>. DEFINE New == {s \in S : ~SlotTaken(s)}
<1>2. PICK id \in [New -> Unused] :
        /\ run' = [r \in Runs |->
                     IF \E s \in New : id[s] = r
                     THEN LET s == CHOOSE s \in New : id[s] = r IN NewRun(s, sched[s].slot)
                     ELSE run[r]]
        /\ todo' = [todo EXCEPT ![w] = {id[s] : s \in New}]
  BY <1>1
<1>3. /\ w \in Executors /\ At(w, "idle") /\ UNCHANGED <<report, payload, exec, settle, ops>>
      /\ RunnerTables /\ New \subseteq Schedules
  BY DEF ClaimDueSchedules, Executors, Free, At, RunnerInv
<1>4. ASSUME NEW r \in Runs, \E s \in New : id[s] = r
      PROVE  run'[r] \in RunRecord /\ Fresh(r)
  <2>. DEFINE s == CHOOSE s \in New : id[s] = r
  <2>1. s \in New /\ id[s] = r
    BY <1>4
  <2>2. r \in Unused /\ s \in Schedules
    BY <1>3, <2>1
  <2>. HIDE DEF s
  <2>3. run'[r] = NewRun(s, sched[s].slot)
    BY <1>2, <1>4 DEF s
  <2>4. sched[s].slot \in 0..(MaxSlot + 1)
    <3>1. sched[s] \in Schedule /\ MaxSlot \in Nat
      BY <1>3, <2>2 DEF RunnerTables
    <3>2. sched[s].slot \in 1..(MaxSlot + 1)
      BY <3>1 DEF Schedule
    <3>. QED BY <3>1, <3>2
  <2>. QED BY <2>2, <2>3, <2>4 DEF NewRun, RunRecord, Fresh, Unused
<1>5. ASSUME NEW r \in Runs, ~\E s \in New : id[s] = r
      PROVE  run'[r] = run[r]
  BY <1>2, <1>5
<1>6. run' \in [Runs -> RunRecord]
  <2>1. \A r \in Runs : run'[r] \in RunRecord
    BY <1>3, <1>4, <1>5 DEF RunnerTables
  <2>2. run' = [r \in Runs |-> run'[r]]
    BY <1>2
  <2>. QED BY <2>1, <2>2
<1>7. RunsGo
  <2>1. ClaimStep
    BY DEF ClaimStep
  <2>2. RunsMove
    BY <1>4, <1>5 DEF RunsMove, Same
  <2>3. \A r \in Runs : run'[r].status = "completed" => run[r].status = "completed"
    BY <1>4, <1>5 DEF Fresh
  <2>. QED BY <1>6, <2>1, <2>2, <2>3 DEF RunsGo, RunsKept
<1>8. SchedulesKept
  <2>1. ASSUME NEW s \in Schedules PROVE SchedulesKept
    BY <1>1, <1>3, <2>1, SchedulesTyped DEF SchedulesKept
  <2>2. CASE Schedules = {}
    BY <1>1, <1>3, <2>2 DEF SchedulesKept, Lock
  <2>. QED BY <2>1, <2>2
<1>9. /\ {id[s] : s \in New} \in SUBSET Runs
      /\ \A r \in {id[s] : s \in New} : run'[r].status # "free"
  <2>1. \A s \in New : id[s] \in Runs
    BY DEF Unused
  <2>. QED BY <1>4, <2>1 DEF Fresh
<1>. QED BY <1>2, <1>3, <1>7, <1>8, <1>9, BatchOK

LEMMA RecoverStep ==
  ASSUME RunnerInv, NEW w \in Workers, RecoverExpiredScheduleLeases(w) PROVE StepOK
<1>1. PICK R \in SUBSET {r \in Runs : Expired(r)} :
        LET Dead == {x \in R : OutOfAttempts(x)}
            Kept == R \ Dead
        IN  /\ run' = [r \in Runs |->
                         IF r \in Dead
                         THEN [run[r] EXCEPT !.status = "dead_letter", !.attempts = @ + 1, !.lease = "none"]
                         ELSE IF r \in Kept
                         THEN [run[r] EXCEPT !.attempts = @ + 1, !.lease = "held"]
                         ELSE run[r]]
            /\ todo' = [todo EXCEPT ![w] = Kept]
  BY DEF RecoverExpiredScheduleLeases
<1>. DEFINE Dead == {x \in R : OutOfAttempts(x)}
            Kept == R \ Dead
            dead(r) == [run[r] EXCEPT !.status = "dead_letter", !.attempts = @ + 1, !.lease = "none"]
            kept(r) == [run[r] EXCEPT !.attempts = @ + 1, !.lease = "held"]
<1>2. /\ w \in Executors /\ At(w, "idle") /\ UNCHANGED <<report, payload, exec, settle, ops>>
      /\ RunnerTables
  BY DEF RecoverExpiredScheduleLeases, Executors, Free, At, RunnerInv
<1>3. ASSUME NEW r \in Runs
      PROVE  /\ dead(r) \in RunRecord /\ dead(r).status = "dead_letter"
             /\ dead(r).schedule = run[r].schedule /\ dead(r).slot = run[r].slot
             /\ kept(r) \in RunRecord /\ kept(r).status = run[r].status
             /\ kept(r).schedule = run[r].schedule /\ kept(r).slot = run[r].slot
  <2>1. run[r] \in RunRecord
    BY <1>2 DEF RunnerTables
  <2>2. run[r].attempts + 1 \in Nat
    BY <2>1 DEF RunRecord
  <2>. DEFINE n == run[r].attempts + 1
  <2>. HIDE DEF n
  <2>3. [run[r] EXCEPT !.status = "dead_letter", !.attempts = n, !.lease = "none"] \in RunRecord
    BY <2>1, <2>2 DEF RunRecord, RunTerminal, n
  <2>4. [run[r] EXCEPT !.attempts = n, !.lease = "held"] \in RunRecord
    BY <2>1, <2>2 DEF RunRecord, n
  <2>. QED BY <2>1, <2>3, <2>4 DEF RunRecord, n
<1>4. \A r \in R : r \in Runs /\ run[r].status = "running"
  BY DEF Expired
<1>5. run' = [r \in Runs |-> IF r \in Dead THEN dead(r) ELSE IF r \in Kept THEN kept(r) ELSE run[r]]
  BY <1>1
<1>. HIDE DEF dead, kept
<1>6. run' \in [Runs -> RunRecord]
  BY <1>2, <1>3, <1>5 DEF RunnerTables
<1>7. ASSUME NEW r \in Runs
      PROVE  /\ r \in R => Again(r)
             /\ r \in Kept => run'[r].status = "running"
             /\ r \notin R => run'[r] = run[r]
  BY <1>3, <1>4, <1>5 DEF Again
<1>8. RunsGo
  <2>1. ClaimStep
    BY DEF ClaimStep
  <2>2. RunsMove
    BY <1>7 DEF RunsMove, Same
  <2>3. \A r \in Runs : run'[r].status = "completed" => run[r].status = "completed"
    BY <1>7 DEF Again
  <2>. QED BY <1>6, <2>1, <2>2, <2>3 DEF RunsGo, RunsKept
<1>9. SchedulesKept
  <2>1. \A s \in Schedules : /\ sched[s] \in Schedule
                             /\ [sched[s] EXCEPT !.locked = FALSE] \in Schedule
                             /\ [sched[s] EXCEPT !.locked = TRUE] \in Schedule
    <3>. SUFFICES ASSUME NEW s \in Schedules
                  PROVE  /\ sched[s] \in Schedule
                         /\ [sched[s] EXCEPT !.locked = FALSE] \in Schedule
                         /\ [sched[s] EXCEPT !.locked = TRUE] \in Schedule
      OBVIOUS
    <3>1. sched[s] \in Schedule
      BY <1>2 DEF RunnerTables
    <3>. QED BY <3>1 DEF Schedule
  <2>2. \A s \in Schedules : sched'[s] \in {sched[s], [sched[s] EXCEPT !.locked = FALSE],
                                             [sched[s] EXCEPT !.locked = TRUE]}
    BY DEF RecoverExpiredScheduleLeases
  <2>3. sched' = [s \in Schedules |-> sched'[s]]
    BY DEF RecoverExpiredScheduleLeases
  <2>. QED BY <2>1, <2>2, <2>3 DEF SchedulesKept
<1>10. Kept \in SUBSET Runs /\ \A r \in Kept : run'[r].status # "free"
  BY <1>4, <1>7
<1>11. todo' = [todo EXCEPT ![w] = Kept]
  BY <1>1
<1>. QED BY <1>2, <1>8, <1>9, <1>10, <1>11, BatchOK

\* The steps of a sweeper on runs and settlements.
SettlementsGo(p) ==
  /\ settle' \in [Sweepers -> SUBSET [run : Runs, delivery : Terminal]]
  /\ \A q \in Sweepers \ {p} : settle'[q] = settle[q]
  /\ \A f \in settle'[p] : row[f.run].status # "absent"

LEMMA SettlementsMove ==
  ASSUME RunnerInv, NEW p \in Sweepers, SettlementsGo(p),
         UNCHANGED <<sched, report, payload, todo, exec, ops>>, RunsGo
  PROVE  StepOK
<1>1. RunnerTables'
  BY DEF RunnerInv, RunnerTables, RunsGo, SettlementsGo
<1>2. SettlesMove
  BY DEF SettlesMove, SettlementsGo
<1>. QED BY <1>1, <1>2 DEF StepOK, RunsGo, ReportsKept, ExecsMove

LEMMA SettlementsEnd ==
  ASSUME RunnerInv, NEW p \in Sweepers, settle' = [settle EXCEPT ![p] = {}]
  PROVE  SettlementsGo(p)
BY DEF RunnerInv, RunnerTables, SettlementsGo

LEMMA RunsRest == ASSUME RunnerInv, run' = run PROVE RunsGo
BY DEF RunnerInv, RunnerTables, RunsGo, RunsKept, RunsMove, Same

LEMMA SweeperSteps ==
  ASSUME RunnerInv, NEW p \in Sweepers, SweepRecord(p) \/ SweepSettle(p) \/ CrashSweeper(p)
  PROVE  StepOK
<1>0. OwnershipInv /\ RunnerTables /\ p \in Senders
  BY DEF RunnerInv
<1>1. CASE CrashSweeper(p)
  <2>1. run' = run /\ settle' = [settle EXCEPT ![p] = {}]
        /\ UNCHANGED <<sched, report, payload, todo, exec, ops>>
    BY <1>1 DEF CrashSweeper
  <2>. QED BY <2>1, RunsRest, SettlementsEnd, SettlementsMove
<1>2. CASE SweepSettle(p)
  <2>1. PICK f \in settle[p] :
          /\ FinalizeRun(f.run, f.delivery) \/ run' = run
          /\ settle' = [settle EXCEPT ![p] = {}]
          /\ UNCHANGED <<sched, report, payload, todo, exec, ops>>
    BY <1>2 DEF SweepSettle
  <2>2. f.run \in Runs /\ f.delivery \in Terminal /\ row[f.run].status # "absent"
    BY <1>0 DEF RunnerTables, RunnerInv, SettleInUse
  <2>3. RunsGo
    BY <2>1, <2>2, RunsRest, SettledHasDelivery, Finalizes DEF RunsGo
  <2>. QED BY <2>1, <2>3, SettlementsEnd, SettlementsMove
<1>3. CASE SweepRecord(p)
  <2>. DEFINE final == FinalStatus(p)
              r == answer[p].claim.delivery
              f == [run |-> r, delivery |-> final]
  <2>1. /\ answer[p].sent /\ run' = run /\ UNCHANGED <<sched, report, payload, todo, exec, ops>>
        /\ settle' = IF final \in Terminal THEN [settle EXCEPT ![p] = {f}] ELSE settle
    BY <1>3 DEF SweepRecord, RecordAttempt, LoseRecord
  <2>2. answer[p].claim \in claims[p] /\ r \in Runs
    BY <1>0, <2>1 DEF OwnershipInv, AnswerIsClaimed, OutboxTypeOK, Claim, Runs
  <2>3. row[r].status # "absent"
    BY <1>0, <2>2 DEF RunnerInv, ClaimsInUse
  <2>4. CASE final \in Terminal
    <3>1. {f} \in SUBSET [run : Runs, delivery : Terminal] /\ \A g \in {f} : row[g.run].status # "absent"
      BY <2>2, <2>3, <2>4
    <3>2. settle' = [settle EXCEPT ![p] = {f}]
      BY <2>1, <2>4
    <3>. HIDE DEF f
    <3>3. SettlementsGo(p)
      BY <1>0, <3>1, <3>2 DEF SettlementsGo, RunnerTables
    <3>. QED BY <2>1, <3>3, RunsRest, SettlementsMove
  <2>5. CASE final \notin Terminal
    <3>1. SettlementsGo(p)
      BY <1>0, <2>1, <2>5 DEF SettlementsGo, RunnerTables, RunnerInv, SettleInUse
    <3>. QED BY <2>1, <3>1, RunsRest, SettlementsMove
  <2>. QED BY <2>4, <2>5
<1>. QED BY <1>1, <1>2, <1>3

-----------------------------------------------------------------------------
(* The invariant.                                                          *)

LEMMA RunnerRests ==
  ASSUME RunnerInv, UNCHANGED runnerVars PROVE StepOK
<1>1. sched' \in [Schedules -> Schedule] /\ ops' \in 0..MaxOps
      /\ UNCHANGED <<run, report, payload, todo, exec, settle>>
  BY DEF RunnerInv, RunnerTables, runnerVars
<1>. QED BY <1>1, SchedulesMove

LEMMA StepsOK == ASSUME RunnerInv, [Next]_vars PROVE StepOK
<1>1. ASSUME NEW w \in Workers, ClaimDueSchedules(w) \/ RecoverExpiredScheduleLeases(w) PROVE StepOK
  BY <1>1, ClaimDueStep, RecoverStep
<1>2. ASSUME NEW w \in Executors, ExecutionStep(w) PROVE StepOK
  <2>1. CASE \/ Begin(w) \/ LockSchedule(w) \/ ResolveScheduleOwner(w) \/ DisableSchedule(w)
             \/ LoadSchedule(w) \/ ReuseReport(w) \/ ReportFails(w) \/ StoreReport(w)
    BY <2>1, BeginStep, LockStep, OwnerStep, DisableStep, LoadStep, ReuseStep, ReportFailsStep, StoreStep
  <2>2. CASE \/ DeliverReport(w) \/ AttemptInline(w) \/ RecordInline(w) \/ SettleInline(w)
             \/ AdvanceSchedule(w) \/ FinishScheduleRun(w)
    BY <2>2, DeliverStep, AttemptStep, RecordStep, SettleStep, AdvanceStep, FinishStep
  <2>3. CASE PostInline(w)
    BY <2>3, RunnerRests DEF PostInline
  <2>. QED BY <1>2, <2>1, <2>2, <2>3 DEF ExecutionStep
<1>3. ASSUME NEW w \in Executors, RenewRunLease(w) PROVE StepOK
  <2>1. RunOf(w) \in Runs
    BY <1>3, Standing DEF RenewRunLease, RunnerInv, ExecOK
  <2>. QED BY <1>3, <2>1, LeaseMoves DEF RenewRunLease
<1>4. ASSUME NEW w \in Executors, CrashExecutor(w) PROVE StepOK
  BY <1>4, CrashExecutorStep
<1>5. ASSUME NEW p \in Sweepers, SweepOutbox(p) \/ SweepStep(p) \/ CrashSweeper(p) PROVE StepOK
  BY <1>5, RunnerRests, SweeperSteps DEF SweepOutbox, SweepStep, SweepPost
<1>6. CASE Reclaim \/ OutboxTime \/ UNCHANGED vars
  BY <1>6, RunnerRests DEF Reclaim, OutboxTime, vars
<1>7. CASE ApiNext
  BY <1>7, RunNowStep, RetryRunStep, ScheduleSteps, DeleteStep DEF ApiNext
<1>8. ASSUME NEW r \in Runs, RunLeaseExpires(r) PROVE StepOK
  BY <1>8, LeaseMoves DEF RunLeaseExpires
<1>9. CASE \/ \E s \in Schedules : BecomesDue(s) \/ LockExpires(s)
           \/ \E w \in Executors : RenewScheduleLock(w)
  BY <1>9, ScheduleSteps
<1>. QED BY <1>1, <1>2, <1>3, <1>4, <1>5, <1>6, <1>7, <1>8, <1>9 DEF Next

LEMMA InitHolds == Init => RunnerInv
<1>. SUFFICES ASSUME Init PROVE RunnerInv
  OBVIOUS
<1>1. OwnershipInv
  BY OwnershipInit DEF Init
<1>2. RunnerTables
  <2>1. sched \in [Schedules -> Schedule]
    BY DEF Init, Schedule
  <2>2. run \in [Runs -> RunRecord]
    BY DEF Init, FreeRun, RunRecord, Manual
  <2>3. exec \in [Executors -> Execution]
    BY DEF Init, Resting, Execution, Steps, Results
  <2>. QED BY <2>1, <2>2, <2>3 DEF Init, RunnerTables
<1>3. RunsInUse /\ CompletedHasDelivery
  BY DEF Init, FreeRun, RunsInUse, CompletedHasDelivery
<1>4. \A w \in Executors : ExecOK(w)
  BY DEF Init, ExecOK, At, Resting
<1>5. ClaimsInUse /\ SettleInUse
  BY DEF Init, OutboxInit, ClaimsInUse, SettleInUse
<1>6. PayloadIsStoredReport
  BY DEF Init, OutboxInit, AbsentRow, PayloadIsStoredReport, Runs
<1>. QED BY <1>1, <1>2, <1>3, <1>4, <1>5, <1>6 DEF RunnerInv

LEMMA InvHolds == Spec => []RunnerInv
<1>1. RunnerInv /\ [Next]_vars => RunnerInv'
  BY StepsOK, StepKeepsInv
<1>. QED BY <1>1, InitHolds, PTL DEF Spec

\* The scheduler tables and the executors keep their types (app/service/schedules.go,
\* schedule_runner.go), whoever crashes or overlaps.
THEOREM RunnerTypeCorrect == Spec => []RunnerTypeOK
<1>1. RunnerInv => RunnerTypeOK
  BY DEF RunnerInv, RunnerTables, RunnerTypeOK, OwnershipInv
<1>. QED BY <1>1, InvHolds, PTL

\* Overlapping and recovered executions of a run deliver one report: the payload of
\* an outbox row is the report stored for the run (schedule_runner.go, schedules.go).
THEOREM PayloadsAreStoredReports == Spec => []PayloadIsStoredReport
<1>1. RunnerInv => PayloadIsStoredReport
  BY DEF RunnerInv
<1>. QED BY <1>1, InvHolds, PTL

\* A run that says it completed has a report and, for a webhook, a durable row,
\* whoever says so: its execution, another one of the same run, or a sweep.
THEOREM CompletedRunsDeliver == Spec => []CompletedHasDelivery
<1>1. RunnerInv => CompletedHasDelivery
  BY DEF RunnerInv
<1>. QED BY <1>1, InvHolds, PTL

-----------------------------------------------------------------------------
(* One run per slot, and how often a run is attempted.                     *)

\* A step that claims no new run keeps the slots.
LEMMA SlotsKept ==
  ASSUME OneRunPerSlot,
         \A r \in Runs : /\ run'[r].schedule = run[r].schedule /\ run'[r].slot = run[r].slot
                         /\ run'[r].status = "free" <=> run[r].status = "free"
  PROVE  OneRunPerSlot'
BY DEF OneRunPerSlot

LEMMA ClaimKeepsSlots ==
  ASSUME RunnerInv, OneRunPerSlot, NEW w \in Workers, ClaimDueSchedules(w)
  PROVE  OneRunPerSlot'
<1>1. PICK S \in SUBSET {s \in Schedules : Claimable(s)} :
        LET New == {s \in S : ~SlotTaken(s)}
        IN  \E id \in [New -> Unused] :
              /\ \A s, t \in New : s # t => id[s] # id[t]
              /\ run' = [r \in Runs |->
                           IF \E s \in New : id[s] = r
                           THEN LET s == CHOOSE s \in New : id[s] = r IN NewRun(s, sched[s].slot)
                           ELSE run[r]]
              /\ todo' = [todo EXCEPT ![w] = {id[s] : s \in New}]
  BY DEF ClaimDueSchedules
<1>. DEFINE New == {s \in S : ~SlotTaken(s)}
<1>2. PICK id \in [New -> Unused] :
        run' = [r \in Runs |->
                  IF \E s \in New : id[s] = r
                  THEN LET s == CHOOSE s \in New : id[s] = r IN NewRun(s, sched[s].slot)
                  ELSE run[r]]
  BY <1>1
<1>3. ASSUME NEW r \in Runs, \E s \in New : id[s] = r
      PROVE  \E s \in New : id[s] = r /\ run'[r] = NewRun(s, sched[s].slot)
  BY <1>2, <1>3
<1>4. \A r \in Runs : (~\E s \in New : id[s] = r) => run'[r] = run[r]
  BY <1>2
<1>. SUFFICES ASSUME NEW r \in Runs, NEW q \in Runs, r # q, run'[r].status # "free",
                     run'[r].schedule = run'[q].schedule, run'[r].slot = run'[q].slot
              PROVE  run'[r].slot = Manual
  BY DEF OneRunPerSlot
<1>5. ASSUME NEW x \in Runs, NEW y \in Runs, x # y, \E s \in New : id[s] = x,
             run'[x].schedule = run'[y].schedule, run'[x].slot = run'[y].slot
      PROVE  FALSE
  <2>1. PICK s \in New : id[s] = x /\ run'[x] = NewRun(s, sched[s].slot)
    BY <1>3, <1>5
  <2>2. CASE \E t \in New : id[t] = y
    <3>1. PICK t \in New : id[t] = y /\ run'[y] = NewRun(t, sched[t].slot)
      BY <1>3, <2>2
    <3>2. s = t
      BY <1>5, <2>1, <3>1 DEF NewRun
    <3>. QED BY <1>5, <2>1, <3>1, <3>2
  <2>3. CASE ~\E t \in New : id[t] = y
    <3>1. run[y].schedule = s /\ run[y].slot = sched[s].slot
      BY <1>4, <1>5, <2>1, <2>3 DEF NewRun
    <3>. QED BY <2>1, <3>1 DEF SlotTaken
  <2>. QED BY <2>2, <2>3
<1>6. run'[r] = run[r] /\ run'[q] = run[q]
  BY <1>4, <1>5
<1>. QED BY <1>6 DEF OneRunPerSlot

LEMMA StepKeepsSlots ==
  ASSUME RunnerInv, OneRunPerSlot, [Next]_vars
  PROVE  OneRunPerSlot'
<1>1. CASE \A r \in Runs : Same(r)
  BY <1>1, SlotsKept DEF Same
<1>2. ASSUME NEW w \in Workers, ClaimDueSchedules(w) PROVE OneRunPerSlot'
  BY <1>2, ClaimKeepsSlots
<1>3. ASSUME NEW w \in Workers, RecoverExpiredScheduleLeases(w) PROVE OneRunPerSlot'
  <2>1. PICK R \in SUBSET {r \in Runs : Expired(r)} :
          run' = [r \in Runs |->
                    IF r \in {x \in R : OutOfAttempts(x)}
                    THEN [run[r] EXCEPT !.status = "dead_letter", !.attempts = @ + 1, !.lease = "none"]
                    ELSE IF r \in R \ {x \in R : OutOfAttempts(x)}
                    THEN [run[r] EXCEPT !.attempts = @ + 1, !.lease = "held"]
                    ELSE run[r]]
    BY <1>3 DEF RecoverExpiredScheduleLeases
  <2>2. ASSUME NEW r \in Runs
        PROVE  /\ run'[r].schedule = run[r].schedule /\ run'[r].slot = run[r].slot
               /\ run'[r].status = "free" <=> run[r].status = "free"
    <3>1. run[r] \in RunRecord
      BY DEF RunnerInv, RunnerTables
    <3>2. r \in R => run[r].status = "running"
      BY DEF Expired
    <3>. QED BY <2>1, <3>1, <3>2 DEF RunRecord
  <2>. QED BY <2>2, SlotsKept
<1>4. ASSUME NEW c \in Clients, NEW r \in Runs, RetryRun(c, r) PROVE OneRunPerSlot'
  <2>1. run' = [run EXCEPT ![r].status = "running", ![r].attempts = @ + 1, ![r].lease = "held"]
        /\ run[r].status \in {"failed", "dead_letter"}
    BY <1>4 DEF RetryRun
  <2>2. run \in [Runs -> RunRecord]
    BY DEF RunnerInv, RunnerTables
  <2>3. \A q \in Runs : /\ run'[q].schedule = run[q].schedule /\ run'[q].slot = run[q].slot
                        /\ run'[q].status = "free" <=> run[q].status = "free"
    BY <2>1, <2>2 DEF RunRecord
  <2>. QED BY <2>3, SlotsKept
<1>5. ASSUME NEW c \in Clients, NEW s \in Schedules, RunNow(c, s) PROVE OneRunPerSlot'
  <2>1. PICK r \in Unused : run' = [run EXCEPT ![r] = NewRun(s, Manual)]
    BY <1>5 DEF RunNow
  <2>2. run \in [Runs -> RunRecord] /\ r \in Runs
    BY DEF RunnerInv, RunnerTables, Unused
  <2>3. run'[r].slot = Manual /\ \A q \in Runs \ {r} : run'[q] = run[q]
    BY <2>1, <2>2 DEF NewRun
  <2>. QED BY <2>3 DEF OneRunPerSlot
<1>. QED BY <1>1, <1>2, <1>3, <1>4, <1>5, StepsOK DEF StepOK, RunsKept, ClaimStep

\* However many replicas claim and whatever locks run out under them, a slot of a
\* schedule has one run (schedules.go, the idempotency key of the claim).
THEOREM OneRunPerSlotHolds == Spec => []OneRunPerSlot
<1>1. Init => OneRunPerSlot
  BY DEF Init, FreeRun, OneRunPerSlot
<1>2. RunnerInv /\ OneRunPerSlot /\ [Next]_vars => OneRunPerSlot'
  BY StepKeepsSlots
<1>. QED BY <1>1, <1>2, InvHolds, PTL DEF Spec

LEMMA OperationsGrow ==
  ASSUME RunnerInv, [Next]_vars
  PROVE  ops \in Nat /\ (ops' = ops \/ ops' = ops + 1)
<1>1. ops \in Nat
  BY DEF RunnerInv, RunnerTables
<1>2. ASSUME NEW w \in Executors, ExecutionStep(w) PROVE ops' = ops
  BY <1>2 DEF ExecutionStep, Begin, LockSchedule, ResolveScheduleOwner, DisableSchedule, LoadSchedule,
              ReuseReport, ReportFails, StoreReport, DeliverReport, AttemptInline, PostInline,
              RecordInline, SettleInline, AdvanceSchedule, FinishScheduleRun, runnerVars
<1>3. ASSUME ApiNext PROVE ops' = ops + 1
  <2>1. ASSUME NEW op, Operation(op) PROVE ops' = ops + 1
    BY <2>1 DEF Operation
  <2>2. \E op : Operation(op)
    BY <1>3 DEF ApiNext, RunNow, RetryRun, Update, Delete, Revoke
  <2>. QED BY <2>1, <2>2
<1>4. ASSUME UNCHANGED vars PROVE ops' = ops
  BY <1>4 DEF vars, runnerVars
<1>5. ASSUME NEW w \in Workers, ClaimDueSchedules(w) \/ RecoverExpiredScheduleLeases(w) PROVE ops' = ops
  BY <1>5 DEF ClaimDueSchedules, RecoverExpiredScheduleLeases
<1>6. ASSUME NEW w \in Executors, RenewRunLease(w) \/ RenewScheduleLock(w) \/ CrashExecutor(w)
      PROVE  ops' = ops
  BY <1>6 DEF RenewRunLease, RenewScheduleLock, CrashExecutor
<1>7. ASSUME NEW p \in Sweepers, SweepOutbox(p) \/ SweepStep(p) \/ CrashSweeper(p) PROVE ops' = ops
  BY <1>7 DEF SweepOutbox, SweepStep, SweepPost, SweepRecord, SweepSettle, CrashSweeper, runnerVars
<1>8. ASSUME Reclaim \/ OutboxTime PROVE ops' = ops
  BY <1>8 DEF Reclaim, OutboxTime, runnerVars
<1>9. ASSUME \/ \E s \in Schedules : BecomesDue(s) \/ LockExpires(s)
             \/ \E r \in Runs : RunLeaseExpires(r)
      PROVE  ops' = ops
  BY <1>9 DEF BecomesDue, LockExpires, RunLeaseExpires
<1>. QED BY <1>1, <1>2, <1>3, <1>4, <1>5, <1>6, <1>7, <1>8, <1>9 DEF Next

LEMMA BoundGrows ==
  ASSUME NEW m \in Nat, m >= 2, NEW a \in Nat, NEW b \in Nat, a <= b
  PROVE  m + 2 * a \in Nat /\ m + 2 * b \in Nat /\ m + 2 * a <= m + 2 * b /\ m + 2 * a >= 2
OBVIOUS

LEMMA StepBoundsAttempts ==
  ASSUME MaxScheduleAttempts >= 2, RunnerInv, RunAttemptsBounded, [Next]_vars
  PROVE  RunAttemptsBounded'
<1>. DEFINE Bound == MaxScheduleAttempts + 2 * ops
<1>0. /\ run \in [Runs -> RunRecord] /\ \A r \in Runs : run[r] \in RunRecord
      /\ ops \in Nat /\ ops' \in Nat /\ ops <= ops' /\ MaxScheduleAttempts \in Nat
      /\ \A r \in Runs : run[r].attempts \in Nat
  BY OperationsGrow DEF RunnerInv, RunnerTables, RunRecord
<1>1. Bound \in Nat /\ Bound' \in Nat /\ Bound <= Bound' /\ Bound >= 2
  <2>1. ops \in Nat /\ ops' \in Nat /\ ops <= ops' /\ MaxScheduleAttempts \in Nat
    BY <1>0
  <2>. QED BY <2>1, BoundGrows
<1>2. \A r \in Runs : /\ run[r].attempts <= Bound
                      /\ run[r].status = "running" => run[r].attempts < Bound
  BY DEF RunAttemptsBounded
<1>. SUFFICES ASSUME NEW r \in Runs
              PROVE  /\ run'[r].attempts <= Bound'
                     /\ run'[r].status = "running" => run'[r].attempts < Bound'
  BY DEF RunAttemptsBounded
<1>. HIDE DEF Bound
<1>3. ASSUME run'[r].attempts = run[r].attempts, run'[r].status = "running" => run[r].status = "running"
      PROVE  /\ run'[r].attempts <= Bound'
             /\ run'[r].status = "running" => run'[r].attempts < Bound'
  BY <1>0, <1>1, <1>2, <1>3 DEF Bound
<1>4. ASSUME run'[r].attempts = 1
      PROVE  /\ run'[r].attempts <= Bound'
             /\ run'[r].status = "running" => run'[r].attempts < Bound'
  BY <1>0, <1>4 DEF Bound
<1>5. CASE Same(r)
  BY <1>3, <1>5 DEF Same
<1>6. ASSUME NEW w \in Workers, ClaimDueSchedules(w)
      PROVE  run'[r] = run[r] \/ run'[r].attempts = 1
  BY <1>6 DEF ClaimDueSchedules, NewRun
<1>7. ASSUME NEW c \in Clients, NEW s \in Schedules, RunNow(c, s)
      PROVE  run'[r] = run[r] \/ run'[r].attempts = 1
  BY <1>0, <1>7 DEF RunNow, NewRun, Unused
<1>8. ASSUME NEW c \in Clients, NEW q \in Runs, RetryRun(c, q)
      PROVE  /\ run'[r].attempts <= Bound'
             /\ run'[r].status = "running" => run'[r].attempts < Bound'
  <2>1. CASE r # q
    BY <1>0, <1>3, <1>8, <2>1 DEF RetryRun
  <2>2. CASE r = q
    <3>1. run'[r].attempts = run[r].attempts + 1
      BY <1>0, <1>8, <2>2 DEF RetryRun, RunRecord
    <3>2. ops' = ops + 1
      BY <1>8 DEF RetryRun, Operation
    <3>. QED BY <1>0, <1>2, <3>1, <3>2 DEF Bound
  <2>. QED BY <2>1, <2>2
<1>9. ASSUME NEW w \in Workers, RecoverExpiredScheduleLeases(w)
      PROVE  /\ run'[r].attempts <= Bound'
             /\ run'[r].status = "running" => run'[r].attempts < Bound'
  <2>0. run[r] \in RunRecord /\ ops' = ops
    BY <1>0, <1>9 DEF RecoverExpiredScheduleLeases
  <2>1. PICK R \in SUBSET {q \in Runs : Expired(q)} :
          run' = [q \in Runs |->
                    IF q \in {x \in R : OutOfAttempts(x)}
                    THEN [run[q] EXCEPT !.status = "dead_letter", !.attempts = @ + 1, !.lease = "none"]
                    ELSE IF q \in R \ {x \in R : OutOfAttempts(x)}
                    THEN [run[q] EXCEPT !.attempts = @ + 1, !.lease = "held"]
                    ELSE run[q]]
    BY <1>9 DEF RecoverExpiredScheduleLeases
  <2>2. CASE r \notin R
    BY <1>3, <2>1, <2>2
  <2>3. CASE r \in R /\ OutOfAttempts(r)
    <3>1. run'[r].attempts = run[r].attempts + 1 /\ run'[r].status = "dead_letter"
      BY <2>0, <2>1, <2>3 DEF RunRecord
    <3>2. run[r].status = "running"
      BY <2>3 DEF Expired
    <3>. QED BY <1>0, <1>1, <1>2, <2>0, <3>1, <3>2 DEF Bound
  <2>4. CASE r \in R /\ ~OutOfAttempts(r)
    <3>1. run'[r].attempts = run[r].attempts + 1
      BY <2>0, <2>1, <2>4 DEF RunRecord
    <3>2. run[r].attempts + 1 < MaxScheduleAttempts
      BY <1>0, <2>4 DEF OutOfAttempts
    <3>. QED BY <1>0, <3>1, <3>2 DEF Bound
  <2>. QED BY <2>2, <2>3, <2>4
<1>. QED BY <1>3, <1>4, <1>5, <1>6, <1>7, <1>8, <1>9, StepsOK DEF StepOK, RunsKept, ClaimStep

\* A run is recovered and retried a bounded number of times (schedules.go,
\* maxScheduleAttempts): two attempts for each request and the limit of recoveries.
THEOREM RunAttemptsBoundedHolds == ASSUME MaxScheduleAttempts >= 2 PROVE Spec => []RunAttemptsBounded
<1>1. Init /\ RunnerInv => RunAttemptsBounded
  BY DEF Init, FreeRun, RunAttemptsBounded, RunnerInv, RunnerTables
<1>2. RunnerInv /\ RunAttemptsBounded /\ [Next]_vars => RunAttemptsBounded'
  BY StepBoundsAttempts
<1>. QED BY <1>1, <1>2, InvHolds, PTL DEF Spec

-----------------------------------------------------------------------------
(* What the outbox promises, it promises under the runner.                 *)

\* Every step of the runner is one of the outbox or a disruption that it does not
\* notice.
LEMMA RunnerStepsOutbox ==
  ASSUME RunnerInv, [Next]_vars
  PROVE  [OutboxNext]_outboxVars \/ Disrupted
<1>1. CASE [OutboxSends]_outboxVars
  BY <1>1 DEF OutboxSends, OutboxNext
<1>2. ASSUME NEW w \in Executors, DeliverReport(w) PROVE [OutboxNext]_outboxVars \/ Disrupted
  <2>1. RunOf(w) \in Deliveries
    BY <1>2 DEF RunnerInv, ExecOK, DeliverReport, At, Runs
  <2>. QED BY <1>2, <2>1, DeliverOutbox DEF OutboxNext
<1>. QED BY <1>1, <1>2, RunnerMovesOutbox

\* However executions, retries and sweeps overlap, no attempt of a delivery is in
\* two hands and none is POSTed twice (webhook_retry.go:76-92, schedule_runner.go).
THEOREM RunnerOwnsAttempts == Spec => []AttemptOwnedOnce
<1>1. RunnerInv => AttemptOwnedOnce
  BY DEF RunnerInv, OwnershipInv, AttemptOwnedOnce, ClaimsAreDisjoint, UnsentIsUnposted
<1>. QED BY <1>1, InvHolds, PTL

LEMMA RunnerReceipts == Spec => []ReceiptInv
<1>1. Init => ReceiptInv
  BY ReceiptInit DEF Init
<1>2. ASSUME RunnerInv, RunnerInv', ReceiptInv, [Next]_vars PROVE ReceiptInv'
  <2>1. CASE [OutboxNext]_outboxVars
    BY <1>2, <2>1, ReceiptStep DEF RunnerInv
  <2>2. CASE Disrupted
    BY <1>2, <2>2 DEF Disrupted, OutboxExceptDisruptions, ReceiptInv, AnsweredWasReceived,
                      DeliveredWasReceived, RunnerInv
  <2>. QED BY <1>2, <2>1, <2>2, RunnerStepsOutbox
<1>3. RunnerInv /\ RunnerInv' /\ ReceiptInv /\ [Next]_vars => ReceiptInv'
  BY <1>2
<1>. QED BY <1>1, <1>3, InvHolds, PTL DEF Spec

\* A delivered row was received, whoever wrote it: an execution that lost its lease,
\* a request's retry, or a sweep.
THEOREM RunnerDelivers == Spec => []DeliveredWasReceived
<1>1. ReceiptInv => DeliveredWasReceived
  BY DEF ReceiptInv
<1>. QED BY <1>1, RunnerReceipts, PTL

LEMMA RunnerClaims == Spec => []CurrentInv
<1>1. Init => CurrentInv
  BY CurrentInit DEF Init
<1>2. ASSUME RunnerInv, RunnerInv', CurrentInv, [Next]_vars PROVE CurrentInv'
  <2>1. CASE [OutboxNext]_outboxVars
    BY <1>2, <2>1, CurrentStep DEF RunnerInv
  <2>2. CASE Disrupted
    BY <1>2, <2>2 DEF Disrupted, OutboxExceptDisruptions, CurrentInv, ClaimIsCurrent, RunnerInv
  <2>. QED BY <1>2, <2>1, <2>2, RunnerStepsOutbox
<1>3. RunnerInv /\ RunnerInv' /\ CurrentInv /\ [Next]_vars => CurrentInv'
  BY <1>2
<1>. QED BY <1>1, <1>3, InvHolds, PTL DEF Spec

\* While leases cover the attempts, the runner with its outbox is at-least-once
\* delivery with one final outcome for each run (schedules.go:332-370, webhook_retry.go).
THEOREM RunnerKeepsPromise == ASSUME LeaseCoversAttempt PROVE Spec => Promise!Spec
<1>1. Init => Promise!Init
  BY DEF Init, OutboxInit, Promise!Init, Outcome, AbsentRow
<1>2. RunnerInv /\ CurrentInv /\ ReceiptInv /\ CurrentInv' /\ [Next]_vars
        => [Promise!Next]_(Promise!vars)
  <2>. SUFFICES ASSUME RunnerInv, CurrentInv, ReceiptInv, CurrentInv', [Next]_vars
                PROVE  [Promise!Next]_(Promise!vars)
    OBVIOUS
  <2>1. CASE [OutboxNext]_outboxVars
    BY <2>1, PromiseStep
  <2>2. CASE Disrupted
    BY <2>2 DEF Disrupted, OutboxExceptDisruptions, Promise!vars
  <2>. QED BY <2>1, <2>2, RunnerStepsOutbox
<1>. QED BY <1>1, <1>2, InvHolds, RunnerClaims, RunnerReceipts, PTL DEF Spec, Promise!Spec

-----------------------------------------------------------------------------
(* One worker: nobody generates the report another one generates.          *)

\* An executor has a run in hand, in its batch or in execution.
HasRun(w, r) == r \in todo[w] \/ RunOf(w) = r

\* An executor that rests has no run in execution, the run in execution has left
\* the batch, and requests have no batch.
RestOK(w) ==
  /\ At(w, "idle") => RunOf(w) = Nobody
  /\ RunOf(w) \notin todo[w]
  /\ w \in Clients => todo[w] = {}

\* Who is about to store a report found none, and there still is none.
StoreOK(w) == At(w, "store") => report[RunOf(w)] = NoReport

\* A run without a report that somebody has in hand is running, or gone with its
\* schedule, and what a request has in hand keeps its lease.
HeldOK(r) ==
  /\ \A w \in Executors : HasRun(w, r) => run[r].status \in {"running", "gone"}
  /\ \A c \in Clients : HasRun(c, r) => run[r].lease # "expired"

\* It is in one executor's hands.
SoleOK(r) ==
  report[r] = NoReport =>
    /\ \A v, w \in Executors : HasRun(v, r) /\ HasRun(w, r) => v = w
    /\ HeldOK(r)

SoleInv ==
  /\ \A w \in Executors : RestOK(w) /\ StoreOK(w)
  /\ \A r \in Runs : SoleOK(r)

\* A step of one executor: runs without a report that it takes are in nobody's
\* hands, and those in somebody's hands stay in order.
LEMMA SoleKept ==
  ASSUME RunnerInv, SoleInv, ReportsKept, NEW w \in Executors,
         \A v \in Executors \ {w} : exec'[v] = exec[v] /\ todo'[v] = todo[v],
         RestOK(w)', StoreOK(w)',
         \A v \in Executors \ {w} : At(v, "store") => report'[RunOf(v)] = NoReport,
         \A r \in Runs : report[r] = NoReport /\ HasRun(w, r)' =>
           HasRun(w, r) \/ \A v \in Executors \ {w} : ~HasRun(v, r),
         \A r \in Runs : report[r] = NoReport => HeldOK(r)'
  PROVE  SoleInv'
<1>1. \A v \in Executors \ {w} : /\ RestOK(v)' /\ StoreOK(v)'
                                 /\ \A r \in Runs : HasRun(v, r)' <=> HasRun(v, r)
  BY DEF SoleInv, RestOK, StoreOK, At, RunOf, HasRun
<1>2. ASSUME NEW r \in Runs, report'[r] = NoReport
      PROVE  (\A u, v \in Executors : HasRun(u, r)' /\ HasRun(v, r)' => u = v) /\ HeldOK(r)'
  <2>1. report[r] = NoReport
    BY <1>2 DEF ReportsKept
  <2>2. SoleOK(r)
    BY DEF SoleInv
  <2>. HIDE DEF HasRun, HeldOK
  <2>. QED BY <1>1, <2>1, <2>2 DEF SoleOK
<1>3. \A r \in Runs : SoleOK(r)'
  BY <1>2 DEF SoleOK
<1>. QED BY <1>1, <1>3 DEF SoleInv

\* A step that takes no run.
LEMMA HeldStays ==
  ASSUME RunnerInv, SoleInv, NEW r \in Runs, report[r] = NoReport,
         \A v \in Executors : HasRun(v, r)' => HasRun(v, r), run'[r] = run[r]
  PROVE  HeldOK(r)'
<1>1. HeldOK(r)
  BY DEF SoleInv, SoleOK
<1>2. Clients \subseteq Executors
  BY DEF Executors
<1>. QED BY <1>1, <1>2 DEF HeldOK, HasRun

\* A step of the tables alone: the runs in somebody's hands stay in order.
LEMMA SoleRests ==
  ASSUME RunnerInv, SoleInv, UNCHANGED <<exec, todo, report>>,
         \A r \in Runs : report[r] = NoReport => run'[r] = run[r] \/ HeldOK(r)'
  PROVE  SoleInv'
<1>1. \A v \in Executors : /\ (RestOK(v)' <=> RestOK(v)) /\ (StoreOK(v)' <=> StoreOK(v))
                           /\ \A r \in Runs : HasRun(v, r)' <=> HasRun(v, r)
  BY DEF RestOK, StoreOK, At, RunOf, HasRun
<1>2. ASSUME NEW r \in Runs, report[r] = NoReport PROVE HeldOK(r)'
  BY <1>1, <1>2, HeldStays
<1>3. ASSUME NEW r \in Runs PROVE SoleOK(r)'
  <2>1. SoleOK(r)
    BY DEF SoleInv
  <2>. HIDE DEF HasRun, HeldOK
  <2>. QED BY <1>1, <1>2, <2>1 DEF SoleOK
<1>. QED BY <1>1, <1>3 DEF SoleInv

\* A step that finishes what it has in hand, or goes on with it.
LEMMA SoleGoesOn ==
  ASSUME RunnerInv, SoleInv, NEW w \in Executors, ~At(w, "idle"), UNCHANGED <<report, todo, run>>,
         NEW e \in Execution, e.run = RunOf(w), e.step # "idle", exec' = [exec EXCEPT ![w] = e],
         e.step = "store" => report[RunOf(w)] = NoReport
  PROVE  SoleInv'
<1>1. exec'[w] = e /\ \A v \in Executors \ {w} : exec'[v] = exec[v]
  BY DEF RunnerInv, RunnerTables
<1>2. RestOK(w)' /\ StoreOK(w)'
  BY <1>1 DEF SoleInv, RestOK, StoreOK, At, RunOf
<1>3. \A v \in Executors, r \in Runs : HasRun(v, r)' => HasRun(v, r)
  BY <1>1 DEF HasRun, RunOf
<1>4. \A r \in Runs : report[r] = NoReport => HeldOK(r)'
  BY <1>3, HeldStays
<1>5. \A v \in Executors \ {w} : At(v, "store") => report'[RunOf(v)] = NoReport
  BY DEF SoleInv, StoreOK
<1>6. ReportsKept
  BY DEF ReportsKept
<1>. QED BY <1>1, <1>2, <1>3, <1>4, <1>5, <1>6, SoleKept

LEMMA SoleGoto ==
  ASSUME RunnerInv, SoleInv, NEW w \in Executors, ~At(w, "idle"), UNCHANGED <<report, todo, run>>,
         NEW s \in Steps \ {"idle", "store"}, Goto(w, s) \/ \E x \in Results : GotoWith(w, s, x)
  PROVE  SoleInv'
<1>1. PICK e \in Execution : e.step = s /\ e.run = RunOf(w) /\ exec' = [exec EXCEPT ![w] = e]
  BY Editing
<1>. QED BY <1>1, SoleGoesOn

\* Executions.
LEMMA SoleBegins ==
  ASSUME RunnerInv, SoleInv, NEW w \in Executors, Begin(w)
  PROVE  SoleInv'
<1>1. PICK r \in todo[w] : /\ todo' = [todo EXCEPT ![w] = @ \ {r}]
                           /\ exec' = [exec EXCEPT ![w] = [Resting EXCEPT !.step = "owner", !.run = r]]
  BY DEF Begin
<1>2. /\ exec \in [Executors -> Execution] /\ todo \in [Executors -> SUBSET Runs]
      /\ report' = report /\ run' = run
  BY DEF RunnerInv, RunnerTables, Begin
<1>3. /\ exec'[w].step = "owner" /\ exec'[w].run = r /\ todo'[w] = todo[w] \ {r}
      /\ \A v \in Executors \ {w} : exec'[v] = exec[v] /\ todo'[v] = todo[v]
  BY <1>1, <1>2 DEF Resting
<1>4. RestOK(w)' /\ StoreOK(w)'
  BY <1>3 DEF SoleInv, RestOK, StoreOK, At, RunOf
<1>5. \A v \in Executors, q \in Runs : HasRun(v, q)' => HasRun(v, q)
  BY <1>3 DEF HasRun, RunOf
<1>6. \A q \in Runs : report[q] = NoReport => HeldOK(q)'
  BY <1>2, <1>5, HeldStays
<1>7. \A v \in Executors \ {w} : At(v, "store") => report'[RunOf(v)] = NoReport
  BY <1>2 DEF SoleInv, StoreOK
<1>8. ReportsKept
  BY <1>2 DEF ReportsKept
<1>. QED BY <1>3, <1>4, <1>5, <1>6, <1>7, <1>8, SoleKept

\* An executor that rests has nothing in hand but its batch.
LEMMA SoleEnds ==
  ASSUME RunnerInv, SoleInv, NEW w \in Executors, report' = report,
         exec' = [exec EXCEPT ![w] = Resting],
         todo' = todo \/ todo' = [todo EXCEPT ![w] = {}],
         \A r \in Runs : run'[r] = run[r] \/ r = RunOf(w)
  PROVE  SoleInv'
<1>1. /\ exec'[w] = Resting /\ todo'[w] \subseteq todo[w] /\ todo'[w] \in SUBSET Runs
      /\ \A v \in Executors \ {w} : exec'[v] = exec[v] /\ todo'[v] = todo[v]
  BY DEF RunnerInv, RunnerTables
<1>2. RestOK(w)' /\ StoreOK(w)'
  <2>1. Nobody \notin Runs
    BY DEF Runs, Nobody
  <2>. QED BY <1>1, <2>1 DEF SoleInv, RestOK, StoreOK, At, RunOf, Resting
<1>3. \A v \in Executors, r \in Runs : HasRun(v, r)' => HasRun(v, r)
  <2>1. Nobody \notin Runs
    BY DEF Runs, Nobody
  <2>. QED BY <1>1, <2>1 DEF HasRun, RunOf, Resting
<1>4. ASSUME NEW r \in Runs, report[r] = NoReport PROVE HeldOK(r)'
  <2>1. CASE run'[r] = run[r]
    BY <1>3, <1>4, <2>1, HeldStays
  <2>2. CASE r = RunOf(w)
    <3>1. ~HasRun(w, r)'
      <4>1. Nobody \notin Runs /\ RunOf(w) \notin todo[w]
        BY DEF Runs, Nobody, SoleInv, RestOK
      <4>. QED BY <1>1, <2>2, <4>1 DEF HasRun, RunOf, Resting
    <3>2. \A v \in Executors : HasRun(v, r) => v = w
      BY <1>4, <2>2 DEF SoleInv, SoleOK, HasRun
    <3>3. \A v \in Executors : ~HasRun(v, r)'
      BY <1>3, <3>1, <3>2
    <3>. QED BY <3>3 DEF HeldOK, Executors
  <2>. QED BY <2>1, <2>2 
<1>5. \A v \in Executors \ {w} : At(v, "store") => report'[RunOf(v)] = NoReport
  BY DEF SoleInv, StoreOK
<1>6. ReportsKept
  BY DEF ReportsKept
<1>. QED BY <1>1, <1>2, <1>3, <1>4, <1>5, <1>6, SoleKept

\* A stored report is what nobody else was about to store.
LEMMA SoleStores ==
  ASSUME RunnerInv, SoleInv, NEW w \in Executors, StoreReport(w), StepOK
  PROVE  SoleInv'
<1>. DEFINE d == RunOf(w)
<1>1. ~At(w, "idle") /\ At(w, "store") /\ UNCHANGED <<run, todo>>
  BY DEF StoreReport, At
<1>2. d \in Runs /\ report[d] = NoReport /\ report \in [Runs -> Executors \cup {NoReport}]
  BY <1>1, Standing DEF SoleInv, StoreOK, RunnerInv, RunnerTables
<1>3. /\ exec'[w].step = "deliver" /\ exec'[w].run = d
      /\ \A v \in Executors \ {w} : exec'[v] = exec[v]
  <2>1. exec \in [Executors -> Execution] /\ exec[w] \in Execution
    BY DEF RunnerInv, RunnerTables
  <2>2. exec' = [exec EXCEPT ![w] = [exec[w] EXCEPT !.step = "deliver", !.report = StoredReport(w)]]
    BY <2>1 DEF StoreReport
  <2>. QED BY <2>1, <2>2 DEF Execution, RunOf
<1>4. RestOK(w)' /\ StoreOK(w)'
  BY <1>1, <1>3 DEF SoleInv, RestOK, StoreOK, At, RunOf
<1>5. \A v \in Executors, r \in Runs : HasRun(v, r)' => HasRun(v, r)
  BY <1>1, <1>3 DEF HasRun, RunOf
<1>6. \A r \in Runs : report[r] = NoReport => HeldOK(r)'
  BY <1>1, <1>5, HeldStays
<1>7. ASSUME NEW v \in Executors \ {w}, At(v, "store") PROVE report'[RunOf(v)] = NoReport
  <2>1. report[RunOf(v)] = NoReport /\ RunOf(v) \in Runs
    BY <1>7, Standing DEF SoleInv, StoreOK, At
  <2>2. RunOf(v) # d
    BY <1>2, <1>7 DEF SoleInv, SoleOK, HasRun
  <2>3. report' = [report EXCEPT ![d] = StoredReport(w)]
    BY DEF StoreReport
  <2>. QED BY <1>2, <2>1, <2>2, <2>3
<1>. QED BY <1>1, <1>3, <1>4, <1>5, <1>6, <1>7, SoleKept DEF StepOK

LEMMA SoleReuses ==
  ASSUME RunnerInv, SoleInv, NEW w \in Executors, ReuseReport(w)
  PROVE  SoleInv'
<1>. DEFINE stored == report[RunOf(w)]
            found == [exec[w] EXCEPT !.step = "deliver", !.report = stored]
            none == [exec[w] EXCEPT !.step = "store"]
<1>1. /\ ~At(w, "idle") /\ UNCHANGED <<run, report, todo>>
      /\ exec[w] \in Execution /\ stored \in Executors \cup {NoReport}
  <2>1. ~At(w, "idle") /\ UNCHANGED <<run, report, todo>>
    BY DEF ReuseReport, At
  <2>. QED BY <2>1, Standing DEF RunnerInv, RunnerTables
<1>2. /\ found \in Execution /\ found.run = RunOf(w) /\ found.step = "deliver"
      /\ none \in Execution /\ none.run = RunOf(w) /\ none.step = "store"
  BY <1>1 DEF Execution, Steps, RunOf
<1>3. \/ exec' = [exec EXCEPT ![w] = none] /\ stored = NoReport
      \/ exec' = [exec EXCEPT ![w] = found]
  BY DEF ReuseReport, RunnerInv, RunnerTables
<1>. HIDE DEF found, none
<1>. QED BY <1>1, <1>2, <1>3, SoleGoesOn

\* Runs that a delivery finalizes have their report.
LEMMA SoleFinalizes ==
  ASSUME RunnerInv, SoleInv, NEW d \in Runs, report[d] # NoReport, NEW to, FinalizeRun(d, to)
  PROVE  \A r \in Runs : report[r] = NoReport => run'[r] = run[r]
BY DEF FinalizeRun, RunnerInv, RunnerTables

\* The run of an execution that settles has its report, and the executor goes on.
LEMMA SoleSettles ==
  ASSUME RunnerInv, SoleInv, NEW w \in Executors, SettleInline(w)
  PROVE  SoleInv'
<1>. DEFINE d == RunOf(w)
<1>1. ~At(w, "idle") /\ At(w, "settle") /\ UNCHANGED <<report, todo>> /\ Goto(w, "advance")
  BY DEF SettleInline, At
<1>2. d \in Runs /\ report[d] # NoReport
  BY <1>1, Standing DEF RunnerInv, ExecOK, At
<1>3. PICK e \in Execution : e.step = "advance" /\ e.run = d /\ exec' = [exec EXCEPT ![w] = e]
  BY <1>1, Editing DEF Steps
<1>4. exec'[w] = e /\ \A v \in Executors \ {w} : exec'[v] = exec[v]
  BY <1>3 DEF RunnerInv, RunnerTables
<1>5. RestOK(w)' /\ StoreOK(w)'
  BY <1>1, <1>3, <1>4 DEF SoleInv, RestOK, StoreOK, At, RunOf
<1>6. \A v \in Executors, r \in Runs : HasRun(v, r)' => HasRun(v, r)
  BY <1>1, <1>3, <1>4 DEF HasRun, RunOf
<1>7. \A r \in Runs : report[r] = NoReport => HeldOK(r)'
  <2>1. \A r \in Runs : report[r] = NoReport => run'[r] = run[r]
    BY <1>2, SoleFinalizes DEF SettleInline
  <2>. QED BY <1>6, <2>1, HeldStays
<1>8. \A v \in Executors \ {w} : At(v, "store") => report'[RunOf(v)] = NoReport
  BY <1>1 DEF SoleInv, StoreOK
<1>9. ReportsKept
  BY <1>1 DEF ReportsKept
<1>. QED BY <1>1, <1>4, <1>5, <1>6, <1>7, <1>8, <1>9, SoleKept

LEMMA SoleAdvances ==
  ASSUME RunnerInv, SoleInv, NEW w \in Executors, AdvanceSchedule(w)
  PROVE  SoleInv'
<1>. DEFINE e == [exec[w] EXCEPT !.step = "finish"]
<1>1. ~At(w, "idle") /\ UNCHANGED <<run, report, todo>> /\ exec[w] \in Execution
  BY DEF AdvanceSchedule, At, RunnerInv, RunnerTables
<1>2. CASE exec[w].result = "pending"
  <2>1. exec' = [exec EXCEPT ![w] = Resting]
    BY <1>2 DEF AdvanceSchedule
  <2>. QED BY <1>1, <2>1, SoleEnds
<1>3. CASE exec[w].result # "pending"
  <2>1. exec' = [exec EXCEPT ![w] = e]
    BY <1>3 DEF AdvanceSchedule, RunnerInv, RunnerTables
  <2>2. e \in Execution /\ e.step = "finish" /\ e.run = RunOf(w)
    BY <1>1 DEF Execution, Steps, RunOf
  <2>. HIDE DEF e
  <2>. QED BY <1>1, <2>1, <2>2, SoleGoesOn
<1>. QED BY <1>2, <1>3

LEMMA SoleFinishes ==
  ASSUME RunnerInv, SoleInv, NEW w \in Executors, FinishScheduleRun(w)
  PROVE  SoleInv'
<1>1. /\ exec' = [exec EXCEPT ![w] = Resting] /\ UNCHANGED <<report, todo>>
      /\ \A r \in Runs : run'[r] = run[r] \/ r = RunOf(w)
  BY DEF FinishScheduleRun, RunnerInv, RunnerTables
<1>. QED BY <1>1, SoleEnds

LEMMA SoleOwner ==
  ASSUME RunnerInv, SoleInv, NEW w \in Executors, ResolveScheduleOwner(w)
  PROVE  SoleInv'
<1>. DEFINE e == [exec[w] EXCEPT !.step = "load", !.beat = TRUE]
<1>1. ~At(w, "idle") /\ UNCHANGED <<run, report, todo>> /\ exec[w] \in Execution
  BY DEF ResolveScheduleOwner, At, RunnerInv, RunnerTables
<1>2. CASE Goto(w, "disable")
  BY <1>1, <1>2, SoleGoto DEF Steps
<1>3. CASE exec' = [exec EXCEPT ![w].step = "load", ![w].beat = TRUE]
  <2>1. exec' = [exec EXCEPT ![w] = e]
    BY <1>3 DEF RunnerInv, RunnerTables
  <2>2. e \in Execution /\ e.step = "load" /\ e.run = RunOf(w)
    BY <1>1 DEF Execution, Steps, RunOf
  <2>. HIDE DEF e
  <2>. QED BY <1>1, <2>1, <2>2, SoleGoesOn
<1>. QED BY <1>2, <1>3 DEF ResolveScheduleOwner

\* Every other statement goes to a step at which no report is stored.
LEMMA SolePlain ==
  ASSUME RunnerInv, SoleInv, NEW w \in Executors,
         \/ LockSchedule(w) \/ DisableSchedule(w) \/ LoadSchedule(w) \/ ReportFails(w)
         \/ DeliverReport(w) \/ AttemptInline(w) \/ RecordInline(w)
  PROVE  SoleInv'
<1>1. ~At(w, "idle") /\ UNCHANGED <<run, report, todo>>
  BY DEF LockSchedule, DisableSchedule, LoadSchedule, ReportFails, DeliverReport, AttemptInline,
         RecordInline, At
<1>2. {"owner", "finish", "disable", "report", "advance", "attempt", "post", "settle"}
        \subseteq Steps \ {"idle", "store"}
      /\ {"failed", "completed", "pending"} \subseteq Results
  BY DEF Steps, Results
<1>3. CASE LockSchedule(w)
  BY <1>1, <1>2, <1>3, SoleGoto DEF LockSchedule
<1>4. CASE DisableSchedule(w)
  BY <1>1, <1>2, <1>4, SoleGoto DEF DisableSchedule
<1>5. CASE LoadSchedule(w)
  BY <1>1, <1>2, <1>5, SoleGoto DEF LoadSchedule
<1>6. CASE ReportFails(w)
  BY <1>1, <1>2, <1>6, SoleGoto DEF ReportFails
<1>7. CASE DeliverReport(w)
  BY <1>1, <1>2, <1>7, SoleGoto DEF DeliverReport
<1>8. CASE AttemptInline(w)
  <2>1. row[RunOf(w)].status # "absent" /\ RunOf(w) \in Runs
    BY <1>1, <1>8, Standing DEF AttemptInline, RunnerInv, ExecOK, At
  <2>2. row[RunOf(w)].status \in Results
    BY <2>1 DEF RunnerInv, OwnershipInv, OutboxTypeOK, Row, Runs, Results, Terminal
  <2>. QED BY <1>1, <1>2, <1>8, <2>2, SoleGoto DEF AttemptInline
<1>9. CASE RecordInline(w)
  <2>1. CASE LoseRecord(w) /\ GotoWith(w, "advance", "pending")
    BY <1>1, <1>2, <2>1, SoleGoto
  <2>2. CASE RecordAttempt(w) /\ GotoWith(w, IF FinalStatus(w) \in Terminal THEN "settle" ELSE "advance", FinalStatus(w))
    <3>1. FinalStatus(w) \in Results
      <4>1. answer[w].sent /\ w \in Senders
        BY <2>2 DEF RecordAttempt, Executors
      <4>. QED BY <4>1, SentAnswerTyped DEF RunnerInv, OwnershipInv, Results, Terminal
    <3>2. (IF FinalStatus(w) \in Terminal THEN "settle" ELSE "advance") \in Steps \ {"idle", "store"}
      BY <1>2
    <3>. QED BY <1>1, <2>2, <3>1, <3>2, SoleGoto
  <2>. QED BY <1>9, <2>1, <2>2 DEF RecordInline
<1>. QED BY <1>3, <1>4, <1>5, <1>6, <1>7, <1>8, <1>9

LEMMA SoleExecutes ==
  ASSUME RunnerInv, SoleInv, NEW w \in Executors, ExecutionStep(w), StepOK
  PROVE  SoleInv'
<1>1. CASE PostInline(w)
  <2>1. UNCHANGED <<exec, todo, report, run>>
    BY <1>1 DEF PostInline, runnerVars
  <2>. QED BY <2>1, SoleRests
<1>. QED BY <1>1, SoleBegins, SoleOwner, SolePlain, SoleReuses, SoleStores, SoleSettles, SoleAdvances,
            SoleFinishes DEF ExecutionStep

-----------------------------------------------------------------------------
(* Claims: a worker's batch, and what requests take.                       *)

Sole == LeaseCoversAttempt /\ \E w \in Workers : Workers = {w}

\* An executor that takes runs from nobody.
LEMMA SoleTakes ==
  ASSUME RunnerInv, SoleInv, report' = report, NEW w \in Executors, Free(w),
         \A v \in Executors \ {w} : exec'[v] = exec[v] /\ todo'[v] = todo[v],
         RestOK(w)', ~At(w, "store")',
         \A r \in Runs : report[r] = NoReport /\ HasRun(w, r)' =>
           /\ \A v \in Executors : ~HasRun(v, r)
           /\ run'[r].status = "running" /\ run'[r].lease = "held",
         \A r \in Runs : report[r] = NoReport /\ (\E v \in Executors : HasRun(v, r)) => run'[r] = run[r]
  PROVE  SoleInv'
<1>1. \A v \in Executors \ {w} : /\ \A r \in Runs : HasRun(v, r)' <=> HasRun(v, r)
                                 /\ At(v, "store") => report'[RunOf(v)] = NoReport
  BY DEF HasRun, RunOf, SoleInv, StoreOK
<1>2. ASSUME NEW r \in Runs, report[r] = NoReport PROVE HeldOK(r)'
  <2>1. CASE HasRun(w, r)'
    <3>1. run'[r].status = "running" /\ run'[r].lease = "held"
      BY <1>2, <2>1
    <3>. QED BY <3>1 DEF HeldOK
  <2>2. CASE ~HasRun(w, r)' /\ \E v \in Executors : HasRun(v, r)
    <3>1. run'[r] = run[r]
      BY <1>2, <2>2
    <3>. QED BY <1>1, <1>2, <2>2, <3>1, HeldStays
  <2>3. CASE ~HasRun(w, r)' /\ ~\E v \in Executors : HasRun(v, r)
    <3>1. \A v \in Executors : ~HasRun(v, r)'
      BY <1>1, <2>3
    <3>. QED BY <3>1 DEF HeldOK, Executors
  <2>. QED BY <2>1, <2>2, <2>3
<1>3. ReportsKept /\ StoreOK(w)'
  BY DEF ReportsKept, StoreOK
<1>. QED BY <1>1, <1>2, <1>3, SoleKept

\* A request takes a run nobody has.
LEMMA SoleRequest ==
  ASSUME RunnerInv, SoleInv, NEW c \in Clients, Free(c), UNCHANGED <<report, todo>>,
         NEW d \in Runs, exec' = [exec EXCEPT ![c] = [Resting EXCEPT !.step = "lock", !.run = d]],
         run'[d].status = "running" /\ run'[d].lease = "held",
         \A r \in Runs \ {d} : run'[r] = run[r],
         report[d] = NoReport => \A v \in Executors : ~HasRun(v, d)
  PROVE  SoleInv'
<1>1. /\ c \in Executors /\ exec'[c].step = "lock" /\ exec'[c].run = d /\ todo[c] = {}
      /\ \A v \in Executors \ {c} : exec'[v] = exec[v] /\ todo'[v] = todo[v]
  BY DEF Executors, RunnerInv, RunnerTables, Resting, Free
<1>2. RestOK(c)' /\ ~At(c, "store")'
  BY <1>1 DEF RestOK, At, RunOf
<1>3. \A r \in Runs : HasRun(c, r)' => r = d
  BY <1>1 DEF HasRun, RunOf
<1>4. \A r \in Runs : report[r] = NoReport /\ HasRun(c, r)' =>
           /\ \A v \in Executors : ~HasRun(v, r)
           /\ run'[r].status = "running" /\ run'[r].lease = "held"
  BY <1>3
<1>5. \A r \in Runs : report[r] = NoReport /\ (\E v \in Executors : HasRun(v, r)) => run'[r] = run[r]
  OBVIOUS
<1>. QED BY <1>1, <1>2, <1>4, <1>5, SoleTakes

LEMMA SoleRequests ==
  ASSUME RunnerInv, SoleInv, NEW c \in Clients,
         (\E s \in Schedules : RunNow(c, s)) \/ (\E r \in Runs : RetryRun(c, r))
  PROVE  SoleInv'
<1>0. run \in [Runs -> RunRecord]
  BY DEF RunnerInv, RunnerTables
<1>1. ASSUME NEW s \in Schedules, RunNow(c, s) PROVE SoleInv'
  <2>1. PICK d \in Unused : /\ run' = [run EXCEPT ![d] = NewRun(s, Manual)]
                            /\ exec' = [exec EXCEPT ![c] = [Resting EXCEPT !.step = "lock", !.run = d]]
    BY <1>1 DEF RunNow
  <2>2. d \in Runs /\ run[d].status = "free"
    BY DEF Unused
  <2>3. \A v \in Executors : ~HasRun(v, d)
    <3>1. Nobody \notin Runs
      BY DEF Runs, Nobody
    <3>. QED BY <2>2, <3>1 DEF HasRun, RunnerInv, ExecOK, SoleInv, RestOK
  <2>4. /\ run'[d].status = "running" /\ run'[d].lease = "held"
        /\ \A r \in Runs \ {d} : run'[r] = run[r]
    BY <1>0, <2>1, <2>2 DEF NewRun
  <2>5. Free(c) /\ UNCHANGED <<report, todo>>
    BY <1>1 DEF RunNow
  <2>. QED BY <2>1, <2>2, <2>3, <2>4, <2>5, SoleRequest
<1>2. ASSUME NEW d \in Runs, RetryRun(c, d) PROVE SoleInv'
  <2>1. /\ run' = [run EXCEPT ![d].status = "running", ![d].attempts = @ + 1, ![d].lease = "held"]
        /\ exec' = [exec EXCEPT ![c] = [Resting EXCEPT !.step = "lock", !.run = d]]
        /\ run[d].status \in {"failed", "dead_letter"} /\ Free(c) /\ UNCHANGED <<report, todo>>
    BY <1>2 DEF RetryRun
  <2>2. report[d] = NoReport => \A v \in Executors : ~HasRun(v, d)
    BY <2>1 DEF SoleInv, SoleOK, HeldOK
  <2>3. /\ run'[d].status = "running" /\ run'[d].lease = "held"
        /\ \A r \in Runs \ {d} : run'[r] = run[r]
    <3>1. run[d] \in RunRecord
      BY <1>0
    <3>. QED BY <1>0, <2>1, <3>1 DEF RunRecord
  <2>. QED BY <2>1, <2>2, <2>3, SoleRequest
<1>. QED BY <1>1, <1>2

\* The runs a worker claims for the first time are in nobody's hands.
LEMMA SoleClaims ==
  ASSUME RunnerInv, SoleInv, NEW w \in Workers, ClaimDueSchedules(w)
  PROVE  SoleInv'
<1>0. /\ w \in Executors /\ Free(w) /\ UNCHANGED <<report, exec>>
      /\ todo \in [Executors -> SUBSET Runs] /\ Nobody \notin Runs
  BY DEF ClaimDueSchedules, Executors, RunnerInv, RunnerTables, Runs, Nobody
<1>1. PICK S \in SUBSET {s \in Schedules : Claimable(s)} :
        LET New == {s \in S : ~SlotTaken(s)}
        IN  \E id \in [New -> Unused] :
              /\ \A s, t \in New : s # t => id[s] # id[t]
              /\ run' = [r \in Runs |->
                           IF \E s \in New : id[s] = r
                           THEN LET s == CHOOSE s \in New : id[s] = r IN NewRun(s, sched[s].slot)
                           ELSE run[r]]
              /\ todo' = [todo EXCEPT ![w] = {id[s] : s \in New}]
  BY DEF ClaimDueSchedules
<1>. DEFINE New == {s \in S : ~SlotTaken(s)}
<1>2. PICK id \in [New -> Unused] :
        /\ run' = [r \in Runs |->
                     IF \E s \in New : id[s] = r
                     THEN LET s == CHOOSE s \in New : id[s] = r IN NewRun(s, sched[s].slot)
                     ELSE run[r]]
        /\ todo' = [todo EXCEPT ![w] = {id[s] : s \in New}]
  BY <1>1
<1>. DEFINE B == {id[s] : s \in New}
<1>3. B \subseteq Runs /\ \A r \in B : run[r].status = "free"
  BY DEF Unused
<1>4. \A r \in Runs : /\ r \in B => run'[r].status = "running" /\ run'[r].lease = "held"
                      /\ r \notin B => run'[r] = run[r]
  BY <1>2 DEF NewRun
<1>5. todo'[w] = B /\ \A v \in Executors \ {w} : exec'[v] = exec[v] /\ todo'[v] = todo[v]
  BY <1>0, <1>2
<1>. HIDE DEF B
<1>6. \A r \in B, v \in Executors : ~HasRun(v, r)
  BY <1>0, <1>3 DEF HasRun, RunnerInv, ExecOK, SoleInv, RestOK
<1>7. At(w, "idle") /\ RunOf(w) = Nobody /\ w \notin Clients
  BY <1>0 DEF Free, At, SoleInv, RestOK
<1>8. RestOK(w)' /\ ~At(w, "store")'
  BY <1>0, <1>3, <1>5, <1>7 DEF RestOK, At, RunOf
<1>9. \A r \in Runs : HasRun(w, r)' => r \in B
  BY <1>0, <1>5, <1>7 DEF HasRun, RunOf
<1>10. \A r \in Runs : report[r] = NoReport /\ HasRun(w, r)' =>
           /\ \A v \in Executors : ~HasRun(v, r)
           /\ run'[r].status = "running" /\ run'[r].lease = "held"
  BY <1>4, <1>6, <1>9
<1>11. \A r \in Runs : report[r] = NoReport /\ (\E v \in Executors : HasRun(v, r)) => run'[r] = run[r]
  BY <1>4, <1>6
<1>. QED BY <1>0, <1>5, <1>8, <1>10, <1>11, SoleTakes

\* The only worker recovers no run that somebody has in hand, if its report is
\* still to be stored: its own batch is empty, and requests keep their leases.
LEMMA SoleRecovers ==
  ASSUME RunnerInv, SoleInv, Sole, NEW w \in Workers, RecoverExpiredScheduleLeases(w)
  PROVE  SoleInv'
<1>0. /\ w \in Executors /\ Free(w) /\ UNCHANGED <<report, exec>>
      /\ todo \in [Executors -> SUBSET Runs] /\ run \in [Runs -> RunRecord] /\ Nobody \notin Runs
      /\ \A v \in Executors \ {w} : v \in Clients
  BY DEF RecoverExpiredScheduleLeases, Executors, RunnerInv, RunnerTables, Runs, Nobody, Sole
<1>1. PICK R \in SUBSET {r \in Runs : Expired(r)} :
        LET Dead == {x \in R : OutOfAttempts(x)}
            Kept == R \ Dead
        IN  /\ run' = [r \in Runs |->
                         IF r \in Dead
                         THEN [run[r] EXCEPT !.status = "dead_letter", !.attempts = @ + 1, !.lease = "none"]
                         ELSE IF r \in Kept
                         THEN [run[r] EXCEPT !.attempts = @ + 1, !.lease = "held"]
                         ELSE run[r]]
            /\ todo' = [todo EXCEPT ![w] = Kept]
  BY DEF RecoverExpiredScheduleLeases
<1>. DEFINE Dead == {x \in R : OutOfAttempts(x)}
            Kept == R \ Dead
<1>2. At(w, "idle") /\ RunOf(w) = Nobody /\ w \notin Clients /\ todo[w] = {}
  BY <1>0 DEF Free, At, SoleInv, RestOK
<1>3. \A r \in R : r \in Runs /\ run[r].status = "running" /\ run[r].lease = "expired"
  BY DEF Expired
<1>4. ASSUME NEW r \in R, report[r] = NoReport, NEW v \in Executors PROVE ~HasRun(v, r)
  <2>1. CASE v = w
    BY <1>0, <1>2, <1>3, <2>1 DEF HasRun
  <2>2. CASE v \in Clients
    BY <1>3, <1>4, <2>2 DEF SoleInv, SoleOK, HeldOK
  <2>. QED BY <1>0, <2>1, <2>2
<1>5. \A r \in Runs : r \notin R => run'[r] = run[r]
  BY <1>1
<1>6. ASSUME NEW r \in Kept PROVE run'[r].status = "running" /\ run'[r].lease = "held"
  <2>1. run[r] \in RunRecord /\ run'[r] = [run[r] EXCEPT !.attempts = @ + 1, !.lease = "held"]
    BY <1>0, <1>1, <1>3, <1>6
  <2>. QED BY <1>3, <1>6, <2>1 DEF RunRecord
<1>7. /\ todo'[w] = Kept /\ Kept \subseteq R
      /\ \A v \in Executors \ {w} : exec'[v] = exec[v] /\ todo'[v] = todo[v]
  BY <1>0, <1>1
<1>. HIDE DEF Kept, Dead
<1>8. RestOK(w)' /\ ~At(w, "store")'
  BY <1>0, <1>2, <1>3, <1>7 DEF RestOK, At, RunOf
<1>9. \A r \in Runs : HasRun(w, r)' => r \in Kept
  BY <1>0, <1>2, <1>7 DEF HasRun, RunOf
<1>10. \A r \in Runs : report[r] = NoReport /\ HasRun(w, r)' =>
           /\ \A v \in Executors : ~HasRun(v, r)
           /\ run'[r].status = "running" /\ run'[r].lease = "held"
  BY <1>4, <1>6, <1>7, <1>9
<1>11. \A r \in Runs : report[r] = NoReport /\ (\E v \in Executors : HasRun(v, r)) => run'[r] = run[r]
  BY <1>4, <1>5
<1>. QED BY <1>0, <1>7, <1>8, <1>10, <1>11, SoleTakes

-----------------------------------------------------------------------------
(* The other steps.                                                        *)

LEMMA SoleTables ==
  ASSUME RunnerInv, SoleInv, Sole,
         \/ \E w \in Executors : RenewRunLease(w) \/ RenewScheduleLock(w)
         \/ \E p \in Sweepers : SweepOutbox(p) \/ SweepStep(p) \/ CrashSweeper(p)
         \/ Reclaim \/ OutboxTime
         \/ \E s \in Schedules : Update(s) \/ Delete(s) \/ Revoke(s) \/ BecomesDue(s) \/ LockExpires(s)
         \/ \E r \in Runs : RunLeaseExpires(r)
         \/ UNCHANGED vars
  PROVE  SoleInv'
<1>. DEFINE Rest == UNCHANGED <<exec, todo, report>>
            Fits == \A r \in Runs : report[r] = NoReport => run'[r] = run[r] \/ HeldOK(r)'
<1>0. run \in [Runs -> RunRecord] /\ Clients \subseteq Executors
  BY DEF RunnerInv, RunnerTables, Executors
<1>1. ASSUME NEW w \in Executors, RenewRunLease(w) PROVE Rest /\ Fits
  <2>. DEFINE d == RunOf(w)
  <2>1. /\ Rest /\ run' = [run EXCEPT ![d].lease = "held"]
        /\ run[d].status = "running"
    BY <1>1 DEF RenewRunLease
  <2>2. \A r \in Runs : run'[r] = run[r] \/ (run'[r].status = "running" /\ run'[r].lease = "held")
    <3>. SUFFICES ASSUME NEW r \in Runs
                  PROVE  run'[r] = run[r] \/ (run'[r].status = "running" /\ run'[r].lease = "held")
      OBVIOUS
    <3>1. run[r] \in RunRecord
      BY <1>0
    <3>2. CASE r = d
      <4>1. run'[r] = [run[r] EXCEPT !.lease = "held"]
        BY <1>0, <2>1, <3>2
      <4>. QED BY <2>1, <3>1, <3>2, <4>1 DEF RunRecord
    <3>3. CASE r # d
      BY <1>0, <2>1, <3>3
    <3>. QED BY <3>2, <3>3
  <2>. QED BY <2>1, <2>2 DEF HeldOK
<1>2. ASSUME NEW w \in Executors, RenewScheduleLock(w) PROVE Rest /\ Fits
  BY <1>2 DEF RenewScheduleLock
<1>3. ASSUME NEW p \in Sweepers, SweepOutbox(p) \/ SweepPost(p) \/ SweepRecord(p) \/ CrashSweeper(p)
      PROVE  Rest /\ Fits
  BY <1>3 DEF SweepOutbox, SweepPost, SweepRecord, CrashSweeper, runnerVars
<1>4. ASSUME NEW p \in Sweepers, SweepSettle(p) PROVE Rest /\ Fits
  <2>1. PICK f \in settle[p] : FinalizeRun(f.run, f.delivery) \/ run' = run
    BY <1>4 DEF SweepSettle
  <2>2. f.run \in Runs /\ report[f.run] # NoReport
    BY DEF RunnerInv, RunnerTables, SettleInUse, PayloadIsStoredReport
  <2>3. Rest
    BY <1>4 DEF SweepSettle
  <2>. QED BY <2>1, <2>2, <2>3, SoleFinalizes
<1>5. ASSUME Reclaim \/ OutboxTime \/ UNCHANGED vars PROVE Rest /\ Fits
  BY <1>5 DEF Reclaim, OutboxTime, vars, runnerVars
<1>6. ASSUME NEW s \in Schedules, Update(s) \/ Revoke(s) \/ BecomesDue(s) \/ LockExpires(s)
      PROVE  Rest /\ Fits
  BY <1>6 DEF Update, Revoke, BecomesDue, LockExpires
<1>7. ASSUME NEW s \in Schedules, Delete(s) PROVE Rest /\ Fits
  <2>1. \A r \in Runs : run'[r] = run[r] \/ run'[r] = [run[r] EXCEPT !.status = "gone", !.lease = "none"]
    BY <1>7 DEF Delete
  <2>2. \A r \in Runs : run'[r] = run[r] \/ (run'[r].status = "gone" /\ run'[r].lease = "none")
    <3>1. \A r \in Runs : run[r] \in RunRecord
      BY <1>0
    <3>. QED BY <2>1, <3>1 DEF RunRecord
  <2>3. Rest
    BY <1>7 DEF Delete
  <2>. QED BY <2>2, <2>3 DEF HeldOK
<1>8. ASSUME NEW d \in Runs, RunLeaseExpires(d) PROVE Rest /\ Fits
  <2>1. Rest /\ run' = [run EXCEPT ![d].lease = "expired"] /\ ~Executing(d)
    BY <1>8 DEF RunLeaseExpires, Sole
  <2>2. ASSUME report[d] = NoReport PROVE HeldOK(d)'
    <3>1. \A w \in Executors : HasRun(w, d)' => HasRun(w, d)
      BY <2>1 DEF HasRun, RunOf
    <3>2. run'[d].status = run[d].status
      <4>1. run[d] \in RunRecord
        BY <1>0
      <4>. QED BY <1>0, <2>1, <4>1 DEF RunRecord
    <3>3. \A c \in Clients : ~HasRun(c, d)
      BY <1>0, <2>1 DEF Executing, HasRun, SoleInv, RestOK
    <3>4. HeldOK(d)
      BY <2>2 DEF SoleInv, SoleOK
    <3>. HIDE DEF HasRun
    <3>5. \A c \in Clients : ~HasRun(c, d)'
      BY <1>0, <3>1, <3>3
    <3>. QED BY <3>1, <3>2, <3>4, <3>5 DEF HeldOK
  <2>3. \A r \in Runs \ {d} : run'[r] = run[r]
    BY <1>0, <2>1
  <2>. QED BY <2>1, <2>2, <2>3
<1>9. Rest /\ Fits
  <2>. HIDE DEF Rest, Fits
  <2>. QED BY <1>1, <1>2, <1>3, <1>4, <1>5, <1>6, <1>7, <1>8 DEF SweepStep
<1>. QED BY <1>9, SoleRests

LEMMA SoleCrashes ==
  ASSUME RunnerInv, SoleInv, NEW w \in Executors, CrashExecutor(w)
  PROVE  SoleInv'
BY SoleEnds DEF CrashExecutor

LEMMA SoleStep ==
  ASSUME RunnerInv, SoleInv, Sole, [Next]_vars
  PROVE  SoleInv'
<1>1. StepOK
  BY StepsOK
<1>2. ASSUME NEW w \in Workers, ClaimDueSchedules(w) \/ RecoverExpiredScheduleLeases(w) PROVE SoleInv'
  BY <1>2, SoleClaims, SoleRecovers
<1>3. ASSUME NEW w \in Executors, ExecutionStep(w) \/ CrashExecutor(w) PROVE SoleInv'
  BY <1>1, <1>3, SoleExecutes, SoleCrashes
<1>4. ASSUME NEW c \in Clients, (\E s \in Schedules : RunNow(c, s)) \/ (\E r \in Runs : RetryRun(c, r))
      PROVE  SoleInv'
  BY <1>4, SoleRequests
<1>. QED BY <1>2, <1>3, <1>4, SoleTables DEF Next, ApiNext

\* With a single worker and leases that cover the executions, a run's report is never
\* generated by two executors at a time (schedules.go, RecoverExpiredScheduleLeases;
\* schedules_ops.go, RunNow and RetryRun), however retries, crashes, deletions and
\* the sweeps that finalize runs overlap executions.
THEOREM GenerationIsExclusive == ASSUME IsFiniteSet(Workers) PROVE Spec => []ExclusiveGeneration
<1>1. ASSUME Sole PROVE Spec => []SoleInv
  <2>1. Init => SoleInv
    <3>1. Nobody \notin Runs
      BY DEF Runs, Nobody
    <3>. QED BY <3>1 DEF Init, SoleInv, RestOK, StoreOK, SoleOK, HeldOK, HasRun, At, RunOf, Resting, Executors
  <2>2. RunnerInv /\ SoleInv /\ [Next]_vars => SoleInv'
    BY <1>1, SoleStep
  <2>. QED BY <2>1, <2>2, InvHolds, PTL DEF Spec
<1>2. ASSUME RunnerInv, SoleInv PROVE ExclusiveGeneration
  <2>1. ASSUME NEW v \in Executors, NEW w \in Executors, v # w, At(v, "store"), At(w, "store")
        PROVE  RunOf(v) # RunOf(w)
    <3>1. RunOf(v) \in Runs /\ report[RunOf(v)] = NoReport
      BY <1>2, <2>1, Standing DEF SoleInv, StoreOK, At
    <3>. QED BY <1>2, <2>1, <3>1 DEF SoleInv, SoleOK, HasRun
  <2>. QED BY <2>1 DEF ExclusiveGeneration
<1>3. ASSUME ~Sole PROVE ExclusiveGeneration
  <2>1. ASSUME Cardinality(Workers) = 1 PROVE \E w \in Workers : Workers = {w}
    BY <2>1, FS_Singleton
  <2>. QED BY <1>3, <2>1 DEF ExclusiveGeneration, Sole
<1>4. CASE Sole
  <2>1. RunnerInv /\ SoleInv => ExclusiveGeneration
    BY <1>2
  <2>2. Spec => []SoleInv
    BY <1>1, <1>4
  <2>. QED BY <2>1, <2>2, InvHolds, PTL
<1>5. CASE ~Sole
  <2>1. ExclusiveGeneration
    BY <1>3, <1>5
  <2>2. Spec => []ExclusiveGeneration
    BY <2>1, PTL
  <2>. QED BY <2>2
<1>. QED BY <1>4, <1>5

=============================================================================
