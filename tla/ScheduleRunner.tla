---------------------------- MODULE ScheduleRunner ----------------------------
(***************************************************************************)
(* The schedule runner: due schedules are claimed as durable runs under a  *)
(* lease, executed (report, then delivery), finished, and recovered by     *)
(* another replica when the lease expires.  Deliveries go through the      *)
(* outbox of WebhookOutbox, whose rows are keyed by the run.               *)
(*                                                                         *)
(* Workers are the background loops of StartScheduleRunner, Clients the    *)
(* request handlers of RunNow and RetryRun, Sweepers the loops of          *)
(* StartWebhookRetryWorker, each on any replica.  Every SQL statement or   *)
(* transaction of executeClaimedRun is a step of its own.                  *)
(*                                                                         *)
(* next_run_at is abstracted to its slot, a new one whenever it moves, and *)
(* to whether it has been reached; locked_until to whether it is ahead.    *)
(***************************************************************************)
EXTENDS WebhookOutbox

CONSTANTS
  Schedules, Workers, Clients, Sweepers,
  WebhookSchedules,    \* the schedules whose destination_type is "webhook"
  MaxScheduleAttempts, \* maxScheduleAttempts
  RlsEnforced,         \* TRUE: the application role is subject to row security
  MaxSlot,             \* bound on the slots that come due
  Operations,          \* the API operations that occur
  MaxOps               \* bound on how many do

ASSUME RunnerAssumption ==
  /\ Senders = Workers \cup Clients \cup Sweepers
  /\ Workers \cap Clients = {} /\ Workers \cap Sweepers = {} /\ Clients \cap Sweepers = {}
  /\ WebhookSchedules \subseteq Schedules
  /\ MaxScheduleAttempts \in Nat \ {0}
  /\ MaxSlot \in Nat /\ MaxOps \in Nat
  /\ RlsEnforced \in BOOLEAN
  /\ Operations \subseteq {"run_now", "retry", "update", "delete", "revoke"}
  /\ "none" \notin Workers \cup Clients /\ "nobody" \notin Schedules \cup Deliveries

VARIABLES
  sched,    \* app.schedules, and whether the owner is still authorized
  run,      \* app.schedule_runs, one record per run id
  report,   \* app.reports by schedule_run_id: who generated the stored report
  payload,  \* the report an outbox row's payload refers to
  todo,     \* per executor, the claimed runs it has still to execute
  exec,     \* per executor, the execution in progress
  settle,   \* per sweeper, the run it has to finalize after an update
  ops       \* API operations so far

runnerVars == <<sched, run, report, payload, todo, exec, settle, ops>>
vars == <<outboxVars, runnerVars>>

Runs == Deliveries
Executors == Workers \cup Clients
RunTerminal == {"completed", "failed", "dead_letter"}
NoReport == "none"
Nobody == "nobody"
Manual == 0

Schedule == [live : BOOLEAN, authorized : BOOLEAN, enabled : BOOLEAN,
             due : BOOLEAN, slot : 1..(MaxSlot + 1), locked : BOOLEAN]
RunRecord ==
  [status : {"free", "running", "gone"} \cup RunTerminal,
   schedule : Schedules \cup {Nobody}, slot : 0..(MaxSlot + 1),
   attempts : Nat, lease : {"none", "held", "expired"}]
Steps == {"idle", "lock", "owner", "disable", "load", "report", "store", "deliver",
          "attempt", "post", "settle", "advance", "finish"}
Results == {"none", "completed", "failed", "pending", "delivering", "delivered", "dead_letter"}
Execution == [step : Steps, run : Runs \cup {Nobody}, beat : BOOLEAN,
              report : Executors \cup {NoReport}, result : Results]

FreeRun == [status |-> "free", schedule |-> Nobody, slot |-> Manual,
            attempts |-> 0, lease |-> "none"]
Resting == [step |-> "idle", run |-> Nobody, beat |-> FALSE,
            report |-> NoReport, result |-> "none"]

Init ==
  /\ OutboxInit
  /\ sched = [s \in Schedules |-> [live |-> TRUE, authorized |-> TRUE, enabled |-> TRUE,
                                   due |-> FALSE, slot |-> 1, locked |-> FALSE]]
  /\ run = [r \in Runs |-> FreeRun]
  /\ report = [r \in Runs |-> NoReport]
  /\ payload = [r \in Runs |-> NoReport]
  /\ todo = [w \in Executors |-> {}]
  /\ exec = [w \in Executors |-> Resting]
  /\ settle = [p \in Sweepers |-> {}]
  /\ ops = 0

-----------------------------------------------------------------------------
(* Claiming and recovering runs.                                           *)

Free(w) == exec[w].step = "idle" /\ todo[w] = {}
Unused == {r \in Runs : run[r].status = "free"}

\* The run row of a first claim.
NewRun(s, slot) ==
  [status |-> "running", schedule |-> s, slot |-> slot, attempts |-> 1, lease |-> "held"]

\* Mutant: no unique key on the runs.
SlotNeverTaken(s) == FALSE

\* INSERT ... ON CONFLICT (idempotency_key): the key is the schedule and its slot.
SlotTaken(s) == \E r \in Runs : run[r].schedule = s /\ run[r].slot = sched[s].slot

Claimable(s) ==
  /\ sched[s].live /\ sched[s].enabled /\ sched[s].due /\ ~sched[s].locked

Lock(S, b) == [s \in Schedules |-> IF s \in S THEN [sched[s] EXCEPT !.locked = b] ELSE sched[s]]

\* One transaction over the due schedules it can lock (SKIP LOCKED) and that the
\* LIMIT leaves: any of them.  A schedule whose slot already has a run is skipped
\* and left as it is.
ClaimDueSchedules(w) ==
  \E S \in SUBSET {s \in Schedules : Claimable(s)} :
    LET New == {s \in S : ~SlotTaken(s)}
    IN  /\ Free(w)
        /\ New # {}
        /\ \E id \in [New -> Unused] :
             /\ \A s, t \in New : s # t => id[s] # id[t]
             /\ run' = [r \in Runs |->
                          IF \E s \in New : id[s] = r
                          THEN LET s == CHOOSE s \in New : id[s] = r IN NewRun(s, sched[s].slot)
                          ELSE run[r]]
             /\ todo' = [todo EXCEPT ![w] = {id[s] : s \in New}]
        /\ sched' = Lock(New, TRUE)
        /\ UNCHANGED <<outboxVars, report, payload, exec, settle, ops>>

\* Mutants: any running run is taken over; only a run that never had a lease is.
ExpiredWhateverLease(r) == run[r].status = "running"
ExpiredUnleased(r) == run[r].status = "running" /\ run[r].lease = "none"

Expired(r) == run[r].status = "running" /\ run[r].lease = "expired"

\* Mutant: the limit is compared one off and before the increment.
OutOfAttemptsLate(r) == run[r].attempts > MaxScheduleAttempts

OutOfAttempts(r) == run[r].attempts + 1 >= MaxScheduleAttempts

\* One transaction over the expired runs it can lock and that the LIMIT leaves,
\* any of them: a run out of attempts is dead-lettered and its schedule unlocked, the others are claimed again.  When
\* a schedule has runs of both kinds the one processed last decides its lock.
RecoverExpiredScheduleLeases(w) ==
  \E R \in SUBSET {r \in Runs : Expired(r)} :
    LET Dead == {r \in R : OutOfAttempts(r)}
        Kept == R \ Dead
        KeptSchedules == {run[r].schedule : r \in Kept}
        DeadSchedules == {run[r].schedule : r \in Dead}
    IN  /\ Free(w)
        /\ R # {}
        /\ run' = [r \in Runs |->
                     IF r \in Dead
                     THEN [run[r] EXCEPT !.status = "dead_letter", !.attempts = @ + 1,
                                         !.lease = "none"]
                     ELSE IF r \in Kept
                     THEN [run[r] EXCEPT !.attempts = @ + 1, !.lease = "held"]
                     ELSE run[r]]
        /\ \E Unlocked \in SUBSET DeadSchedules :
             /\ DeadSchedules \ KeptSchedules \subseteq Unlocked
             /\ sched' = [s \in Schedules |->
                            IF s \in Unlocked THEN [sched[s] EXCEPT !.locked = FALSE]
                            ELSE IF s \in KeptSchedules THEN [sched[s] EXCEPT !.locked = TRUE]
                            ELSE sched[s]]
        /\ todo' = [todo EXCEPT ![w] = Kept]
        /\ UNCHANGED <<outboxVars, report, payload, exec, settle, ops>>

-----------------------------------------------------------------------------
(* executeClaimedRun, one claimed run after the other.                     *)

At(w, step) == exec[w].step = step
RunOf(w) == exec[w].run
ScheduleOf(w) == run[RunOf(w)].schedule
Goto(w, step) == exec' = [exec EXCEPT ![w].step = step]
GotoWith(w, step, result) ==
  exec' = [exec EXCEPT ![w].step = step, ![w].result = result]

\* A statement of the handler fails; one of the bounded disruptions.
QueryFails == disruptions < MaxDisruptions /\ disruptions' = disruptions + 1
OutboxExceptDisruptions == <<row, claims, answer, posted, received>>

Begin(w) ==
  /\ At(w, "idle")
  /\ \E r \in todo[w] :
       /\ todo' = [todo EXCEPT ![w] = @ \ {r}]
       /\ exec' = [exec EXCEPT ![w] = [Resting EXCEPT !.step = "owner", !.run = r]]
  /\ UNCHANGED <<outboxVars, sched, run, report, payload, settle, ops>>

\* RunNow and RetryRun lock the schedule after claiming the run, whoever holds
\* the lock; an error is ignored.
LockSchedule(c) ==
  LET s == ScheduleOf(c)
  IN  /\ At(c, "lock")
      /\ \/ /\ sched' = IF sched[s].live THEN Lock({s}, TRUE) ELSE sched
            /\ UNCHANGED outboxVars
         \/ /\ QueryFails
            /\ UNCHANGED <<OutboxExceptDisruptions, sched>>
      /\ Goto(c, "owner")
      /\ UNCHANGED <<run, report, payload, todo, settle, ops>>

\* The owner lookup runs on the loop's own context, which carries no tenant: a
\* role subject to row security then sees no schedule at all.
OwnerVisible(w) == w \in Workers => ~RlsEnforced

ResolveScheduleOwner(w) ==
  LET s == ScheduleOf(w)
      ok == sched[s].live /\ sched[s].authorized /\ OwnerVisible(w)
  IN  /\ At(w, "owner")
      /\ \/ /\ ok
            /\ exec' = [exec EXCEPT ![w].step = "load", ![w].beat = TRUE]
            /\ UNCHANGED outboxVars
         \/ /\ ~ok
            /\ Goto(w, "disable")
            /\ UNCHANGED outboxVars
         \/ /\ QueryFails
            /\ Goto(w, "disable")
            /\ UNCHANGED OutboxExceptDisruptions
      /\ UNCHANGED <<sched, run, report, payload, todo, settle, ops>>

\* disableSchedule: the schedule is switched off and unlocked, its slot stays;
\* an error is ignored.
DisableSchedule(w) ==
  LET s == ScheduleOf(w)
  IN  /\ At(w, "disable")
      /\ \/ /\ sched' = IF sched[s].live
                        THEN [sched EXCEPT ![s].enabled = FALSE, ![s].locked = FALSE] ELSE sched
            /\ UNCHANGED outboxVars
         \/ /\ QueryFails
            /\ UNCHANGED <<OutboxExceptDisruptions, sched>>
      /\ GotoWith(w, "finish", "failed")
      /\ UNCHANGED <<run, report, payload, todo, settle, ops>>

\* getByIDForOrg and the connection check: a schedule that cannot be read fails
\* the run at once, without moving the schedule to its next slot; any error of
\* the check disables it.
LoadSchedule(w) ==
  LET s == ScheduleOf(w)
  IN  /\ At(w, "load")
      /\ \/ /\ ~sched[s].live
            /\ GotoWith(w, "finish", "failed")
            /\ UNCHANGED outboxVars
         \/ /\ QueryFails
            /\ GotoWith(w, "finish", "failed") \/ (sched[s].live /\ Goto(w, "disable"))
            /\ UNCHANGED OutboxExceptDisruptions
         \/ /\ sched[s].live /\ ~sched[s].authorized
            /\ Goto(w, "disable")
            /\ UNCHANGED outboxVars
         \/ /\ sched[s].live /\ sched[s].authorized
            /\ Goto(w, "report")
            /\ UNCHANGED outboxVars
      /\ UNCHANGED <<sched, run, report, payload, todo, settle, ops>>

\* reportIDForScheduleRun: an earlier execution's report is reused.
ReuseReport(w) ==
  LET stored == report[RunOf(w)]
  IN  /\ At(w, "report")
      /\ exec' = IF stored = NoReport
                 THEN [exec EXCEPT ![w].step = "store"]
                 ELSE [exec EXCEPT ![w].step = "deliver", ![w].report = stored]
      /\ UNCHANGED <<outboxVars, sched, run, report, payload, todo, settle, ops>>

\* The saved query, the generation or the insert (its run may be deleted) fails.
ReportFails(w) ==
  /\ At(w, "report") \/ At(w, "store")
  /\ GotoWith(w, "advance", "failed")
  /\ UNCHANGED <<outboxVars, sched, run, report, payload, todo, settle, ops>>

\* Mutant: no unique index, the last insert is the one found by the run.
StoredReportOfLast(w) == w

\* The loser of a race on the run's unique index takes the winner's report.
StoredReport(w) == IF report[RunOf(w)] = NoReport THEN w ELSE report[RunOf(w)]

StoreReport(w) ==
  LET r == RunOf(w)
      stored == StoredReport(w)
  IN  /\ At(w, "store")
      /\ run[r].status # "gone"
      /\ report' = [report EXCEPT ![r] = stored]
      /\ exec' = [exec EXCEPT ![w].step = "deliver", ![w].report = stored]
      /\ UNCHANGED <<outboxVars, sched, run, payload, todo, settle, ops>>

\* deliverReport: a log destination is done; a webhook is durably enqueued first.
\* A pending row takes the new payload; a deleted run cannot get a new row.  An
\* error fails the run.
DeliverReport(w) ==
  LET r == RunOf(w)
      webhook == ScheduleOf(w) \in WebhookSchedules
      refused == run[r].status = "gone" /\ row[r].status = "absent"
  IN  /\ At(w, "deliver")
      /\ \/ /\ ~webhook
            /\ GotoWith(w, "advance", "completed")
            /\ UNCHANGED <<outboxVars, payload>>
         \/ /\ webhook
            /\ GotoWith(w, "advance", "failed")
            /\ UNCHANGED <<OutboxExceptDisruptions, payload>>
            /\ QueryFails \/ (refused /\ UNCHANGED disruptions)
         \/ /\ webhook /\ ~refused
            /\ EnqueueWebhookDelivery(r)
            /\ payload' = IF row[r].status \in {"absent", "pending"}
                          THEN [payload EXCEPT ![r] = exec[w].report] ELSE payload
            /\ Goto(w, "attempt")
      /\ UNCHANGED <<sched, run, report, todo, settle, ops>>

\* attemptOutboxDelivery: claim the row for one inline attempt, or return the
\* status it is in; an error counts as "pending", but the run fails when it is
\* the answer to the enqueue that was lost.
AttemptInline(w) ==
  LET r == RunOf(w)
  IN  /\ At(w, "attempt")
      /\ \/ /\ AttemptOutboxDelivery(w, r)
            /\ Goto(w, "post")
         \/ /\ ~Eligible(r)
            /\ GotoWith(w, "advance", row[r].status)
            /\ UNCHANGED outboxVars
         \/ /\ QueryFails
            /\ \E result \in {"pending", "failed"} : GotoWith(w, "advance", result)
            /\ UNCHANGED OutboxExceptDisruptions
      /\ UNCHANGED <<sched, run, report, payload, todo, settle, ops>>

PostInline(w) ==
  /\ At(w, "post")
  /\ \E c \in claims[w] : AttemptOutboxHTTP(w, c)
  /\ UNCHANGED runnerVars

RecordInline(w) ==
  /\ At(w, "post")
  /\ \/ /\ RecordAttempt(w)
        /\ GotoWith(w, IF FinalStatus(w) \in Terminal THEN "settle" ELSE "advance", FinalStatus(w))
     \/ /\ LoseRecord(w)
        /\ GotoWith(w, "advance", "pending")
  /\ UNCHANGED <<sched, run, report, payload, todo, settle, ops>>

\* finalizeScheduleRunAfterDelivery, guarded: a terminal run is left alone.
FinalizeRun(r, delivery) ==
  run' = IF run[r].status = "running"
         THEN [run EXCEPT ![r].status = IF delivery = "dead_letter" THEN "dead_letter" ELSE "completed",
                          ![r].lease = "none"]
         ELSE run

SettleInline(w) ==
  /\ At(w, "settle")
  /\ FinalizeRun(RunOf(w), exec[w].result)
  /\ Goto(w, "advance")
  /\ UNCHANGED <<outboxVars, sched, report, payload, todo, settle, ops>>

\* Mutant: next_run_at is not advanced.
SameSlot(s) == sched[s].slot

NextSlot(s) == IF sched[s].slot <= MaxSlot THEN sched[s].slot + 1 ELSE sched[s].slot

\* The cadence moves on and the schedule is unlocked whatever became of the
\* delivery; an error of the UPDATE is ignored.  A pending delivery ends the
\* execution here, with the run still "running" under its lease.
AdvanceSchedule(w) ==
  LET s == ScheduleOf(w)
  IN  /\ At(w, "advance")
      /\ \/ /\ sched' = IF sched[s].live
                        THEN [sched EXCEPT ![s].slot = NextSlot(s), ![s].due = FALSE,
                                           ![s].locked = FALSE]
                        ELSE sched
            /\ UNCHANGED outboxVars
         \/ /\ QueryFails
            /\ UNCHANGED <<OutboxExceptDisruptions, sched>>
      /\ exec' = [exec EXCEPT ![w] = IF exec[w].result = "pending" THEN Resting
                                     ELSE [@ EXCEPT !.step = "finish"]]
      /\ UNCHANGED <<run, report, payload, todo, settle, ops>>

\* Mutant: a failed run completes.
FinishStatusOptimistic(result) == IF result = "dead_letter" THEN result ELSE "completed"

\* The status executeClaimedRun passes to finishScheduleRun.
FinishStatus(result) == IF result \in {"failed", "dead_letter"} THEN result ELSE "completed"

\* finishScheduleRun: UPDATE ... WHERE id = $1, whatever the row's status is.
FinishScheduleRun(w) ==
  LET r == RunOf(w)
  IN  /\ At(w, "finish")
      /\ \/ /\ run' = IF run[r].status = "gone" THEN run
                      ELSE [run EXCEPT ![r].status = FinishStatus(exec[w].result),
                                       ![r].lease = "none"]
            /\ UNCHANGED outboxVars
         \/ /\ QueryFails
            /\ UNCHANGED <<OutboxExceptDisruptions, run>>
      /\ exec' = [exec EXCEPT ![w] = Resting]
      /\ UNCHANGED <<sched, report, payload, todo, settle, ops>>

ExecutionStep(w) ==
  \/ Begin(w) \/ LockSchedule(w) \/ ResolveScheduleOwner(w) \/ DisableSchedule(w) \/ LoadSchedule(w)
  \/ ReuseReport(w) \/ ReportFails(w) \/ StoreReport(w) \/ DeliverReport(w)
  \/ AttemptInline(w) \/ PostInline(w) \/ RecordInline(w) \/ SettleInline(w)
  \/ AdvanceSchedule(w) \/ FinishScheduleRun(w)

\* renewScheduleLease: the heartbeat extends the run's lease, then takes the
\* schedule's lock; neither statement compares the owner.
RenewRunLease(w) ==
  /\ exec[w].beat
  /\ run[RunOf(w)].status = "running"
  /\ run' = [run EXCEPT ![RunOf(w)].lease = "held"]
  /\ UNCHANGED <<outboxVars, sched, report, payload, todo, exec, settle, ops>>

RenewScheduleLock(w) ==
  LET s == ScheduleOf(w)
  IN  /\ exec[w].beat
      /\ sched[s].live
      /\ sched' = [sched EXCEPT ![s].locked = TRUE]
      /\ UNCHANGED <<outboxVars, run, report, payload, todo, exec, settle, ops>>

-----------------------------------------------------------------------------
(* The sweep of the outbox, which finalizes the runs it settles.           *)

SweepOutbox(p) ==
  /\ settle[p] = {}
  /\ SweepClaim(p)
  /\ UNCHANGED runnerVars

SweepPost(p) ==
  /\ settle[p] = {}
  /\ \E c \in claims[p] : AttemptOutboxHTTP(p, c)
  /\ UNCHANGED runnerVars

\* The run is finalized after the row's update, even when the update failed.
SweepRecord(p) ==
  LET final == FinalStatus(p)
      r == answer[p].claim.delivery
  IN  /\ RecordAttempt(p) \/ LoseRecord(p)
      /\ settle' = IF final \in Terminal
                   THEN [settle EXCEPT ![p] = {[run |-> r, delivery |-> final]}] ELSE settle
      /\ UNCHANGED <<sched, run, report, payload, todo, exec, ops>>

SweepSettle(p) ==
  \E f \in settle[p] :
    /\ \/ FinalizeRun(f.run, f.delivery) /\ UNCHANGED outboxVars
       \/ QueryFails /\ UNCHANGED <<OutboxExceptDisruptions, run>>
    /\ settle' = [settle EXCEPT ![p] = {}]
    /\ UNCHANGED <<sched, report, payload, todo, exec, ops>>

SweepStep(p) == SweepPost(p) \/ SweepRecord(p) \/ SweepSettle(p)

Reclaim == ReclaimStuckOutboxLeases /\ UNCHANGED runnerVars

-----------------------------------------------------------------------------
(* API operations.                                                         *)

Operation(op) == op \in Operations /\ ops < MaxOps /\ ops' = ops + 1

\* RunNow: a run with a key of its own, executed in the request.
RunNow(c, s) ==
  /\ Operation("run_now")
  /\ Free(c)
  /\ sched[s].live
  /\ \E r \in Unused :
       /\ run' = [run EXCEPT ![r] = NewRun(s, Manual)]
       /\ exec' = [exec EXCEPT ![c] = [Resting EXCEPT !.step = "lock", !.run = r]]
  /\ UNCHANGED <<outboxVars, sched, report, payload, todo, settle>>

\* RetryRun: a failed or dead-lettered run is claimed again and executed in the
\* request, whatever its attempts.
RetryRun(c, r) ==
  /\ Operation("retry")
  /\ Free(c)
  /\ run[r].status \in {"failed", "dead_letter"}
  /\ run' = [run EXCEPT ![r].status = "running", ![r].attempts = @ + 1, ![r].lease = "held"]
  /\ exec' = [exec EXCEPT ![c] = [Resting EXCEPT !.step = "lock", !.run = r]]
  /\ UNCHANGED <<outboxVars, sched, report, payload, todo, settle>>

\* Update: next_run_at restarts from now; enabled as the caller asks.
Update(s) ==
  /\ Operation("update")
  /\ sched[s].live
  /\ \E e \in BOOLEAN :
       sched' = [sched EXCEPT ![s].enabled = e, ![s].slot = NextSlot(s), ![s].due = FALSE]
  /\ UNCHANGED <<outboxVars, run, report, payload, todo, exec, settle>>

\* Delete: the runs go with the schedule; rows and reports lose the reference.
Delete(s) ==
  /\ Operation("delete")
  /\ sched[s].live
  /\ sched' = [sched EXCEPT ![s].live = FALSE]
  /\ run' = [r \in Runs |->
               IF run[r].schedule = s
               THEN [run[r] EXCEPT !.status = "gone", !.lease = "none"] ELSE run[r]]
  /\ UNCHANGED <<outboxVars, report, payload, todo, exec, settle>>

\* The owner leaves the organization or loses the connection.
Revoke(s) ==
  /\ Operation("revoke")
  /\ sched[s].authorized
  /\ sched' = [sched EXCEPT ![s].authorized = FALSE]
  /\ UNCHANGED <<outboxVars, run, report, payload, todo, exec, settle>>

-----------------------------------------------------------------------------
(* Time and crashes.                                                       *)

BecomesDue(s) ==
  /\ sched[s].live /\ ~sched[s].due /\ sched[s].slot <= MaxSlot
  /\ sched' = [sched EXCEPT ![s].due = TRUE]
  /\ UNCHANGED <<outboxVars, run, report, payload, todo, exec, settle, ops>>

Executing(r) == \E w \in Executors : RunOf(w) = r \/ (At(w, "idle") /\ todo[w] = {r})

\* lease_until passes.  The heartbeat keeps the lease of the run in execution
\* while leases cover; a run left pending, or waiting in a batch, has none.
RunLeaseExpires(r) ==
  /\ run[r].lease = "held"
  /\ LeaseCoversAttempt => ~Executing(r)
  /\ run' = [run EXCEPT ![r].lease = "expired"]
  /\ UNCHANGED <<outboxVars, sched, report, payload, todo, exec, settle, ops>>

LockExpires(s) ==
  /\ sched[s].locked
  /\ LeaseCoversAttempt => \A r \in Runs : run[r].schedule = s => ~Executing(r)
  /\ sched' = Lock({s}, FALSE)
  /\ UNCHANGED <<outboxVars, run, report, payload, todo, exec, settle, ops>>

OutboxTime ==
  /\ \E d \in Deliveries : LeaseExpires(d) \/ LeaseExpiresEarly(d) \/ BackoffElapses(d)
  /\ UNCHANGED runnerVars

LoseClaims(p) ==
  /\ QueryFails
  /\ claims' = [claims EXCEPT ![p] = {}]
  /\ answer' = [answer EXCEPT ![p] = NoAnswer]
  /\ UNCHANGED <<row, posted, received>>

CrashExecutor(w) ==
  /\ ~Free(w)
  /\ LoseClaims(w)
  /\ todo' = [todo EXCEPT ![w] = {}]
  /\ exec' = [exec EXCEPT ![w] = Resting]
  /\ UNCHANGED <<sched, run, report, payload, settle, ops>>

CrashSweeper(p) ==
  /\ claims[p] # {} \/ settle[p] # {}
  /\ LoseClaims(p)
  /\ settle' = [settle EXCEPT ![p] = {}]
  /\ UNCHANGED <<sched, run, report, payload, todo, exec, ops>>

-----------------------------------------------------------------------------

ApiNext ==
  \/ \E c \in Clients : (\E s \in Schedules : RunNow(c, s)) \/ (\E r \in Runs : RetryRun(c, r))
  \/ \E s \in Schedules : Update(s) \/ Delete(s) \/ Revoke(s)

Next ==
  \/ \E w \in Workers : ClaimDueSchedules(w) \/ RecoverExpiredScheduleLeases(w)
  \/ \E w \in Executors :
       ExecutionStep(w) \/ RenewRunLease(w) \/ RenewScheduleLock(w) \/ CrashExecutor(w)
  \/ \E p \in Sweepers : SweepOutbox(p) \/ SweepStep(p) \/ CrashSweeper(p)
  \/ Reclaim \/ OutboxTime \/ ApiNext
  \/ \E s \in Schedules : BecomesDue(s) \/ LockExpires(s)
  \/ \E r \in Runs : RunLeaseExpires(r)

Spec == Init /\ [][Next]_vars

\* The loops keep ticking, an execution in progress proceeds, time passes.
\* Crashes, failing statements and API operations are never fair.
Fairness ==
  /\ \A w \in Workers : WF_vars(ClaimDueSchedules(w)) /\ WF_vars(RecoverExpiredScheduleLeases(w))
  /\ \A w \in Executors : WF_vars(ExecutionStep(w))
  /\ \A p \in Sweepers : WF_vars(SweepOutbox(p)) /\ WF_vars(SweepStep(p))
  /\ WF_vars(Reclaim)
  /\ \A d \in Deliveries : WF_vars(LeaseExpires(d) /\ UNCHANGED runnerVars)
                        /\ WF_vars(BackoffElapses(d) /\ UNCHANGED runnerVars)
  /\ \A s \in Schedules : WF_vars(BecomesDue(s)) /\ WF_vars(LockExpires(s))
  /\ \A r \in Runs : WF_vars(RunLeaseExpires(r))

FairSpec == Spec /\ Fairness
-----------------------------------------------------------------------------
(* Properties.                                                             *)

\* Types of the scheduler tables and of the executors' local state.
RunnerTypeOK ==
  /\ OutboxTypeOK
  /\ sched \in [Schedules -> Schedule]
  /\ run \in [Runs -> RunRecord]
  /\ report \in [Runs -> Executors \cup {NoReport}]
  /\ payload \in [Runs -> Executors \cup {NoReport}]
  /\ todo \in [Executors -> SUBSET Runs]
  /\ exec \in [Executors -> Execution]
  /\ settle \in [Sweepers -> SUBSET [run : Runs, delivery : Terminal]]
  /\ ops \in 0..MaxOps

\* However many replicas claim, whatever locks expire under them, a schedule's
\* slot is run once.
OneRunPerSlot ==
  \A r, q \in Runs :
    /\ r # q
    /\ run[r].status # "free" /\ run[r].schedule = run[q].schedule
    => run[r].slot # run[q].slot \/ run[r].slot = Manual

\* Every POST of a run's delivery carries the run's one stored report, also when
\* executions of the run overlap or a recovered one starts over.
PayloadIsStoredReport ==
  \A r \in Runs :
    /\ payload[r] # NoReport => payload[r] = report[r]
    /\ row[r].status # "absent" => payload[r] # NoReport

\* A completed run has its report, and for a webhook a durable outbox row: no
\* crash or overlap loses the delivery of a run that says it completed.
CompletedHasDelivery ==
  \A r \in Runs :
    run[r].status = "completed" =>
      /\ report[r] # NoReport
      /\ run[r].schedule \in WebhookSchedules => row[r].status # "absent"

\* Recoveries do not go on for ever: the limit bounds them, and a retry of a run
\* that reached it adds itself and at most one recovery, which gives the run up.
RunAttemptsBounded ==
  \A r \in Runs :
    /\ run[r].attempts <= MaxScheduleAttempts + 2 * ops
    /\ run[r].status = "running" => run[r].attempts < MaxScheduleAttempts + 2 * ops

\* With a single worker and leases that cover the executions, a run's report is
\* never generated by two executors at a time, also when retries overlap the end
\* of an execution.  A second worker may recover a run that waits in the batch of
\* the first, which has no heartbeat yet, and then both generate.
ExclusiveGeneration ==
  LeaseCoversAttempt /\ Cardinality(Workers) = 1 =>
    \A v, w \in Executors :
      v # w /\ At(v, "store") /\ At(w, "store") => RunOf(v) # RunOf(w)

\* Without failing statements, the runner switches a schedule off only when its
\* owner has lost the membership or the connection.
DisabledOnlyIfUnauthorized ==
  [][\A s \in Schedules :
       sched[s].enabled /\ ~sched'[s].enabled /\ ops' = ops
         => ~sched[s].authorized \/ disruptions > 0]_vars

\* A completed run of a webhook schedule has been delivered.
CompletedMeansDelivered ==
  \A r \in Runs :
    run[r].status = "completed" /\ run[r].schedule \in WebhookSchedules
      => row[r].status = "delivered"

\* Every claimed run ends, across crashes, lost leases and pending deliveries.
EveryRunSettles ==
  \A r \in Runs : run[r].status = "running" ~> run[r].status # "running"

\* As long as no process crashes and no statement fails, a due schedule is claimed
\* and moved to its next slot, switched off or deleted, whatever becomes of the
\* delivery and whatever requests do meanwhile.
ServedUnlessDisturbed ==
  \A s \in Schedules :
    sched[s].enabled /\ sched[s].due
      ~> ~sched[s].enabled \/ ~sched[s].due \/ ~sched[s].live \/ disruptions > 0

\* A due schedule is claimed and moved to its next slot, or switched off.
DueScheduleIsServed ==
  \A s \in Schedules : sched[s].enabled /\ sched[s].due ~> ~sched[s].enabled \/ ~sched[s].due
=============================================================================
