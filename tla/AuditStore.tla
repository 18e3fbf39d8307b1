------------------------------ MODULE AuditStore ------------------------------
(***************************************************************************)
(* The audit store: requests record entries, which are written to          *)
(* app.audit_logs at once or, in buffered mode, queued in memory and        *)
(* written by one worker per process.  What cannot be written goes to       *)
(* app.audit_log_buffer, which the workers of all replicas replay.          *)
(*                                                                          *)
(* An entry stands for one call of Record.  Guarded entries are recorded    *)
(* before their operation (queries, report generation), Admin entries after *)
(* a change that is already committed; both are HighRisk.  The others are   *)
(* recorded once their request has been served.                             *)
(***************************************************************************)
EXTENDS Naturals, FiniteSets

CONSTANTS
  Entries,
  Guarded, Admin, \* the entries recorded by the guards and by the admin handlers
  Loggable,       \* those whose event_type the CHECK of app.audit_logs admits
  Replicas,
  Modes,          \* the modes that may be configured
  QueueSize,      \* bufferQueueSize
  ReplayBatch,    \* replayBatchSize
  MaxFaults       \* bound on failing statements, crashes and overlong shutdowns

ASSUME AuditAssumption ==
  /\ IsFiniteSet(Entries)
  /\ Guarded \subseteq Entries /\ Admin \subseteq Entries /\ Loggable \subseteq Entries
  /\ Guarded \cap Admin = {}
  /\ Modes \subseteq {"best_effort", "required", "buffered"}
  /\ QueueSize \in Nat /\ ReplayBatch \in Nat \ {0} /\ MaxFaults \in Nat
  /\ "nothing" \notin Entries /\ "nowhere" \notin Replicas

VARIABLES
  mode,     \* SECURITY_AUDIT_MODE, the same on every replica
  proc,     \* per replica, the life of its process and of its worker
  call,     \* per entry, where its request is
  home,     \* per entry, the replica that is serving its request
  done,     \* the entries whose operation was let through or has happened
  queue,    \* per replica, the channel of the store
  worker,   \* per replica, what the worker does and the entry it does it to
  batch,    \* per replica, rows its replay has locked and not yet treated
  deleted,  \* per replica, rows its replay has deleted and not yet committed
  buffer,   \* app.audit_log_buffer
  created,  \* per entry, its created_at in the buffer, 0 if it never was there
  log,      \* per entry, its rows in app.audit_logs
  failed,   \* the entries given up, which IncAuditWriteFailure has counted
  gone,     \* the accepted entries lost with the memory of a process
  faults

auditVars == <<mode, proc, call, home, done, queue, worker, batch, deleted,
               buffer, created, log, failed, gone, faults>>

Nothing == "nothing"
Nowhere == "nowhere"
Steps == {"idle", "write", "persist", "replay", "mark"}
Work == [step : Steps, entry : Entries \cup {Nothing}, ok : BOOLEAN]
Idle == [step |-> "idle", entry |-> Nothing, ok |-> FALSE]
HighRisk == Guarded \cup Admin

AuditInit ==
  /\ mode \in Modes
  /\ proc = [r \in Replicas |-> "up"]
  /\ call = [e \in Entries |-> "new"]
  /\ home = [e \in Entries |-> Nowhere]
  /\ done = {}
  /\ queue = [r \in Replicas |-> {}]
  /\ worker = [r \in Replicas |-> Idle]
  /\ batch = [r \in Replicas |-> {}]
  /\ deleted = [r \in Replicas |-> {}]
  /\ buffer = {}
  /\ created = [e \in Entries |-> 0]
  /\ log = [e \in Entries |-> 0]
  /\ failed = {}
  /\ gone = {}
  /\ faults = 0

Fault == faults < MaxFaults /\ faults' = faults + 1
Processes == <<mode, proc, queue>>
Replays == <<batch, deleted>>

-----------------------------------------------------------------------------
(* Statements.                                                             *)

\* writeEntry: the row is written, refused by the CHECK of event_type, or the
\* statement fails; a failed one may have been applied.
Writes(e, ok) ==
  \/ /\ ok /\ e \in Loggable
     /\ log' = [log EXCEPT ![e] = @ + 1]
     /\ UNCHANGED faults
  \/ /\ ~ok /\ e \notin Loggable
     /\ UNCHANGED <<log, faults>>
  \/ /\ ~ok /\ Fault
     /\ \/ UNCHANGED log
        \/ e \in Loggable /\ log' = [log EXCEPT ![e] = @ + 1]

\* persistToBuffer: the new row is the last by created_at.
Persists(e) ==
  /\ buffer' = buffer \cup {e}
  /\ created' = [created EXCEPT ![e] = Cardinality({f \in Entries : created[f] > 0}) + 1]

-----------------------------------------------------------------------------
(* Record, in the request.                                                 *)

\* The handler reaches its call of Record: a guard before the operation, the
\* others when it has happened.
Begin(e, r) ==
  /\ call[e] = "new"
  /\ proc[r] = "up"
  /\ call' = [call EXCEPT ![e] = "record"]
  /\ home' = [home EXCEPT ![e] = r]
  /\ done' = IF e \in Guarded THEN done ELSE done \cup {e}
  /\ UNCHANGED <<mode, proc, queue, worker, Replays, buffer, created, log, failed, gone, faults>>

\* Record returns nil, and a guarded operation goes on.
Proceeds(e) ==
  /\ call' = [call EXCEPT ![e] = "ok"]
  /\ home' = [home EXCEPT ![e] = Nowhere]
  /\ done' = done \cup {e}

\* Mutant: the flag is not looked at.
ReturnsNoError(e) == FALSE

\* Only ModeRequired returns the error, and only for a HighRisk entry.
ReturnsError(e) == mode = "required" /\ e \in HighRisk

\* The request fails: a guarded operation does not run, a change stays.
Denied(e) ==
  /\ call' = [call EXCEPT ![e] = "denied"]
  /\ home' = [home EXCEPT ![e] = Nowhere]
  /\ UNCHANGED done

\* ModeBestEffort and ModeRequired: the entry is written in the request.
RecordNow(e) ==
  /\ call[e] = "record"
  /\ mode # "buffered"
  /\ \/ /\ Writes(e, TRUE)
        /\ Proceeds(e)
        /\ UNCHANGED failed
     \/ /\ Writes(e, FALSE)
        /\ failed' = failed \cup {e}
        /\ IF ReturnsError(e) THEN Denied(e) ELSE Proceeds(e)
  /\ UNCHANGED <<Processes, worker, Replays, buffer, created, gone>>

Full(r) == Cardinality(queue[r]) >= QueueSize

\* Mutant: an entry that finds the channel full is dropped.
EnqueueOrDrop(e) ==
  LET r == home[e]
  IN  /\ call[e] = "record"
      /\ mode = "buffered"
      /\ Proceeds(e)
      /\ queue' = IF Full(r) THEN queue ELSE [queue EXCEPT ![r] = @ \cup {e}]
      /\ UNCHANGED <<mode, proc, worker, Replays, buffer, created, log, failed, gone, faults>>

\* enqueueBuffered: a send that does not block, or the way to the buffer.
Enqueue(e) ==
  LET r == home[e]
  IN  /\ call[e] = "record"
      /\ mode = "buffered"
      /\ \/ /\ ~Full(r)
            /\ queue' = [queue EXCEPT ![r] = @ \cup {e}]
            /\ Proceeds(e)
         \/ /\ Full(r)
            /\ call' = [call EXCEPT ![e] = "spill"]
            /\ UNCHANGED <<queue, home, done>>
      /\ UNCHANGED <<mode, proc, worker, Replays, buffer, created, log, failed, gone, faults>>

\* The queue was full: the request itself inserts into the buffer.
Spill(e) ==
  /\ call[e] = "spill"
  /\ \/ Persists(e) /\ UNCHANGED <<failed, faults>>
     \/ failed' = failed \cup {e} /\ Fault /\ UNCHANGED <<buffer, created>>
  /\ Proceeds(e)
  /\ UNCHANGED <<Processes, worker, Replays, log, gone>>

-----------------------------------------------------------------------------
(* bufferedWorker.                                                         *)

Doing(r, step) == worker[r].step = step
Hand(r) == worker[r].entry
Becomes(r, step, e, ok) == worker' = [worker EXCEPT ![r] = [step |-> step, entry |-> e, ok |-> ok]]
Rests(r) == worker' = [worker EXCEPT ![r] = Idle]
Running(r) == proc[r] \in {"up", "closing", "draining"}

TakeEntry(r) ==
  /\ Running(r)
  /\ Doing(r, "idle")
  /\ \E e \in queue[r] :
       /\ queue' = [queue EXCEPT ![r] = @ \ {e}]
       /\ Becomes(r, "write", e, FALSE)
  /\ UNCHANGED <<mode, proc, call, home, done, Replays, buffer, created, log, failed, gone, faults>>

\* deliverOrBuffer, its first half.  The write and the fallback share a deadline:
\* when it is the write that ran into it, the entry is given up.
WriteEntry(r) ==
  /\ Doing(r, "write")
  /\ \/ /\ Writes(Hand(r), TRUE)
        /\ Rests(r)
        /\ UNCHANGED failed
     \/ /\ Writes(Hand(r), FALSE)
        /\ Becomes(r, "persist", Hand(r), FALSE)
        /\ UNCHANGED failed
     \/ /\ Writes(Hand(r), FALSE) /\ faults' # faults
        /\ failed' = failed \cup {Hand(r)}
        /\ Rests(r)
  /\ UNCHANGED <<mode, proc, call, home, done, queue, Replays, buffer, created, gone>>

PersistEntry(r) ==
  /\ Doing(r, "persist")
  /\ \/ Persists(Hand(r)) /\ UNCHANGED <<failed, faults>>
     \/ failed' = failed \cup {Hand(r)} /\ Fault /\ UNCHANGED <<buffer, created>>
  /\ Rests(r)
  /\ UNCHANGED <<mode, proc, call, home, done, queue, Replays, log, gone>>

-----------------------------------------------------------------------------
(* ReplayBuffered: one transaction holds the row locks; the entries are     *)
(* written on another connection.                                           *)

\* Mutant: the locks are not held beyond the SELECT.
UnlockedAfterSelect == buffer

Unlocked == buffer \ UNION {batch[r] \cup deleted[r] \cup {Hand(r)} : r \in Replicas}

\* Mutant: one row less, which may be one that the log refuses.
FirstRowsShort(rows) ==
  {e \in rows : Cardinality({f \in rows : created[f] < created[e]}) + 1 < ReplayBatch}

\* ORDER BY created_at LIMIT.
FirstRows(rows) ==
  {e \in rows : Cardinality({f \in rows : created[f] < created[e]}) < ReplayBatch}

\* SELECT ... FOR UPDATE SKIP LOCKED, on a tick of the worker.
StartReplay(r) ==
  /\ mode = "buffered"
  /\ proc[r] \in {"up", "closing"}
  /\ Doing(r, "idle")
  /\ Unlocked # {}
  /\ batch' = [batch EXCEPT ![r] = FirstRows(Unlocked)]
  /\ Becomes(r, "replay", Nothing, FALSE)
  /\ UNCHANGED <<mode, proc, call, home, done, queue, deleted, buffer, created, log, failed, gone, faults>>

ReplayWrite(r) ==
  /\ Doing(r, "replay")
  /\ \E e \in batch[r], ok \in BOOLEAN :
       /\ \A f \in batch[r] : created[e] <= created[f]
       /\ Writes(e, ok)
       /\ Becomes(r, "mark", e, ok)
       /\ batch' = [batch EXCEPT ![r] = @ \ {e}]
  /\ UNCHANGED <<mode, proc, call, home, done, queue, deleted, buffer, created, failed, gone>>

\* The deferred rollback, on a failing statement of the transaction.
Rollback(r) ==
  /\ Rests(r)
  /\ batch' = [batch EXCEPT ![r] = {}]
  /\ deleted' = [deleted EXCEPT ![r] = {}]

\* Mutant: the row is deleted whatever became of the write.
ReplayMarkDeleting(r) ==
  /\ Doing(r, "mark")
  /\ \/ /\ deleted' = [deleted EXCEPT ![r] = @ \cup {Hand(r)}]
        /\ Becomes(r, "replay", Nothing, FALSE)
        /\ UNCHANGED <<batch, faults>>
     \/ Rollback(r) /\ Fault
  /\ UNCHANGED <<mode, proc, call, home, done, queue, buffer, created, log, failed, gone>>

\* DELETE of a row that was written, attempts + 1 for one that was not.
ReplayMark(r) ==
  /\ Doing(r, "mark")
  /\ \/ /\ deleted' = IF worker[r].ok THEN [deleted EXCEPT ![r] = @ \cup {Hand(r)}] ELSE deleted
        /\ Becomes(r, "replay", Nothing, FALSE)
        /\ UNCHANGED <<batch, faults>>
     \/ Rollback(r) /\ Fault
  /\ UNCHANGED <<mode, proc, call, home, done, queue, buffer, created, log, failed, gone>>

ReplayCommit(r) ==
  /\ Doing(r, "replay")
  /\ batch[r] = {}
  /\ \/ buffer' = buffer \ deleted[r] /\ UNCHANGED faults
     \/ Fault /\ UNCHANGED buffer
  /\ Rollback(r)
  /\ UNCHANGED <<mode, proc, call, home, done, queue, created, log, failed, gone>>

-----------------------------------------------------------------------------
(* Processes.                                                              *)

InFlight(r) == {e \in Entries : home[e] = r}
Goes(r, state) == proc' = [proc EXCEPT ![r] = state]

\* main: httpServer.Shutdown waits for the handlers until its timeout, then the
\* deferred Close tells the worker to stop.  Without a worker it returns at once.
Close(r) ==
  /\ proc[r] = "up"
  /\ \/ InFlight(r) = {} /\ UNCHANGED faults
     \/ InFlight(r) # {} /\ Fault
  /\ Goes(r, IF mode = "buffered" THEN "closing" ELSE "stopped")
  /\ UNCHANGED <<mode, call, home, done, queue, worker, Replays, buffer, created, log, failed, gone>>

\* The worker's select takes the stop channel, and drainQueue begins.
NoticeStop(r) ==
  /\ proc[r] = "closing"
  /\ Doing(r, "idle")
  /\ Goes(r, "draining")
  /\ UNCHANGED <<mode, call, home, done, queue, worker, Replays, buffer, created, log, failed, gone, faults>>

\* Mutant: the worker stops without draining.
DrainedAtOnce(r) == TRUE

Drained(r) == queue[r] = {}

WorkerReturns(r) ==
  /\ proc[r] = "draining"
  /\ Doing(r, "idle")
  /\ Drained(r)
  /\ Goes(r, "stopped")
  /\ UNCHANGED <<mode, call, home, done, queue, worker, Replays, buffer, created, log, failed, gone, faults>>

\* The process ends: its memory, its requests and its transaction with it.
Dies(r) ==
  /\ Goes(r, "down")
  /\ gone' = gone \cup queue[r] \cup
             (IF Doing(r, "write") \/ Doing(r, "persist") THEN {Hand(r)} ELSE {})
  /\ queue' = [queue EXCEPT ![r] = {}]
  /\ call' = [e \in Entries |-> IF home[e] = r THEN "dead" ELSE call[e]]
  /\ home' = [e \in Entries |-> IF home[e] = r THEN Nowhere ELSE home[e]]
  /\ Rollback(r)
  /\ UNCHANGED <<mode, done, buffer, created, log, failed>>

Exit(r) == proc[r] = "stopped" /\ Dies(r) /\ UNCHANGED faults
Crash(r) == proc[r] # "down" /\ Dies(r) /\ Fault

Restart(r) ==
  /\ proc[r] = "down"
  /\ Goes(r, "up")
  /\ UNCHANGED <<mode, call, home, done, queue, worker, Replays, buffer, created, log, failed, gone, faults>>

-----------------------------------------------------------------------------

ReplayStep(r) == ReplayWrite(r) \/ ReplayMark(r) \/ ReplayCommit(r)
DeliverStep(r) == WriteEntry(r) \/ PersistEntry(r)
StopStep(r) == NoticeStop(r) \/ WorkerReturns(r) \/ Exit(r)

AuditNext ==
  \/ \E e \in Entries :
       (\E r \in Replicas : Begin(e, r)) \/ RecordNow(e) \/ Enqueue(e) \/ Spill(e)
  \/ \E r \in Replicas :
       \/ TakeEntry(r) \/ DeliverStep(r) \/ StartReplay(r) \/ ReplayStep(r)
       \/ Close(r) \/ StopStep(r) \/ Crash(r) \/ Restart(r)

AuditSpec == AuditInit /\ [][AuditNext]_auditVars

\* The worker's loop turns and its statements return; Go's select picks at random
\* among what is ready, so neither the queue nor the ticker is passed over for
\* ever; processes that went down are started again.
AuditFairness ==
  \A r \in Replicas :
    /\ WF_auditVars(DeliverStep(r)) /\ WF_auditVars(ReplayStep(r)) /\ WF_auditVars(StopStep(r))
    /\ WF_auditVars(Restart(r))
    /\ SF_auditVars(TakeEntry(r)) /\ SF_auditVars(StartReplay(r))

AuditFairSpec == AuditSpec /\ AuditFairness
-----------------------------------------------------------------------------
(* Properties.                                                             *)

\* Types of the tables and of the processes' memory; the channel holds what it may.
AuditTypeOK ==
  /\ mode \in Modes
  /\ proc \in [Replicas -> {"up", "closing", "draining", "stopped", "down"}]
  /\ call \in [Entries -> {"new", "record", "spill", "ok", "denied", "dead"}]
  /\ home \in [Entries -> Replicas \cup {Nowhere}]
  /\ done \subseteq Entries
  /\ queue \in [Replicas -> SUBSET Entries]
  /\ \A r \in Replicas : Cardinality(queue[r]) <= QueueSize
  /\ worker \in [Replicas -> Work]
  /\ batch \in [Replicas -> SUBSET Entries]
  /\ deleted \in [Replicas -> SUBSET Entries]
  /\ buffer \subseteq Entries
  /\ created \in [Entries -> Nat]
  /\ log \in [Entries -> Nat]
  /\ failed \subseteq Entries /\ gone \subseteq Entries
  /\ faults \in 0..MaxFaults

InMemory(e) ==
  \E r \in Replicas :
    e \in queue[r] \/ (Hand(r) = e /\ (Doing(r, "write") \/ Doing(r, "persist")))

\* In buffered mode an entry that Record has accepted is written, buffered, in the
\* memory of a live process, counted as a failure, or was lost with a process:
\* full queues, failing writes and rolled-back replays drop none silently.
EntriesAccountedFor ==
  \A e \in Entries :
    call[e] = "ok" => log[e] > 0 \/ e \in buffer \cup failed \cup gone \/ InMemory(e)

\* Replicas that replay one buffer write an entry once; every further row in
\* app.audit_logs costs a failure between the write and the commit.
DuplicatesCostFaults == \A e \in Entries : log[e] <= 1 + faults

\* In required mode no query runs and no report is generated without its row.
GuardFailsClosed ==
  mode = "required" => \A e \in Guarded : e \in done => log[e] > 0

\* In required mode no high-risk operation takes effect without its row.
HighRiskFailsClosed ==
  mode = "required" =>
    \A e \in HighRisk : e \in done /\ call[e] \in {"ok", "denied"} => log[e] > 0

\* A row leaves the buffer only when the entry is in the log, also when replays
\* of two replicas and their rollbacks overlap.
BufferedUntilLogged ==
  [][\A e \in Entries : e \in buffer /\ e \notin buffer' => log[e] > 0]_auditVars

\* Shutdowns that outlast their requests lose nothing, whenever they happen.
CleanShutdown == faults = 0 => gone = {}

\* What the log admits does not stay in the buffer, behind rows that it refuses,
\* as long as these are fewer than a replay takes.
BufferDrains == \A e \in Loggable : e \in buffer ~> e \notin buffer
=============================================================================
