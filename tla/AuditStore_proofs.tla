-------------------------- MODULE AuditStore_proofs --------------------------
(***************************************************************************)
(* Proofs about the audit store, for every set of entries and replicas,    *)
(* every mode, queue and batch size and every number of faults: typing,     *)
(* that no accepted entry is dropped silently, that guards fail closed,     *)
(* that clean shutdowns lose nothing, and what duplicates cost.             *)
(***************************************************************************)
EXTENDS AuditStore, FiniteSetTheorems, TLAPS

USE AuditAssumption

-----------------------------------------------------------------------------
(* Typing.                                                                 *)

\* What a worker that goes on to a step is left with.
LEMMA BecomesTyped ==
  ASSUME worker \in [Replicas -> Work], NEW r \in Replicas,
         NEW step \in Steps,
         NEW e \in Entries \cup {Nothing}, NEW ok \in BOOLEAN,
         Becomes(r, step, e, ok)
  PROVE  /\ worker' \in [Replicas -> Work]
         /\ worker'[r].step = step /\ worker'[r].entry = e /\ worker'[r].ok = ok
         /\ \A s \in Replicas \ {r} : worker'[s] = worker[s]
<1>1. [step |-> step, entry |-> e, ok |-> ok] \in Work
  BY Zenon DEF Work
<1>2. worker' = [worker EXCEPT ![r] = [step |-> step, entry |-> e, ok |-> ok]]
  BY DEF Becomes
<1>3. worker' \in [Replicas -> Work]
  BY <1>1, <1>2, Zenon
<1>4. worker'[r] = [step |-> step, entry |-> e, ok |-> ok]
  BY <1>2, Zenon
<1>5. \A s \in Replicas \ {r} : worker'[s] = worker[s]
  BY <1>2
<1>. QED BY <1>3, <1>4, <1>5

LEMMA RestsTyped ==
  ASSUME worker \in [Replicas -> Work], NEW r \in Replicas, Rests(r)
  PROVE  /\ worker' \in [Replicas -> Work]
         /\ worker'[r].step = "idle" /\ worker'[r].entry = Nothing
         /\ \A s \in Replicas \ {r} : worker'[s] = worker[s]
<1>1. Becomes(r, "idle", Nothing, FALSE)
  BY DEF Rests, Becomes, Idle
<1>. QED BY <1>1, BecomesTyped DEF Steps

\* What each step of a worker has in its hand and in its transaction, and that
\* there is neither work nor a queue where there is no worker.
WorkerConsistent(r) ==
  /\ Doing(r, "idle") \/ Doing(r, "replay") <=> Hand(r) = Nothing
  /\ batch[r] # {} \/ deleted[r] # {} => Doing(r, "replay") \/ Doing(r, "mark")
  /\ ~Running(r) => Doing(r, "idle")
  /\ mode # "buffered" => Doing(r, "idle") /\ queue[r] = {}
WorkersConsistent == \A r \in Replicas : WorkerConsistent(r)

\* A request that is in Record is served somewhere.
CallsConsistent ==
  \A e \in Entries :
    /\ call[e] \in {"record", "spill"} => home[e] \in Replicas
    /\ call[e] = "spill" => mode = "buffered"

AuditTyped == AuditTypeOK /\ WorkersConsistent /\ CallsConsistent

\* A step of one replica that calls do not notice.
LEMMA OnlyOneWorker ==
  ASSUME AuditTyped, NEW r \in Replicas, AuditTypeOK', WorkerConsistent(r)',
         mode' = mode, call' = call, home' = home,
         \A s \in Replicas \ {r} :
           /\ worker'[s] = worker[s] /\ proc'[s] = proc[s] /\ queue'[s] = queue[s]
           /\ batch'[s] = batch[s] /\ deleted'[s] = deleted[s]
  PROVE  AuditTyped'
<1>1. ASSUME NEW s \in Replicas \ {r} PROVE WorkerConsistent(s)'
  BY DEF AuditTyped, WorkersConsistent, WorkerConsistent, Doing, Hand, Running
<1>2. CallsConsistent'
  BY DEF AuditTyped, CallsConsistent
<1>. QED BY <1>1, <1>2, Zenon DEF AuditTyped, WorkersConsistent

\* A statement writes its own entry at most once, and costs a fault when it
\* writes and fails.
LEMMA WritesLogs ==
  ASSUME log \in [Entries -> Nat], faults \in 0..MaxFaults,
         NEW e \in Entries, NEW ok \in BOOLEAN, Writes(e, ok)
  PROVE  /\ log' \in [Entries -> Nat] /\ faults' \in 0..MaxFaults
         /\ \A f \in Entries : log[f] <= log'[f] /\ (f # e => log'[f] = log[f])
         /\ log'[e] <= log[e] + 1
         /\ ok => log'[e] > 0
         /\ ~ok => log'[e] + faults <= log[e] + faults'
         /\ faults <= faults'
<1>1. CASE ok /\ log' = [log EXCEPT ![e] = @ + 1] /\ UNCHANGED faults
  BY <1>1
<1>2. CASE ~ok /\ UNCHANGED <<log, faults>>
  BY <1>2
<1>3. CASE ~ok /\ Fault /\ UNCHANGED log
  BY <1>3 DEF Fault
<1>4. CASE ~ok /\ Fault /\ log' = [log EXCEPT ![e] = @ + 1]
  BY <1>4 DEF Fault
<1>. QED BY <1>1, <1>2, <1>3, <1>4, Zenon DEF Writes

\* A new row of the buffer has a position.
LEMMA PersistsTyped ==
  ASSUME buffer \subseteq Entries, created \in [Entries -> Nat], NEW e \in Entries, Persists(e)
  PROVE  buffer' \subseteq Entries /\ created' \in [Entries -> Nat]
<1>1. Cardinality({f \in Entries : created[f] > 0}) \in Nat
  BY FS_Subset, FS_CardinalityType
<1>. QED BY <1>1 DEF Persists

\* The tables and the memory keep their types, and the channel its size.
LEMMA TypedInit == AuditInit => AuditTyped
<1>. SUFFICES ASSUME AuditInit PROVE AuditTyped
  OBVIOUS
<1>1. Cardinality({}) = 0
  BY FS_EmptySet
<1>2. AuditTypeOK
  BY <1>1 DEF AuditInit, AuditTypeOK, Idle, Work, Steps
<1>3. WorkersConsistent
  BY DEF AuditInit, WorkersConsistent, WorkerConsistent, Idle, Doing, Hand, Running
<1>4. CallsConsistent
  BY DEF AuditInit, CallsConsistent
<1>. QED BY <1>2, <1>3, <1>4 DEF AuditTyped

LEMMA TypedStep == AuditTyped /\ [AuditNext]_auditVars => AuditTyped'
<1>. SUFFICES ASSUME AuditTyped, [AuditNext]_auditVars PROVE AuditTyped'
  OBVIOUS
<1>. USE DEF AuditTypeOK, Processes, Replays, Goes
<1>0. AuditTypeOK /\ WorkersConsistent /\ CallsConsistent
  BY DEF AuditTyped
<1>1. ASSUME NEW e \in Entries, NEW r \in Replicas, Begin(e, r) PROVE AuditTyped'
  <2>1. AuditTypeOK'
    BY <1>0, <1>1 DEF Begin
  <2>2. WorkersConsistent'
    BY <1>0, <1>1 DEF Begin, WorkersConsistent, WorkerConsistent, Doing, Hand, Running
  <2>3. CallsConsistent'
    BY <1>0, <1>1 DEF Begin, CallsConsistent
  <2>. QED BY <2>1, <2>2, <2>3 DEF AuditTyped
<1>2. ASSUME NEW e \in Entries, RecordNow(e) PROVE AuditTyped'
  <2>1. log' \in [Entries -> Nat] /\ faults' \in 0..MaxFaults
    BY <1>0, <1>2, WritesLogs DEF RecordNow
  <2>2. Proceeds(e) \/ Denied(e)
    BY <1>2, Zenon DEF RecordNow
  <2>3. failed' \subseteq Entries
    BY <1>0, <1>2 DEF RecordNow
  <2>4. call' \in [Entries -> {"new", "record", "spill", "ok", "denied", "dead"}]
    BY <1>0, <2>2 DEF Proceeds, Denied
  <2>5. home' \in [Entries -> Replicas \cup {Nowhere}] /\ done' \subseteq Entries
    BY <1>0, <2>2 DEF Proceeds, Denied
  <2>6. AuditTypeOK'
    BY <1>0, <1>2, <2>1, <2>3, <2>4, <2>5 DEF RecordNow
  <2>7. WorkersConsistent'
    BY <1>0, <1>2 DEF RecordNow, WorkersConsistent, WorkerConsistent, Doing, Hand, Running
  <2>8. CallsConsistent'
    BY <1>0, <1>2, <2>2 DEF RecordNow, Proceeds, Denied, CallsConsistent
  <2>. QED BY <2>6, <2>7, <2>8 DEF AuditTyped
<1>3. ASSUME NEW e \in Entries, Enqueue(e) PROVE AuditTyped'
  <2>1. CASE ~Full(home[e]) /\ queue' = [queue EXCEPT ![home[e]] = @ \cup {e}] /\ Proceeds(e)
    <3>1. ASSUME NEW r \in Replicas PROVE Cardinality(queue'[r]) <= QueueSize
      <4>1. IsFiniteSet(queue[r]) /\ Cardinality(queue[r]) \in Nat
        BY <1>0, FS_Subset, FS_CardinalityType
      <4>2. CASE r = home[e]
        <5>1. queue'[r] = queue[r] \cup {e}
          BY <1>0, <2>1, <4>2
        <5>2. Cardinality(queue[r]) < QueueSize
          BY <1>0, <2>1, <4>1, <4>2 DEF Full
        <5>3. Cardinality(queue[r] \cup {e}) \in {Cardinality(queue[r]), Cardinality(queue[r]) + 1}
          BY <4>1, FS_AddElement
        <5>. QED BY <4>1, <5>1, <5>2, <5>3
      <4>3. CASE r # home[e]
        BY <1>0, <2>1, <4>3
      <4>. QED BY <4>2, <4>3
    <3>2. AuditTypeOK'
      <4>1. queue' \in [Replicas -> SUBSET Entries]
        BY <1>0, <2>1, ZenonT(60)
      <4>2. /\ call' \in [Entries -> {"new", "record", "spill", "ok", "denied", "dead"}]
            /\ home' \in [Entries -> Replicas \cup {Nowhere}]
            /\ done' \subseteq Entries
        BY <1>0, <2>1 DEF Proceeds
      <4>. QED BY <1>0, <1>3, <3>1, <4>1, <4>2, SMTT(60) DEF Enqueue
    <3>3. WorkersConsistent'
      BY <1>0, <1>3, <2>1 DEF Enqueue, WorkersConsistent, WorkerConsistent, Doing, Hand, Running
    <3>4. CallsConsistent'
      BY <1>0, <1>3, <2>1 DEF Enqueue, Proceeds, CallsConsistent
    <3>. QED BY <3>2, <3>3, <3>4 DEF AuditTyped
  <2>2. CASE call' = [call EXCEPT ![e] = "spill"] /\ UNCHANGED <<queue, home, done>>
    <3>1. AuditTypeOK'
      BY <1>0, <1>3, <2>2 DEF Enqueue
    <3>2. WorkersConsistent'
      BY <1>0, <1>3, <2>2 DEF Enqueue, WorkersConsistent, WorkerConsistent, Doing, Hand, Running
    <3>3. CallsConsistent'
      BY <1>0, <1>3, <2>2 DEF Enqueue, CallsConsistent
    <3>. QED BY <3>1, <3>2, <3>3 DEF AuditTyped
  <2>. QED BY <1>3, <2>1, <2>2, Zenon DEF Enqueue
<1>4. ASSUME NEW e \in Entries, Spill(e) PROVE AuditTyped'
  <2>1. /\ buffer' \subseteq Entries /\ created' \in [Entries -> Nat]
        /\ failed' \subseteq Entries /\ faults' \in 0..MaxFaults
    BY <1>0, <1>4, PersistsTyped DEF Spill, Fault
  <2>2. AuditTypeOK'
    BY <1>0, <1>4, <2>1 DEF Spill, Proceeds
  <2>3. WorkersConsistent'
    BY <1>0, <1>4 DEF Spill, WorkersConsistent, WorkerConsistent, Doing, Hand, Running
  <2>4. CallsConsistent'
    BY <1>0, <1>4 DEF Spill, Proceeds, CallsConsistent
  <2>. QED BY <2>2, <2>3, <2>4 DEF AuditTyped
<1>5. ASSUME NEW r \in Replicas PROVE WorkerConsistent(r)
  BY <1>0 DEF WorkersConsistent
<1>. USE DEF WorkerConsistent, Doing, Hand, Running
<1>6. ASSUME NEW r \in Replicas, TakeEntry(r) PROVE AuditTyped'
  <2>1. PICK e \in queue[r] : /\ queue' = [queue EXCEPT ![r] = @ \ {e}]
                              /\ Becomes(r, "write", e, FALSE)
    BY <1>6 DEF TakeEntry
  <2>. e \in Entries
    BY <1>0
  <2>2. ASSUME NEW s \in Replicas PROVE Cardinality(queue'[s]) <= QueueSize
    <3>1. queue'[s] \subseteq queue[s] /\ queue[s] \subseteq Entries
      BY <1>0, <2>1
    <3>2. IsFiniteSet(queue[s])
      BY <3>1, FS_Subset
    <3>3. Cardinality(queue'[s]) <= Cardinality(queue[s])
      BY <3>1, <3>2, FS_Subset
    <3>4. Cardinality(queue[s]) \in Nat /\ Cardinality(queue'[s]) \in Nat
      BY <3>1, <3>2, FS_Subset, FS_CardinalityType
    <3>. QED BY <1>0, <3>3, <3>4
  <2>3. /\ worker' \in [Replicas -> Work]
        /\ worker'[r].step = "write" /\ worker'[r].entry = e
        /\ \A s \in Replicas \ {r} : worker'[s] = worker[s]
    BY <1>0, <2>1, BecomesTyped DEF Steps
  <2>4. AuditTypeOK'
    BY <1>0, <1>6, <2>1, <2>2, <2>3 DEF TakeEntry
  <2>5. WorkerConsistent(r)'
    BY <1>0, <1>5, <1>6, <2>1, <2>3 DEF TakeEntry, Nothing
  <2>. QED BY <1>0, <1>6, <2>1, <2>3, <2>4, <2>5, OnlyOneWorker, ZenonT(60) DEF TakeEntry
<1>7. ASSUME NEW r \in Replicas, WriteEntry(r) PROVE AuditTyped'
  <2>1. Hand(r) \in Entries
    BY <1>0, <1>5, <1>7 DEF WriteEntry, Work
  <2>2. PICK ok \in BOOLEAN : Writes(Hand(r), ok)
    BY <1>7, Zenon DEF WriteEntry
  <2>3. log' \in [Entries -> Nat] /\ faults' \in 0..MaxFaults
    BY <1>0, <2>1, <2>2, WritesLogs
  <2>4. /\ Rests(r) \/ Becomes(r, "persist", Hand(r), FALSE)
        /\ failed' \subseteq Entries
    BY <1>0, <1>7, <2>1 DEF WriteEntry
  <2>5. /\ worker' \in [Replicas -> Work]
        /\ \/ worker'[r].step = "idle" /\ worker'[r].entry = Nothing
           \/ worker'[r].step = "persist" /\ worker'[r].entry = Hand(r)
        /\ \A s \in Replicas \ {r} : worker'[s] = worker[s]
    <3>1. CASE Rests(r)
      BY <1>0, <3>1, RestsTyped
    <3>2. CASE Becomes(r, "persist", Hand(r), FALSE)
      BY <1>0, <2>1, <3>2, BecomesTyped DEF Steps
    <3>. QED BY <2>4, <3>1, <3>2
  <2>6. AuditTypeOK'
    BY <1>0, <1>7, <2>3, <2>4, <2>5 DEF WriteEntry
  <2>7. WorkerConsistent(r)'
    BY <1>0, <1>5, <1>7, <2>1, <2>5 DEF WriteEntry
  <2>. QED BY <1>7, <2>5, <2>6, <2>7, OnlyOneWorker DEF WriteEntry
<1>8. ASSUME NEW r \in Replicas, PersistEntry(r) PROVE AuditTyped'
  <2>1. Hand(r) \in Entries
    BY <1>0, <1>5, <1>8 DEF PersistEntry, Work
  <2>2. /\ buffer' \subseteq Entries /\ created' \in [Entries -> Nat]
        /\ failed' \subseteq Entries /\ faults' \in 0..MaxFaults
    BY <1>0, <1>8, <2>1, PersistsTyped DEF PersistEntry, Fault
  <2>3. /\ worker' \in [Replicas -> Work]
        /\ worker'[r].step = "idle" /\ worker'[r].entry = Nothing
        /\ \A s \in Replicas \ {r} : worker'[s] = worker[s]
    BY <1>0, <1>8, RestsTyped DEF PersistEntry
  <2>4. AuditTypeOK'
    BY <1>0, <1>8, <2>2, <2>3 DEF PersistEntry
  <2>5. WorkerConsistent(r)'
    BY <1>0, <1>5, <1>8, <2>3 DEF PersistEntry
  <2>. QED BY <1>8, <2>3, <2>4, <2>5, OnlyOneWorker DEF PersistEntry
<1>9. ASSUME NEW r \in Replicas, StartReplay(r) PROVE AuditTyped'
  <2>1. FirstRows(Unlocked) \subseteq Entries
    BY <1>0 DEF FirstRows, Unlocked
  <2>2. /\ worker' \in [Replicas -> Work]
        /\ worker'[r].step = "replay" /\ worker'[r].entry = Nothing
        /\ \A s \in Replicas \ {r} : worker'[s] = worker[s]
    BY <1>0, <1>9, BecomesTyped DEF StartReplay, Steps
  <2>3. AuditTypeOK'
    BY <1>0, <1>9, <2>1, <2>2 DEF StartReplay
  <2>4. WorkerConsistent(r)'
    BY <1>0, <1>5, <1>9, <2>2 DEF StartReplay
  <2>. QED BY <1>0, <1>9, <2>2, <2>3, <2>4, OnlyOneWorker DEF StartReplay
<1>10. ASSUME NEW r \in Replicas, ReplayWrite(r) PROVE AuditTyped'
  <2>1. PICK e \in batch[r], ok \in BOOLEAN :
          Writes(e, ok) /\ Becomes(r, "mark", e, ok) /\ batch' = [batch EXCEPT ![r] = @ \ {e}]
    BY <1>10 DEF ReplayWrite
  <2>. e \in Entries
    BY <1>0
  <2>2. log' \in [Entries -> Nat] /\ faults' \in 0..MaxFaults
    BY <1>0, <2>1, WritesLogs
  <2>6. worker \in [Replicas -> Work] /\ "mark" \in Steps /\ e \in Entries \cup {Nothing}
    BY <1>0 DEF Steps
  <2>3. /\ worker' \in [Replicas -> Work]
        /\ worker'[r].step = "mark" /\ worker'[r].entry = e
        /\ \A s \in Replicas \ {r} : worker'[s] = worker[s]
    <3>1. ok \in BOOLEAN /\ Becomes(r, "mark", e, ok)
      BY <2>1
    <3>2. ASSUME NEW b \in BOOLEAN, Becomes(r, "mark", e, b)
          PROVE  /\ worker' \in [Replicas -> Work]
                 /\ worker'[r].step = "mark" /\ worker'[r].entry = e
                 /\ \A s \in Replicas \ {r} : worker'[s] = worker[s]
      BY <2>6, <3>2, BecomesTyped
    <3>. QED BY <3>1, <3>2, Zenon
  <2>4. AuditTypeOK'
    BY <1>0, <1>10, <2>1, <2>2, <2>3 DEF ReplayWrite
  <2>5. WorkerConsistent(r)'
    BY <1>0, <1>5, <1>10, <2>1, <2>3 DEF ReplayWrite, Nothing
  <2>. QED BY <1>0, <1>10, <2>1, <2>3, <2>4, <2>5, OnlyOneWorker DEF ReplayWrite
<1>11. ASSUME NEW r \in Replicas, ReplayMark(r) PROVE AuditTyped'
  <2>1. Hand(r) \in Entries
    BY <1>0, <1>5, <1>11 DEF ReplayMark, Work
  <2>2. CASE Becomes(r, "replay", Nothing, FALSE) /\ UNCHANGED <<batch, faults>>
             /\ (deleted' = deleted \/ deleted' = [deleted EXCEPT ![r] = @ \cup {Hand(r)}])
    <3>1. /\ worker' \in [Replicas -> Work]
          /\ worker'[r].step = "replay" /\ worker'[r].entry = Nothing
          /\ \A s \in Replicas \ {r} : worker'[s] = worker[s]
      BY <1>0, <2>2, BecomesTyped DEF Steps
    <3>2. deleted' \in [Replicas -> SUBSET Entries]
          /\ \A s \in Replicas \ {r} : deleted'[s] = deleted[s]
      BY <1>0, <2>1, <2>2
    <3>3. AuditTypeOK'
      BY <1>0, <1>11, <2>2, <3>1, <3>2 DEF ReplayMark
    <3>4. WorkerConsistent(r)'
      BY <1>0, <1>5, <1>11, <2>2, <3>1 DEF ReplayMark
    <3>. QED BY <1>11, <2>2, <3>1, <3>2, <3>3, <3>4, OnlyOneWorker DEF ReplayMark
  <2>3. CASE Rollback(r) /\ Fault
    <3>1. /\ worker' \in [Replicas -> Work]
          /\ worker'[r].step = "idle" /\ worker'[r].entry = Nothing
          /\ \A s \in Replicas \ {r} : worker'[s] = worker[s]
      BY <1>0, <2>3, RestsTyped DEF Rollback
    <3>2. /\ batch' \in [Replicas -> SUBSET Entries] /\ deleted' \in [Replicas -> SUBSET Entries]
          /\ faults' \in 0..MaxFaults
      BY <1>0, <2>3 DEF Rollback, Fault
    <3>4. AuditTypeOK'
      BY <1>0, <1>11, <3>1, <3>2 DEF ReplayMark
    <3>3. WorkerConsistent(r)'
      BY <1>0, <1>5, <1>11, <2>3, <3>1 DEF ReplayMark, Rollback
    <3>. QED BY <1>0, <1>11, <2>3, <3>1, <3>3, <3>4, OnlyOneWorker DEF ReplayMark, Rollback
  <2>. QED BY <1>11, <2>2, <2>3, Zenon DEF ReplayMark
<1>12. ASSUME NEW r \in Replicas, ReplayCommit(r) PROVE AuditTyped'
  <2>1. /\ worker' \in [Replicas -> Work]
        /\ worker'[r].step = "idle" /\ worker'[r].entry = Nothing
        /\ \A s \in Replicas \ {r} : worker'[s] = worker[s]
    BY <1>0, <1>12, RestsTyped DEF ReplayCommit, Rollback
  <2>4. /\ batch' \in [Replicas -> SUBSET Entries] /\ deleted' \in [Replicas -> SUBSET Entries]
        /\ buffer' \subseteq Entries /\ faults' \in 0..MaxFaults
    BY <1>0, <1>12 DEF ReplayCommit, Rollback, Fault
  <2>2. AuditTypeOK'
    BY <1>0, <1>12, <2>1, <2>4 DEF ReplayCommit
  <2>3. WorkerConsistent(r)'
    BY <1>0, <1>5, <1>12, <2>1 DEF ReplayCommit, Rollback
  <2>. QED BY <1>0, <1>12, <2>1, <2>2, <2>3, OnlyOneWorker DEF ReplayCommit, Rollback
<1>13. ASSUME NEW r \in Replicas, Close(r) PROVE AuditTyped'
  <2>1. AuditTypeOK'
    BY <1>0, <1>13 DEF Close, Fault
  <2>2. WorkerConsistent(r)'
    BY <1>0, <1>5, <1>13 DEF Close
  <2>. QED BY <1>0, <1>13, <2>1, <2>2, OnlyOneWorker DEF Close
<1>14. ASSUME NEW r \in Replicas, NoticeStop(r) \/ WorkerReturns(r) \/ Restart(r) PROVE AuditTyped'
  <2>1. AuditTypeOK'
    BY <1>0, <1>14 DEF NoticeStop, WorkerReturns, Restart
  <2>2. WorkerConsistent(r)'
    BY <1>0, <1>5, <1>14 DEF NoticeStop, WorkerReturns, Restart
  <2>. QED BY <1>0, <1>14, <2>1, <2>2, OnlyOneWorker DEF NoticeStop, WorkerReturns, Restart
<1>15. ASSUME NEW r \in Replicas, Exit(r) \/ Crash(r) PROVE AuditTyped'
  <2>1. faults' \in 0..MaxFaults /\ Dies(r)
    BY <1>0, <1>15 DEF Exit, Crash, Fault
  <2>2. Doing(r, "write") \/ Doing(r, "persist") => Hand(r) \in Entries
    BY <1>0, <1>5 DEF Work
  <2>3. gone' \subseteq Entries
    BY <1>0, <2>1, <2>2 DEF Dies
  <2>4. Cardinality({}) <= QueueSize
    BY FS_EmptySet
  <2>5. /\ queue' \in [Replicas -> SUBSET Entries]
        /\ \A s \in Replicas : Cardinality(queue'[s]) <= QueueSize
        /\ queue'[r] = {} /\ \A s \in Replicas \ {r} : queue'[s] = queue[s]
    BY <1>0, <2>1, <2>4 DEF Dies
  <2>6. /\ worker' \in [Replicas -> Work]
        /\ worker'[r].step = "idle" /\ worker'[r].entry = Nothing
        /\ \A s \in Replicas \ {r} : worker'[s] = worker[s]
    BY <1>0, <2>1, RestsTyped DEF Dies, Rollback
  <2>7. /\ call' \in [Entries -> {"new", "record", "spill", "ok", "denied", "dead"}]
        /\ home' \in [Entries -> Replicas \cup {Nowhere}]
    BY <1>0, <2>1 DEF Dies
  <2>8. AuditTypeOK'
    BY <1>0, <2>1, <2>3, <2>5, <2>6, <2>7 DEF Dies, Rollback
  <2>9. CallsConsistent'
    BY <1>0, <2>1 DEF Dies, CallsConsistent
  <2>10. ASSUME NEW s \in Replicas PROVE WorkerConsistent(s)'
    BY <1>0, <1>5, <2>1, <2>5, <2>6 DEF Dies, Rollback
  <2>. QED BY <2>8, <2>9, <2>10 DEF AuditTyped, WorkersConsistent
<1>16. CASE UNCHANGED auditVars
  BY <1>0, <1>16 DEF auditVars, AuditTyped, WorkersConsistent, CallsConsistent
<1>. QED BY <1>1, <1>2, <1>3, <1>4, <1>6, <1>7, <1>8, <1>9, <1>10, <1>11, <1>12, <1>13,
            <1>14, <1>15, <1>16, Zenon
         DEF AuditNext, DeliverStep, ReplayStep, StopStep

\* Every state of the store is well typed, the channel within its size.
THEOREM AuditTypeCorrect == AuditSpec => []AuditTypeOK
<1>1. AuditTyped => AuditTypeOK
  BY DEF AuditTyped
<1>. QED BY <1>1, TypedInit, TypedStep, PTL DEF AuditSpec

-----------------------------------------------------------------------------
(* What is written stays written, and only that leaves the buffer.         *)

LEMMA LogGrows ==
  ASSUME AuditTyped, [AuditNext]_auditVars
  PROVE  log' \in [Entries -> Nat] /\ \A e \in Entries : log[e] <= log'[e]
<1>. log \in [Entries -> Nat] /\ faults \in 0..MaxFaults
  BY DEF AuditTyped, AuditTypeOK
<1>1. ASSUME NEW e \in Entries, RecordNow(e)
      PROVE  log' \in [Entries -> Nat] /\ \A f \in Entries : log[f] <= log'[f]
  BY <1>1, WritesLogs DEF RecordNow
<1>2. ASSUME NEW r \in Replicas, WriteEntry(r)
      PROVE  log' \in [Entries -> Nat] /\ \A f \in Entries : log[f] <= log'[f]
  <2>1. Hand(r) \in Entries
    BY <1>2 DEF WriteEntry, AuditTyped, AuditTypeOK, WorkersConsistent, WorkerConsistent,
                Doing, Hand, Work
  <2>2. PICK ok \in BOOLEAN : Writes(Hand(r), ok)
    BY <1>2, Zenon DEF WriteEntry
  <2>. QED BY <2>1, <2>2, WritesLogs
<1>3. ASSUME NEW r \in Replicas, ReplayWrite(r)
      PROVE  log' \in [Entries -> Nat] /\ \A f \in Entries : log[f] <= log'[f]
  <2>1. PICK e \in batch[r], ok \in BOOLEAN : Writes(e, ok)
    BY <1>3, Zenon DEF ReplayWrite
  <2>2. e \in Entries
    BY DEF AuditTyped, AuditTypeOK
  <2>. QED BY <2>1, <2>2, WritesLogs
<1>4. CASE log' = log
  BY <1>4
<1>. QED BY <1>1, <1>2, <1>3, <1>4
         DEF AuditNext, DeliverStep, ReplayStep, StopStep, auditVars, Processes, Replays,
             Begin, Enqueue, Spill, TakeEntry, PersistEntry, StartReplay, ReplayMark, ReplayCommit,
             Close, NoticeStop, WorkerReturns, Exit, Crash, Restart, Dies

\* What a replay has deleted, or is about to delete, is in the log.
DeletedLogged(r) ==
  /\ \A e \in deleted[r] : log[e] > 0
  /\ Doing(r, "mark") /\ worker[r].ok => log[Hand(r)] > 0
ReplaysLogged == \A r \in Replicas : DeletedLogged(r)

\* Workers whose row is the same and who are not about to delete.
LEMMA StillLogged ==
  ASSUME AuditTyped, [AuditNext]_auditVars, NEW r \in Replicas, DeletedLogged(r),
         deleted'[r] \subseteq deleted[r], worker'[r] = worker[r] \/ ~Doing(r, "mark")'
  PROVE  DeletedLogged(r)'
<1>1. log' \in [Entries -> Nat] /\ log \in [Entries -> Nat] /\ \A e \in Entries : log[e] <= log'[e]
  BY LogGrows DEF AuditTyped, AuditTypeOK
<1>2. ASSUME NEW e \in deleted'[r] PROVE log'[e] > 0
  BY <1>1 DEF AuditTyped, AuditTypeOK, DeletedLogged
<1>3. ASSUME Doing(r, "mark")', worker'[r].ok PROVE log'[worker'[r].entry] > 0
  <2>1. worker'[r] = worker[r]
    BY <1>3
  <2>2. Doing(r, "mark") /\ worker[r].ok
    BY <1>3, <2>1, Zenon DEF Doing
  <2>3. Hand(r) \in Entries
    BY <2>2 DEF AuditTyped, AuditTypeOK, WorkersConsistent, WorkerConsistent, Doing, Hand, Work
  <2>4. log[Hand(r)] > 0
    BY <2>2, Zenon DEF DeletedLogged
  <2>. QED BY <1>1, <2>1, <2>3, <2>4 DEF Hand
<1>. QED BY <1>2, <1>3, Zenon DEF DeletedLogged, Hand

LEMMA ReplaysLoggedStep ==
  AuditTyped /\ ReplaysLogged /\ [AuditNext]_auditVars => ReplaysLogged'
<1>. SUFFICES ASSUME AuditTyped, ReplaysLogged, [AuditNext]_auditVars, NEW s \in Replicas
              PROVE  DeletedLogged(s)'
  BY DEF ReplaysLogged
<1>0. /\ DeletedLogged(s) /\ worker \in [Replicas -> Work]
      /\ log \in [Entries -> Nat] /\ log' \in [Entries -> Nat]
      /\ \A e \in Entries : log[e] <= log'[e]
      /\ \A r \in Replicas : batch[r] \subseteq Entries /\ deleted[r] \subseteq Entries
  BY LogGrows DEF ReplaysLogged, AuditTyped, AuditTypeOK
<1>1. CASE worker' = worker /\ deleted' = deleted
  BY <1>0, <1>1, StillLogged
<1>2. ASSUME NEW r \in Replicas,
             \/ TakeEntry(r) \/ WriteEntry(r) \/ PersistEntry(r) \/ StartReplay(r)
      PROVE  DeletedLogged(s)'
  <2>1. ~Doing(r, "mark")' /\ \A t \in Replicas \ {r} : worker'[t] = worker[t]
    <3>1. \/ Rests(r) \/ Becomes(r, "persist", Hand(r), FALSE) \/ Becomes(r, "replay", Nothing, FALSE)
          \/ \E e \in queue[r] : Becomes(r, "write", e, FALSE)
      BY <1>2, Zenon DEF TakeEntry, WriteEntry, PersistEntry, StartReplay
    <3>2. ASSUME NEW step \in {"idle", "write", "persist", "replay"}, NEW e,
                 worker' = [worker EXCEPT ![r] = [step |-> step, entry |-> e, ok |-> FALSE]]
          PROVE  worker'[r].step # "mark" /\ \A t \in Replicas \ {r} : worker'[t] = worker[t]
      BY <1>0, <3>2
    <3>. QED BY <3>1, <3>2 DEF Becomes, Rests, Idle, Doing
  <2>2. deleted' = deleted
    BY <1>2 DEF TakeEntry, WriteEntry, PersistEntry, StartReplay, Replays
  <2>. QED BY <1>0, <2>1, <2>2, StillLogged
<1>3. ASSUME NEW r \in Replicas, ReplayWrite(r) PROVE DeletedLogged(s)'
  <2>1. PICK e \in batch[r], ok \in BOOLEAN : Writes(e, ok) /\ Becomes(r, "mark", e, ok)
    BY <1>3, Zenon DEF ReplayWrite
  <2>2. e \in Entries /\ deleted' = deleted
    BY <1>0, <1>3 DEF ReplayWrite
  <2>3. ok => log'[e] > 0
    BY <2>1, <2>2, WritesLogs DEF AuditTyped, AuditTypeOK
  <2>4. worker' = [worker EXCEPT ![r] = [step |-> "mark", entry |-> e, ok |-> ok]]
    BY <2>1 DEF Becomes
  <2>5. CASE s = r
    <3>1. worker'[s] = [step |-> "mark", entry |-> e, ok |-> ok]
      BY <1>0, <2>4, <2>5, Zenon
    <3>2. worker'[s].entry = e /\ (worker'[s].ok => ok)
      BY <3>1
    <3>3. \A f \in deleted'[s] : log'[f] > 0
      BY <1>0, <2>2 DEF DeletedLogged
    <3>. QED BY <2>3, <3>2, <3>3, Zenon DEF DeletedLogged, Hand
  <2>6. CASE s # r
    BY <1>0, <2>2, <2>4, <2>6, StillLogged
  <2>. QED BY <2>5, <2>6
<1>4. ASSUME NEW r \in Replicas, ReplayMark(r) PROVE DeletedLogged(s)'
  <2>1. ~Doing(r, "mark")' /\ \A t \in Replicas \ {r} : worker'[t] = worker[t]
    <3>1. Becomes(r, "replay", Nothing, FALSE) \/ Rests(r)
      BY <1>4, Zenon DEF ReplayMark, Rollback
    <3>. QED BY <1>0, <3>1 DEF Becomes, Rests, Idle, Doing
  <2>2. \A t \in Replicas \ {r} : deleted'[t] = deleted[t]
    BY <1>4 DEF ReplayMark, Rollback, AuditTyped, AuditTypeOK
  <2>3. \/ deleted'[r] \subseteq deleted[r]
        \/ worker[r].ok /\ deleted'[r] = deleted[r] \cup {Hand(r)}
    BY <1>4 DEF ReplayMark, Rollback, AuditTyped, AuditTypeOK
  <2>4. CASE s = r /\ worker[r].ok /\ deleted'[r] = deleted[r] \cup {Hand(r)}
    <3>1. log[Hand(r)] > 0
      BY <1>0, <1>4, <2>4, Zenon DEF ReplayMark, DeletedLogged
    <3>2. Hand(r) \in Entries
      BY <1>4 DEF ReplayMark, AuditTyped, AuditTypeOK, WorkersConsistent, WorkerConsistent,
                  Doing, Hand, Work
    <3>3. \A e \in deleted'[s] : log'[e] > 0
      BY <1>0, <2>4, <3>1, <3>2 DEF DeletedLogged
    <3>. QED BY <2>1, <2>4, <3>3, Zenon DEF DeletedLogged
  <2>. QED BY <1>0, <2>1, <2>2, <2>3, <2>4, StillLogged
<1>5. ASSUME NEW r \in Replicas, ReplayCommit(r) \/ Exit(r) \/ Crash(r) PROVE DeletedLogged(s)'
  <2>1. Rollback(r)
    BY <1>5 DEF ReplayCommit, Exit, Crash, Dies
  <2>2. ~Doing(r, "mark")' /\ \A t \in Replicas \ {r} : worker'[t] = worker[t]
    BY <1>0, <2>1 DEF Rollback, Rests, Idle, Doing
  <2>3. deleted'[s] \subseteq deleted[s]
    BY <2>1 DEF Rollback, AuditTyped, AuditTypeOK
  <2>. QED BY <1>0, <2>2, <2>3, StillLogged
<1>. QED BY <1>1, <1>2, <1>3, <1>4, <1>5
         DEF AuditNext, DeliverStep, ReplayStep, StopStep, auditVars, Processes, Replays,
             Begin, RecordNow, Enqueue, Spill, Close, NoticeStop, WorkerReturns, Restart

LEMMA ReplaysLoggedInit == AuditInit => ReplaysLogged
BY DEF AuditInit, ReplaysLogged, DeletedLogged, Idle, Doing

\* Only a commit takes rows out of the buffer, and only logged ones.
LEMMA BufferStep ==
  ASSUME AuditTyped, ReplaysLogged, [AuditNext]_auditVars,
         NEW e \in Entries, e \in buffer, e \notin buffer'
  PROVE  log[e] > 0
<1>1. PICK r \in Replicas : e \in deleted[r]
  BY DEF AuditNext, DeliverStep, ReplayStep, StopStep, auditVars, Processes, Replays, Persists,
         Begin, RecordNow, Enqueue, Spill, TakeEntry, WriteEntry, PersistEntry, StartReplay,
         ReplayWrite, ReplayMark, ReplayCommit, Close, NoticeStop, WorkerReturns, Exit, Crash,
         Restart, Dies
<1>. QED BY <1>1 DEF ReplaysLogged, DeletedLogged

\* A row leaves the buffer only when its entry is in the log, whatever replays
\* of several replicas, their rollbacks and crashes do to each other.
THEOREM BufferedUntilLoggedHolds == AuditSpec => BufferedUntilLogged
<1>1. AuditTyped /\ ReplaysLogged /\ [AuditNext]_auditVars
        => [\A e \in Entries : e \in buffer /\ e \notin buffer' => log[e] > 0]_auditVars
  BY BufferStep
<1>. QED BY <1>1, TypedInit, TypedStep, ReplaysLoggedInit, ReplaysLoggedStep, PTL
         DEF AuditSpec, BufferedUntilLogged

-----------------------------------------------------------------------------
(* No entry is dropped silently.                                           *)

\* Where an accepted entry is, or what is known of its loss.
AccountedFor(e) ==
  call[e] = "ok" => log[e] > 0 \/ e \in buffer \cup failed \cup gone \/ InMemory(e)

LEMMA AccountedStep ==
  ASSUME AuditTyped, ReplaysLogged, EntriesAccountedFor, [AuditNext]_auditVars,
         NEW x \in Entries
  PROVE  AccountedFor(x)'
<1>0. /\ AccountedFor(x)
      /\ log \in [Entries -> Nat] /\ log' \in [Entries -> Nat] /\ faults \in 0..MaxFaults
      /\ \A e \in Entries : log[e] <= log'[e]
      /\ x \in buffer /\ x \notin buffer' => log[x] > 0
      /\ call \in [Entries -> {"new", "record", "spill", "ok", "denied", "dead"}]
      /\ worker \in [Replicas -> Work] /\ queue \in [Replicas -> SUBSET Entries]
  BY LogGrows, BufferStep DEF EntriesAccountedFor, AccountedFor, AuditTyped, AuditTypeOK
<1>1. ASSUME call' = call \/ (call[x] = "ok" <=> call'[x] = "ok"),
             failed \subseteq failed', gone \subseteq gone',
             InMemory(x) => InMemory(x)' \/ log'[x] > 0 \/ x \in buffer' \cup failed' \cup gone'
      PROVE  AccountedFor(x)'
  BY <1>0, <1>1 DEF AccountedFor
<1>2. ASSUME NEW e \in Entries, RecordNow(e) PROVE AccountedFor(x)'
  <2>1. CASE e = x
    <3>1. log'[x] > 0 \/ x \in failed'
      BY <1>0, <1>2, <2>1, WritesLogs DEF RecordNow
    <3>. QED BY <3>1 DEF AccountedFor
  <2>2. CASE e # x
    <3>1. (call[x] = "ok" <=> call'[x] = "ok") /\ failed \subseteq failed'
      BY <1>0, <1>2, <2>2 DEF RecordNow, Proceeds, Denied
    <3>. QED BY <1>1, <1>2, <3>1 DEF RecordNow, Processes, InMemory, Hand, Doing
  <2>. QED BY <2>1, <2>2
<1>3. ASSUME NEW e \in Entries, Enqueue(e) PROVE AccountedFor(x)'
  <2>1. CASE e = x
    <3>1. home[e] \in Replicas
      BY <1>3 DEF Enqueue, AuditTyped, CallsConsistent
    <3>2. InMemory(x)' \/ call'[x] = "spill"
      BY <1>0, <1>3, <2>1, <3>1 DEF Enqueue, InMemory
    <3>. QED BY <3>2 DEF AccountedFor
  <2>2. CASE e # x
    <3>1. call[x] = "ok" <=> call'[x] = "ok"
      BY <1>0, <1>3, <2>2 DEF Enqueue, Proceeds
    <3>2. InMemory(x) => InMemory(x)'
      BY <1>0, <1>3 DEF Enqueue, InMemory, Hand, Doing
    <3>. QED BY <1>1, <1>3, <3>1, <3>2 DEF Enqueue
  <2>. QED BY <2>1, <2>2
<1>4. ASSUME NEW e \in Entries, Spill(e) PROVE AccountedFor(x)'
  <2>1. CASE e = x
    BY <1>4, <2>1 DEF Spill, Persists, AccountedFor
  <2>2. CASE e # x
    <3>1. (call[x] = "ok" <=> call'[x] = "ok") /\ failed \subseteq failed'
      BY <1>0, <1>4, <2>2 DEF Spill, Proceeds
    <3>. QED BY <1>1, <1>4, <3>1 DEF Spill, Processes, InMemory, Hand, Doing
  <2>. QED BY <2>1, <2>2
<1>5. ASSUME NEW r \in Replicas, TakeEntry(r) PROVE AccountedFor(x)'
  <2>1. PICK e \in queue[r] : /\ queue' = [queue EXCEPT ![r] = @ \ {e}]
                              /\ worker' = [worker EXCEPT ![r] = [step |-> "write", entry |-> e, ok |-> FALSE]]
    BY <1>5 DEF TakeEntry, Becomes
  <2>2. ASSUME InMemory(x) PROVE InMemory(x)'
    BY <1>0, <1>5, <2>1, <2>2 DEF TakeEntry, InMemory, Hand, Doing
  <2>. QED BY <1>1, <1>5, <2>2 DEF TakeEntry
<1>6. ASSUME NEW r \in Replicas, WriteEntry(r) PROVE AccountedFor(x)'
  <2>1. failed \subseteq failed' /\ gone = gone' /\ call = call'
    BY <1>6 DEF WriteEntry
  <2>2. CASE x = Hand(r)
    <3>1. log'[x] > 0 \/ x \in failed' \/ Becomes(r, "persist", Hand(r), FALSE)
      BY <1>0, <1>6, <2>2, WritesLogs DEF WriteEntry
    <3>2. ASSUME Becomes(r, "persist", Hand(r), FALSE) PROVE InMemory(x)'
      BY <1>0, <2>2, <3>2 DEF Becomes, InMemory, Hand, Doing
    <3>. QED BY <1>1, <2>1, <3>1, <3>2
  <2>3. CASE x # Hand(r)
    <3>1. \A s \in Replicas \ {r} : worker'[s] = worker[s]
      BY <1>0, <1>6 DEF WriteEntry, Becomes, Rests
    <3>2. InMemory(x) => InMemory(x)'
      BY <1>6, <2>3, <3>1 DEF WriteEntry, InMemory, Hand, Doing
    <3>. QED BY <1>1, <2>1, <3>2
  <2>. QED BY <2>2, <2>3
<1>7. ASSUME NEW r \in Replicas, PersistEntry(r) PROVE AccountedFor(x)'
  <2>1. failed \subseteq failed' /\ gone = gone' /\ call = call' /\ queue' = queue
    BY <1>7 DEF PersistEntry
  <2>2. Hand(r) \in buffer' \cup failed'
    BY <1>7 DEF PersistEntry, Persists
  <2>3. \A s \in Replicas \ {r} : worker'[s] = worker[s]
    BY <1>0, <1>7 DEF PersistEntry, Rests
  <2>4. InMemory(x) /\ x # Hand(r) => InMemory(x)'
    BY <2>1, <2>3 DEF InMemory, Hand, Doing
  <2>. QED BY <1>1, <2>1, <2>2, <2>4
<1>8. ASSUME NEW r \in Replicas,
             StartReplay(r) \/ ReplayWrite(r) \/ ReplayMark(r) \/ ReplayCommit(r)
      PROVE  AccountedFor(x)'
  <2>1. failed' = failed /\ gone = gone' /\ call = call' /\ queue' = queue
    BY <1>8 DEF StartReplay, ReplayWrite, ReplayMark, ReplayCommit
  <2>2. ~Doing(r, "write") /\ ~Doing(r, "persist")
    BY <1>8 DEF StartReplay, ReplayWrite, ReplayMark, ReplayCommit, Doing
  <2>3. \/ Rests(r) \/ Becomes(r, "replay", Nothing, FALSE)
        \/ \E e \in batch[r], ok \in BOOLEAN : Becomes(r, "mark", e, ok)
    BY <1>8, Zenon DEF StartReplay, ReplayWrite, ReplayMark, ReplayCommit, Rollback
  <2>4. \A s \in Replicas \ {r} : worker'[s] = worker[s]
    BY <1>0, <2>3 DEF Becomes, Rests
  <2>5. InMemory(x) => InMemory(x)'
    BY <2>1, <2>2, <2>4 DEF InMemory, Hand, Doing
  <2>. QED BY <1>1, <2>1, <2>5
<1>9. ASSUME NEW r \in Replicas, Exit(r) \/ Crash(r) PROVE AccountedFor(x)'
  <2>1. Dies(r) /\ Rests(r)
    BY <1>9 DEF Exit, Crash, Dies, Rollback
  <2>2. \A s \in Replicas \ {r} : worker'[s] = worker[s] /\ queue'[s] = queue[s]
    BY <1>0, <2>1 DEF Rests, Dies
  <2>3. ASSUME InMemory(x) PROVE InMemory(x)' \/ x \in gone'
    <3>1. PICK s \in Replicas :
            x \in queue[s] \/ (Hand(s) = x /\ (Doing(s, "write") \/ Doing(s, "persist")))
      BY <2>3 DEF InMemory
    <3>2. CASE s = r
      BY <2>1, <3>1, <3>2 DEF Dies
    <3>3. CASE s # r
      BY <2>2, <3>1, <3>3 DEF InMemory, Hand, Doing
    <3>. QED BY <3>2, <3>3
  <2>4. call'[x] = call[x] \/ call'[x] = "dead"
    BY <1>0, <2>1 DEF Dies
  <2>5. call'[x] = "dead" => AccountedFor(x)'
    BY DEF AccountedFor
  <2>6. failed' = failed /\ gone \subseteq gone'
    BY <2>1 DEF Dies
  <2>. QED BY <1>1, <2>3, <2>4, <2>5, <2>6
<1>10. ASSUME NEW r \in Replicas,
              \/ \E e \in Entries : Begin(e, r)
              \/ Close(r) \/ NoticeStop(r) \/ WorkerReturns(r) \/ Restart(r)
       PROVE  AccountedFor(x)'
  <2>1. failed' = failed /\ gone = gone' /\ queue' = queue /\ worker' = worker
    BY <1>10 DEF Begin, Close, NoticeStop, WorkerReturns, Restart
  <2>2. call[x] = "ok" <=> call'[x] = "ok"
    BY <1>0, <1>10 DEF Begin, Close, NoticeStop, WorkerReturns, Restart
  <2>. QED BY <1>1, <2>1, <2>2 DEF InMemory, Hand, Doing
<1>11. CASE UNCHANGED auditVars
  BY <1>1, <1>11 DEF auditVars, InMemory, Hand, Doing
<1>. QED BY <1>2, <1>3, <1>4, <1>5, <1>6, <1>7, <1>8, <1>9, <1>10, <1>11, Zenon
         DEF AuditNext, DeliverStep, ReplayStep, StopStep

\* In no reachable state is an accepted entry neither written, buffered, in memory,
\* counted as a failure nor lost with a process.
THEOREM EntriesAccountedForHolds == AuditSpec => []EntriesAccountedFor
<1>1. AuditInit => EntriesAccountedFor
  BY DEF AuditInit, EntriesAccountedFor
<1>2. AuditTyped /\ ReplaysLogged /\ EntriesAccountedFor /\ [AuditNext]_auditVars
        => EntriesAccountedFor'
  BY AccountedStep DEF EntriesAccountedFor, AccountedFor
<1>. QED BY <1>1, <1>2, TypedInit, TypedStep, ReplaysLoggedInit, ReplaysLoggedStep, PTL
         DEF AuditSpec

-----------------------------------------------------------------------------
(* The guards fail closed.                                                 *)

\* In required mode a guarded operation has run only with its row in the log,
\* whichever statements failed.
THEOREM GuardFailsClosedHolds == AuditSpec => []GuardFailsClosed
<1>1. AuditInit => GuardFailsClosed
  BY DEF AuditInit, GuardFailsClosed
<1>2. AuditTyped /\ GuardFailsClosed /\ [AuditNext]_auditVars => GuardFailsClosed'
  <2>. SUFFICES ASSUME AuditTyped, GuardFailsClosed, [AuditNext]_auditVars,
                       mode' = "required", NEW x \in Guarded, x \in done'
                PROVE  log'[x] > 0
    BY DEF GuardFailsClosed
  <2>1. mode' = mode
    BY DEF AuditNext, DeliverStep, ReplayStep, StopStep, auditVars, Processes,
           Begin, RecordNow, Enqueue, Spill, TakeEntry, WriteEntry, PersistEntry, StartReplay,
           ReplayWrite, ReplayMark, ReplayCommit, Close, NoticeStop, WorkerReturns, Exit, Crash,
           Restart, Dies
  <2>2. /\ x \in Entries /\ log \in [Entries -> Nat] /\ log' \in [Entries -> Nat]
        /\ log[x] <= log'[x] /\ faults \in 0..MaxFaults
    BY LogGrows DEF AuditTyped, AuditTypeOK
  <2>3. CASE x \in done
    BY <2>1, <2>2, <2>3 DEF GuardFailsClosed
  <2>4. CASE x \notin done
    <3>0. done' # done
      BY <2>4
    <3>a. ASSUME NEW e \in Entries, NEW r \in Replicas, Begin(e, r) PROVE FALSE
      BY <2>4, <3>a DEF Begin, HighRisk
    <3>b. ASSUME NEW e \in Entries, RecordNow(e) \/ Enqueue(e) \/ Spill(e) PROVE e = x
      <4>1. done' \subseteq done \cup {e}
        BY <3>b DEF RecordNow, Enqueue, Spill, Proceeds, Denied
      <4>. QED BY <2>4, <4>1
    <3>c. ASSUME NEW r \in Replicas, TakeEntry(r) \/ DeliverStep(r) \/ StartReplay(r)
          PROVE  done' = done
      BY <3>c DEF TakeEntry, DeliverStep, WriteEntry, PersistEntry, StartReplay
    <3>d. ASSUME NEW r \in Replicas, ReplayStep(r) PROVE done' = done
      BY <3>d DEF ReplayStep, ReplayWrite, ReplayMark, ReplayCommit
    <3>e. ASSUME NEW r \in Replicas, Close(r) \/ StopStep(r) \/ Crash(r) \/ Restart(r)
          PROVE  done' = done
      BY <3>e DEF Close, StopStep, NoticeStop, WorkerReturns, Exit, Crash, Restart, Dies
    <3>f. ASSUME UNCHANGED auditVars PROVE done' = done
      BY <3>f DEF auditVars
    <3>1. RecordNow(x) \/ Enqueue(x) \/ Spill(x)
      BY <3>0, <3>a, <3>b, <3>c, <3>d, <3>e, <3>f, Zenon DEF AuditNext
    <3>2. RecordNow(x)
      BY <2>1, <2>2, <3>1 DEF Enqueue, Spill, AuditTyped, CallsConsistent
    <3>3. ReturnsError(x)
      BY <2>1 DEF ReturnsError, HighRisk
    <3>4. ~Denied(x)
      BY <2>4 DEF Denied
    <3>5. Writes(x, TRUE)
      BY <3>2, <3>3, <3>4, Zenon DEF RecordNow
    <3>. QED BY <2>2, <3>5, WritesLogs
  <2>. QED BY <2>3, <2>4
<1>. QED BY <1>1, <1>2, TypedInit, TypedStep, PTL DEF AuditSpec

-----------------------------------------------------------------------------
(* Clean shutdowns.                                                        *)

\* Without faults a replica closes after its requests and stops with its queue
\* empty.
ShutdownInv ==
  faults = 0 =>
    /\ gone = {}
    /\ \A r \in Replicas :
         /\ proc[r] # "up" => InFlight(r) = {}
         /\ ~Running(r) => queue[r] = {}

\* Shutdowns that outlast their requests lose nothing, whatever they interrupt.
THEOREM CleanShutdownHolds == AuditSpec => []CleanShutdown
<1>1. AuditInit => ShutdownInv
  BY DEF AuditInit, ShutdownInv, InFlight, Running, Nowhere
<1>2. AuditTyped /\ ShutdownInv /\ [AuditNext]_auditVars => ShutdownInv'
  <2>. SUFFICES ASSUME AuditTyped, ShutdownInv, [AuditNext]_auditVars, faults' = 0
                PROVE  /\ gone' = {}
                       /\ \A s \in Replicas :
                            /\ proc'[s] # "up" => InFlight(s)' = {}
                            /\ ~Running(s)' => queue'[s] = {}
    BY DEF ShutdownInv
  <2>0. /\ faults \in 0..MaxFaults /\ queue \in [Replicas -> SUBSET Entries]
        /\ home \in [Entries -> Replicas \cup {Nowhere}]
        /\ proc \in [Replicas -> {"up", "closing", "draining", "stopped", "down"}]
        /\ \A r \in Replicas : WorkerConsistent(r)
        /\ CallsConsistent
    BY DEF AuditTyped, AuditTypeOK, WorkersConsistent
  <2>1. faults = 0
    <3>1. ASSUME NEW e, NEW ok, Writes(e, ok) PROVE UNCHANGED faults \/ Fault
      BY <3>1, Zenon DEF Writes
    <3>2. ASSUME NEW e \in Entries, RecordNow(e) PROVE UNCHANGED faults \/ Fault
      BY <3>1, <3>2, Zenon DEF RecordNow
    <3>3. ASSUME NEW r \in Replicas, WriteEntry(r) \/ ReplayWrite(r)
          PROVE  UNCHANGED faults \/ Fault
      BY <3>1, <3>3, Zenon DEF WriteEntry, ReplayWrite
    <3>4. UNCHANGED faults \/ Fault
      BY <3>2, <3>3 DEF AuditNext, DeliverStep, ReplayStep, StopStep, auditVars,
         Begin, Enqueue, Spill, TakeEntry, PersistEntry, StartReplay, ReplayMark, ReplayCommit,
         Close, NoticeStop, WorkerReturns, Exit, Crash, Restart
    <3>. QED BY <2>0, <3>4 DEF Fault
  <2>2. /\ gone = {}
        /\ \A s \in Replicas :
             /\ proc[s] # "up" => InFlight(s) = {}
             /\ ~Running(s) => queue[s] = {}
    BY <2>1 DEF ShutdownInv
  <2>. USE DEF InFlight, Running, Processes, Replays, Goes
  <2>3. ASSUME NEW e \in Entries, NEW r \in Replicas, Begin(e, r)
        PROVE  /\ gone' = {}
               /\ \A s \in Replicas :
                    /\ proc'[s] # "up" => InFlight(s)' = {}
                    /\ ~Running(s)' => queue'[s] = {}
    BY <2>0, <2>2, <2>3 DEF Begin
  <2>4. ASSUME NEW e \in Entries, RecordNow(e) \/ Enqueue(e) \/ Spill(e)
        PROVE  /\ gone' = {}
               /\ \A s \in Replicas :
                    /\ proc'[s] # "up" => InFlight(s)' = {}
                    /\ ~Running(s)' => queue'[s] = {}
    <3>1. gone' = gone /\ proc' = proc
      BY <2>4 DEF RecordNow, Enqueue, Spill
    <3>2. home' = home \/ home' = [home EXCEPT ![e] = Nowhere]
      BY <2>4, Zenon DEF RecordNow, Enqueue, Spill, Proceeds, Denied
    <3>3. \/ queue' = queue
          \/ queue' = [queue EXCEPT ![home[e]] = @ \cup {e}] /\ Enqueue(e)
      BY <2>4, Zenon DEF RecordNow, Enqueue, Spill
    <3>4. Enqueue(e) => proc[home[e]] = "up"
      BY <2>0, <2>2 DEF Enqueue, CallsConsistent
    <3>5. \A s \in Replicas : InFlight(s)' \subseteq InFlight(s)
      BY <2>0, <3>2 DEF Nowhere
    <3>6. \A s \in Replicas : ~Running(s)' => queue'[s] = {}
      BY <2>0, <2>2, <3>1, <3>3, <3>4
    <3>. QED BY <2>2, <3>1, <3>5, <3>6
  <2>5. ASSUME NEW r \in Replicas,
               \/ TakeEntry(r) \/ WriteEntry(r) \/ PersistEntry(r) \/ StartReplay(r)
               \/ ReplayWrite(r) \/ ReplayMark(r) \/ ReplayCommit(r)
        PROVE  /\ gone' = {}
               /\ \A s \in Replicas :
                    /\ proc'[s] # "up" => InFlight(s)' = {}
                    /\ ~Running(s)' => queue'[s] = {}
    <3>1. gone' = gone /\ proc' = proc /\ home' = home
      BY <2>5 DEF TakeEntry, WriteEntry, PersistEntry, StartReplay, ReplayWrite, ReplayMark,
                  ReplayCommit
    <3>2. queue' = queue \/ \E e \in queue[r] : queue' = [queue EXCEPT ![r] = @ \ {e}]
      BY <2>5, Zenon DEF TakeEntry, WriteEntry, PersistEntry, StartReplay, ReplayWrite, ReplayMark,
                  ReplayCommit
    <3>3. \A s \in Replicas : queue'[s] \subseteq queue[s]
      BY <2>0, <3>2
    <3>. QED BY <2>2, <3>1, <3>3
  <2>6. ASSUME NEW r \in Replicas,
               Close(r) \/ NoticeStop(r) \/ WorkerReturns(r) \/ Restart(r)
        PROVE  /\ gone' = {}
               /\ \A s \in Replicas :
                    /\ proc'[s] # "up" => InFlight(s)' = {}
                    /\ ~Running(s)' => queue'[s] = {}
    <3>1. gone' = gone /\ home' = home /\ queue' = queue
      BY <2>6 DEF Close, NoticeStop, WorkerReturns, Restart
    <3>2. \A s \in Replicas \ {r} : proc'[s] = proc[s]
      BY <2>0, <2>6 DEF Close, NoticeStop, WorkerReturns, Restart
    <3>3. proc'[r] # "up" => InFlight(r) = {}
      BY <2>0, <2>1, <2>2, <2>6 DEF Close, NoticeStop, WorkerReturns, Restart, Fault
    <3>4. ~Running(r)' => queue[r] = {}
      BY <2>0, <2>2, <2>6 DEF Close, NoticeStop, WorkerReturns, Restart, WorkerConsistent, Drained
    <3>. QED BY <2>2, <3>1, <3>2, <3>3, <3>4
  <2>7. ASSUME NEW r \in Replicas, Exit(r) \/ Crash(r)
        PROVE  /\ gone' = {}
               /\ \A s \in Replicas :
                    /\ proc'[s] # "up" => InFlight(s)' = {}
                    /\ ~Running(s)' => queue'[s] = {}
    <3>1. proc[r] = "stopped" /\ Dies(r)
      BY <2>0, <2>1, <2>7 DEF Exit, Crash, Fault
    <3>2. queue[r] = {} /\ Doing(r, "idle")
      BY <2>0, <2>2, <3>1 DEF WorkerConsistent
    <3>3. gone' = {}
      BY <2>2, <3>1, <3>2 DEF Dies, Doing
    <3>4. \A s \in Replicas \ {r} : proc'[s] = proc[s] /\ queue'[s] = queue[s]
      BY <2>0, <3>1 DEF Dies
    <3>5. queue'[r] = {} /\ InFlight(r)' = {} /\ \A s \in Replicas : InFlight(s)' \subseteq InFlight(s)
      BY <2>0, <3>1 DEF Dies, Nowhere
    <3>. QED BY <2>2, <3>3, <3>4, <3>5
  <2>8. CASE UNCHANGED auditVars
    BY <2>2, <2>8 DEF auditVars
  <2>. QED BY <2>3, <2>4, <2>5, <2>6, <2>7, <2>8, Zenon
           DEF AuditNext, DeliverStep, ReplayStep, StopStep
<1>3. ShutdownInv => CleanShutdown
  BY DEF ShutdownInv, CleanShutdown
<1>. QED BY <1>1, <1>2, <1>3, TypedInit, TypedStep, PTL DEF AuditSpec

-----------------------------------------------------------------------------
(* An entry is in one place.                                               *)

Fresh(e) == call[e] \in {"new", "record", "spill"}
InHand(r, e) == Hand(r) = e /\ (Doing(r, "write") \/ Doing(r, "persist"))
Holds(r, e) == e \in queue[r] \/ InHand(r, e)

\* An entry is with its request, in one queue or hand, or in the buffer.
OnePlace ==
  /\ \A e \in Entries : Fresh(e) => e \notin buffer /\ \A r \in Replicas : ~Holds(r, e)
  /\ \A r \in Replicas, e \in Entries :
       Holds(r, e) => e \notin buffer /\ \A s \in Replicas : Holds(s, e) => s = r
  /\ \A r \in Replicas, e \in Entries : ~(e \in queue[r] /\ InHand(r, e))

\* All steps but Enqueue only give up holds.
LEMMA HoldsShrink ==
  ASSUME OnePlace,
         \A e \in Entries : Fresh(e)' => Fresh(e),
         \A r \in Replicas, e \in Entries : Holds(r, e)' => Holds(r, e),
         \A r \in Replicas, e \in Entries :
           e \in queue'[r] /\ InHand(r, e)' => e \in queue[r] /\ InHand(r, e),
         \A e \in Entries : e \in buffer' =>
           e \in buffer \/ (~Fresh(e)' /\ \A r \in Replicas : ~Holds(r, e)')
  PROVE  OnePlace'
<1>1. ASSUME NEW e \in Entries, Fresh(e)'
      PROVE  e \notin buffer' /\ \A r \in Replicas : ~Holds(r, e)'
  BY <1>1, Zenon DEF OnePlace
<1>2. ASSUME NEW r \in Replicas, NEW e \in Entries, Holds(r, e)'
      PROVE  e \notin buffer' /\ \A s \in Replicas : Holds(s, e)' => s = r
  BY <1>2, Zenon DEF OnePlace
<1>3. ASSUME NEW r \in Replicas, NEW e \in Entries PROVE ~(e \in queue'[r] /\ InHand(r, e)')
  BY Zenon DEF OnePlace
<1>. QED BY <1>1, <1>2, <1>3, Zenon DEF OnePlace

LEMMA OnePlaceStep == AuditTyped /\ OnePlace /\ [AuditNext]_auditVars => OnePlace'
<1>. SUFFICES ASSUME AuditTyped, OnePlace, [AuditNext]_auditVars PROVE OnePlace'
  OBVIOUS
<1>0. /\ call \in [Entries -> {"new", "record", "spill", "ok", "denied", "dead"}]
      /\ queue \in [Replicas -> SUBSET Entries] /\ worker \in [Replicas -> Work]
      /\ buffer \subseteq Entries
      /\ CallsConsistent
      /\ \A r \in Replicas : WorkerConsistent(r)
  BY DEF AuditTyped, AuditTypeOK, WorkersConsistent
<1>1. ASSUME queue' = queue, worker' = worker, buffer' = buffer,
             \A e \in Entries : Fresh(e)' => Fresh(e)
      PROVE  OnePlace'
  BY <1>1, HoldsShrink DEF Holds, InHand, Hand, Doing
<1>2. ASSUME NEW e \in Entries, RecordNow(e) \/ \E r \in Replicas : Begin(e, r) PROVE OnePlace'
  <2>1. Fresh(e) /\ \A f \in Entries \ {e} : call'[f] = call[f]
    BY <1>0, <1>2 DEF RecordNow, Begin, Proceeds, Denied, Fresh
  <2>. QED BY <1>1, <1>2, <2>1 DEF RecordNow, Begin, Processes, Fresh
<1>3. ASSUME NEW e \in Entries, Enqueue(e) PROVE OnePlace'
  <2>1. Fresh(e) /\ home[e] \in Replicas /\ worker' = worker /\ buffer' = buffer
    BY <1>0, <1>3 DEF Enqueue, Fresh, CallsConsistent
  <2>2. CASE queue' = queue /\ call' = [call EXCEPT ![e] = "spill"]
    BY <1>0, <1>1, <2>1, <2>2 DEF Fresh
  <2>3. CASE queue' = [queue EXCEPT ![home[e]] = @ \cup {e}] /\ Proceeds(e)
    <3>1. \A f \in Entries : Fresh(f)' => Fresh(f) /\ f # e
      BY <1>0, <2>3 DEF Proceeds, Fresh
    <3>2. \A r \in Replicas, f \in Entries : InHand(r, f)' <=> InHand(r, f)
      BY <2>1 DEF InHand, Hand, Doing
    <3>3. \A r \in Replicas, f \in Entries :
            f \in queue'[r] => f \in queue[r] \/ (f = e /\ r = home[e])
      BY <1>0, <2>1, <2>3
    <3>4. e \notin buffer /\ \A r \in Replicas : e \notin queue[r] /\ ~InHand(r, e)
      BY <2>1 DEF OnePlace, Holds
    <3>5. ASSUME NEW f \in Entries, Fresh(f)'
          PROVE  f \notin buffer' /\ \A r \in Replicas : ~Holds(r, f)'
      BY <2>1, <3>1, <3>2, <3>3, <3>5, Zenon DEF OnePlace, Holds
    <3>6. ASSUME NEW r \in Replicas, NEW f \in Entries, Holds(r, f)'
          PROVE  f \notin buffer' /\ \A s \in Replicas : Holds(s, f)' => s = r
      <4>1. CASE f = e
        BY <2>1, <3>2, <3>3, <3>4, <3>6, <4>1 DEF Holds
      <4>2. CASE f # e
        <5>1. \A s \in Replicas : Holds(s, f)' => Holds(s, f)
          BY <3>2, <3>3, <4>2 DEF Holds
        <5>. QED BY <2>1, <3>6, <5>1, Zenon DEF OnePlace
      <4>. QED BY <4>1, <4>2
    <3>7. ASSUME NEW r \in Replicas, NEW f \in Entries PROVE ~(f \in queue'[r] /\ InHand(r, f)')
      BY <3>2, <3>3, <3>4, ZenonT(60) DEF OnePlace
    <3>. QED BY <3>5, <3>6, <3>7, Zenon DEF OnePlace
  <2>. QED BY <1>3, <2>2, <2>3, Zenon DEF Enqueue
<1>4. ASSUME NEW e \in Entries, Spill(e) PROVE OnePlace'
  <2>1. Fresh(e) /\ queue' = queue /\ worker' = worker
    BY <1>4 DEF Spill, Fresh, Processes
  <2>2. \A f \in Entries : Fresh(f)' => Fresh(f) /\ f # e
    BY <1>0, <1>4 DEF Spill, Proceeds, Fresh
  <2>3. \A f \in Entries : f \in buffer' => f \in buffer \/ f = e
    BY <1>4 DEF Spill, Persists
  <2>4. \A r \in Replicas, f \in Entries : (Holds(r, f)' <=> Holds(r, f)) /\ (InHand(r, f)' <=> InHand(r, f))
    BY <2>1 DEF Holds, InHand, Hand, Doing
  <2>5. \A r \in Replicas : ~Holds(r, e)
    BY <2>1 DEF OnePlace
  <2>. QED BY <2>1, <2>2, <2>3, <2>4, <2>5, HoldsShrink
<1>5. ASSUME NEW r \in Replicas, TakeEntry(r) PROVE OnePlace'
  <2>1. PICK e \in queue[r] : /\ queue' = [queue EXCEPT ![r] = @ \ {e}]
                              /\ worker' = [worker EXCEPT ![r] = [step |-> "write", entry |-> e, ok |-> FALSE]]
    BY <1>5 DEF TakeEntry, Becomes
  <2>2. call' = call /\ buffer' = buffer
    BY <1>5 DEF TakeEntry
  <2>3. \A s \in Replicas \ {r} : queue'[s] = queue[s] /\ worker'[s] = worker[s]
    BY <1>0, <2>1
  <2>4. queue'[r] = queue[r] \ {e} /\ worker'[r].entry = e
    BY <1>0, <2>1
  <2>5. ASSUME NEW s \in Replicas, NEW f \in Entries PROVE Holds(s, f)' => Holds(s, f)
    BY <2>1, <2>3, <2>4 DEF Holds, InHand, Hand, Doing
  <2>6. ASSUME NEW s \in Replicas, NEW f \in Entries
        PROVE  f \in queue'[s] /\ InHand(s, f)' => f \in queue[s] /\ InHand(s, f)
    BY <2>3, <2>4 DEF InHand, Hand, Doing
  <2>7. \A f \in Entries : Fresh(f)' => Fresh(f)
    BY <2>2 DEF Fresh
  <2>. QED BY <2>2, <2>5, <2>6, <2>7, HoldsShrink
<1>6. ASSUME NEW r \in Replicas,
             \/ WriteEntry(r) \/ PersistEntry(r) \/ StartReplay(r)
             \/ ReplayWrite(r) \/ ReplayMark(r) \/ ReplayCommit(r)
      PROVE  OnePlace'
  <2>1. call' = call /\ queue' = queue
    BY <1>6 DEF WriteEntry, PersistEntry, StartReplay, ReplayWrite, ReplayMark, ReplayCommit
  <2>2. \/ Rests(r) \/ Becomes(r, "replay", Nothing, FALSE)
        \/ \E e \in batch[r], ok \in BOOLEAN : Becomes(r, "mark", e, ok)
        \/ Becomes(r, "persist", Hand(r), FALSE) /\ Doing(r, "write")
    BY <1>6, Zenon DEF WriteEntry, PersistEntry, StartReplay, ReplayWrite, ReplayMark, ReplayCommit,
                       Rollback
  <2>3. /\ \A s \in Replicas \ {r} : worker'[s] = worker[s]
        /\ \A e \in Entries : InHand(r, e)' => InHand(r, e)
    BY <1>0, <2>2 DEF Becomes, Rests, Idle, InHand, Hand, Doing
  <2>4. \A s \in Replicas, e \in Entries : InHand(s, e)' => InHand(s, e)
    BY <2>3 DEF InHand, Hand, Doing
  <2>5. \A s \in Replicas, e \in Entries : Holds(s, e)' => Holds(s, e)
    BY <2>1, <2>4 DEF Holds
  <2>6. \A e \in Entries : Fresh(e)' <=> Fresh(e)
    BY <2>1 DEF Fresh
  <2>7. \A e \in Entries : e \in buffer' => e \in buffer \/ (PersistEntry(r) /\ e = Hand(r))
    BY <1>6 DEF WriteEntry, PersistEntry, StartReplay, ReplayWrite, ReplayMark, ReplayCommit, Persists
  <2>8. ASSUME NEW e \in Entries, PersistEntry(r), e = Hand(r)
        PROVE  ~Fresh(e) /\ \A s \in Replicas : ~Holds(s, e)'
    <3>1. InHand(r, e) /\ Holds(r, e)
      BY <2>8 DEF PersistEntry, InHand, Holds
    <3>2. ~Fresh(e) /\ \A s \in Replicas : Holds(s, e) => s = r
      BY <3>1, Zenon DEF OnePlace
    <3>3. e \notin queue[r]
      BY <3>1 DEF OnePlace
    <3>4. ~InHand(r, e)'
      BY <1>0, <2>8 DEF PersistEntry, Rests, Idle, InHand, Hand, Doing
    <3>. QED BY <2>1, <2>5, <3>2, <3>3, <3>4 DEF Holds
  <2>. QED BY <2>1, <2>4, <2>5, <2>6, <2>7, <2>8, HoldsShrink
<1>7. ASSUME NEW r \in Replicas, Exit(r) \/ Crash(r) PROVE OnePlace'
  <2>1. Dies(r) /\ Rests(r)
    BY <1>7 DEF Exit, Crash, Dies, Rollback
  <2>2. /\ \A s \in Replicas \ {r} : worker'[s] = worker[s] /\ queue'[s] = queue[s]
        /\ queue'[r] = {} /\ worker'[r].step = "idle"
    BY <1>0, <2>1 DEF Rests, Idle, Dies
  <2>3. \A s \in Replicas, e \in Entries : InHand(s, e)' => InHand(s, e)
    BY <2>2 DEF InHand, Hand, Doing
  <2>4. \A s \in Replicas : queue'[s] \subseteq queue[s]
    BY <2>2
  <2>5. \A e \in Entries : Fresh(e)' => Fresh(e)
    BY <1>0, <2>1 DEF Dies, Fresh
  <2>6. buffer' = buffer
    BY <2>1 DEF Dies
  <2>. QED BY <2>3, <2>4, <2>5, <2>6, HoldsShrink DEF Holds
<1>8. ASSUME NEW r \in Replicas,
             Close(r) \/ NoticeStop(r) \/ WorkerReturns(r) \/ Restart(r)
      PROVE  OnePlace'
  BY <1>1, <1>8 DEF Close, NoticeStop, WorkerReturns, Restart, Fresh
<1>9. CASE UNCHANGED auditVars
  BY <1>1, <1>9 DEF auditVars, Fresh
<1>. QED BY <1>2, <1>3, <1>4, <1>5, <1>6, <1>7, <1>8, <1>9, Zenon
         DEF AuditNext, DeliverStep, ReplayStep, StopStep

LEMMA OnePlaceInit == AuditInit => OnePlace
BY DEF AuditInit, OnePlace, Holds, InHand, Doing, Idle

-----------------------------------------------------------------------------
(* The row locks of replays.                                               *)

Marks(r, e) == Hand(r) = e /\ Doing(r, "mark")
Locks(r, e) == e \in batch[r] \cup deleted[r] \/ Marks(r, e)

\* Rows are locked while they are in the buffer, by one replay, which treats each once.
LocksHeld ==
  /\ \A r \in Replicas, e \in Entries :
       Locks(r, e) => e \in buffer /\ \A s \in Replicas : Locks(s, e) => s = r
  /\ \A r \in Replicas, e \in Entries :
       /\ ~(e \in batch[r] /\ e \in deleted[r])
       /\ ~(Marks(r, e) /\ e \in batch[r] \cup deleted[r])

\* All steps but StartReplay only give up locks.
LEMMA LocksShrink ==
  ASSUME LocksHeld,
         \A r \in Replicas, e \in Entries : Locks(r, e)' => Locks(r, e),
         \A r \in Replicas, e \in Entries :
           /\ ~(e \in batch'[r] /\ e \in deleted'[r])
           /\ ~(Marks(r, e)' /\ e \in batch'[r] \cup deleted'[r]),
         \A r \in Replicas, e \in Entries : Locks(r, e)' /\ e \in buffer => e \in buffer'
  PROVE  LocksHeld'
<1>1. ASSUME NEW r \in Replicas, NEW e \in Entries, Locks(r, e)'
      PROVE  e \in buffer' /\ \A s \in Replicas : Locks(s, e)' => s = r
  BY <1>1, Zenon DEF LocksHeld
<1>. QED BY <1>1, Zenon DEF LocksHeld

LEMMA LocksHeldStep == AuditTyped /\ LocksHeld /\ [AuditNext]_auditVars => LocksHeld'
<1>. SUFFICES ASSUME AuditTyped, LocksHeld, [AuditNext]_auditVars PROVE LocksHeld'
  OBVIOUS
<1>0. /\ worker \in [Replicas -> Work]
      /\ batch \in [Replicas -> SUBSET Entries] /\ deleted \in [Replicas -> SUBSET Entries]
      /\ \A r \in Replicas : WorkerConsistent(r)
  BY DEF AuditTyped, AuditTypeOK, WorkersConsistent
<1>1. ASSUME worker' = worker, UNCHANGED Replays, buffer \subseteq buffer' PROVE LocksHeld'
  <2>1. \A r \in Replicas, e \in Entries : (Locks(r, e)' <=> Locks(r, e)) /\ (Marks(r, e)' <=> Marks(r, e))
    BY <1>1 DEF Replays, Locks, Marks, Hand, Doing
  <2>. QED BY <1>1, <2>1 DEF LocksHeld, Replays
<1>2. ASSUME NEW r \in Replicas, TakeEntry(r) \/ WriteEntry(r) \/ PersistEntry(r) PROVE LocksHeld'
  <2>1. UNCHANGED Replays /\ buffer \subseteq buffer'
    BY <1>2 DEF TakeEntry, WriteEntry, PersistEntry, Persists
  <2>2. \/ Rests(r) \/ Becomes(r, "persist", Hand(r), FALSE)
        \/ \E e \in queue[r] : Becomes(r, "write", e, FALSE)
    BY <1>2, Zenon DEF TakeEntry, WriteEntry, PersistEntry
  <2>3. \A s \in Replicas, e \in Entries : Marks(s, e)' => Marks(s, e)
    BY <1>0, <2>2 DEF Rests, Becomes, Idle, Marks, Hand, Doing
  <2>4. \A s \in Replicas, e \in Entries : Locks(s, e)' => Locks(s, e)
    BY <2>1, <2>3 DEF Locks, Replays
  <2>. QED BY <2>1, <2>3, <2>4, LocksShrink DEF LocksHeld, Replays
<1>3. ASSUME NEW r \in Replicas, StartReplay(r) PROVE LocksHeld'
  <2>1. /\ batch[r] = {} /\ deleted[r] = {} /\ deleted' = deleted /\ buffer' = buffer
        /\ batch' = [batch EXCEPT ![r] = FirstRows(Unlocked)]
    BY <1>0, <1>3 DEF StartReplay, WorkerConsistent, Doing
  <2>2. FirstRows(Unlocked) \subseteq Unlocked /\ Unlocked \subseteq buffer
    BY DEF FirstRows, Unlocked
  <2>3. \A e \in Unlocked, s \in Replicas : ~Locks(s, e)
    BY DEF Unlocked, Locks, Marks
  <2>4. /\ \A s \in Replicas \ {r}, e \in Entries : Marks(s, e)' <=> Marks(s, e)
        /\ \A e \in Entries : ~Marks(r, e)'
    BY <1>0, <1>3 DEF StartReplay, Becomes, Marks, Hand, Doing
  <2>5. \A s \in Replicas \ {r}, e \in Entries : Locks(s, e)' <=> Locks(s, e)
    BY <1>0, <2>1, <2>4 DEF Locks
  <2>6. \A e \in Entries : Locks(r, e)' <=> e \in FirstRows(Unlocked)
    BY <1>0, <2>1, <2>4 DEF Locks
  <2>7. ASSUME NEW s \in Replicas, NEW e \in Entries, Locks(s, e)'
        PROVE  e \in buffer' /\ \A t \in Replicas : Locks(t, e)' => t = s
    <3>1. CASE s = r
      BY <2>1, <2>2, <2>3, <2>5, <2>6, <2>7, <3>1
    <3>2. CASE s # r
      <4>1. Locks(s, e)
        BY <2>5, <2>7, <3>2
      <4>2. ~Locks(r, e)'
        BY <2>2, <2>3, <2>6, <4>1
      <4>3. e \in buffer /\ \A t \in Replicas : Locks(t, e) => t = s
        BY <4>1, Zenon DEF LocksHeld
      <4>. QED BY <2>1, <2>5, <4>2, <4>3
    <3>. QED BY <3>1, <3>2
  <2>8. ASSUME NEW s \in Replicas, NEW e \in Entries
        PROVE  /\ ~(e \in batch'[s] /\ e \in deleted'[s])
               /\ ~(Marks(s, e)' /\ e \in batch'[s] \cup deleted'[s])
    <3>1. CASE s = r
      BY <2>1, <2>4, <3>1
    <3>2. CASE s # r
      BY <1>0, <2>1, <2>4, <3>2 DEF LocksHeld
    <3>. QED BY <3>1, <3>2
  <2>. QED BY <2>7, <2>8, Zenon DEF LocksHeld
<1>4. ASSUME NEW r \in Replicas, ReplayWrite(r) PROVE LocksHeld'
  <2>1. PICK e \in batch[r], ok \in BOOLEAN :
          Becomes(r, "mark", e, ok) /\ batch' = [batch EXCEPT ![r] = @ \ {e}]
    BY <1>4, Zenon DEF ReplayWrite
  <2>2. deleted' = deleted /\ buffer' = buffer
    BY <1>4 DEF ReplayWrite
  <2>3. /\ \A s \in Replicas \ {r} : worker'[s] = worker[s] /\ batch'[s] = batch[s]
        /\ worker'[r].entry = e /\ batch'[r] = batch[r] \ {e}
    BY <1>0, <2>1 DEF Becomes
  <2>4. ASSUME NEW s \in Replicas, NEW f \in Entries PROVE Locks(s, f)' => Locks(s, f)
    BY <2>2, <2>3 DEF Locks, Marks, Hand, Doing
  <2>5. e \in Entries /\ e \notin deleted[r]
    BY <1>0 DEF LocksHeld
  <2>6. ASSUME NEW s \in Replicas, NEW f \in Entries
        PROVE  /\ ~(f \in batch'[s] /\ f \in deleted'[s])
               /\ ~(Marks(s, f)' /\ f \in batch'[s] \cup deleted'[s])
    <3>1. CASE s = r
      BY <2>2, <2>3, <2>5, <3>1 DEF LocksHeld, Marks, Hand
    <3>2. CASE s # r
      BY <2>2, <2>3, <3>2 DEF LocksHeld, Marks, Hand, Doing
    <3>. QED BY <3>1, <3>2
  <2>. QED BY <2>2, <2>4, <2>6, LocksShrink
<1>5. ASSUME NEW r \in Replicas, ReplayMark(r) PROVE LocksHeld'
  <2>1. buffer' = buffer /\ \A s \in Replicas, e \in Entries : Locks(s, e)' /\ e \in buffer => e \in buffer'
    BY <1>5 DEF ReplayMark
  <2>2. Becomes(r, "replay", Nothing, FALSE) \/ Rests(r)
    BY <1>5, Zenon DEF ReplayMark, Rollback
  <2>3. \A s \in Replicas, e \in Entries :
          (Marks(s, e)' => Marks(s, e)) /\ ~Marks(r, e)'
    BY <1>0, <2>2 DEF Becomes, Rests, Idle, Marks, Hand, Doing
  <2>4. /\ \A s \in Replicas : batch'[s] \subseteq batch[s]
        /\ \A s \in Replicas \ {r} : deleted'[s] = deleted[s]
        /\ deleted'[r] \subseteq deleted[r] \cup {Hand(r)}
    BY <1>0, <1>5 DEF ReplayMark, Rollback
  <2>5. \A e \in Entries : e = Hand(r) => Marks(r, e)
    BY <1>5 DEF ReplayMark, Marks
  <2>6. ASSUME NEW s \in Replicas, NEW e \in Entries PROVE Locks(s, e)' => Locks(s, e)
    BY <2>3, <2>4, <2>5 DEF Locks
  <2>7. ASSUME NEW s \in Replicas, NEW e \in Entries
        PROVE  /\ ~(e \in batch'[s] /\ e \in deleted'[s])
               /\ ~(Marks(s, e)' /\ e \in batch'[s] \cup deleted'[s])
    <3>1. CASE s = r
      BY <2>3, <2>4, <2>5, <3>1 DEF LocksHeld
    <3>2. CASE s # r
      BY <2>3, <2>4, <3>2 DEF LocksHeld
    <3>. QED BY <3>1, <3>2
  <2>. QED BY <2>1, <2>6, <2>7, LocksShrink
<1>6. ASSUME NEW r \in Replicas, ReplayCommit(r) \/ Exit(r) \/ Crash(r) PROVE LocksHeld'
  <2>1. Rollback(r)
    BY <1>6 DEF ReplayCommit, Exit, Crash, Dies
  <2>2. /\ batch'[r] = {} /\ deleted'[r] = {} /\ \A e \in Entries : ~Marks(r, e)'
        /\ \A s \in Replicas \ {r} : /\ batch'[s] = batch[s] /\ deleted'[s] = deleted[s]
                                     /\ \A e \in Entries : Marks(s, e)' <=> Marks(s, e)
    BY <1>0, <2>1 DEF Rollback, Rests, Idle, Marks, Hand, Doing
  <2>3. \A s \in Replicas, e \in Entries : Locks(s, e)' => Locks(s, e) /\ s # r
    BY <2>2 DEF Locks
  <2>4. \A e \in buffer \ buffer' : e \in deleted[r]
    BY <1>6 DEF ReplayCommit, Exit, Crash, Dies
  <2>5. \A s \in Replicas, e \in Entries : Locks(s, e)' /\ e \in buffer => e \in buffer'
    BY <2>3, <2>4 DEF LocksHeld, Locks
  <2>6. ASSUME NEW s \in Replicas, NEW e \in Entries
        PROVE  /\ ~(e \in batch'[s] /\ e \in deleted'[s])
               /\ ~(Marks(s, e)' /\ e \in batch'[s] \cup deleted'[s])
    BY <2>2 DEF LocksHeld
  <2>. QED BY <2>3, <2>5, <2>6, LocksShrink
<1>7. ASSUME NEW e \in Entries,
             RecordNow(e) \/ Enqueue(e) \/ Spill(e) \/ \E r \in Replicas : Begin(e, r)
      PROVE  LocksHeld'
  BY <1>1, <1>7 DEF RecordNow, Enqueue, Spill, Begin, Persists
<1>8. ASSUME NEW r \in Replicas,
             Close(r) \/ NoticeStop(r) \/ WorkerReturns(r) \/ Restart(r)
      PROVE  LocksHeld'
  BY <1>1, <1>8 DEF Close, NoticeStop, WorkerReturns, Restart
<1>9. CASE UNCHANGED auditVars
  BY <1>1, <1>9 DEF auditVars, Replays
<1>. QED BY <1>2, <1>3, <1>4, <1>5, <1>6, <1>7, <1>8, <1>9, Zenon
         DEF AuditNext, DeliverStep, ReplayStep, StopStep

LEMMA LocksHeldInit == AuditInit => LocksHeld
BY DEF AuditInit, LocksHeld, Locks, Marks, Doing, Idle

-----------------------------------------------------------------------------
(* What duplicates cost.                                                   *)

\* The transaction of a replay takes the entry's row out of the buffer.
Sealed(r, e) == e \in deleted[r] \/ (Marks(r, e) /\ worker[r].ok)

\* What is not yet written has no row, and what is to be written again has cost a
\* fault for each row it has.
WritesPaid ==
  /\ \A e \in Entries : Fresh(e) => log[e] = 0
  /\ \A r \in Replicas :
       /\ \A e \in queue[r] : log[e] = 0
       /\ Doing(r, "write") => log[Hand(r)] = 0
       /\ Doing(r, "persist") => log[Hand(r)] <= faults
  /\ \A e \in buffer : log[e] <= faults \/ \E r \in Replicas : Sealed(r, e)
  /\ \A e \in Entries : log[e] <= 1 + faults

\* Steps that write no entry, take none in hand and end no transaction but at a fault.
LEMMA PaidWithoutWrites ==
  ASSUME AuditTyped, WritesPaid, log' = log, faults' \in Nat, faults <= faults',
         \A e \in Entries : Fresh(e)' => Fresh(e),
         \A r \in Replicas : \A e \in queue'[r] : log[e] = 0,
         \A r \in Replicas : worker'[r] = worker[r] \/ ~(Doing(r, "write")' \/ Doing(r, "persist")'),
         \A e \in buffer' : \/ log[e] <= faults'
                            \/ e \in buffer /\ (\A r \in Replicas : Sealed(r, e) => Sealed(r, e)')
  PROVE  WritesPaid'
<1>0. log \in [Entries -> Nat] /\ faults \in Nat
  BY DEF AuditTyped, AuditTypeOK
<1>1. \A e \in Entries : Fresh(e)' => log'[e] = 0
  BY DEF WritesPaid
<1>2. ASSUME NEW r \in Replicas
      PROVE  /\ \A e \in queue'[r] : log'[e] = 0
             /\ Doing(r, "write")' => log'[Hand(r)'] = 0
             /\ Doing(r, "persist")' => log'[Hand(r)'] <= faults'
  <2>1. CASE worker'[r] = worker[r]
    <3>1. Doing(r, "persist") => Hand(r) \in Entries
      BY DEF AuditTyped, AuditTypeOK, WorkersConsistent, WorkerConsistent, Doing, Hand, Work
    <3>. QED BY <1>0, <2>1, <3>1 DEF WritesPaid, Doing, Hand
  <2>2. CASE worker'[r] # worker[r]
    BY <2>2
  <2>. QED BY <2>1, <2>2
<1>3. ASSUME NEW e \in buffer' PROVE log'[e] <= faults' \/ \E r \in Replicas : Sealed(r, e)'
  <2>1. CASE e \in buffer /\ (\A r \in Replicas : Sealed(r, e) => Sealed(r, e)')
    <3>1. e \in Entries
      BY <2>1 DEF AuditTyped, AuditTypeOK
    <3>2. log[e] <= faults \/ \E r \in Replicas : Sealed(r, e)
      BY <2>1 DEF WritesPaid
    <3>3. log[e] <= faults => log'[e] <= faults'
      BY <1>0, <3>1
    <3>. QED BY <2>1, <3>2, <3>3, Zenon
  <2>. QED BY <2>1
<1>4. \A e \in Entries : log'[e] <= 1 + faults'
  BY <1>0 DEF WritesPaid
<1>. QED BY <1>1, <1>2, <1>3, <1>4, Zenon DEF WritesPaid

LEMMA WritesPaidStep ==
  AuditTyped /\ OnePlace /\ LocksHeld /\ WritesPaid /\ [AuditNext]_auditVars => WritesPaid'
<1>. SUFFICES ASSUME AuditTyped, OnePlace, LocksHeld, WritesPaid, [AuditNext]_auditVars
              PROVE  WritesPaid'
  OBVIOUS
<1>0. /\ call \in [Entries -> {"new", "record", "spill", "ok", "denied", "dead"}]
      /\ worker \in [Replicas -> Work] /\ queue \in [Replicas -> SUBSET Entries]
      /\ batch \in [Replicas -> SUBSET Entries] /\ deleted \in [Replicas -> SUBSET Entries]
      /\ buffer \subseteq Entries
      /\ log \in [Entries -> Nat] /\ faults \in Nat /\ faults \in 0..MaxFaults
      /\ CallsConsistent
      /\ \A r \in Replicas : WorkerConsistent(r)
  BY DEF AuditTyped, AuditTypeOK, WorkersConsistent
<1>1. ASSUME NEW e \in Entries, RecordNow(e) PROVE WritesPaid'
  <2>1. PICK ok \in BOOLEAN : Writes(e, ok)
    BY <1>1, Zenon DEF RecordNow
  <2>2. /\ log' \in [Entries -> Nat] /\ faults' \in 0..MaxFaults /\ faults <= faults'
        /\ log'[e] <= log[e] + 1 /\ \A f \in Entries \ {e} : log'[f] = log[f]
    BY <1>0, <2>1, WritesLogs
  <2>3. /\ queue' = queue /\ worker' = worker /\ buffer' = buffer /\ deleted' = deleted
        /\ Proceeds(e) \/ Denied(e)
    BY <1>1, Zenon DEF RecordNow, Processes, Replays
  <2>4. \A f \in Entries : Fresh(f)' => Fresh(f) /\ f # e
    BY <1>0, <2>3 DEF Proceeds, Denied, Fresh
  <2>5. Fresh(e)
    BY <1>1 DEF RecordNow, Fresh
  <2>6. e \notin buffer /\ \A r \in Replicas : e \notin queue[r] /\ ~InHand(r, e)
    BY <2>5 DEF OnePlace, Holds
  <2>7. log[e] = 0
    BY <2>5 DEF WritesPaid
  <2>8. \A f \in Entries : Fresh(f)' => log'[f] = 0
    BY <2>2, <2>4 DEF WritesPaid
  <2>9. ASSUME NEW r \in Replicas
        PROVE  /\ \A f \in queue'[r] : log'[f] = 0
               /\ Doing(r, "write")' => log'[Hand(r)'] = 0
               /\ Doing(r, "persist")' => log'[Hand(r)'] <= faults'
    <3>1. \A f \in queue[r] : f \in Entries \ {e}
      BY <1>0, <2>6
    <3>2. Doing(r, "write") \/ Doing(r, "persist") => Hand(r) \in Entries \ {e}
      BY <1>0, <2>6 DEF WorkerConsistent, InHand, Doing, Hand, Work
    <3>. QED BY <1>0, <2>2, <2>3, <3>1, <3>2 DEF WritesPaid, Doing, Hand
  <2>10. ASSUME NEW f \in buffer' PROVE log'[f] <= faults' \/ \E r \in Replicas : Sealed(r, f)'
    <3>1. log'[f] = log[f] /\ f \in buffer /\ f \in Entries
      BY <1>0, <2>2, <2>3, <2>6
    <3>2. \A r \in Replicas : Sealed(r, f)' <=> Sealed(r, f)
      BY <2>3, Zenon DEF Sealed, Marks, Hand, Doing
    <3>3. log[f] <= faults => log'[f] <= faults'
      BY <1>0, <2>2, <3>1
    <3>. QED BY <3>1, <3>2, <3>3, Zenon DEF WritesPaid
  <2>11. \A f \in Entries : log'[f] <= 1 + faults'
    BY <1>0, <2>2, <2>7 DEF WritesPaid
  <2>. QED BY <2>8, <2>9, <2>10, <2>11, Zenon DEF WritesPaid
<1>2. ASSUME NEW r \in Replicas, WriteEntry(r) PROVE WritesPaid'
  <2>. DEFINE e == Hand(r)
  <2>0. e \in Entries /\ InHand(r, e) /\ Holds(r, e)
    BY <1>0, <1>2 DEF WriteEntry, WorkerConsistent, InHand, Holds, Doing, Hand, Work
  <2>1. PICK ok \in BOOLEAN : Writes(e, ok) /\ (Becomes(r, "persist", e, FALSE) => ~ok) /\ (Rests(r) \/ Becomes(r, "persist", e, FALSE))
    <3>1. CASE Writes(e, TRUE) /\ Rests(r)
      <4>1. ~Becomes(r, "persist", e, FALSE)
        BY <1>0, <3>1 DEF Becomes, Rests, Idle
      <4>. QED BY <3>1, <4>1, Zenon
    <3>2. CASE Writes(e, FALSE) /\ (Rests(r) \/ Becomes(r, "persist", e, FALSE))
      BY <3>2, Zenon
    <3>. QED BY <1>2, <3>1, <3>2, Zenon DEF WriteEntry
  <2>2. /\ log' \in [Entries -> Nat] /\ faults' \in 0..MaxFaults /\ faults <= faults'
        /\ log'[e] <= log[e] + 1 /\ \A f \in Entries \ {e} : log'[f] = log[f]
        /\ ~ok => log'[e] + faults <= log[e] + faults'
    BY <1>0, <2>0, <2>1, WritesLogs
  <2>3. queue' = queue /\ buffer' = buffer /\ deleted' = deleted /\ call' = call
    BY <1>2 DEF WriteEntry, Replays
  <2>4. ~Fresh(e) /\ e \notin buffer /\ \A s \in Replicas : Holds(s, e) => s = r
    BY <2>0, Zenon DEF OnePlace
  <2>5. \A s \in Replicas : e \notin queue[s]
    BY <2>0, <2>4 DEF OnePlace, Holds
  <2>6. log[e] = 0
    BY <1>2 DEF WriteEntry, WritesPaid
  <2>7. \A s \in Replicas \ {r} : worker'[s] = worker[s]
    BY <1>0, <2>1 DEF Becomes, Rests
  <2>8. \A f \in Entries : Fresh(f)' => log'[f] = 0
    BY <2>2, <2>3, <2>4 DEF WritesPaid, Fresh
  <2>9. ASSUME NEW s \in Replicas
        PROVE  /\ \A f \in queue'[s] : log'[f] = 0
               /\ Doing(s, "write")' => log'[Hand(s)'] = 0
               /\ Doing(s, "persist")' => log'[Hand(s)'] <= faults'
    <3>1. \A f \in queue'[s] : log'[f] = 0
      BY <1>0, <2>2, <2>3, <2>5 DEF WritesPaid
    <3>2. CASE s # r
      <4>1. Doing(s, "write") \/ Doing(s, "persist") => Hand(s) \in Entries \ {e}
        BY <1>0, <2>4, <3>2 DEF WorkerConsistent, InHand, Holds, Doing, Hand, Work
      <4>. QED BY <1>0, <2>2, <2>7, <3>1, <3>2, <4>1 DEF WritesPaid, Doing, Hand
    <3>3. CASE s = r /\ Rests(r)
      BY <1>0, <3>1, <3>3 DEF Rests, Idle, Doing
    <3>4. CASE s = r /\ Becomes(r, "persist", e, FALSE)
      <4>1. Hand(s)' = e /\ ~Doing(s, "write")'
        BY <1>0, <3>4 DEF Becomes, Doing, Hand
      <4>2. ~ok
        BY <2>1, <3>4, Zenon
      <4>3. log'[e] <= faults'
        BY <1>0, <2>0, <2>2, <2>6, <4>2
      <4>. QED BY <3>1, <4>1, <4>3
    <3>. QED BY <2>1, <3>2, <3>3, <3>4
  <2>10. ASSUME NEW f \in buffer' PROVE log'[f] <= faults' \/ \E s \in Replicas : Sealed(s, f)'
    <3>1. log'[f] = log[f] /\ f \in buffer /\ f \in Entries
      BY <1>0, <2>2, <2>3, <2>4
    <3>2. ASSUME NEW s \in Replicas, Sealed(s, f) PROVE Sealed(s, f)'
      <4>1. CASE f \in deleted[s]
        BY <2>3, <4>1 DEF Sealed
      <4>2. CASE Marks(s, f) /\ worker[s].ok
        <5>1. worker'[s] = worker[s]
          BY <1>2, <2>7, <4>2 DEF WriteEntry, Marks, Doing
        <5>. QED BY <4>2, <5>1, Zenon DEF Sealed, Marks, Hand, Doing
      <4>. QED BY <3>2, <4>1, <4>2, Zenon DEF Sealed
    <3>3. log[f] <= faults => log'[f] <= faults'
      BY <1>0, <2>2, <3>1
    <3>. QED BY <3>1, <3>2, <3>3, Zenon DEF WritesPaid
  <2>11. \A f \in Entries : log'[f] <= 1 + faults'
    BY <1>0, <2>2, <2>6 DEF WritesPaid
  <2>. QED BY <2>8, <2>9, <2>10, <2>11, Zenon DEF WritesPaid
<1>3. ASSUME NEW r \in Replicas, ReplayWrite(r) PROVE WritesPaid'
  <2>1. PICK e \in batch[r], ok \in BOOLEAN : Writes(e, ok) /\ Becomes(r, "mark", e, ok)
    BY <1>3, Zenon DEF ReplayWrite
  <2>2. e \in Entries
    BY <1>0
  <2>3. /\ log' \in [Entries -> Nat] /\ faults' \in 0..MaxFaults /\ faults <= faults'
        /\ log'[e] <= log[e] + 1 /\ \A f \in Entries \ {e} : log'[f] = log[f]
        /\ ~ok => log'[e] + faults <= log[e] + faults'
    BY <1>0, <2>1, <2>2, WritesLogs
  <2>4. queue' = queue /\ buffer' = buffer /\ deleted' = deleted /\ call' = call
    BY <1>3 DEF ReplayWrite
  <2>5. /\ worker' = [worker EXCEPT ![r] = [step |-> "mark", entry |-> e, ok |-> ok]]
        /\ \A s \in Replicas \ {r} : worker'[s] = worker[s]
    BY <2>1 DEF Becomes
  <2>6. Locks(r, e) /\ e \in buffer /\ \A s \in Replicas : Locks(s, e) => s = r
    BY <2>2 DEF Locks, LocksHeld
  <2>7. log[e] <= faults
    <3>1. ~Sealed(r, e)
      BY <1>3, <2>2 DEF Sealed, LocksHeld, ReplayWrite, Marks, Doing
    <3>2. \A s \in Replicas : Sealed(s, e) => Locks(s, e)
      BY DEF Sealed, Locks
    <3>. QED BY <2>6, <3>1, <3>2 DEF WritesPaid
  <2>8. ~Fresh(e) /\ \A s \in Replicas : ~Holds(s, e)
    BY <2>2, <2>6 DEF OnePlace
  <2>9. \A f \in Entries : Fresh(f)' => log'[f] = 0
    BY <2>3, <2>4, <2>8 DEF WritesPaid, Fresh
  <2>10. worker'[r].step = "mark" /\ worker'[r].entry = e
    BY <1>0, <2>5
  <2>11. ASSUME NEW s \in Replicas
        PROVE  /\ \A f \in queue'[s] : log'[f] = 0
               /\ Doing(s, "write")' => log'[Hand(s)'] = 0
               /\ Doing(s, "persist")' => log'[Hand(s)'] <= faults'
    <3>1. \A f \in queue'[s] : log'[f] = 0
      BY <1>0, <2>3, <2>4, <2>8 DEF WritesPaid, Holds
    <3>2. CASE s # r
      <4>1. Doing(s, "write") \/ Doing(s, "persist") => Hand(s) \in Entries \ {e}
        BY <1>0, <2>8 DEF WorkerConsistent, InHand, Holds, Doing, Hand, Work
      <4>. QED BY <1>0, <2>3, <2>5, <3>1, <3>2, <4>1 DEF WritesPaid, Doing, Hand
    <3>3. CASE s = r
      BY <2>10, <3>1, <3>3 DEF Doing
    <3>. QED BY <3>2, <3>3
  <2>12. ASSUME NEW f \in buffer' PROVE log'[f] <= faults' \/ \E s \in Replicas : Sealed(s, f)'
    <3>1. CASE f = e /\ ok
      <4>1. worker'[r] = [step |-> "mark", entry |-> e, ok |-> ok]
        BY <1>0, <2>5, Zenon
      <4>2. worker'[r].ok
        BY <3>1, <4>1
      <4>. QED BY <2>10, <3>1, <4>2, Zenon DEF Sealed, Marks, Hand, Doing
    <3>2. CASE f = e /\ ~ok
      BY <1>0, <2>2, <2>3, <2>7, <3>2
    <3>3. CASE f # e
      <4>1. log'[f] = log[f] /\ f \in buffer /\ f \in Entries
        BY <1>0, <2>3, <2>4, <3>3
      <4>2. ASSUME NEW s \in Replicas, Sealed(s, f) PROVE Sealed(s, f)'
        <5>1. CASE f \in deleted[s]
          BY <2>4, <5>1 DEF Sealed
        <5>2. CASE Marks(s, f) /\ worker[s].ok
          <6>1. worker'[s] = worker[s]
            BY <1>3, <2>5, <5>2 DEF ReplayWrite, Marks, Doing
          <6>. QED BY <5>2, <6>1, Zenon DEF Sealed, Marks, Hand, Doing
        <5>. QED BY <4>2, <5>1, <5>2, Zenon DEF Sealed
      <4>3. log[f] <= faults => log'[f] <= faults'
        BY <1>0, <2>3, <4>1
      <4>. QED BY <4>1, <4>2, <4>3, Zenon DEF WritesPaid
    <3>. QED BY <3>1, <3>2, <3>3, Zenon
  <2>13. \A f \in Entries : log'[f] <= 1 + faults'
    BY <1>0, <2>2, <2>3, <2>7 DEF WritesPaid
  <2>. QED BY <2>9, <2>11, <2>12, <2>13, Zenon DEF WritesPaid
<1>4. ASSUME NEW e \in Entries, Enqueue(e) \/ Spill(e) PROVE WritesPaid'
  <2>1. Fresh(e) /\ log[e] = 0 /\ log' = log /\ worker' = worker /\ deleted' = deleted
    BY <1>4 DEF Enqueue, Spill, Fresh, Processes, Replays, WritesPaid
  <2>2. faults' \in Nat /\ faults <= faults'
    BY <1>0, <1>4 DEF Enqueue, Spill, Fault
  <2>3. \A f \in Entries : Fresh(f)' => Fresh(f)
    BY <1>0, <1>4, <2>1 DEF Enqueue, Spill, Proceeds, Fresh
  <2>4. \A r \in Replicas : \A f \in queue'[r] : f \in queue[r] \/ f = e
    BY <1>0, <1>4 DEF Enqueue, Spill, Processes
  <2>5. \A f \in buffer' : f \in buffer \/ f = e
    BY <1>4 DEF Enqueue, Spill, Persists
  <2>6. \A r \in Replicas, f \in Entries : Sealed(r, f) => Sealed(r, f)'
    BY <2>1, Zenon DEF Sealed, Marks, Hand, Doing
  <2>7. \A r \in Replicas : \A f \in queue'[r] : log[f] = 0
    BY <2>1, <2>4 DEF WritesPaid
  <2>8. ASSUME NEW f \in buffer'
        PROVE  \/ log[f] <= faults'
               \/ f \in buffer /\ (\A r \in Replicas : Sealed(r, f) => Sealed(r, f)')
    <3>1. CASE f = e
      BY <2>1, <2>2, <3>1
    <3>2. CASE f \in buffer
      BY <1>0, <2>6, <3>2
    <3>. QED BY <2>5, <3>1, <3>2
  <2>. QED BY <2>1, <2>2, <2>3, <2>7, <2>8, PaidWithoutWrites
<1>5. ASSUME NEW r \in Replicas, TakeEntry(r) PROVE WritesPaid'
  <2>1. PICK e \in queue[r] : /\ queue' = [queue EXCEPT ![r] = @ \ {e}]
                              /\ worker' = [worker EXCEPT ![r] = [step |-> "write", entry |-> e, ok |-> FALSE]]
    BY <1>5 DEF TakeEntry, Becomes
  <2>2. /\ log' = log /\ faults' = faults /\ buffer' = buffer /\ deleted' = deleted /\ call' = call
        /\ ~Doing(r, "mark")
    BY <1>5 DEF TakeEntry, Replays, Doing
  <2>3. \A s \in Replicas \ {r} : worker'[s] = worker[s]
    BY <2>1
  <2>4. worker'[r].step = "write" /\ worker'[r].entry = e /\ log[e] = 0
    BY <1>0, <2>1 DEF WritesPaid
  <2>5. \A f \in Entries : Fresh(f)' => log'[f] = 0
    BY <2>2 DEF WritesPaid, Fresh
  <2>6. ASSUME NEW s \in Replicas
        PROVE  /\ \A f \in queue'[s] : log'[f] = 0
               /\ Doing(s, "write")' => log'[Hand(s)'] = 0
               /\ Doing(s, "persist")' => log'[Hand(s)'] <= faults'
    <3>1. \A f \in queue'[s] : f \in queue[s]
      BY <1>0, <2>1
    <3>2. CASE s = r
      BY <2>2, <2>4, <3>1, <3>2 DEF WritesPaid, Doing, Hand
    <3>3. CASE s # r
      BY <2>2, <2>3, <3>1, <3>3 DEF WritesPaid, Doing, Hand
    <3>. QED BY <3>2, <3>3
  <2>7. \A s \in Replicas, f \in Entries : Sealed(s, f) => Sealed(s, f)'
    <3>1. \A f \in Entries : Sealed(r, f) => f \in deleted'[r]
      BY <2>2 DEF Sealed, Marks
    <3>2. \A s \in Replicas \ {r}, f \in Entries : Sealed(s, f) => Sealed(s, f)'
      BY <2>2, <2>3, Zenon DEF Sealed, Marks, Hand, Doing
    <3>. QED BY <3>1, <3>2 DEF Sealed
  <2>8. \A f \in buffer' : log'[f] <= faults' \/ \E s \in Replicas : Sealed(s, f)'
    BY <1>0, <2>2, <2>7 DEF WritesPaid
  <2>9. \A f \in Entries : log'[f] <= 1 + faults'
    BY <2>2 DEF WritesPaid
  <2>. QED BY <2>5, <2>6, <2>8, <2>9, Zenon DEF WritesPaid
<1>6. ASSUME NEW r \in Replicas, PersistEntry(r) PROVE WritesPaid'
  <2>0. log[Hand(r)] <= faults /\ ~Doing(r, "mark") /\ Hand(r) \in Entries
    BY <1>0, <1>6 DEF PersistEntry, WritesPaid, WorkerConsistent, Doing, Hand, Work
  <2>1. log' = log /\ deleted' = deleted /\ call' = call /\ queue' = queue /\ Rests(r)
    BY <1>6 DEF PersistEntry, Replays
  <2>2. faults' \in Nat /\ faults <= faults'
    BY <1>0, <1>6 DEF PersistEntry, Fault
  <2>3. /\ \A s \in Replicas \ {r} : worker'[s] = worker[s]
        /\ worker'[r].step = "idle"
    BY <1>0, <2>1 DEF Rests, Idle
  <2>4. \A s \in Replicas, f \in Entries : Sealed(s, f) => Sealed(s, f)'
    <3>1. \A f \in Entries : Sealed(r, f) => f \in deleted'[r]
      BY <2>0, <2>1 DEF Sealed, Marks
    <3>2. \A s \in Replicas \ {r}, f \in Entries : Sealed(s, f) => Sealed(s, f)'
      BY <2>1, <2>3, Zenon DEF Sealed, Marks, Hand, Doing
    <3>. QED BY <3>1, <3>2 DEF Sealed
  <2>5. \A f \in buffer' : f \in buffer \/ f = Hand(r)
    BY <1>6 DEF PersistEntry, Persists
  <2>6. ASSUME NEW f \in buffer'
        PROVE  \/ log[f] <= faults'
               \/ f \in buffer /\ (\A s \in Replicas : Sealed(s, f) => Sealed(s, f)')
    <3>1. CASE f = Hand(r)
      BY <1>0, <2>0, <2>2, <3>1
    <3>2. CASE f \in buffer
      BY <1>0, <2>4, <3>2
    <3>. QED BY <2>5, <3>1, <3>2
  <2>7. \A f \in Entries : Fresh(f)' => Fresh(f)
    BY <2>1 DEF Fresh
  <2>8. \A s \in Replicas : worker'[s] = worker[s] \/ ~(Doing(s, "write")' \/ Doing(s, "persist")')
    BY <2>3 DEF Doing
  <2>9. \A s \in Replicas : \A f \in queue'[s] : log[f] = 0
    BY <2>1 DEF WritesPaid
  <2>. QED BY <2>1, <2>2, <2>6, <2>7, <2>8, <2>9, PaidWithoutWrites
<1>7. ASSUME NEW r \in Replicas, StartReplay(r) \/ ReplayMark(r) PROVE WritesPaid'
  <2>1. log' = log /\ call' = call /\ queue' = queue /\ buffer' = buffer
    BY <1>7 DEF StartReplay, ReplayMark
  <2>2. faults' \in Nat /\ faults <= faults'
    <3>1. UNCHANGED faults \/ Fault
      BY <1>7, Zenon DEF StartReplay, ReplayMark
    <3>. QED BY <1>0, <3>1 DEF Fault
  <2>3. Becomes(r, "replay", Nothing, FALSE) \/ Rests(r)
    BY <1>7, Zenon DEF StartReplay, ReplayMark, Rollback
  <2>4. /\ \A s \in Replicas \ {r} : worker'[s] = worker[s]
        /\ worker'[r].step \in {"idle", "replay"}
    BY <1>0, <2>3 DEF Becomes, Rests, Idle
  <2>5. \A s \in Replicas \ {r} : deleted'[s] = deleted[s]
    BY <1>0, <1>7 DEF StartReplay, ReplayMark, Rollback
  <2>6. ASSUME NEW f \in Entries, Sealed(r, f) PROVE Sealed(r, f)' \/ Fault
    <3>1. CASE StartReplay(r)
      <4>1. f \in deleted'[r]
        BY <2>6, <3>1 DEF StartReplay, Sealed, Marks, Doing
      <4>. QED BY <4>1 DEF Sealed
    <3>2. CASE ReplayMark(r) /\ ~Fault
      <4>1. deleted' = IF worker[r].ok THEN [deleted EXCEPT ![r] = @ \cup {Hand(r)}] ELSE deleted
        BY <3>2, Zenon DEF ReplayMark
      <4>2. CASE f \in deleted[r]
        BY <1>0, <4>1, <4>2 DEF Sealed
      <4>3. CASE Marks(r, f) /\ worker[r].ok
        <5>1. deleted' = [deleted EXCEPT ![r] = @ \cup {Hand(r)}]
          BY <4>1, <4>3, Zenon
        <5>. QED BY <1>0, <4>3, <5>1 DEF Sealed, Marks
      <4>. QED BY <2>6, <4>2, <4>3, Zenon DEF Sealed
    <3>. QED BY <1>7, <3>1, <3>2
  <2>7. \A s \in Replicas \ {r}, f \in Entries : Sealed(s, f) => Sealed(s, f)'
    BY <2>4, <2>5, Zenon DEF Sealed, Marks, Hand, Doing
  <2>8. ASSUME NEW f \in buffer'
        PROVE  \/ log[f] <= faults'
               \/ f \in buffer /\ (\A s \in Replicas : Sealed(s, f) => Sealed(s, f)')
    <3>1. CASE Fault
      BY <1>0, <2>1, <3>1 DEF Fault, WritesPaid
    <3>2. CASE ~Fault
      BY <1>0, <2>1, <2>6, <2>7, <3>2
    <3>. QED BY <3>1, <3>2
  <2>9. \A f \in Entries : Fresh(f)' => Fresh(f)
    BY <2>1 DEF Fresh
  <2>10. \A s \in Replicas : worker'[s] = worker[s] \/ ~(Doing(s, "write")' \/ Doing(s, "persist")')
    BY <2>4 DEF Doing
  <2>11. \A s \in Replicas : \A f \in queue'[s] : log[f] = 0
    BY <2>1 DEF WritesPaid
  <2>. QED BY <2>1, <2>2, <2>8, <2>9, <2>10, <2>11, PaidWithoutWrites
<1>8. ASSUME NEW r \in Replicas, ReplayCommit(r) \/ Exit(r) \/ Crash(r) PROVE WritesPaid'
  <2>1. Rollback(r) /\ log' = log
    BY <1>8 DEF ReplayCommit, Exit, Crash, Dies
  <2>2. faults' \in Nat /\ faults <= faults'
    BY <1>0, <1>8 DEF ReplayCommit, Exit, Crash, Fault
  <2>3. /\ \A s \in Replicas \ {r} : worker'[s] = worker[s] /\ deleted'[s] = deleted[s]
        /\ worker'[r].step = "idle"
    BY <1>0, <2>1 DEF Rollback, Rests, Idle
  <2>4. \A f \in Entries : Fresh(f)' => Fresh(f)
    BY <1>0, <1>8 DEF ReplayCommit, Exit, Crash, Dies, Fresh
  <2>5. \A s \in Replicas : queue'[s] \subseteq queue[s]
    BY <1>0, <1>8 DEF ReplayCommit, Exit, Crash, Dies
  <2>6. \A s \in Replicas \ {r}, f \in Entries : Sealed(s, f) => Sealed(s, f)'
    BY <2>3, Zenon DEF Sealed, Marks, Hand, Doing
  <2>7. buffer' \subseteq buffer
    BY <1>8 DEF ReplayCommit, Exit, Crash, Dies
  <2>8. ASSUME NEW f \in buffer', ~Fault PROVE ~Sealed(r, f)
    <3>1. CASE ReplayCommit(r)
      BY <2>8, <3>1 DEF ReplayCommit, Sealed, Marks, Doing
    <3>2. CASE Exit(r)
      BY <1>0, <3>2 DEF Exit, WorkerConsistent, Running, Sealed, Marks, Doing
    <3>. QED BY <1>8, <2>8, <3>1, <3>2 DEF Crash
  <2>9. ASSUME NEW f \in buffer'
        PROVE  \/ log[f] <= faults'
               \/ f \in buffer /\ (\A s \in Replicas : Sealed(s, f) => Sealed(s, f)')
    <3>1. CASE Fault
      BY <1>0, <2>7, <3>1 DEF Fault, WritesPaid
    <3>2. CASE ~Fault
      BY <1>0, <2>6, <2>7, <2>8, <3>2
    <3>. QED BY <3>1, <3>2
  <2>10. \A s \in Replicas : worker'[s] = worker[s] \/ ~(Doing(s, "write")' \/ Doing(s, "persist")')
    BY <2>3 DEF Doing
  <2>11. \A s \in Replicas : \A f \in queue'[s] : log[f] = 0
    BY <2>5 DEF WritesPaid
  <2>. QED BY <2>1, <2>2, <2>4, <2>9, <2>10, <2>11, PaidWithoutWrites
<1>9. ASSUME NEW r \in Replicas,
             \/ \E e \in Entries : Begin(e, r)
             \/ Close(r) \/ NoticeStop(r) \/ WorkerReturns(r) \/ Restart(r)
      PROVE  WritesPaid'
  <2>1. log' = log /\ queue' = queue /\ worker' = worker /\ buffer' = buffer /\ deleted' = deleted
    BY <1>9 DEF Begin, Close, NoticeStop, WorkerReturns, Restart, Replays
  <2>2. faults' \in Nat /\ faults <= faults'
    BY <1>0, <1>9 DEF Begin, Close, NoticeStop, WorkerReturns, Restart, Fault
  <2>3. \A e \in Entries : Fresh(e)' => Fresh(e)
    BY <1>0, <1>9 DEF Begin, Close, NoticeStop, WorkerReturns, Restart, Fresh
  <2>4. \A s \in Replicas, f \in Entries : Sealed(s, f) => Sealed(s, f)'
    BY <2>1, Zenon DEF Sealed, Marks, Hand, Doing
  <2>5. \A f \in buffer' : f \in buffer /\ (\A s \in Replicas : Sealed(s, f) => Sealed(s, f)')
    BY <1>0, <2>1, <2>4
  <2>6. \A s \in Replicas : \A f \in queue'[s] : log[f] = 0
    BY <2>1 DEF WritesPaid
  <2>. QED BY <2>1, <2>2, <2>3, <2>5, <2>6, PaidWithoutWrites
<1>10. CASE UNCHANGED auditVars
  BY <1>10, Zenon DEF auditVars, WritesPaid, Fresh, Sealed, Marks, Hand, Doing
<1>. QED BY <1>1, <1>2, <1>3, <1>4, <1>5, <1>6, <1>7, <1>8, <1>9, <1>10, Zenon
         DEF AuditNext, DeliverStep, ReplayStep, StopStep

LEMMA WritesPaidInit == AuditInit => WritesPaid
BY DEF AuditInit, WritesPaid, Fresh, Doing, Idle

\* Replicas that replay one buffer write an entry once; every further row costs a
\* failure between the write and the commit.
THEOREM DuplicatesCostFaultsHolds == AuditSpec => []DuplicatesCostFaults
<1>1. WritesPaid => DuplicatesCostFaults
  BY DEF WritesPaid, DuplicatesCostFaults
<1>. QED BY <1>1, TypedInit, TypedStep, OnePlaceInit, OnePlaceStep, LocksHeldInit, LocksHeldStep,
            WritesPaidInit, WritesPaidStep, PTL DEF AuditSpec
=============================================================================
