----------------------------- MODULE RateLimiter -----------------------------
(***************************************************************************)
(* The token bucket of one key in app.rate_limit_buckets, which all        *)
(* replicas share (PostgresLimiter), and the bucket every replica keeps in *)
(* memory for the time the storage fails (Limiter).                        *)
(*                                                                         *)
(* Time is counted in ticks, tokens in the ticks they take to refill: a    *)
(* token is worth Cost, a full bucket Capacity.  A statement sees now() as *)
(* of its start and reaches the row later, in any order.                   *)
(***************************************************************************)
EXTENDS Integers

CONSTANTS
  Slots,       \* requests in flight at a time
  Replicas,    \* server processes
  Cost,        \* one minute / rpm
  Capacity,    \* burst * Cost
  Timeout,     \* a statement has committed or is cancelled after this time
  CleanupAge,  \* RateLimitBucketMaxAge
  MaxTime      \* bound on the clock

\* The age at which buckets are deleted is a setting of its own: the bound
\* needs it to exceed the time an empty bucket takes to fill.
ASSUME RateAssumption ==
  /\ Cost \in Nat \ {0}
  /\ Capacity \in Nat
  /\ Cost <= Capacity
  /\ Timeout \in Nat
  /\ CleanupAge \in Nat
  /\ Capacity + Timeout <= CleanupAge
  /\ MaxTime \in Nat

VARIABLES
  time,      \* the clock
  policy,    \* what a failure of the storage means for the key's route class
  bucket,    \* the row of the key
  local,     \* Limiter of every replica
  asking,    \* requests in flight
  since,     \* history: from when on admissions are counted
  spent,     \* history: cost of what the row admitted since
  spentHere  \* history: cost of what the Limiter of a replica admitted since

rateVars == <<time, policy, bucket, local, asking, since, spent, spentHere>>

NoBucket == [tokens |-> -1, last |-> -1]
Bucket == {NoBucket} \cup [tokens : Nat, last : Nat]
NotAsking == [step |-> "idle", start |-> 0]
Asking == [step : {"idle", "asked", "failed"}, start : Nat]

FailureModes == {"open", "closed", "local_fallback"}
RouteClasses == {"ai", "share", "standard"}

\* RateLimitMiddleware overrides the configured mode for expensive routes.
EffectiveMode(mode, strict, class) ==
  IF strict /\ class \in {"ai", "share"} THEN "closed" ELSE mode

RateInit ==
  /\ time = 0
  /\ \E mode \in FailureModes, strict \in BOOLEAN, class \in RouteClasses :
       policy = EffectiveMode(mode, strict, class)
  /\ bucket = NoBucket
  /\ local = [p \in Replicas |-> NoBucket]
  /\ asking = [s \in Slots |-> NotAsking]
  /\ since \in 0..MaxTime
  /\ spent = 0
  /\ spentHere = [p \in Replicas |-> 0]

-----------------------------------------------------------------------------

\* Mutant: the refill is not capped.
RefilledUncapped(b, now) == IF b = NoBucket THEN Capacity ELSE b.tokens + now - b.last

\* What a bucket holds at a time, which may lie before its last refill: the
\* statement that came first in time may come second to the row.
Refilled(b, now) ==
  IF b = NoBucket THEN Capacity
  ELSE LET t == b.tokens + now - b.last IN IF t > Capacity THEN Capacity ELSE t

Counted(start) == IF start >= since THEN Cost ELSE 0

\* A request arrives at any replica; its statement starts.
Arrive(s) ==
  /\ asking[s].step = "idle"
  /\ asking' = [asking EXCEPT ![s] = [step |-> "asked", start |-> time]]
  /\ UNCHANGED <<time, policy, bucket, local, since, spent, spentHere>>

\* upsertBucketSQL commits: one token, or no row when there is none.  The
\* answer may be lost on its way back.
Upsert(s) ==
  LET start == asking[s].start
      tokens == Refilled(bucket, start)
  IN  /\ asking[s].step = "asked"
      /\ \/ /\ tokens >= Cost
            /\ bucket' = [tokens |-> tokens - Cost, last |-> start]
            /\ spent' = spent + Counted(start)
         \/ tokens < Cost /\ UNCHANGED <<bucket, spent>>
      /\ \/ asking' = [asking EXCEPT ![s] = NotAsking]
         \/ asking' = [asking EXCEPT ![s].step = "failed"]
      /\ UNCHANGED <<time, policy, local, since, spentHere>>

\* The statement fails or is cancelled after its timeout.
StorageFails(s) ==
  /\ asking[s].step = "asked"
  /\ asking' = [asking EXCEPT ![s].step = "failed"]
  /\ UNCHANGED <<time, policy, bucket, local, since, spent, spentHere>>

\* AllowWithMode on a failure: refused, let through, or left to the replica's
\* own bucket, which is written on a refusal as well.
Fallback(s, p) ==
  /\ asking[s].step = "failed"
  /\ asking' = [asking EXCEPT ![s] = NotAsking]
  /\ \/ /\ policy = "local_fallback"
        /\ LET tokens == Refilled(local[p], time)
               granted == tokens >= Cost
           IN  /\ local' = [local EXCEPT ![p] =
                     [tokens |-> IF granted THEN tokens - Cost ELSE tokens, last |-> time]]
               /\ spentHere' =
                    IF granted THEN [spentHere EXCEPT ![p] = @ + Counted(time)] ELSE spentHere
     \/ policy # "local_fallback" /\ UNCHANGED <<local, spentHere>>
  /\ UNCHANGED <<time, policy, bucket, since, spent>>

Abandoned(b) == b # NoBucket /\ b.last < time - CleanupAge

\* CleanupInactive of any replica.
CleanupInactive ==
  /\ Abandoned(bucket)
  /\ bucket' = NoBucket
  /\ UNCHANGED <<time, policy, local, asking, since, spent, spentHere>>

Tick ==
  /\ time < MaxTime
  /\ \A s \in Slots : asking[s].step = "asked" => time < asking[s].start + Timeout
  /\ time' = time + 1
  /\ UNCHANGED <<policy, bucket, local, asking, since, spent, spentHere>>

RateNext ==
  \/ \E s \in Slots :
       Arrive(s) \/ Upsert(s) \/ StorageFails(s) \/ \E p \in Replicas : Fallback(s, p)
  \/ CleanupInactive
  \/ Tick

RateSpec == RateInit /\ [][RateNext]_rateVars

-----------------------------------------------------------------------------

\* Types of the row, the limiters and the requests; no bucket is overdrawn.
RateTypeOK ==
  /\ time \in Nat
  /\ policy \in FailureModes
  /\ bucket \in Bucket
  /\ local \in [Replicas -> Bucket]
  /\ asking \in [Slots -> Asking]
  /\ since \in Nat
  /\ spent \in Nat
  /\ spentHere \in [Replicas -> Nat]

\* Whenever one starts to count, the shared row admits, for requests of a key
\* that start from then on and over all replicas, at most a burst and what is
\* refilled since: concurrent first requests do not multiply the burst,
\* statements that reach the row out of order gain nothing, nor does deleting
\* the row.  The fallback of each replica is bounded in the same way on its
\* own, beside the row; what the mode "open" admits is not counted.
WindowBound ==
  time >= since =>
    /\ spent <= Capacity + time - since
    /\ \A p \in Replicas : spentHere[p] <= Capacity + time - since
=============================================================================
