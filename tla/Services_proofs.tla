---------------------------- MODULE Services_proofs ----------------------------
(***************************************************************************)
(* Proofs about the components that share no state, for all values of the  *)
(* constants that their assumptions allow: the rate limiter, the pools of  *)
(* tenants, the governed embedder and the reports of investigations; and   *)
(* that a behaviour of MCServices is one of each component, so that what   *)
(* is proved of a component alone, outbox and sessions included, holds of  *)
(* it there.                                                               *)
(***************************************************************************)
EXTENDS MCServices, BrowserSessions_proofs, WebhookOutbox_proofs, Sums

-----------------------------------------------------------------------------
(* Samples of a bag.                                                       *)

Bags == [ResultRows -> Nat]
SampleSize == Least(SampleCap, MaxRows)

\* There are finitely many kinds of rows.
LEMMA RowsFinite == IsFiniteSet(ResultRows)
BY ReportAssumption

\* The size of a bag is a natural, and a bag that is nowhere larger is of the
\* same size only if it is the same.
LEMMA SizeOrder ==
  ASSUME NEW s \in Bags, NEW t \in Bags
  PROVE  /\ Size(s) \in Nat
         /\ (\A x \in ResultRows : s[x] <= t[x]) => Size(s) <= Size(t) /\ (Size(s) = Size(t) => s = t)
<1>1. DOMAIN s = ResultRows /\ DOMAIN t = ResultRows
  BY DEF Bags
<1>2. \A x \in ResultRows : s[x] \in Nat /\ t[x] \in Nat
  BY DEF Bags
<1>3. Size(s) = SumFunctionOnSet(s, ResultRows) /\ Size(t) = SumFunctionOnSet(t, ResultRows)
  BY <1>1 DEF Size, SumFunction
<1>4. Size(s) \in Nat
  BY <1>2, <1>3, RowsFinite, SumNat
<1>5. ASSUME \A x \in ResultRows : s[x] <= t[x]
      PROVE  Size(s) <= Size(t) /\ (Size(s) = Size(t) => \A x \in ResultRows : s[x] = t[x])
  <2>1. \A x \in ResultRows : s[x] \in Nat /\ t[x] \in Nat /\ s[x] <= t[x]
    BY <1>2, <1>5
  <2>2. /\ SumFunctionOnSet(s, ResultRows) <= SumFunctionOnSet(t, ResultRows)
        /\ SumFunctionOnSet(s, ResultRows) = SumFunctionOnSet(t, ResultRows) =>
             \A x \in ResultRows : s[x] = t[x]
    BY <2>1, RowsFinite, SumMonotone
  <2>. QED BY <1>3, <2>2
<1>6. (\A x \in ResultRows : s[x] = t[x]) => s = t
  <2>1. s = [x \in ResultRows |-> s[x]] /\ t = [x \in ResultRows |-> t[x]]
    BY DEF Bags
  <2>. QED BY <2>1
<1>. QED BY <1>4, <1>5, <1>6

\* What a statement samples is a part of the bag, of a size that depends on
\* nothing else.
LEMMA AnyRowsBound ==
  ASSUME NEW bag \in Bags, NEW n \in Nat, NEW s \in AnyRows(bag, n)
  PROVE  /\ s \in Bags /\ Size(s) = Least(n, Size(bag))
         /\ \A x \in ResultRows : s[x] <= bag[x]
<1>1. /\ s \in [ResultRows -> 0..n] /\ Size(s) = Least(n, Size(bag))
      /\ \A x \in ResultRows : s[x] <= bag[x]
  BY DEF AnyRows
<1>2. \A m \in 0..n : m \in Nat
  OBVIOUS
<1>. QED BY <1>1, <1>2 DEF Bags

\* A bag that fits into the sample is sampled whole.
LEMMA SmallIsWhole ==
  ASSUME NEW bag \in Bags, NEW n \in Nat, Size(bag) <= n, NEW s \in AnyRows(bag, n)
  PROVE  s = bag
<1>1. Size(s) = Size(bag)
  <2>1. Size(bag) \in Nat
    BY SizeOrder
  <2>. QED BY <2>1, AnyRowsBound DEF Least
<1>. QED BY <1>1, AnyRowsBound, SizeOrder

\* A sample by hash is determined: of two, one cannot have a row the other has
\* not without lacking one that comes before or after it.
LEMMA ByHashIsOne ==
  ASSUME NEW bag \in Bags, NEW n \in Nat, NEW s \in FirstByHash(bag, n), NEW t \in FirstByHash(bag, n)
  PROVE  s = t
<1>1. s \in AnyRows(bag, n) /\ t \in AnyRows(bag, n)
  BY DEF FirstByHash
<1>2. /\ s \in Bags /\ t \in Bags /\ Size(s) = Size(t)
      /\ \A x \in ResultRows : s[x] <= bag[x] /\ t[x] <= bag[x]
  BY <1>1, AnyRowsBound
<1>3. \A x \in ResultRows : x \in Nat /\ s[x] \in Nat /\ t[x] \in Nat /\ bag[x] \in Nat
  BY <1>2, ReportAssumption DEF Bags
<1>4. \A x, y \in ResultRows : x < y => /\ s[y] > 0 => s[x] = bag[x]
                                        /\ t[y] > 0 => t[x] = bag[x]
  BY DEF FirstByHash
<1>5. ASSUME NEW x \in ResultRows, NEW y \in ResultRows, s[x] < t[x], t[y] < s[y]
      PROVE  FALSE
  <2>1. /\ s[x] \in Nat /\ t[x] \in Nat /\ s[y] \in Nat /\ t[y] \in Nat
        /\ bag[x] \in Nat /\ bag[y] \in Nat /\ x \in Nat /\ y \in Nat
        /\ t[x] <= bag[x] /\ s[y] <= bag[y]
    BY <1>2, <1>3
  <2>2. s[y] > 0 /\ t[x] > 0 /\ s[x] # bag[x] /\ t[y] # bag[y]
    BY <1>5, <2>1
  <2>3. ~(x < y) /\ ~(y < x)
    BY <1>4, <2>2
  <2>4. x = y
    BY <2>1, <2>3
  <2>. QED BY <1>5, <2>1, <2>4
<1>6. \/ \A x \in ResultRows : s[x] <= t[x]
      \/ \A x \in ResultRows : t[x] <= s[x]
  <2>1. SUFFICES ASSUME NEW x \in ResultRows, ~(s[x] <= t[x]), NEW y \in ResultRows, ~(t[y] <= s[y])
                 PROVE  FALSE
    OBVIOUS
  <2>2. t[x] < s[x] /\ s[y] < t[y]
    <3>1. s[x] \in Nat /\ t[x] \in Nat /\ s[y] \in Nat /\ t[y] \in Nat
      BY <1>3
    <3>. QED BY <2>1, <3>1
  <2>. QED BY <1>5, <2>2
<1>. QED BY <1>2, <1>6, SizeOrder

USE RateAssumption

-----------------------------------------------------------------------------
(* The rate limiter: the inductive invariant.                              *)

\* A request has not been under way for longer than the timeout.
InTime ==
  \A s \in Slots : asking[s].step = "asked" =>
    asking[s].start <= time /\ time <= asking[s].start + Timeout

\* A bucket holds no debt, and was last written in the past.
Sound(b) == b # NoBucket => b.tokens >= 0 /\ b.last <= time

\* What was admitted and what is left came from a full bucket and the refill
\* up to the last write.
Conserved(b, cost) == cost > 0 => cost + b.tokens <= Capacity + b.last - since

\* When the row is deleted, all it has admitted is refilled, also at the
\* time of the oldest statement under way.
Forgotten == bucket = NoBucket /\ spent > 0 => spent <= time - Timeout - since

RateInv ==
  /\ RateTypeOK
  /\ InTime
  /\ Sound(bucket)
  /\ bucket # NoBucket => Conserved(bucket, spent)
  /\ Forgotten
  /\ \A p \in Replicas :
       /\ Sound(local[p])
       /\ local[p] = NoBucket => spentHere[p] = 0
       /\ local[p] # NoBucket => Conserved(local[p], spentHere[p])

\* A refill never takes more than time gives, nor exceeds the capacity.
LEMMA RefillBounds ==
  ASSUME NEW b \in Bucket, NEW now \in Nat
  PROVE  /\ Refilled(b, now) \in Int
         /\ Refilled(b, now) <= Capacity
         /\ b # NoBucket => Refilled(b, now) <= b.tokens + now - b.last
         /\ (b # NoBucket /\ b.tokens >= 0 /\ b.last <= now) => Refilled(b, now) >= 0
         /\ b = NoBucket => Refilled(b, now) = Capacity
<1>1. CASE b = NoBucket
  BY <1>1 DEF Refilled
<1>2. CASE b # NoBucket
  <2>1. b.tokens \in Nat /\ b.last \in Nat
    BY <1>2 DEF Bucket
  <2>. QED BY <1>2, <2>1 DEF Refilled
<1>. QED BY <1>1, <1>2

\* Rows and fields of the buckets that are written.
LEMMA Rows ==
  ASSUME NEW tokens \in Nat, NEW last \in Nat
  PROVE  LET b == [tokens |-> tokens, last |-> last]
         IN  b \in Bucket /\ b # NoBucket /\ b.tokens = tokens /\ b.last = last
BY DEF Bucket, NoBucket

-----------------------------------------------------------------------------

\* The row: one statement.
LEMMA UpsertKeeps ==
  ASSUME RateInv, NEW s \in Slots, Upsert(s)
  PROVE  RateInv'
<1> DEFINE start == asking[s].start
           tokens == Refilled(bucket, start)
<1>1. /\ time \in Nat /\ bucket \in Bucket /\ since \in Nat /\ spent \in Nat
      /\ asking \in [Slots -> Asking] /\ asking[s].step = "asked"
      /\ UNCHANGED <<time, policy, local, since, spentHere>>
  BY DEF RateInv, RateTypeOK, Upsert
<1>2. start \in Nat /\ start <= time /\ time <= start + Timeout
  BY <1>1 DEF RateInv, InTime, Asking
<1>3. asking' \in [Slots -> Asking] /\ InTime'
  <2>1. \/ asking' = [asking EXCEPT ![s] = NotAsking]
        \/ asking' = [asking EXCEPT ![s].step = "failed"]
    BY DEF Upsert
  <2>2. asking' \in [Slots -> Asking]
    BY <1>1, <2>1 DEF Asking, NotAsking
  <2>3. \A q \in Slots : asking'[q].step = "asked" => asking'[q] = asking[q]
    BY <1>1, <2>1 DEF Asking, NotAsking
  <2>. QED BY <1>1, <2>2, <2>3 DEF RateInv, InTime
<1>4. CASE tokens < Cost /\ UNCHANGED <<bucket, spent>>
  BY <1>1, <1>3, <1>4 DEF RateInv, RateTypeOK, Sound, Conserved, Forgotten
<1>5. CASE /\ tokens >= Cost
           /\ bucket' = [tokens |-> tokens - Cost, last |-> start]
           /\ spent' = spent + Counted(start)
  <2>1. tokens \in Int
    BY <1>1, <1>2, RefillBounds
  <2>2. tokens - Cost \in Nat
    BY <1>5, <2>1
  <2>. HIDE DEF tokens, start
  <2>3. bucket' \in Bucket /\ bucket' # NoBucket /\ bucket'.tokens = tokens - Cost /\ bucket'.last = start
    BY <1>2, <1>5, <2>2, Rows
  <2>4. spent' \in Nat /\ (start < since => spent' = spent) /\ (start >= since => spent' = spent + Cost)
    BY <1>1, <1>2, <1>5 DEF Counted
  <2>5. tokens <= Capacity /\ (bucket # NoBucket => tokens <= bucket.tokens + start - bucket.last)
    BY <1>1, <1>2, RefillBounds DEF tokens
  <2>6. bucket # NoBucket => bucket.tokens \in Nat /\ bucket.last \in Nat
    BY <1>1 DEF Bucket
  <2>7. spent > 0 => spent + tokens <= Capacity + start - since
    <3>1. ASSUME spent > 0, bucket # NoBucket PROVE spent + tokens <= Capacity + start - since
      <4>1. spent + bucket.tokens <= Capacity + bucket.last - since
        BY <3>1 DEF RateInv, Conserved
      <4>. QED BY <1>1, <1>2, <2>1, <2>5, <2>6, <3>1, <4>1
    <3>2. ASSUME spent > 0, bucket = NoBucket PROVE spent + tokens <= Capacity + start - since
      <4>1. spent <= time - Timeout - since
        BY <3>2 DEF RateInv, Forgotten
      <4>. QED BY <1>1, <1>2, <2>1, <2>5, <4>1
    <3>. QED BY <3>1, <3>2
  <2>8. Conserved(bucket, spent)'
    <3>1. CASE start < since
      BY <1>1, <1>2, <2>1, <2>3, <2>4, <2>7, <3>1 DEF Conserved
    <3>2. CASE start >= since
      BY <1>1, <1>2, <2>1, <2>3, <2>4, <2>5, <2>7, <3>2 DEF Conserved
    <3>. QED BY <1>1, <1>2, <3>1, <3>2
  <2>9. Sound(bucket)'
    BY <1>1, <1>2, <2>2, <2>3 DEF Sound
  <2>. QED BY <1>1, <1>3, <2>3, <2>4, <2>8, <2>9
           DEF RateInv, RateTypeOK, Sound, Conserved, Forgotten
<1>. QED BY <1>4, <1>5 DEF Upsert

\* The replica's own bucket, whose time never goes back.
LEMMA FallbackKeeps ==
  ASSUME RateInv, NEW s \in Slots, NEW p \in Replicas, Fallback(s, p)
  PROVE  RateInv'
<1> DEFINE tokens == Refilled(local[p], time)
           left == IF tokens >= Cost THEN tokens - Cost ELSE tokens
<1>1. /\ time \in Nat /\ local \in [Replicas -> Bucket] /\ since \in Nat
      /\ spentHere \in [Replicas -> Nat] /\ asking \in [Slots -> Asking]
      /\ asking' = [asking EXCEPT ![s] = NotAsking]
      /\ UNCHANGED <<time, policy, bucket, since, spent>>
  BY DEF RateInv, RateTypeOK, Fallback
<1>2. asking' \in [Slots -> Asking] /\ InTime'
  BY <1>1 DEF RateInv, InTime, Asking, NotAsking
<1>3. CASE UNCHANGED <<local, spentHere>>
  BY <1>1, <1>2, <1>3 DEF RateInv, RateTypeOK, Sound, Conserved, Forgotten
<1>4. CASE /\ local' = [local EXCEPT ![p] = [tokens |-> left, last |-> time]]
           /\ spentHere' = IF tokens >= Cost THEN [spentHere EXCEPT ![p] = @ + Counted(time)]
                                             ELSE spentHere
  <2>1. /\ tokens \in Int /\ tokens <= Capacity
        /\ local[p] # NoBucket => tokens >= 0 /\ tokens <= local[p].tokens + time - local[p].last
        /\ local[p] = NoBucket => tokens = Capacity
    <3>1. Sound(local[p]) /\ local[p] \in Bucket
      BY <1>1 DEF RateInv
    <3>. QED BY <1>1, <3>1, RefillBounds DEF Sound
  <2>. HIDE DEF tokens
  <2>2. left \in Nat /\ left <= tokens /\ (tokens >= Cost => left = tokens - Cost)
    BY <2>1
  <2>. HIDE DEF left
  <2>3. /\ local'[p] \in Bucket /\ local'[p] # NoBucket
        /\ local'[p].tokens = left /\ local'[p].last = time
    <3>1. local'[p] = [tokens |-> left, last |-> time]
      BY <1>1, <1>4
    <3>. QED BY <1>1, <2>2, <3>1, Rows
  <2>4. local' \in [Replicas -> Bucket] /\ \A q \in Replicas \ {p} : local'[q] = local[q]
    <3>1. [tokens |-> left, last |-> time] \in Bucket
      BY <1>1, <2>2, Rows
    <3>. QED BY <1>1, <1>4, <3>1
  <2>5. /\ spentHere' \in [Replicas -> Nat]
        /\ \A q \in Replicas \ {p} : spentHere'[q] = spentHere[q]
        /\ spentHere'[p] = spentHere[p] \/ (tokens >= Cost /\ time >= since /\ spentHere'[p] = spentHere[p] + Cost)
    <3>1. Counted(time) \in Nat /\ Counted(time) \in {0, Cost} /\ (Counted(time) # 0 => time >= since)
      BY <1>1 DEF Counted
    <3>. QED BY <1>1, <1>4, <3>1
  <2>6. spentHere[p] > 0 => spentHere[p] + tokens <= Capacity + time - since
    <3>. SUFFICES ASSUME spentHere[p] > 0 PROVE spentHere[p] + tokens <= Capacity + time - since
      OBVIOUS
    <3>1. local[p] # NoBucket
      BY <1>1 DEF RateInv
    <3>2. spentHere[p] + local[p].tokens <= Capacity + local[p].last - since
      BY <3>1 DEF RateInv, Conserved
    <3>3. local[p].tokens \in Nat /\ local[p].last \in Nat /\ spentHere[p] \in Nat
      BY <1>1, <3>1 DEF Bucket
    <3>. QED BY <1>1, <2>1, <3>1, <3>2, <3>3
  <2>7. Conserved(local[p], spentHere[p])' /\ Sound(local[p])'
    <3>1. spentHere[p] \in Nat
      BY <1>1
    <3>2. Sound(local[p])'
      BY <1>1, <2>2, <2>3 DEF Sound
    <3>3. Conserved(local[p], spentHere[p])'
      BY <1>1, <2>1, <2>2, <2>3, <2>5, <2>6, <3>1 DEF Conserved
    <3>. QED BY <3>2, <3>3
  <2>8. ASSUME NEW q \in Replicas
        PROVE  /\ Sound(local[q])'
               /\ local'[q] = NoBucket => spentHere'[q] = 0
               /\ local'[q] # NoBucket => Conserved(local[q], spentHere[q])'
    <3>1. CASE q = p
      BY <2>3, <2>7, <3>1
    <3>2. CASE q # p
      <4>1. local'[q] = local[q] /\ spentHere'[q] = spentHere[q]
        BY <2>4, <2>5, <3>2
      <4>. QED BY <1>1, <4>1 DEF RateInv, Sound, Conserved
    <3>. QED BY <3>1, <3>2
  <2>9. RateTypeOK'
    BY <1>1, <1>2, <2>4, <2>5 DEF RateInv, RateTypeOK
  <2>10. Sound(bucket)' /\ (bucket' # NoBucket => Conserved(bucket, spent)') /\ Forgotten'
    BY <1>1 DEF RateInv, Sound, Conserved, Forgotten
  <2>. QED BY <1>2, <2>8, <2>9, <2>10 DEF RateInv
<1>. QED BY <1>3, <1>4 DEF Fallback

\* Deleting a row that was not written for the age of clean-up.
LEMMA CleanupKeeps ==
  ASSUME RateInv, CleanupInactive
  PROVE  RateInv'
<1>1. /\ bucket \in Bucket /\ bucket # NoBucket /\ bucket.last < time - CleanupAge
      /\ bucket' = NoBucket
      /\ UNCHANGED <<time, policy, local, asking, since, spent, spentHere>>
  BY DEF RateInv, RateTypeOK, CleanupInactive, Abandoned
<1>2. /\ bucket.tokens \in Nat /\ bucket.last \in Nat /\ time \in Nat /\ since \in Nat /\ spent \in Nat
      /\ Conserved(bucket, spent)
  BY <1>1 DEF RateInv, RateTypeOK, Bucket
<1>3. Forgotten'
  BY <1>1, <1>2 DEF Forgotten, Conserved
<1>4. Sound(bucket)' /\ bucket' \in Bucket
  BY <1>1 DEF Sound, Bucket
<1>. QED BY <1>1, <1>3, <1>4 DEF RateInv, RateTypeOK, InTime, Sound, Conserved

LEMMA TickKeeps ==
  ASSUME RateInv, Tick
  PROVE  RateInv'
<1>1. /\ time \in Nat /\ time' = time + 1 /\ bucket \in Bucket /\ local \in [Replicas -> Bucket]
      /\ since \in Nat /\ spent \in Nat /\ asking \in [Slots -> Asking]
      /\ UNCHANGED <<policy, bucket, local, asking, since, spent, spentHere>>
  BY DEF RateInv, RateTypeOK, Tick
<1>2. InTime'
  <2>1. ASSUME NEW s \in Slots, asking[s].step = "asked"
        PROVE  asking[s].start <= time + 1 /\ time + 1 <= asking[s].start + Timeout
    <3>1. asking[s].start \in Nat /\ asking[s].start <= time /\ time < asking[s].start + Timeout
      BY <1>1, <2>1 DEF RateInv, InTime, Asking, Tick
    <3>. QED BY <1>1, <3>1
  <2>. QED BY <1>1, <2>1 DEF InTime
<1>3. ASSUME NEW b \in Bucket, Sound(b) PROVE Sound(b)'
  <2>1. b # NoBucket => b.last \in Nat
    BY DEF Bucket
  <2>. QED BY <1>1, <1>3, <2>1 DEF Sound
<1>4. Forgotten'
  BY <1>1 DEF RateInv, Forgotten
<1>5. Sound(bucket)' /\ \A p \in Replicas : Sound(local[p])'
  BY <1>1, <1>3 DEF RateInv, Sound
<1>. QED BY <1>1, <1>2, <1>4, <1>5 DEF RateInv, RateTypeOK, Conserved

\* Arrivals and failures write no bucket.
LEMMA ArrivalsKeep ==
  ASSUME RateInv, NEW s \in Slots, Arrive(s) \/ StorageFails(s)
  PROVE  RateInv'
<1>1. /\ time \in Nat /\ asking \in [Slots -> Asking]
      /\ UNCHANGED <<time, policy, bucket, local, since, spent, spentHere>>
  BY DEF RateInv, RateTypeOK, Arrive, StorageFails
<1>2. asking' \in [Slots -> Asking] /\ InTime'
  <2>1. CASE Arrive(s)
    BY <1>1, <2>1 DEF Arrive, RateInv, InTime, Asking
  <2>2. CASE StorageFails(s)
    BY <1>1, <2>2 DEF StorageFails, RateInv, InTime, Asking
  <2>. QED BY <2>1, <2>2
<1>. QED BY <1>1, <1>2 DEF RateInv, RateTypeOK, Sound, Conserved, Forgotten

LEMMA RateInvHolds == RateSpec => []RateInv
<1>1. RateInit => RateInv
  <2>. SUFFICES ASSUME RateInit PROVE RateInv
    OBVIOUS
  <2>1. RateTypeOK
    BY DEF RateInit, RateTypeOK, EffectiveMode, FailureModes, Bucket, Asking, NotAsking
  <2>2. InTime
    BY DEF RateInit, InTime, NotAsking
  <2>. QED BY <2>1, <2>2 DEF RateInit, RateInv, Sound, Conserved, Forgotten
<1>2. RateInv /\ [RateNext]_rateVars => RateInv'
  <2>. SUFFICES ASSUME RateInv, [RateNext]_rateVars PROVE RateInv'
    OBVIOUS
  <2>1. CASE UNCHANGED rateVars
    BY <2>1 DEF rateVars, RateInv, RateTypeOK, InTime, Sound, Conserved, Forgotten
  <2>2. CASE RateNext
    BY <2>2, ArrivalsKeep, UpsertKeeps, FallbackKeeps, CleanupKeeps, TickKeeps DEF RateNext
  <2>. QED BY <2>1, <2>2
<1>. QED BY <1>1, <1>2, PTL DEF RateSpec

-----------------------------------------------------------------------------

\* Types of the row, the limiters and the requests; in particular no bucket is
\* overdrawn by statements that reach the row out of order.
THEOREM RateTypeCorrect == RateSpec => []RateTypeOK
<1>1. RateInv => RateTypeOK
  BY DEF RateInv
<1>. QED BY <1>1, RateInvHolds, PTL

\* From any time on, requests that start then are admitted for a burst and the
\* refill at most, by the row they share and by the fallback of each replica on
\* its own: the row lock orders the statements, a statement that comes
\* late is refilled for less, and a row is deleted only after it is full again
\* for every statement that may still arrive.
THEOREM WindowBoundHolds == RateSpec => []WindowBound
<1>1. RateInv => WindowBound
  <2>. SUFFICES ASSUME RateInv, time >= since PROVE
         /\ spent <= Capacity + time - since
         /\ \A p \in Replicas : spentHere[p] <= Capacity + time - since
    BY DEF WindowBound
  <2>0. /\ time \in Nat /\ since \in Nat /\ spent \in Nat /\ bucket \in Bucket
        /\ local \in [Replicas -> Bucket] /\ spentHere \in [Replicas -> Nat]
    BY DEF RateInv, RateTypeOK
  <2>1. ASSUME NEW b \in Bucket, b # NoBucket, NEW cost \in Nat, Sound(b), Conserved(b, cost)
        PROVE  cost <= Capacity + time - since
    <3>1. b.tokens \in Nat /\ b.last \in Nat
      BY <2>1 DEF Bucket
    <3>. QED BY <2>0, <2>1, <3>1 DEF Sound, Conserved
  <2>2. spent <= Capacity + time - since
    <3>1. CASE bucket = NoBucket
      BY <2>0, <3>1 DEF RateInv, Forgotten
    <3>2. CASE bucket # NoBucket
      BY <2>0, <2>1, <3>2 DEF RateInv
    <3>. QED BY <3>1, <3>2
  <2>3. ASSUME NEW p \in Replicas PROVE spentHere[p] <= Capacity + time - since
    <3>1. local[p] \in Bucket /\ spentHere[p] \in Nat
      BY <2>0
    <3>2. CASE local[p] = NoBucket
      BY <2>0, <3>2 DEF RateInv
    <3>3. CASE local[p] # NoBucket
      BY <2>1, <3>1, <3>3 DEF RateInv
    <3>. QED BY <3>2, <3>3
  <2>. QED BY <2>2, <2>3
<1>. QED BY <1>1, RateInvHolds, PTL

HIDE RateAssumption
USE PoolAssumption
-----------------------------------------------------------------------------
(* The registry of pools: what a step does to the requests.                *)

\* A request that has begun is for a pair.
ForPair == \A r \in Requests : request[r].step # "idle" => request[r].conn \in Conns

\* A request that is to store a pool has the one it opened, and a pool is kept
\* under its own key.
OwnPool == \A r \in Requests : request[r].step = "opened" => request[r].pool = Opened(r)
CachedKeys == \A k \in Keys : cached[k] # NoPool => cached[k].key = k

PoolSound == PoolTypeOK /\ ForPair /\ OwnPool /\ CachedKeys

RequestSteps == {"idle", "validated", "resolved", "opening", "opened", "ready", "querying", "ended"}

\* Only request r changes, to the one with these fields.
Writes(after, r, step, conn, seen, want, pool) ==
  /\ after \in [Requests -> Request]
  /\ \A q \in Requests \ {r} : after[q] = request[q]
  /\ after[r].step = step /\ after[r].conn = conn /\ after[r].seen = seen
  /\ after[r].want = want /\ after[r].pool = pool

\* What the steps write of a request.
LEMMA RequestWritten ==
  ASSUME PoolTypeOK, NEW r \in Requests, NEW step \in RequestSteps
  PROVE  LET q == request[r]
         IN  /\ \A p \in Pool \cup {NoPool} :
                  Writes([request EXCEPT ![r].step = step, ![r].pool = p],
                         r, step, q.conn, q.seen, q.want, p)
             /\ \A v \in Nat :
                  Writes([request EXCEPT ![r].step = step, ![r].want = v],
                         r, step, q.conn, q.seen, v, q.pool)
             /\ \A c \in Conns, v \in Nat :
                  Writes([request EXCEPT ![r].step = step, ![r].conn = c, ![r].seen = v],
                         r, step, c, v, q.want, q.pool)
             /\ Writes(Moved(r, step), r, step, q.conn, q.seen, q.want, q.pool)
             /\ Writes(Left(r), r, "ended", q.conn, 0, 0, NoPool)
<1>. DEFINE P == Pool \cup {NoPool}
            q == request[r]
<1>0. request \in [Requests -> Request] /\ q \in Request /\ NoPool \in P
  BY DEF PoolTypeOK
<1>1. Request = [step : RequestSteps, conn : Conns \cup {Nobody}, seen : Nat, want : Nat, pool : P]
  BY DEF Request, RequestSteps
<1>. HIDE DEF P
<1>2. ASSUME NEW p \in P
      PROVE  Writes([request EXCEPT ![r].step = step, ![r].pool = p],
                    r, step, q.conn, q.seen, q.want, p)
  <2>1. [request EXCEPT ![r].step = step, ![r].pool = p]
          = [request EXCEPT ![r] = [q EXCEPT !.step = step, !.pool = p]]
    BY <1>0
  <2>. QED BY <1>0, <1>1, <2>1 DEF Writes
<1>3. ASSUME NEW v \in Nat
      PROVE  Writes([request EXCEPT ![r].step = step, ![r].want = v],
                    r, step, q.conn, q.seen, v, q.pool)
  <2>1. [request EXCEPT ![r].step = step, ![r].want = v]
          = [request EXCEPT ![r] = [q EXCEPT !.step = step, !.want = v]]
    BY <1>0
  <2>. QED BY <1>0, <1>1, <2>1 DEF Writes
<1>4. ASSUME NEW c \in Conns, NEW v \in Nat
      PROVE  Writes([request EXCEPT ![r].step = step, ![r].conn = c, ![r].seen = v],
                    r, step, c, v, q.want, q.pool)
  <2>1. [request EXCEPT ![r].step = step, ![r].conn = c, ![r].seen = v]
          = [request EXCEPT ![r] = [q EXCEPT !.step = step, !.conn = c, !.seen = v]]
    BY <1>0
  <2>. QED BY <1>0, <1>1, <2>1 DEF Writes
<1>5. Writes(Moved(r, step), r, step, q.conn, q.seen, q.want, q.pool)
  BY <1>0, <1>1 DEF Writes, Moved
<1>6. Writes(Left(r), r, "ended", q.conn, 0, 0, NoPool)
  BY <1>0, <1>1 DEF Writes, Left, IdleQuery, RequestSteps
<1>. HIDE DEF q
<1>. QED BY <1>2, <1>3, <1>4, <1>5, <1>6 DEF P, q

\* The key of a request and what is under it.
LEMMA KeyTyped ==
  ASSUME PoolSound, NEW r \in Requests, request[r].step # "idle"
  PROVE  /\ KeyOf(r) \in Keys
         /\ cached[KeyOf(r)] \in Pool \cup {NoPool}
         /\ Opened(r) \in Pool
         /\ Touched(KeyOf(r)) \in SUBSET (Keys \X Keys)
         /\ request[r].conn \in Conns
<1>. USE DEF PoolSound
<1>0. request[r].conn \in Conns
  BY DEF ForPair
<1>1. KeyOf(r) \in Keys
  BY <1>0 DEF KeyOf, Keys
<1>2. request[r].want \in Nat
  BY DEF PoolTypeOK, Request
<1>3. Touched(KeyOf(r)) \in SUBSET (Keys \X Keys)
  BY <1>1 DEF PoolTypeOK, Touched, Filled
<1>. QED BY <1>0, <1>1, <1>2, <1>3 DEF PoolTypeOK, Opened, Pool

\* Every step of a request, and the request that it leaves.
LEMMA QueryMoves ==
  ASSUME PoolSound, NEW r \in Requests
  PROVE  LET q == request[r]
             k == KeyOf(r)
             Quits == Writes(request', r, "ended", q.conn, 0, 0, NoPool)
             Passes(step) == Writes(request', r, step, q.conn, q.seen, q.want, q.pool)
             Gets(step, p) == Writes(request', r, step, q.conn, q.seen, q.want, p)
         IN  /\ \A c \in Conns : Validate(r, c) =>
                  \E v \in {secret[c], 0} : Writes(request', r, "validated", c, v, 0, NoPool)
             /\ Resolve(r) =>
                  \/ Quits
                  \/ Writes(request', r, "resolved", q.conn, q.seen, secret[q.conn], q.pool)
             /\ LookUp(r) => Passes("opening") \/ (Current(cached[k], r) /\ Gets("ready", cached[k]))
             /\ Open(r) => (open' = open /\ Quits) \/ (open' = open \cup {Opened(r)} /\ Gets("opened", Opened(r)))
             /\ Discard(r) => Gets("ready", cached[k])
             /\ Store(r) => Quits \/ Gets("ready", q.pool)
             /\ Begin(r) => Quits \/ Passes("querying")
             /\ Finish(r) => Quits
<1>. DEFINE q == request[r]
            k == KeyOf(r)
            Quits == Writes(request', r, "ended", q.conn, 0, 0, NoPool)
            Passes(step) == Writes(request', r, step, q.conn, q.seen, q.want, q.pool)
            Gets(step, p) == Writes(request', r, step, q.conn, q.seen, q.want, p)
            P == Pool \cup {NoPool}
<1>0. /\ PoolTypeOK /\ secret \in [Conns -> Nat] /\ q.pool \in P
      /\ {"validated", "resolved", "opening", "opened", "ready", "querying"} \subseteq RequestSteps
  BY DEF PoolSound, PoolTypeOK, Request, RequestSteps
<1>1. ASSUME NEW c \in Conns, Validate(r, c)
      PROVE  \E v \in {secret[c], 0} : Writes(request', r, "validated", c, v, 0, NoPool)
  <2>1. PICK v \in {secret[c], 0} :
          request' = [request EXCEPT ![r].step = "validated", ![r].conn = c, ![r].seen = v]
    BY <1>1 DEF Validate
  <2>2. q.want = 0 /\ q.pool = NoPool /\ v \in Nat
    BY <1>0, <1>1 DEF Validate, IdleQuery
  <2>3. "validated" \in RequestSteps
    BY <1>0
  <2>4. Writes([request EXCEPT ![r].step = "validated", ![r].conn = c, ![r].seen = v],
               r, "validated", c, v, q.want, q.pool)
    BY <1>0, <2>2, <2>3, RequestWritten
  <2>. QED BY <2>1, <2>2, <2>4
<1>2. ASSUME Resolve(r)
      PROVE  Quits \/ Writes(request', r, "resolved", q.conn, q.seen, secret[q.conn], q.pool)
  <2>1. secret[q.conn] \in Nat
    BY <1>0, <1>2, KeyTyped DEF Resolve
  <2>2. "resolved" \in RequestSteps
    BY <1>0
  <2>3. Writes([request EXCEPT ![r].step = "resolved", ![r].want = secret[q.conn]],
               r, "resolved", q.conn, q.seen, secret[q.conn], q.pool)
    BY <1>0, <2>1, <2>2, RequestWritten
  <2>4. request' = Left(r) => Quits
    BY <1>0, <2>2, RequestWritten
  <2>. QED BY <1>2, <2>3, <2>4 DEF Resolve
<1>3. ASSUME request' = Left(r) PROVE Quits
  BY <1>0, <1>3, RequestWritten
<1>4. ASSUME NEW p \in P, request' = Given(r, p) PROVE Gets("ready", p)
  BY <1>0, <1>4, RequestWritten DEF Given
<1>5. ASSUME LookUp(r) PROVE Passes("opening") \/ (Current(cached[k], r) /\ Gets("ready", cached[k]))
  <2>1. cached[k] \in P
    BY <1>5, KeyTyped DEF LookUp
  <2>2. CASE request' = Moved(r, "opening")
    BY <1>0, <2>2, RequestWritten
  <2>3. CASE Current(cached[k], r) /\ request' = Given(r, cached[k])
    BY <1>4, <2>1, <2>3
  <2>. QED BY <1>5, <2>2, <2>3 DEF LookUp
<1>6. ASSUME Open(r) PROVE (open' = open /\ Quits) \/ (open' = open \cup {Opened(r)} /\ Gets("opened", Opened(r)))
  <2>1. Opened(r) \in P
    BY <1>6, KeyTyped DEF Open
  <2>2. "opened" \in RequestSteps
    BY <1>0
  <2>3. Writes([request EXCEPT ![r].step = "opened", ![r].pool = Opened(r)],
               r, "opened", q.conn, q.seen, q.want, Opened(r))
    BY <1>0, <2>1, <2>2, RequestWritten
  <2>. QED BY <1>3, <1>6, <2>3 DEF Open
<1>7. ASSUME Discard(r) PROVE Gets("ready", cached[k])
  <2>1. cached[k] \in P
    BY <1>7, KeyTyped DEF Discard
  <2>. QED BY <1>4, <1>7, <2>1 DEF Discard
<1>8. ASSUME Store(r) PROVE Quits \/ Gets("ready", q.pool)
  BY <1>0, <1>3, <1>4, <1>8 DEF Store
<1>9. ASSUME Begin(r) PROVE Quits \/ Passes("querying")
  BY <1>0, <1>3, <1>9, RequestWritten DEF Begin
<1>10. ASSUME Finish(r) PROVE Quits
  BY <1>3, <1>10 DEF Finish
<1>. QED BY <1>1, <1>2, <1>5, <1>6, <1>7, <1>8, <1>9, <1>10

\* A request keeps its pair until it ends.
LEMMA PairKept ==
  ASSUME PoolSound, [PoolsNext]_poolVars
  PROVE  ForPair'
<1>1. ASSUME NEW r \in Requests, NEW step, NEW c \in Conns, NEW s, NEW w, NEW p,
             Writes(request', r, step, c, s, w, p)
      PROVE  ForPair'
  BY <1>1 DEF PoolSound, ForPair, Writes
<1>2. ASSUME NEW r \in Requests, NEW c \in Conns, Validate(r, c) PROVE ForPair'
  BY <1>1, <1>2, QueryMoves
<1>3. ASSUME NEW r \in Requests, RequestStep(r) PROVE ForPair'
  <2>1. request[r].conn \in Conns
    BY <1>3, KeyTyped DEF RequestStep, Resolve, LookUp, Open, Discard, Store, Begin, Finish
  <2>. QED BY <1>1, <1>3, <2>1, QueryMoves DEF RequestStep
<1>4. ASSUME UNCHANGED request PROVE ForPair'
  BY <1>4 DEF PoolSound, ForPair
<1>. QED BY <1>2, <1>3, <1>4 DEF PoolsNext, ChangeSecret, Invalidate, EvictOnce, Closed, poolVars

\* Types of the registry and the requests.
LEMMA PoolsTyped ==
  ASSUME PoolSound, [PoolsNext]_poolVars
  PROVE  PoolTypeOK'
<1>. DEFINE Rest == /\ secret' \in [Conns -> Nat] /\ clock' \in 1..MaxChanges + 1
                    /\ stale' \in SUBSET Conns /\ open' \in SUBSET Pool
                    /\ lock' \in Requests \cup {Server, Nobody} /\ closing' \in SUBSET Pool
                    /\ cached' \in [Keys -> Pool \cup {NoPool}]
                    /\ older' \in SUBSET (Keys \X Keys)
<1>0. ASSUME Rest, request' \in [Requests -> Request] PROVE PoolTypeOK'
  BY <1>0 DEF PoolTypeOK
<1>1. ASSUME NEW r \in Requests, RequestStep(r) PROVE request' \in [Requests -> Request]
  BY <1>1, QueryMoves DEF RequestStep, Writes
<1>2. ASSUME NEW r \in Requests, NEW c \in Conns, Validate(r, c) PROVE request' \in [Requests -> Request]
  BY <1>2, QueryMoves DEF Writes
<1>. USE DEF PoolTypeOK, PoolSound
<1>3. ASSUME NEW r \in Requests, LookUp(r) PROVE Rest
  <2>1. /\ KeyOf(r) \in Keys /\ cached[KeyOf(r)] \in Pool \cup {NoPool}
        /\ Touched(KeyOf(r)) \in SUBSET (Keys \X Keys)
    BY <1>3, KeyTyped DEF LookUp
  <2>. QED BY <1>3, <2>1 DEF LookUp, CloseLocked, LockAfterHit
<1>4. ASSUME NEW r \in Requests, Open(r) PROVE Rest
  <2>1. Opened(r) \in Pool
    BY <1>4, KeyTyped DEF Open
  <2>. QED BY <1>4, <2>1 DEF Open
<1>5. ASSUME NEW r \in Requests, Discard(r) PROVE Rest
  <2>1. Touched(KeyOf(r)) \in SUBSET (Keys \X Keys)
    BY <1>5, KeyTyped DEF Discard
  <2>. QED BY <1>5, <2>1 DEF Discard
<1>6. ASSUME NEW r \in Requests, Store(r) PROVE Rest
  <2>1. /\ KeyOf(r) \in Keys /\ cached[KeyOf(r)] \in Pool \cup {NoPool} /\ request[r].pool \in Pool
        /\ Touched(KeyOf(r)) \in SUBSET (Keys \X Keys)
    BY <1>6, KeyTyped DEF Store, OwnPool
  <2>2. cached' \in [Keys -> Pool \cup {NoPool}] /\ older' \in SUBSET (Keys \X Keys)
    BY <1>6, <2>1 DEF Store
  <2>3. /\ open' \in SUBSET Pool /\ lock' \in Requests \cup {Server, Nobody}
        /\ closing' \in SUBSET Pool
    <3>1. TenantKeys(cached) \in SUBSET Keys
      BY DEF TenantKeys, Filled
    <3>2. ASSUME NEW P \in SUBSET Pool, CloseLocked(r, P)
          PROVE  lock' \in Requests \cup {Server, Nobody} /\ closing' \in SUBSET Pool
      BY <3>2 DEF CloseLocked
    <3>3. CASE /\ open' = open \ {request[r].pool, cached[KeyOf(r)]}
               /\ CloseLocked(r, {cached[KeyOf(r)]} \ {NoPool})
      <4>1. {cached[KeyOf(r)]} \ {NoPool} \in SUBSET Pool
        BY <2>1
      <4>. QED BY <3>2, <3>3, <4>1
    <3>4. CASE \E V \in SUBSET (TenantKeys(cached) \ {KeyOf(r)}) :
                 LET P == ({cached[KeyOf(r)]} \cup {cached[v] : v \in V}) \ {NoPool}
                 IN  open' = open \ P /\ CloseLocked(r, P)
      <4>1. PICK V \in SUBSET (TenantKeys(cached) \ {KeyOf(r)}) :
                 LET P == ({cached[KeyOf(r)]} \cup {cached[v] : v \in V}) \ {NoPool}
                 IN  open' = open \ P /\ CloseLocked(r, P)
        BY <3>4
      <4>2. ({cached[KeyOf(r)]} \cup {cached[v] : v \in V}) \ {NoPool} \in SUBSET Pool
        BY <2>1, <3>1
      <4>. QED BY <3>2, <4>1, <4>2
    <3>. QED BY <1>6, <3>3, <3>4 DEF Store
  <2>. QED BY <1>6, <2>2, <2>3 DEF Store
<1>7. ASSUME NEW r \in Requests, Resolve(r) \/ Begin(r) \/ Finish(r) PROVE Rest
  BY <1>7 DEF Resolve, Begin, Finish
<1>8. ASSUME NEW r \in Requests, NEW c \in Conns, Validate(r, c) PROVE Rest
  BY <1>8 DEF Validate
<1>9. ASSUME NEW c \in Conns, ChangeSecret(c) PROVE Rest
  BY <1>9 DEF ChangeSecret
<1>10. ASSUME NEW c \in Conns, Invalidate(c) PROVE Rest
  BY <1>10 DEF Invalidate, CloseLocked, Keys
<1>11. ASSUME EvictOnce PROVE Rest
  BY <1>11 DEF EvictOnce, IdleEntry, CloseLocked
<1>12. ASSUME Closed \/ UNCHANGED poolVars PROVE Rest
  BY <1>12 DEF Closed, poolVars
<1>13. ASSUME UNCHANGED request PROVE request' \in [Requests -> Request]
  BY <1>13
<1>. HIDE DEF PoolTypeOK, PoolSound, Rest
<1>. QED BY <1>0, <1>1, <1>2, <1>3, <1>4, <1>5, <1>6, <1>7, <1>8, <1>9, <1>10, <1>11, <1>12, <1>13
         DEF PoolsNext, RequestStep, ChangeSecret, Invalidate, EvictOnce, Closed, poolVars

\* What a request is to store stays the pool that it opened.
LEMMA OwnPoolKept ==
  ASSUME PoolSound, [PoolsNext]_poolVars
  PROVE  OwnPool'
<1>. USE DEF PoolSound, OwnPool, Opened, KeyOf
<1>1. ASSUME NEW r \in Requests, NEW step, NEW c, NEW s, NEW w, NEW p,
             Writes(request', r, step, c, s, w, p), step # "opened"
      PROVE  OwnPool'
  BY <1>1 DEF Writes
<1>2. ASSUME NEW r \in Requests, Open(r) PROVE OwnPool'
  <2>1. CASE Writes(request', r, "opened", request[r].conn, request[r].seen, request[r].want, Opened(r))
    <3>1. Opened(r)' = Opened(r)
      BY <2>1 DEF Writes
    <3>. HIDE DEF Opened
    <3>2. \A q \in Requests \ {r} : request'[q] = request[q] /\ Opened(q)' = Opened(q)
      BY <2>1 DEF Writes, Opened
    <3>. QED BY <2>1, <3>1, <3>2 DEF Writes
  <2>. QED BY <1>1, <1>2, <2>1, QueryMoves
<1>3. ASSUME NEW r \in Requests, NEW c \in Conns, Validate(r, c) PROVE OwnPool'
  <2>. HIDE DEF PoolSound, OwnPool, Opened, KeyOf
  <2>1. \E step, d, s, w, p : step # "opened" /\ Writes(request', r, step, d, s, w, p)
    BY <1>3, QueryMoves
  <2>. QED BY <1>1, <2>1
<1>4. ASSUME NEW r \in Requests, RequestStep(r), ~Open(r) PROVE OwnPool'
  <2>. HIDE DEF PoolSound, OwnPool, Opened, KeyOf
  <2>1. \E step, c, s, w, p : step # "opened" /\ Writes(request', r, step, c, s, w, p)
    BY <1>4, QueryMoves DEF RequestStep
  <2>. QED BY <1>1, <2>1
<1>5. ASSUME UNCHANGED request PROVE OwnPool'
  BY <1>5
<1>. QED BY <1>2, <1>3, <1>4, <1>5 DEF PoolsNext, ChangeSecret, Invalidate, EvictOnce, Closed, poolVars

\* The map changes by emptying keys, and by storing a pool under its own.
LEMMA CachedKeysKept ==
  ASSUME PoolSound, [PoolsNext]_poolVars
  PROVE  CachedKeys'
<1>. USE DEF PoolSound, PoolTypeOK, CachedKeys
<1>1. ASSUME \A k \in Keys : cached'[k] \in {cached[k], NoPool} PROVE CachedKeys'
  BY <1>1
<1>2. ASSUME NEW r \in Requests, Store(r) PROVE CachedKeys'
  <2>1. request[r].pool = Opened(r)
    BY <1>2 DEF Store, OwnPool
  <2>2. request[r].pool.key = KeyOf(r)
    BY <2>1 DEF Opened
  <2>3. \A j \in Keys : \/ cached'[j] \in {cached[j], NoPool}
                        \/ j = KeyOf(r) /\ cached'[j] = request[r].pool
    BY <1>2 DEF Store
  <2>. QED BY <2>2, <2>3
<1>3. ASSUME NEW r \in Requests, LookUp(r) PROVE CachedKeys'
  BY <1>1, <1>3 DEF LookUp
<1>4. ASSUME NEW c \in Conns, Invalidate(c) PROVE CachedKeys'
  BY <1>1, <1>4 DEF Invalidate
<1>5. ASSUME EvictOnce PROVE CachedKeys'
  BY <1>1, <1>5 DEF EvictOnce
<1>6. ASSUME UNCHANGED cached PROVE CachedKeys'
  BY <1>6
<1>. QED BY <1>2, <1>3, <1>4, <1>5, <1>6
         DEF PoolsNext, RequestStep, Validate, Resolve, Open, Discard, Begin, Finish,
             ChangeSecret, Closed, poolVars

\* Types of the registry and the requests, whose pools are under their own keys.
THEOREM PoolsAreSound == PoolsSpec => []PoolSound
<1>1. PoolsInit => PoolSound
  <2>. SUFFICES ASSUME PoolsInit PROVE PoolSound
    OBVIOUS
  <2>1. IdleQuery \in Request
    BY DEF IdleQuery, Request
  <2>2. 1 \in 1..MaxChanges + 1
    OBVIOUS
  <2>3. PoolTypeOK
    BY <2>1, <2>2 DEF PoolsInit, PoolTypeOK
  <2>4. ForPair /\ OwnPool /\ CachedKeys
    BY DEF PoolsInit, ForPair, OwnPool, CachedKeys, IdleQuery
  <2>. QED BY <2>3, <2>4 DEF PoolSound
<1>2. PoolSound /\ [PoolsNext]_poolVars => PoolSound'
  <2>. SUFFICES ASSUME PoolSound, [PoolsNext]_poolVars PROVE PoolSound'
    OBVIOUS
  <2>1. PoolTypeOK' /\ ForPair' /\ OwnPool' /\ CachedKeys'
    BY PoolsTyped, PairKept, OwnPoolKept, CachedKeysKept
  <2>. QED BY <2>1 DEF PoolSound
<1>. QED BY <1>1, <1>2, PTL DEF PoolsSpec

-----------------------------------------------------------------------------
(* No pool leaks, and the budget is kept.                                  *)

\* No pool leaks, whatever openers, changes of secrets and evictions interleave.
THEOREM PoolsNeverLeak == PoolsSpec => []PoolsAccountedFor
<1>1. PoolsInit => PoolsAccountedFor
  BY DEF PoolsInit, PoolsAccountedFor
<1>2. PoolSound /\ PoolsAccountedFor /\ [PoolsNext]_poolVars => PoolsAccountedFor'
  <2>. SUFFICES ASSUME PoolSound, PoolsAccountedFor, [PoolsNext]_poolVars, NEW p \in open'
                PROVE  \/ cached'[p.key] = p
                       \/ request'[p.opener].step = "opened" /\ request'[p.opener].pool = p
    BY DEF PoolsAccountedFor
  <2>. DEFINE Kept == cached'[p.key] = p
              Opening == request[p.opener].step = "opened" /\ request[p.opener].pool = p
              StillOpening == request'[p.opener].step = "opened" /\ request'[p.opener].pool = p
  <2>0. /\ open \in SUBSET Pool /\ cached \in [Keys -> Pool \cup {NoPool}]
        /\ \A q \in Pool : q.key \in Keys /\ q.opener \in Requests /\ q # NoPool
    BY DEF PoolSound, PoolTypeOK, Pool, NoPool, Keys
  <2>1. ASSUME p \in open PROVE p \in Pool /\ (cached[p.key] = p \/ Opening)
    BY <2>0, <2>1 DEF PoolsAccountedFor
  <2>2. ASSUME NEW r \in Requests, NEW step, NEW c, NEW s, NEW w, NEW g,
               Writes(request', r, step, c, s, w, g), request[r].step # "opened", p \in open, Opening
        PROVE  StillOpening
    BY <2>0, <2>2 DEF Writes
  <2>3. ASSUME NEW r \in Requests, Open(r) PROVE Kept \/ StillOpening
    <3>1. request[r].step # "opened" /\ UNCHANGED cached
      BY <2>3 DEF Open
    <3>2. CASE p \in open
      <4>1. \E step, c, s, w, g : Writes(request', r, step, c, s, w, g)
        BY <2>3, QueryMoves
      <4>. QED BY <2>1, <2>2, <3>1, <3>2, <4>1
    <3>3. CASE p \notin open
      <4>1. p = Opened(r) /\ Writes(request', r, "opened", request[r].conn, request[r].seen, request[r].want, Opened(r))
        BY <2>3, <3>3, QueryMoves DEF Open
      <4>2. p.opener = r
        BY <4>1 DEF Opened
      <4>. QED BY <4>1, <4>2 DEF Writes
    <3>. QED BY <3>2, <3>3
  <2>4. ASSUME NEW r \in Requests, LookUp(r) PROVE Kept \/ StillOpening
    <3>1. /\ p \in open /\ request[r].step # "opened" /\ KeyOf(r) \in Keys
          /\ p = cached[KeyOf(r)] => UNCHANGED cached
      BY <2>4, KeyTyped DEF LookUp
    <3>2. \E step, c, s, w, g : Writes(request', r, step, c, s, w, g)
      BY <2>4, QueryMoves
    <3>3. Opening => StillOpening
      BY <2>2, <3>1, <3>2
    <3>4. cached[p.key] = p => Kept
      BY <2>0, <2>1, <2>4, <3>1 DEF LookUp
    <3>. QED BY <2>1, <3>1, <3>3, <3>4
  <2>5. ASSUME NEW r \in Requests, Discard(r) PROVE Kept \/ StillOpening
    <3>1. p \in open /\ p # request[r].pool /\ UNCHANGED cached
      BY <2>5 DEF Discard, InVain
    <3>2. ASSUME Opening PROVE StillOpening
      <4>1. p.opener # r
        BY <3>1, <3>2
      <4>. QED BY <2>0, <2>1, <2>5, <3>1, <3>2, <4>1, QueryMoves DEF Writes
    <3>. QED BY <2>1, <3>1, <3>2
  <2>6. ASSUME NEW r \in Requests, Store(r) PROVE Kept \/ StillOpening
    <3>0. request[r].pool = Opened(r) /\ KeyOf(r) \in Keys
      BY <2>6, KeyTyped DEF Store, PoolSound, OwnPool
    <3>1. p \in open /\ p \in Pool /\ p # cached[KeyOf(r)]
      BY <2>0, <2>6 DEF Store
    <3>2. ASSUME cached[p.key] = p PROVE Kept
      <4>1. p.key # KeyOf(r) /\ p.key \in Keys /\ p # NoPool
        BY <2>0, <3>1, <3>2
      <4>2. CASE cached' = [cached EXCEPT ![KeyOf(r)] = NoPool]
        BY <2>0, <3>2, <4>1, <4>2
      <4>3. CASE \E V \in SUBSET (TenantKeys(cached) \ {KeyOf(r)}) :
                   /\ cached' = [j \in Keys |-> IF j = KeyOf(r) THEN request[r].pool
                                                ELSE IF j \in V THEN NoPool ELSE cached[j]]
                   /\ open' = open \ (({cached[KeyOf(r)]} \cup {cached[v] : v \in V}) \ {NoPool})
        BY <3>2, <4>1, <4>3
      <4>. QED BY <2>6, <4>2, <4>3 DEF Store
    <3>3. ASSUME Opening, p.opener # r PROVE StillOpening
      <4>1. \E step, c, s, w, g : Writes(request', r, step, c, s, w, g)
        BY <2>6, QueryMoves
      <4>. QED BY <2>0, <3>1, <3>3, <4>1 DEF Writes
    <3>4. ASSUME Opening, p.opener = r PROVE Kept
      <4>1. p = request[r].pool /\ p.key = KeyOf(r)
        BY <3>0, <3>4 DEF Opened
      <4>. QED BY <2>6, <3>0, <3>1, <4>1 DEF Store
    <3>. QED BY <2>1, <3>1, <3>2, <3>3, <3>4
  <2>7. ASSUME NEW r \in Requests, Resolve(r) \/ Begin(r) \/ Finish(r) PROVE Kept \/ StillOpening
    <3>1. p \in open /\ UNCHANGED cached /\ request[r].step # "opened"
      BY <2>7 DEF Resolve, Begin, Finish
    <3>2. \E step, c, s, w, g : Writes(request', r, step, c, s, w, g)
      BY <2>7, QueryMoves
    <3>. QED BY <2>1, <2>2, <3>1, <3>2
  <2>8. ASSUME NEW r \in Requests, NEW c \in Conns, Validate(r, c) PROVE Kept \/ StillOpening
    <3>1. p \in open /\ UNCHANGED cached /\ request[r].step # "opened"
      BY <2>8 DEF Validate, IdleQuery
    <3>2. \E step, d, s, w, g : Writes(request', r, step, d, s, w, g)
      BY <2>8, QueryMoves
    <3>. QED BY <2>1, <2>2, <3>1, <3>2
  <2>9. ASSUME UNCHANGED <<cached, open, request>> PROVE Kept \/ StillOpening
    BY <2>1, <2>9
  <2>10. ASSUME NEW c \in Conns, Invalidate(c) PROVE Kept \/ StillOpening
    <3>1. p \in open /\ p # cached[c] /\ request' = request /\ cached' = [cached EXCEPT ![c] = NoPool]
      BY <2>10 DEF Invalidate
    <3>. QED BY <2>0, <2>1, <3>1
  <2>11. ASSUME EvictOnce PROVE Kept \/ StillOpening
    <3>1. PICK S \in SUBSET Keys :
            /\ cached' = [k \in Keys |-> IF k \in S THEN NoPool ELSE cached[k]]
            /\ open' = open \ {cached[k] : k \in S}
      BY <2>11 DEF EvictOnce
    <3>2. request' = request /\ p \in open
      BY <2>11, <3>1 DEF EvictOnce
    <3>. QED BY <2>0, <2>1, <3>1, <3>2
  <2>. HIDE DEF Kept, StillOpening, Opening
  <2>. QED BY <2>3, <2>4, <2>5, <2>6, <2>7, <2>8, <2>9, <2>10, <2>11
           DEF PoolsNext, RequestStep, ChangeSecret, Closed, poolVars, Kept, StillOpening
<1>. QED BY <1>1, <1>2, PoolsAreSound, PTL DEF PoolsSpec

\* A set covered by a function of a finite set is no larger.
LEMMA CoveredIsSmaller ==
  ASSUME NEW S, IsFiniteSet(S), NEW f, NEW T, \A t \in T : \E x \in S : f[x] = t
  PROVE  IsFiniteSet(T) /\ Cardinality(T) <= Cardinality(S)
<1>. DEFINE U == {x \in S : f[x] \in T}
            g == [x \in U |-> f[x]]
<1>1. IsFiniteSet(U) /\ Cardinality(U) <= Cardinality(S)
  BY FS_Subset
<1>2. g \in Surjection(U, T)
  BY DEF Surjection
<1>3. IsFiniteSet(T) /\ Cardinality(T) <= Cardinality(U)
  BY <1>1, <1>2, FS_Surjection
<1>4. Cardinality(S) \in Nat /\ Cardinality(T) \in Nat /\ Cardinality(U) \in Nat
  BY <1>1, <1>3, FS_CardinalityType
<1>. QED BY <1>1, <1>3, <1>4

\* The union of two finite sets, whose sizes count once at least.
LEMMA UnionIsSmaller ==
  ASSUME NEW S, IsFiniteSet(S), NEW T, IsFiniteSet(T)
  PROVE  /\ IsFiniteSet(S \cup T) /\ Cardinality(S \cup T) \in Nat
         /\ Cardinality(S) \in Nat /\ Cardinality(T) \in Nat
         /\ Cardinality(S \cup T) <= Cardinality(S) + Cardinality(T)
         /\ S \cap T = {} => Cardinality(S \cup T) = Cardinality(S) + Cardinality(T)
<1>1. IsFiniteSet(S \cap T)
  BY FS_Subset
<1>2. Cardinality(S \cap T) \in Nat /\ Cardinality(S) \in Nat /\ Cardinality(T) \in Nat
  BY <1>1, FS_CardinalityType
<1>3. S \cap T = {} => Cardinality(S \cap T) = 0
  BY FS_EmptySet
<1>4. /\ IsFiniteSet(S \cup T)
      /\ Cardinality(S \cup T) = Cardinality(S) + Cardinality(T) - Cardinality(S \cap T)
  BY FS_Union
<1>5. Cardinality(S \cup T) \in Nat
  BY <1>4, FS_CardinalityType
<1>. QED BY <1>2, <1>3, <1>4, <1>5

\* The pools that are waited for, and the request that has stored its own and
\* waits.
Leaving == {p \in closing : p.key # Shared}
Storing == \E r \in Requests : lock = r /\ request[r].step = "ready"
Begun == {r \in Requests : request[r] # IdleQuery}

\* The map is within the budget, also together with the pools that leave it,
\* but for the one pool that a stored one has replaced.
BudgetInv ==
  /\ IsFiniteSet(Begun)
  /\ IsFiniteSet(closing)
  /\ lock = Nobody => closing = {}
  /\ Cardinality(TenantKeys(cached)) <= MaxOrgPools
  /\ \/ Cardinality(TenantKeys(cached)) + Cardinality(Leaving) <= MaxOrgPools
     \/ Storing /\ Cardinality(Leaving) <= 1

\* Tenant keys are pairs.
LEMMA TenantKeysFinite ==
  ASSUME PoolSound
  PROVE  /\ TenantKeys(cached) \in SUBSET Conns
         /\ \A S \in SUBSET Conns : IsFiniteSet(S) /\ Cardinality(S) \in Nat
<1>1. TenantKeys(cached) \in SUBSET Conns
  BY DEF PoolSound, PoolTypeOK, TenantKeys, Filled, Keys
<1>. QED BY <1>1, FS_Subset, FS_CardinalityType

\* What remains when the pools under some keys are taken out and closed.
LEMMA TakenOut ==
  ASSUME PoolSound, PoolSound', Cardinality(TenantKeys(cached)) <= MaxOrgPools, NEW S \in SUBSET Keys,
         \A k \in Keys : cached'[k] = IF k \in S THEN NoPool ELSE cached[k],
         closing' \subseteq {cached[k] : k \in S} \ {NoPool}
  PROVE  /\ IsFiniteSet(closing')
         /\ Cardinality(TenantKeys(cached)') <= MaxOrgPools
         /\ Cardinality(TenantKeys(cached)') + Cardinality(Leaving') <= MaxOrgPools
<1>. DEFINE T == TenantKeys(cached)
            O == T \cap S
<1>1. T \in SUBSET Conns /\ IsFiniteSet(T) /\ Cardinality(T) \in Nat /\ Cardinality(T) <= MaxOrgPools
  BY TenantKeysFinite
<1>2. TenantKeys(cached)' = T \ O
  BY DEF TenantKeys, Filled
<1>3. IsFiniteSet(O) /\ Cardinality(O) \in Nat /\ T \cap O = O
  BY <1>1, FS_Subset, FS_CardinalityType
<1>4. IsFiniteSet(T \ O) /\ Cardinality(T \ O) = Cardinality(T) - Cardinality(O)
  BY <1>1, <1>3, FS_Difference
<1>5. \A p \in Leaving' : \E k \in O : cached[k] = p
  BY DEF Leaving, TenantKeys, Filled, PoolSound, CachedKeys
<1>6. IsFiniteSet(Leaving') /\ Cardinality(Leaving') <= Cardinality(O)
  <2>. HIDE DEF O
  <2>. QED BY <1>3, <1>5, CoveredIsSmaller
<1>7. IsFiniteSet(closing')
  <2>1. \A p \in closing' : \E k \in Keys : cached[k] = p
    OBVIOUS
  <2>2. IsFiniteSet(Keys)
    BY FS_AddElement DEF Keys
  <2>. QED BY <2>1, <2>2, CoveredIsSmaller
<1>8. Cardinality(Leaving') \in Nat
  BY <1>6, FS_CardinalityType
<1>. HIDE DEF T, O
<1>. QED BY <1>1, <1>2, <1>3, <1>4, <1>6, <1>7, <1>8

\* A stored pool has a place in the map, and replaces one pool at most.
LEMMA StoredInPlace ==
  ASSUME PoolSound, PoolSound', BudgetInv, NEW r \in Requests, Store(r)
  PROVE  /\ IsFiniteSet(closing')
         /\ Cardinality(TenantKeys(cached)') <= MaxOrgPools
         /\ \/ Cardinality(TenantKeys(cached)') + Cardinality(Leaving') <= MaxOrgPools
            \/ Storing' /\ Cardinality(Leaving') <= 1
<1>. DEFINE k == KeyOf(r)
            T == TenantKeys(cached)
            others == T \ {k}
            Stores(V) ==
              LET P == ({cached[k]} \cup {cached[v] : v \in V}) \ {NoPool}
              IN  /\ k # Shared => MaxOrgPools > 0
                  /\ IF k = Shared THEN V = {} ELSE Eviction(V, others)
                  /\ cached' = [j \in Keys |->
                       IF j = k THEN request[r].pool ELSE IF j \in V THEN NoPool ELSE cached[j]]
                  /\ CloseLocked(r, P)
                  /\ request' = Given(r, request[r].pool)
            Refuses ==
              /\ k # Shared /\ MaxOrgPools = 0
              /\ cached' = [cached EXCEPT ![k] = NoPool]
              /\ CloseLocked(r, {cached[k]} \ {NoPool})
<1>0. /\ k \in Keys /\ cached \in [Keys -> Pool \cup {NoPool}]
      /\ T \in SUBSET Conns /\ IsFiniteSet(T) /\ Cardinality(T) \in Nat /\ Cardinality(T) <= MaxOrgPools
  BY KeyTyped, TenantKeysFinite DEF Store, BudgetInv, PoolSound, PoolTypeOK
<1>1. Refuses \/ \E V \in SUBSET others : Stores(V)
  BY DEF Store
<1>2. CASE Refuses
  <2>1. closing' \subseteq {cached[j] : j \in {k}} \ {NoPool}
    BY <1>2 DEF CloseLocked
  <2>2. \A j \in Keys : cached'[j] = IF j \in {k} THEN NoPool ELSE cached[j]
    BY <1>0, <1>2
  <2>3. {k} \in SUBSET Keys
    BY <1>0
  <2>. HIDE DEF k
  <2>. QED BY <1>0, <2>1, <2>2, <2>3, TakenOut
<1>3. ASSUME NEW V \in SUBSET others, Stores(V)
      PROVE  /\ IsFiniteSet(closing')
             /\ Cardinality(TenantKeys(cached)') <= MaxOrgPools
             /\ \/ Cardinality(TenantKeys(cached)') + Cardinality(Leaving') <= MaxOrgPools
                \/ Storing' /\ Cardinality(Leaving') <= 1
  <2>0. /\ closing' = ({cached[k]} \cup {cached[v] : v \in V}) \ {NoPool}
        /\ request'[r].step = "ready"
        /\ lock' = IF closing' = {} THEN Nobody ELSE r
    <3>1. request[r].pool \in Pool \cup {NoPool} /\ "ready" \in RequestSteps
      BY DEF PoolSound, PoolTypeOK, Request, RequestSteps
    <3>2. Writes(request', r, "ready", request[r].conn, request[r].seen, request[r].want, request[r].pool)
      BY <1>3, <3>1, RequestWritten DEF Given, PoolSound
    <3>3. request'[r].step = "ready"
      BY <3>2 DEF Writes
    <3>. QED BY <1>3, <3>3 DEF CloseLocked
  <2>1. CASE k = Shared
    <3>1. V = {} /\ cached' = [j \in Keys |-> IF j = k THEN request[r].pool ELSE cached[j]]
      BY <1>3, <2>1
    <3>2. TenantKeys(cached)' = TenantKeys(cached)
      BY <1>0, <2>1, <3>1 DEF TenantKeys, Filled
    <3>3. Leaving' = {} /\ closing' \subseteq {cached[k]}
      BY <1>0, <2>0, <2>1, <3>1 DEF Leaving, PoolSound, CachedKeys
    <3>4. IsFiniteSet(closing') /\ Cardinality(Leaving') = 0
      BY <3>3, FS_Singleton, FS_Subset, FS_EmptySet
    <3>. QED BY <1>0, <3>2, <3>4
  <2>2. CASE k # Shared
    <3>0. MaxOrgPools > 0 /\ Eviction(V, others)
      BY <1>3, <2>2
    <3>1. /\ IsFiniteSet(others) /\ IsFiniteSet(others \ V) /\ IsFiniteSet(V)
          /\ Cardinality(others) \in Nat /\ Cardinality(others \ V) \in Nat /\ Cardinality(V) \in Nat
          /\ Cardinality(others \ V) = Cardinality(others) - Cardinality(V)
          /\ Cardinality(others) = IF k \in T THEN Cardinality(T) - 1 ELSE Cardinality(T)
      <4>1. IsFiniteSet(others) /\ Cardinality(others) = IF k \in T THEN Cardinality(T) - 1 ELSE Cardinality(T)
        BY <1>0, FS_RemoveElement
      <4>2. others \cap V = V
        OBVIOUS
      <4>3. IsFiniteSet(others \ V) /\ Cardinality(others \ V) = Cardinality(others) - Cardinality(V)
        BY <4>1, <4>2, FS_Difference
      <4>. QED BY <4>1, <4>3, FS_Subset, FS_CardinalityType
    <3>2. Cardinality(others \ V) <= MaxOrgPools - 1
      <4>. HIDE DEF others
      <4>1. Cardinality(others) < MaxOrgPools => V = {}
        BY <3>0 DEF Eviction
      <4>2. ~(Cardinality(others) < MaxOrgPools) => Cardinality(others \ V) = MaxOrgPools - 1
        BY <3>0 DEF Eviction
      <4>. QED BY <3>1, <4>1, <4>2, FS_EmptySet
    <3>3. TenantKeys(cached)' \subseteq (others \ V) \cup {k}
      BY <1>3 DEF TenantKeys, Filled
    <3>4. /\ IsFiniteSet((others \ V) \cup {k})
          /\ Cardinality((others \ V) \cup {k}) <= MaxOrgPools
      <4>. HIDE DEF others, k
      <4>1. /\ IsFiniteSet((others \ V) \cup {k})
            /\ \/ Cardinality((others \ V) \cup {k}) = Cardinality(others \ V)
               \/ Cardinality((others \ V) \cup {k}) = Cardinality(others \ V) + 1
        BY <3>1, FS_AddElement
      <4>. QED BY <3>1, <3>2, <4>1
    <3>5. Cardinality(TenantKeys(cached)') <= MaxOrgPools
      <4>1. Cardinality(TenantKeys(cached)') <= Cardinality((others \ V) \cup {k})
        BY <3>3, <3>4, FS_Subset
      <4>2. Cardinality(TenantKeys(cached)') \in Nat /\ Cardinality((others \ V) \cup {k}) \in Nat
        BY <3>3, <3>4, FS_Subset, FS_CardinalityType
      <4>. QED BY <3>4, <4>1, <4>2
    <3>6. \/ closing' \subseteq {}
          \/ \E p : closing' \subseteq {p}
      <4>1. CASE cached[k] # NoPool
        <5>1. k \in T
          BY <1>0, <2>2, <4>1 DEF TenantKeys, Filled
        <5>2. Cardinality(others) < MaxOrgPools
          <6>. HIDE DEF others
          <6>. QED BY <1>0, <3>1, <5>1
        <5>3. V = {}
          BY <3>0, <5>2 DEF Eviction
        <5>. QED BY <2>0, <5>3
      <4>2. CASE cached[k] = NoPool
        <5>1. k \notin T
          BY <4>2 DEF TenantKeys, Filled
        <5>2. Cardinality(V) <= 1
          <6>. HIDE DEF others
          <6>1. Cardinality(others) < MaxOrgPools => V = {}
            BY <3>0 DEF Eviction
          <6>2. ~(Cardinality(others) < MaxOrgPools) => Cardinality(others \ V) = MaxOrgPools - 1
            BY <3>0 DEF Eviction
          <6>. QED BY <1>0, <3>1, <5>1, <6>1, <6>2, FS_EmptySet
        <5>3. V = {} \/ \E v : V = {v}
          <6>1. Cardinality(V) = 0 \/ Cardinality(V) = 1
            BY <3>1, <5>2
          <6>2. Cardinality(V) = 0 => V = {}
            BY <3>1, FS_EmptySet
          <6>3. Cardinality(V) = 1 => \E v : V = {v}
            BY <3>1, FS_Singleton
          <6>. QED BY <6>1, <6>2, <6>3
        <5>. QED BY <2>0, <4>2, <5>3
      <4>. QED BY <4>1, <4>2
    <3>7. /\ IsFiniteSet(closing') /\ IsFiniteSet(Leaving')
          /\ Cardinality(Leaving') <= 1 /\ Cardinality(Leaving') \in Nat
          /\ closing' = {} => Cardinality(Leaving') = 0
      <4>1. Leaving' \subseteq closing'
        BY DEF Leaving
      <4>2. PICK p : closing' \subseteq {p}
        BY <3>6
      <4>3. IsFiniteSet({p}) /\ Cardinality({p}) = 1
        BY FS_Singleton
      <4>4. IsFiniteSet(closing')
        BY <4>2, <4>3, FS_Subset
      <4>5. IsFiniteSet(Leaving') /\ Cardinality(Leaving') <= 1
        BY <4>1, <4>2, <4>3, FS_Subset
      <4>6. closing' = {} => Cardinality(Leaving') = 0
        BY <4>1, FS_EmptySet
      <4>. QED BY <4>4, <4>5, <4>6, FS_CardinalityType
    <3>8. closing' # {} => Storing'
      BY <2>0 DEF Storing
    <3>9. Cardinality(TenantKeys(cached)') \in Nat
      BY <3>3, <3>4, FS_Subset, FS_CardinalityType
    <3>. QED BY <3>5, <3>7, <3>8, <3>9
  <2>. QED BY <2>1, <2>2
<1>. HIDE DEF Refuses, Stores, others
<1>. QED BY <1>1, <1>2, <1>3

\* Who has begun, and who waits for a Close after storing a pool.
LEMMA WaitingKept ==
  ASSUME PoolSound, PoolSound', BudgetInv, [PoolsNext]_poolVars
  PROVE  /\ IsFiniteSet(Begun')
         /\ UNCHANGED lock => (Storing => Storing')
<1>1. ASSUME NEW r \in Requests, \A q \in Requests \ {r} : request'[q] = request[q]
      PROVE  IsFiniteSet(Begun')
  <2>1. Begun' \in SUBSET (Begun \cup {r})
    BY <1>1 DEF Begun
  <2>2. IsFiniteSet(Begun \cup {r})
    BY FS_AddElement DEF BudgetInv
  <2>. QED BY <2>1, <2>2, FS_Subset
<1>2. ASSUME NEW r \in Requests, \A q \in Requests \ {r} : request'[q] = request[q],
             request[r].step # "ready" \/ lock # r
      PROVE  UNCHANGED lock => (Storing => Storing')
  BY <1>2 DEF Storing
<1>3. ASSUME NEW r \in Requests, RequestStep(r)
      PROVE  /\ \A q \in Requests \ {r} : request'[q] = request[q]
             /\ request[r].step # "ready" \/ lock # r
  <2>1. \A q \in Requests \ {r} : request'[q] = request[q]
    BY <1>3, QueryMoves DEF RequestStep, Writes
  <2>2. request[r].step # "ready" \/ lock # r
    BY <1>3 DEF RequestStep, Resolve, LookUp, Open, Discard, Store, Begin, Finish
  <2>. QED BY <2>1, <2>2
<1>4. ASSUME NEW r \in Requests, NEW c \in Conns, Validate(r, c)
      PROVE  /\ \A q \in Requests \ {r} : request'[q] = request[q]
             /\ request[r].step # "ready" \/ lock # r
  <2>1. \A q \in Requests \ {r} : request'[q] = request[q]
    BY <1>4, QueryMoves DEF Writes
  <2>2. request[r].step # "ready"
    BY <1>4 DEF Validate, IdleQuery
  <2>. QED BY <2>1, <2>2
<1>5. ASSUME UNCHANGED request
      PROVE  IsFiniteSet(Begun') /\ (UNCHANGED lock => (Storing => Storing'))
  BY <1>5 DEF Storing, Begun, BudgetInv
<1>. QED BY <1>1, <1>2, <1>3, <1>4, <1>5
         DEF PoolsNext, ChangeSecret, Invalidate, EvictOnce, Closed, poolVars

\* Every step keeps the map and the pools that leave it within the budget.
LEMMA BudgetKept ==
  ASSUME PoolSound, PoolSound', BudgetInv, [PoolsNext]_poolVars
  PROVE  BudgetInv'
<1>. DEFINE Within == /\ IsFiniteSet(closing')
                      /\ Cardinality(TenantKeys(cached)') <= MaxOrgPools
                      /\ \/ Cardinality(TenantKeys(cached)') + Cardinality(Leaving') <= MaxOrgPools
                         \/ Storing' /\ Cardinality(Leaving') <= 1
                      /\ lock' = Nobody => closing' = {}
<1>0. IsFiniteSet(Begun') /\ (UNCHANGED lock => (Storing => Storing'))
  BY WaitingKept
<1>1. ASSUME NEW S \in SUBSET Keys,
             \A k \in Keys : cached'[k] = IF k \in S THEN NoPool ELSE cached[k],
             closing' = {cached[k] : k \in S} \ {NoPool},
             lock' = Nobody => closing' = {}
      PROVE  Within
  BY <1>1, TakenOut DEF BudgetInv
<1>2. ASSUME NEW c \in Keys, NEW owner, owner # Nobody,
             cached' = [cached EXCEPT ![c] = NoPool], CloseLocked(owner, {cached[c]} \ {NoPool})
      PROVE  Within
  <2>1. closing' = {cached[k] : k \in {c}} \ {NoPool}
    BY <1>2 DEF CloseLocked
  <2>2. \A k \in Keys : cached'[k] = IF k \in {c} THEN NoPool ELSE cached[k]
    BY <1>2 DEF PoolSound, PoolTypeOK
  <2>3. lock' = Nobody => closing' = {}
    BY <1>2 DEF CloseLocked
  <2>. HIDE DEF Within
  <2>. QED BY <1>1, <2>1, <2>2, <2>3
<1>3. ASSUME UNCHANGED <<cached, lock, closing>> PROVE Within
  <2>1. UNCHANGED <<TenantKeys(cached), Leaving>>
    BY <1>3 DEF TenantKeys, Filled, Leaving
  <2>. QED BY <1>0, <1>3, <2>1 DEF BudgetInv
<1>4. ASSUME NEW r \in Requests, LookUp(r) PROVE Within
  <2>1. KeyOf(r) \in Keys /\ r # Nobody
    BY <1>4, KeyTyped DEF LookUp
  <2>2. CASE UNCHANGED <<cached, closing>> /\ lock' = Nobody
    BY <1>3, <1>4, <2>2 DEF LookUp
  <2>3. CASE /\ cached' = [cached EXCEPT ![KeyOf(r)] = NoPool]
             /\ CloseLocked(r, {cached[KeyOf(r)]} \ {NoPool})
    <3>. HIDE DEF Within
    <3>. QED BY <1>2, <2>1, <2>3
  <2>. QED BY <1>4, <2>2, <2>3 DEF LookUp, LockAfterHit
<1>5. ASSUME NEW r \in Requests, Store(r) PROVE Within
  <2>1. lock' = Nobody => closing' = {}
    BY <1>5 DEF Store, CloseLocked
  <2>. QED BY <1>5, <2>1, StoredInPlace
<1>6. ASSUME NEW c \in Conns, Invalidate(c) PROVE Within
  <2>1. c \in Keys /\ Server # Nobody
    BY DEF Keys
  <2>2. cached' = [cached EXCEPT ![c] = NoPool] /\ CloseLocked(Server, {cached[c]} \ {NoPool})
    BY <1>6 DEF Invalidate
  <2>. HIDE DEF Within
  <2>. QED BY <1>2, <2>1, <2>2
<1>7. ASSUME EvictOnce PROVE Within
  <2>1. PICK S \in SUBSET {k \in Keys : IdleEntry(k)} :
          /\ cached' = [k \in Keys |-> IF k \in S THEN NoPool ELSE cached[k]]
          /\ CloseLocked(Server, {cached[k] : k \in S})
    BY <1>7 DEF EvictOnce
  <2>2. NoPool \notin {cached[k] : k \in S}
    BY <2>1 DEF IdleEntry
  <2>3. /\ closing' = {cached[k] : k \in S} \ {NoPool}
        /\ lock' = Nobody => closing' = {}
    BY <2>1, <2>2 DEF CloseLocked
  <2>4. S \in SUBSET Keys /\ \A k \in Keys : cached'[k] = IF k \in S THEN NoPool ELSE cached[k]
    BY <2>1
  <2>. HIDE DEF Within
  <2>. QED BY <1>1, <2>3, <2>4
<1>8. ASSUME Closed PROVE Within
  <2>1. closing' = {} /\ UNCHANGED cached
    BY <1>8 DEF Closed
  <2>2. closing' = {cached[k] : k \in {}} \ {NoPool}
    BY <2>1
  <2>3. {} \in SUBSET Keys /\ \A k \in Keys : cached'[k] = IF k \in {} THEN NoPool ELSE cached[k]
    BY <2>1
  <2>. HIDE DEF Within
  <2>. QED BY <1>1, <2>1, <2>2, <2>3
<1>9. Within
  <2>. HIDE DEF Within
  <2>. QED BY <1>3, <1>4, <1>5, <1>6, <1>7, <1>8
           DEF PoolsNext, RequestStep, Validate, Resolve, Open, Discard, Begin, Finish,
               ChangeSecret, poolVars
<1>. QED BY <1>0, <1>9 DEF BudgetInv

\* An open pool is in the map, leaves it, or is in the hands of an opener.
LEMMA HoldingCounted ==
  ASSUME PoolSound, PoolsAccountedFor, BudgetInv
  PROVE  WithinBudget
<1>. DEFINE T == TenantKeys(cached)
            Opening == {r \in Requests : request[r].step = "opened" /\ request[r].want # 0}
            Waiting == {r \in Requests : request[r].step = "ready" /\ lock = r}
            InMap == {p \in open : p.key # Shared /\ cached[p.key] = p}
            InHands == {p \in open : p.key # Shared /\ cached[p.key] # p}
<1>1. T \in SUBSET Conns /\ IsFiniteSet(T) /\ Cardinality(T) \in Nat
  BY TenantKeysFinite
<1>2. IsFiniteSet(Opening) /\ IsFiniteSet(Waiting) /\ Opening \cap Waiting = {} /\ Openers = Opening \cup Waiting
  <2>1. Opening \in SUBSET Begun /\ Waiting \in SUBSET Begun
    BY DEF Begun, IdleQuery
  <2>2. Opening \cap Waiting = {} /\ Openers = Opening \cup Waiting
    BY DEF Openers
  <2>. QED BY <2>1, <2>2, FS_Subset DEF BudgetInv
<1>3. IsFiniteSet(InMap) /\ Cardinality(InMap) <= Cardinality(T)
  <2>1. \A p \in InMap : \E k \in T : cached[k] = p
    BY DEF TenantKeys, Filled, PoolSound, PoolTypeOK, Pool, NoPool
  <2>. HIDE DEF InMap, T
  <2>. QED BY <1>1, <2>1, CoveredIsSmaller
<1>4. IsFiniteSet(InHands) /\ Cardinality(InHands) <= Cardinality(Opening)
  <2>. DEFINE f == [r \in Requests |-> request[r].pool]
  <2>1. ASSUME NEW p \in InHands PROVE p.opener \in Opening /\ f[p.opener] = p
    <3>1. p.opener \in Requests /\ p.key # Shared
      BY DEF PoolSound, PoolTypeOK, Pool
    <3>2. request[p.opener].step = "opened" /\ request[p.opener].pool = p
      BY DEF PoolsAccountedFor
    <3>3. p = Opened(p.opener)
      BY <3>1, <3>2 DEF PoolSound, OwnPool
    <3>4. request[p.opener].want # 0
      BY <3>1, <3>3 DEF Opened, KeyOf
    <3>. QED BY <3>1, <3>2, <3>4
  <2>2. \A p \in InHands : \E r \in Opening : f[r] = p
    BY <2>1
  <2>. HIDE DEF InHands, Opening, f
  <2>. QED BY <1>2, <2>2, CoveredIsSmaller
<1>5. IsFiniteSet(Leaving)
  BY FS_Subset DEF Leaving, BudgetInv
<1>6. Holding = (InMap \cup InHands) \cup Leaving
  BY DEF Holding, Leaving
<1>7. Cardinality(T) + Cardinality(Leaving) <= MaxOrgPools + Cardinality(Waiting)
  <2>1. /\ Cardinality(T) <= MaxOrgPools
        /\ \/ Cardinality(T) + Cardinality(Leaving) <= MaxOrgPools
           \/ Storing /\ Cardinality(Leaving) <= 1
    BY DEF BudgetInv
  <2>2. Cardinality(Waiting) \in Nat /\ Cardinality(Leaving) \in Nat
    BY <1>2, <1>5, FS_CardinalityType
  <2>3. Storing => Cardinality(Waiting) # 0
    <3>1. Storing => Waiting # {}
      BY DEF Storing
    <3>. QED BY <1>2, <3>1, FS_EmptySet
  <2>. HIDE DEF T, Waiting
  <2>. QED BY <1>1, <2>1, <2>2, <2>3
<1>. HIDE DEF T, Opening, Waiting, InMap, InHands
<1>8. /\ IsFiniteSet(InMap \cup InHands)
      /\ Cardinality(InMap \cup InHands) <= Cardinality(InMap) + Cardinality(InHands)
      /\ Cardinality(InMap) \in Nat /\ Cardinality(InHands) \in Nat
      /\ Cardinality(InMap \cup InHands) \in Nat
  BY <1>3, <1>4, UnionIsSmaller
<1>9. /\ Cardinality(Holding) <= Cardinality(InMap \cup InHands) + Cardinality(Leaving)
      /\ Cardinality(Holding) \in Nat /\ Cardinality(Leaving) \in Nat
  BY <1>5, <1>6, <1>8, UnionIsSmaller
<1>10. /\ Cardinality(Openers) = Cardinality(Opening) + Cardinality(Waiting)
       /\ Cardinality(Opening) \in Nat /\ Cardinality(Waiting) \in Nat
  BY <1>2, UnionIsSmaller
<1>11. Cardinality(Holding) <= MaxOrgPools + Cardinality(Opening) + Cardinality(Waiting)
  BY <1>1, <1>3, <1>4, <1>7, <1>8, <1>9, <1>10
<1>. QED BY <1>10, <1>11 DEF WithinBudget

\* The tenant pools that hold connections exceed their share of the budget by
\* no more than the requests that are opening one, however many of them there
\* are and whatever is evicted, invalidated and still closed meanwhile.
THEOREM PoolsWithinBudget == PoolsSpec => []WithinBudget
<1>1. PoolsInit => BudgetInv
  <2>. SUFFICES ASSUME PoolsInit PROVE BudgetInv
    OBVIOUS
  <2>1. TenantKeys(cached) = {} /\ Leaving = {} /\ Begun = {} /\ closing = {}
    BY DEF PoolsInit, TenantKeys, Filled, Leaving, Begun
  <2>. QED BY <2>1, FS_EmptySet DEF BudgetInv
<1>2. PoolSound /\ PoolSound' /\ BudgetInv /\ [PoolsNext]_poolVars => BudgetInv'
  BY BudgetKept
<1>3. PoolSound /\ PoolsAccountedFor /\ BudgetInv => WithinBudget
  BY HoldingCounted
<1>. QED BY <1>1, <1>2, <1>3, PoolsAreSound, PoolsNeverLeak, PTL DEF PoolsSpec

-----------------------------------------------------------------------------
(* A query runs in the pool it resolved.                                   *)

\* Versions grow: a secret that is read again is gone or no older.
Versions ==
  /\ \A c \in Conns : secret[c] <= clock
  /\ \A r \in Requests :
       /\ request[r].seen <= clock
       /\ request[r].step = "validated" =>
            request[r].want = 0 /\ secret[request[r].conn] \in {0} \cup {v \in Nat : v >= request[r].seen}
       /\ request[r].want # 0 => request[r].want >= request[r].seen

ResolvedInv == Versions /\ PoolIsWhatWasResolved

\* A query runs with a pool of its own pair and of exactly the version that it
\* resolved, which is no older than the one it was validated against.
THEOREM PoolsAreResolved == PoolsSpec => []PoolIsWhatWasResolved
<1>1. PoolsInit => ResolvedInv
  BY DEF PoolsInit, ResolvedInv, Versions, PoolIsWhatWasResolved, IdleQuery
<1>2. PoolSound /\ ResolvedInv /\ [PoolsNext]_poolVars => ResolvedInv'
  <2>. SUFFICES ASSUME PoolSound, ResolvedInv, [PoolsNext]_poolVars PROVE ResolvedInv'
    OBVIOUS
  <2>0. /\ secret \in [Conns -> Nat] /\ clock \in Nat
        /\ \A r \in Requests : request[r].seen \in Nat /\ request[r].want \in Nat
    BY DEF PoolSound, PoolTypeOK, Request
  \* The part of the invariant about one request.
  <2>. DEFINE Versioned(step, conn, seen, want, pool) ==
                /\ seen <= clock
                /\ step = "validated" =>
                     want = 0 /\ secret[conn] \in {0} \cup {v \in Nat : v >= seen}
                /\ want # 0 => want >= seen
                /\ step \in {"ready", "querying"} =>
                     /\ pool.key = IF want = 0 THEN Shared ELSE conn
                     /\ pool.version = want
  <2>1. \A r \in Requests : Versioned(request[r].step, request[r].conn, request[r].seen, request[r].want, request[r].pool)
    BY DEF ResolvedInv, Versions, PoolIsWhatWasResolved, KeyOf
  <2>2. ASSUME NEW r \in Requests, NEW step, NEW conn, NEW seen, NEW want, NEW pool,
               UNCHANGED <<secret, clock>>,
               Writes(request', r, step, conn, seen, want, pool),
               Versioned(step, conn, seen, want, pool)
        PROVE  ResolvedInv'
    <3>1. \A q \in Requests : Versioned(request'[q].step, request'[q].conn, request'[q].seen, request'[q].want, request'[q].pool)
      BY <2>1, <2>2 DEF Writes
    <3>2. \A c \in Conns : secret'[c] <= clock'
      BY <2>2 DEF ResolvedInv, Versions
    <3>3. Versions'
      BY <2>2, <3>1, <3>2 DEF Versions
    <3>4. PoolIsWhatWasResolved'
      BY <3>1 DEF PoolIsWhatWasResolved, KeyOf
    <3>. QED BY <3>3, <3>4 DEF ResolvedInv
  <2>3. ASSUME NEW r \in Requests, NEW c \in Conns, Validate(r, c) PROVE ResolvedInv'
    <3>1. \A v \in {secret[c], 0} : Versioned("validated", c, v, 0, NoPool)
      BY <2>0 DEF ResolvedInv, Versions
    <3>2. UNCHANGED <<secret, clock>>
      BY <2>3 DEF Validate
    <3>. HIDE DEF Versioned
    <3>. QED BY <2>2, <2>3, <3>1, <3>2, QueryMoves
  <2>4. ASSUME NEW r \in Requests, RequestStep(r) PROVE ResolvedInv'
    <3>. DEFINE q == request[r]
    <3>0. UNCHANGED <<secret, clock>>
      BY <2>4 DEF RequestStep, Resolve, LookUp, Open, Discard, Store, Begin, Finish
    <3>1. Versioned("ended", q.conn, 0, 0, NoPool)
      BY <2>0
    <3>2. Resolve(r) => Versioned("resolved", q.conn, q.seen, secret[q.conn], q.pool)
      BY <2>0, <2>1 DEF Resolve
    <3>3. /\ Versioned("opening", q.conn, q.seen, q.want, q.pool)
          /\ Versioned("opened", q.conn, q.seen, q.want, Opened(r))
      BY <2>1
    <3>4. ASSUME LookUp(r) \/ Discard(r), Current(cached[KeyOf(r)], r)
          PROVE  Versioned("ready", q.conn, q.seen, q.want, cached[KeyOf(r)])
      <4>1. KeyOf(r) \in Keys
        BY <3>4, KeyTyped DEF LookUp, Discard
      <4>2. cached[KeyOf(r)].key = KeyOf(r) /\ cached[KeyOf(r)].version = q.want
        BY <3>4, <4>1 DEF Current, PoolSound, CachedKeys
      <4>. QED BY <2>1, <4>2 DEF KeyOf
    <3>5. Store(r) => Versioned("ready", q.conn, q.seen, q.want, q.pool)
      <4>1. Store(r) => q.pool = Opened(r)
        BY DEF Store, PoolSound, OwnPool
      <4>. QED BY <2>1, <4>1 DEF Opened, KeyOf
    <3>6. Begin(r) => Versioned("querying", q.conn, q.seen, q.want, q.pool)
      BY <2>1 DEF Begin
    <3>7. Discard(r) => Current(cached[KeyOf(r)], r)
      BY DEF Discard
    <3>. HIDE DEF Versioned
    <3>. QED BY <2>2, <2>4, <3>0, <3>1, <3>2, <3>3, <3>4, <3>5, <3>6, <3>7, QueryMoves DEF RequestStep
  <2>5. ASSUME NEW c \in Conns, ChangeSecret(c) PROVE ResolvedInv'
    <3>1. /\ clock' = clock + 1 /\ request' = request
          /\ \A d \in Conns : secret'[d] \in {secret[d], 0, clock'}
      BY <2>0, <2>5 DEF ChangeSecret
    <3>2. \A r \in Requests : request[r].step = "validated" => request[r].conn \in Conns
      BY DEF PoolSound, ForPair
    <3>3. Versions'
      BY <2>0, <3>1, <3>2 DEF ResolvedInv, Versions
    <3>4. PoolIsWhatWasResolved'
      BY <3>1 DEF ResolvedInv, PoolIsWhatWasResolved, KeyOf
    <3>. QED BY <3>3, <3>4 DEF ResolvedInv
  <2>6. ASSUME UNCHANGED <<secret, clock, request>> PROVE ResolvedInv'
    BY <2>6 DEF ResolvedInv, Versions, PoolIsWhatWasResolved, KeyOf
  <2>. QED BY <2>3, <2>4, <2>5, <2>6 DEF PoolsNext, Invalidate, EvictOnce, Closed, poolVars
<1>3. ResolvedInv => PoolIsWhatWasResolved
  BY DEF ResolvedInv
<1>. QED BY <1>1, <1>2, <1>3, PoolsAreSound, PTL DEF PoolsSpec

HIDE PoolAssumption
USE EmbedAssumption
-----------------------------------------------------------------------------
(* The governed embedder.                                                  *)

\* What was returned, and what is about to be, has the pinned dimension; who
\* is to pin one has one.
Pinned ==
  /\ \A c \in Calls : vectors[c] # 0 => expected = vectors[c]
  /\ \A c \in Calls : embed[c].step = "leaving" /\ embed[c].got # 0 => expected = embed[c].got
  /\ \A c \in Calls : embed[c].step = "swapping" => embed[c].got # 0

EmbedInv == EmbedTypeOK /\ Pinned

\* The breaker counts below its threshold.
LEMMA FailureCounted ==
  ASSUME EmbedTypeOK, NEW c \in Calls, Fails(c)
  PROVE  failed' \in 0..EmbedThreshold - 1 /\ broken' \in BOOLEAN
<1>1. failed \in 0..EmbedThreshold - 1 /\ broken \in BOOLEAN
  BY DEF EmbedTypeOK
<1>2. CASE failed + 1 >= EmbedThreshold
  BY <1>1, <1>2 DEF Fails
<1>3. CASE ~(failed + 1 >= EmbedThreshold)
  BY <1>1, <1>3 DEF Fails
<1>. QED BY <1>2, <1>3

\* Every step of a call keeps the types and the pin.
THEOREM EmbedderIsSound == EmbedSpec => []EmbedInv
<1>1. EmbedInit => EmbedInv
  <2>. SUFFICES ASSUME EmbedInit PROVE EmbedInv
    OBVIOUS
  <2>1. NoCall \in EmbedCall /\ 0 \in 0..EmbedThreshold - 1
    BY DEF NoCall, EmbedCall
  <2>2. EmbedTypeOK
    BY <2>1 DEF EmbedInit, EmbedTypeOK
  <2>3. Pinned
    BY DEF EmbedInit, Pinned, NoCall
  <2>. QED BY <2>2, <2>3 DEF EmbedInv
<1>2. EmbedInv /\ [EmbedNext]_embedVars => EmbedInv'
  <2>. SUFFICES ASSUME EmbedInv, [EmbedNext]_embedVars PROVE EmbedInv'
    OBVIOUS
  <2>0. /\ EmbedTypeOK /\ Pinned
        /\ embed \in [Calls -> EmbedCall] /\ expected \in Dims \cup {0}
        /\ vectors \in [Calls -> Dims \cup {0}]
        /\ 0 \in 0..EmbedThreshold - 1
    BY DEF EmbedInv, EmbedTypeOK
  \* One call moves, the pin and the vectors stay.
  <2>1. ASSUME NEW c \in Calls, NEW after \in EmbedCall, embed' = [embed EXCEPT ![c] = after],
               after.step = "leaving" /\ after.got # 0 => expected = after.got,
               after.step = "swapping" => after.got # 0,
               UNCHANGED <<expected, vectors>>, holding' \in SUBSET Calls,
               failed' \in 0..EmbedThreshold - 1, broken' \in BOOLEAN
        PROVE  EmbedInv'
    <3>1. embed' \in [Calls -> EmbedCall] /\ \A b \in Calls : embed'[b] = IF b = c THEN after ELSE embed[b]
      BY <2>0, <2>1
    <3>2. EmbedTypeOK'
      BY <2>0, <2>1, <3>1 DEF EmbedTypeOK
    <3>3. Pinned'
      BY <2>0, <2>1, <3>1 DEF Pinned
    <3>. QED BY <3>2, <3>3 DEF EmbedInv
  <2>2. ASSUME NEW c \in Calls,
               NEW step \in {"idle", "waiting", "calling", "checking", "swapping", "leaving", "ended"}
        PROVE  LET after == [embed[c] EXCEPT !.step = step]
               IN  /\ Steps(c, step) = [embed EXCEPT ![c] = after]
                   /\ after \in EmbedCall /\ after.step = step /\ after.got = embed[c].got
    BY <2>0 DEF Steps, EmbedCall
  <2>3. failed \in 0..EmbedThreshold - 1 /\ broken \in BOOLEAN /\ holding \in SUBSET Calls
    BY <2>0 DEF EmbedTypeOK
  <2>4. ASSUME NEW c \in Calls,
                NEW step \in {"idle", "waiting", "calling", "checking", "swapping", "leaving", "ended"},
                embed' = Steps(c, step),
                step = "leaving" => expected = embed[c].got,
                step = "swapping" => embed[c].got # 0,
                UNCHANGED <<expected, vectors>>, holding' \in SUBSET Calls,
                failed' \in 0..EmbedThreshold - 1, broken' \in BOOLEAN
         PROVE  EmbedInv'
    <3>. DEFINE after == [embed[c] EXCEPT !.step = step]
    <3>1. /\ embed' = [embed EXCEPT ![c] = after]
          /\ after \in EmbedCall /\ after.step = step /\ after.got = embed[c].got
      BY <2>2, <2>4
    <3>. HIDE DEF after
    <3>. QED BY <2>1, <2>4, <3>1
  <2>5. ASSUME NEW c \in Calls, Enter(c) \/ GiveUp(c) \/ Acquire(c) PROVE EmbedInv'
    <3>1. PICK step \in {"waiting", "ended", "calling"} : embed' = Steps(c, step)
      BY <2>5 DEF Enter, GiveUp, Acquire
    <3>2. /\ UNCHANGED <<expected, vectors, failed, broken>> /\ holding' \in SUBSET Calls
      BY <2>3, <2>5 DEF Enter, GiveUp, Acquire
    <3>. QED BY <2>3, <2>4, <3>1, <3>2
  <2>6. ASSUME NEW c \in Calls, Fails(c), UNCHANGED <<holding, expected, vectors>> PROVE EmbedInv'
    <3>1. [step |-> "leaving", got |-> 0] \in EmbedCall
      BY DEF EmbedCall
    <3>. QED BY <2>0, <2>1, <2>3, <2>6, <3>1, FailureCounted DEF Fails
  <2>7. ASSUME NEW c \in Calls, Respond(c) PROVE EmbedInv'
    <3>1. CASE /\ \E n \in Dims \cup {0} : embed' = [embed EXCEPT ![c] = [step |-> "checking", got |-> n]]
               /\ UNCHANGED <<failed, broken>>
      <4>1. PICK n \in Dims \cup {0} : embed' = [embed EXCEPT ![c] = [step |-> "checking", got |-> n]]
        BY <3>1
      <4>2. [step |-> "checking", got |-> n] \in EmbedCall
        BY DEF EmbedCall
      <4>. QED BY <2>1, <2>3, <2>7, <3>1, <4>1, <4>2 DEF Respond
    <3>. QED BY <2>6, <2>7, <3>1 DEF Respond
  <2>8. ASSUME NEW c \in Calls, LoadDimension(c) PROVE EmbedInv'
    <3>1. CASE embed[c].got # 0 /\ embed' = Steps(c, "swapping") /\ UNCHANGED <<failed, broken>>
      BY <2>3, <2>8, <2>4, <3>1 DEF LoadDimension
    <3>2. CASE embed[c].got # 0 /\ expected = embed[c].got /\ Succeeds(c)
      BY <2>0, <2>3, <2>8, <2>4, <3>2 DEF LoadDimension, Succeeds
    <3>. QED BY <2>6, <2>8, <3>1, <3>2 DEF LoadDimension
  <2>9. ASSUME NEW c \in Calls, SwapDimension(c) PROVE EmbedInv'
    <3>1. CASE ~Swapped(c)
      BY <2>3, <2>9, <2>4, <3>1 DEF SwapDimension
    <3>2. CASE Swapped(c)
      <4>1. /\ expected = 0 /\ expected' = embed[c].got /\ embed[c].got # 0
            /\ embed' = [embed EXCEPT ![c] = [embed[c] EXCEPT !.step = "leaving"]]
            /\ failed' = 0 /\ broken' = FALSE /\ UNCHANGED <<holding, vectors>>
        BY <2>0, <2>2, <2>9, <3>2 DEF SwapDimension, Swapped, Succeeds, Pinned
      <4>2. /\ embed' \in [Calls -> EmbedCall] /\ expected' \in Dims \cup {0}
            /\ embed'[c].got = expected' /\ embed'[c].step = "leaving"
            /\ \A b \in Calls \ {c} : embed'[b] = embed[b]
        BY <2>0, <4>1 DEF EmbedCall
      <4>3. \A b \in Calls : vectors[b] = 0
        BY <2>0, <4>1 DEF Pinned
      <4>4. \A b \in Calls : embed[b].step = "leaving" => embed[b].got = 0
        BY <2>0, <4>1 DEF Pinned
      <4>5. EmbedTypeOK'
        BY <2>0, <2>3, <4>1, <4>2 DEF EmbedTypeOK
      <4>6. Pinned'
        BY <2>0, <4>1, <4>2, <4>3, <4>4 DEF Pinned
      <4>. QED BY <4>5, <4>6 DEF EmbedInv
    <3>. QED BY <3>1, <3>2
  <2>10. ASSUME NEW c \in Calls, Leave(c) PROVE EmbedInv'
    <3>1. /\ embed' = [embed EXCEPT ![c] = [embed[c] EXCEPT !.step = "ended"]]
          /\ vectors' = [vectors EXCEPT ![c] = embed[c].got]
          /\ embed[c].got # 0 => expected = embed[c].got
          /\ UNCHANGED <<expected, failed, broken>> /\ holding' \in SUBSET Calls
      BY <2>0, <2>2, <2>3, <2>10 DEF Leave, Pinned
    <3>2. /\ embed' \in [Calls -> EmbedCall] /\ vectors' \in [Calls -> Dims \cup {0}]
          /\ embed'[c].step = "ended" /\ vectors'[c] = embed[c].got
          /\ \A b \in Calls \ {c} : embed'[b] = embed[b] /\ vectors'[b] = vectors[b]
      BY <2>0, <3>1 DEF EmbedCall
    <3>3. EmbedTypeOK'
      BY <2>0, <2>3, <3>1, <3>2 DEF EmbedTypeOK
    <3>4. Pinned'
      BY <2>0, <3>1, <3>2 DEF Pinned
    <3>. QED BY <3>3, <3>4 DEF EmbedInv
  <2>11. ASSUME CoolDown \/ UNCHANGED embedVars PROVE EmbedInv'
    <3>1. UNCHANGED <<embed, holding, expected, failed, vectors>> /\ broken' \in BOOLEAN
      BY <2>3, <2>11 DEF CoolDown, embedVars
    <3>2. EmbedTypeOK'
      BY <2>0, <3>1 DEF EmbedTypeOK
    <3>3. Pinned'
      BY <2>0, <3>1 DEF Pinned
    <3>. QED BY <3>2, <3>3 DEF EmbedInv
  <2>. QED BY <2>5, <2>7, <2>8, <2>9, <2>10, <2>11 DEF EmbedNext, EmbedStep
<1>. QED BY <1>1, <1>2, PTL DEF EmbedSpec

\* All vectors that callers receive have one dimension, for every number of
\* concurrent first answers.
THEOREM VectorsHaveOneDimension == EmbedSpec => []OneDimension
<1>1. EmbedInv => OneDimension
  BY DEF EmbedInv, Pinned, OneDimension
<1>. QED BY <1>1, EmbedderIsSound, PTL

HIDE EmbedAssumption
USE ReportAssumption
-----------------------------------------------------------------------------
(* Reports: what requests have in hand.                                    *)

Comparing == {"fingerprint", "count", "sample"}

\* The parts of the initial state, and every comparison of a candidate.
LEMMA Nothing ==
  /\ NoRows \in Bags /\ NoEvidence \in Evidence /\ NoWork \in Work
  /\ \A c \in Candidates, st \in Statuses, a \in BOOLEAN, b \in BOOLEAN :
       [of |-> c, status |-> st, rested |-> a, equal |-> b] \in Comparison
<1>1. NoComparison \in Comparison
  BY DEF Comparison
<1>2. NoEvidence \in Evidence
  BY <1>1 DEF NoEvidence, Evidence
<1>3. NoRows \in Bags
  BY DEF NoRows, Bags
<1>4. NoWork \in Work
  <2>. HIDE DEF NoEvidence, Evidence, NoRows
  <2>1. "idle" \in TestSteps
    BY DEF TestSteps
  <2>. QED BY <1>2, <1>3, <2>1 DEF NoWork, Work, Bags
<1>5. \A c \in Candidates, st \in Statuses, a \in BOOLEAN, b \in BOOLEAN :
       [of |-> c, status |-> st, rested |-> a, equal |-> b] \in Comparison
  BY DEF Comparison
<1>. QED BY <1>2, <1>3, <1>4, <1>5

\* Evidence is a candidate, or none, with a comparison.
LEMMA EvidenceIs ==
  ASSUME NEW c \in Candidates \cup {NoSql}, NEW e \in Comparison
  PROVE  [candidate |-> c, comparison |-> e] \in Evidence
BY DEF Evidence

\* Requests in which some fields are written.
LEMMA WorkWritten ==
  ASSUME NEW w \in Work
  PROVE  /\ w.candidate \in Candidates \cup {NoSql} /\ w.before \in Bags /\ w.rows \in Nat
         /\ w.found \in Evidence /\ w.since \in Nat
         /\ \A st \in TestSteps :
              /\ [w EXCEPT !.step = st] \in Work
              /\ \A h \in BOOLEAN, b \in Bags : [w EXCEPT !.step = st, !.half = h, !.before = b] \in Work
              /\ \A b \in Bags, m \in Nat :
                   [w EXCEPT !.step = st, !.half = FALSE, !.before = b, !.rows = m] \in Work
              /\ \A c \in Candidates, m \in Nat : [w EXCEPT !.step = st, !.candidate = c, !.since = m] \in Work
              /\ \A f \in Evidence : [w EXCEPT !.step = st, !.found = f] \in Work
              /\ \A f \in Evidence, c \in Candidates \cup {NoSql} :
                   [w EXCEPT !.step = st, !.candidate = c, !.found = f] \in Work
<1>. DEFINE E == Evidence
            C == Candidates \cup {NoSql}
            B == Bags
            S == TestSteps
<1>1. Work = [step : S, candidate : C, before : B, half : BOOLEAN, rows : Nat, found : E, since : Nat]
  BY DEF Work, Bags
<1>2. Candidates \subseteq C
  OBVIOUS
<1>. HIDE DEF E, C, B, S
<1>3. /\ w.candidate \in C /\ w.before \in B /\ w.rows \in Nat
      /\ w.found \in E /\ w.since \in Nat
      /\ \A st \in S :
           /\ [w EXCEPT !.step = st] \in Work
           /\ \A h \in BOOLEAN, b \in B : [w EXCEPT !.step = st, !.half = h, !.before = b] \in Work
           /\ \A b \in B, m \in Nat :
                [w EXCEPT !.step = st, !.half = FALSE, !.before = b, !.rows = m] \in Work
           /\ \A c \in Candidates, m \in Nat : [w EXCEPT !.step = st, !.candidate = c, !.since = m] \in Work
           /\ \A f \in E : [w EXCEPT !.step = st, !.found = f] \in Work
           /\ \A f \in E, c \in C : [w EXCEPT !.step = st, !.candidate = c, !.found = f] \in Work
  BY <1>1, <1>2
<1>. QED BY <1>3 DEF E, C, B, S

-----------------------------------------------------------------------------
(* Reports: verdicts.                                                      *)

TrueVerdict(e) ==
  MaxRows >= SampleCap /\ e.rested => /\ e.status = "VerifiedEqual" => e.equal
                                      /\ e.status = "Different" => ~e.equal

\* A request that compares began in the past; if no table has changed since,
\* what it holds is what the original returns by now, and once the counts were
\* equal they still are.  What it concluded is true, and what it is about to
\* store may be reported.
RequestOK(w) ==
  /\ w.step \in Comparing =>
       /\ w.candidate \in Candidates /\ w.since <= writes
       /\ w.step = "sample" /\ w.since = writes =>
            w.rows = Size(result[Original]) /\ w.rows = Size(result[w.candidate])
       /\ w.half /\ w.since = writes =>
            w.before \in IF w.step = "sample" THEN Sample(result[Original], w.rows) ELSE {result[Original]}
  /\ TrueVerdict(w.found.comparison)
  /\ w.step = "store" => Reportable(w.found.comparison)

RequestsOK == \A u \in Testers : RequestOK(work[u])
KnownOK ==
  /\ \A c \in Candidates : TrueVerdict(tested[c])
  /\ TrueVerdict(inv.shows.comparison)
  /\ \A u \in Testers : TrueVerdict(reports[u].comparison) /\ Reportable(reports[u].comparison)

ReportInv == ReportTypeOK /\ RequestsOK /\ KnownOK

\* Request u changes to one that is sound.
Progress(u) == \E w \in Work : RequestOK(w) /\ work' = [work EXCEPT ![u] = w]

\* A request that has nothing in hand is sound.
LEMMA NothingOK ==
  /\ TrueVerdict(NoEvidence.comparison) /\ Reportable(NoEvidence.comparison)
  /\ RequestOK(NoWork) /\ \A s \in {"ended"} : RequestOK([NoWork EXCEPT !.step = s])
<1>1. TrueVerdict(NoEvidence.comparison) /\ Reportable(NoEvidence.comparison)
  BY DEF NoEvidence, NoComparison, TrueVerdict, Reportable
<1>2. /\ NoWork.found = NoEvidence /\ NoWork.step = "idle"
      /\ [NoWork EXCEPT !.step = "ended"].found = NoEvidence
      /\ [NoWork EXCEPT !.step = "ended"].step = "ended"
  BY DEF NoWork
<1>. QED BY <1>1, <1>2 DEF RequestOK, Comparing

\* A query returns a bag of rows.
LEMMA Returned ==
  ASSUME ReportTypeOK, NEW q \in Queries
  PROVE  result[q] \in Bags
BY DEF ReportTypeOK, Bags

\* What a statement reads is one, too.
LEMMA ReadingIsBag ==
  ASSUME ReportTypeOK, NEW u \in Testers, NEW q \in Queries, NEW b \in Reading(u, q)
  PROVE  b \in Bags
<1>1. result[q] \in Bags /\ SampleSize \in Nat
  BY Returned DEF SampleSize, Least
<1>2. ASSUME NEW s \in AnyRows(result[q], SampleSize) PROVE s \in Bags
  BY <1>1, <1>2, AnyRowsBound
<1>. QED BY <1>1, <1>2 DEF Reading, Sample, FirstByHash, SampleSize

\* Samples of equal results are equal; samples of one size differ only if the
\* results do, and agree within the cap only if they do.
LEMMA SamplesTell ==
  ASSUME MaxRows >= SampleCap, NEW s \in Bags, NEW t \in Bags, NEW m \in Nat,
         Size(s) = m, Size(t) = m, NEW a \in Sample(s, m), NEW b \in Sample(t, m)
  PROVE  /\ s = t => a = b
         /\ m <= SampleCap /\ a = b => s = t
<1>1. SampleSize = SampleCap /\ SampleSize \in Nat
  BY DEF SampleSize, Least
<1>2. CASE m <= SampleCap
  <2>1. ~(m > SampleCap)
    BY <1>2
  <2>2. a \in AnyRows(s, SampleSize) /\ b \in AnyRows(t, SampleSize)
    BY <2>1 DEF Sample, SampleSize
  <2>3. Size(s) <= SampleSize /\ Size(t) <= SampleSize
    BY <1>1, <1>2
  <2>4. a = s /\ b = t
    BY <1>1, <2>2, <2>3, SmallIsWhole
  <2>. QED BY <2>4
<1>3. CASE ~(m <= SampleCap)
  <2>1. m > SampleCap
    BY <1>3
  <2>2. a \in FirstByHash(s, SampleSize) /\ b \in FirstByHash(t, SampleSize)
    BY <2>1 DEF Sample, SampleSize
  <2>3. s = t => a = b
    BY <1>1, <2>2, ByHashIsOne
  <2>. QED BY <1>3, <2>3
<1>. QED BY <1>2, <1>3

\* A conclusion is typed, and true if it says so of what the results are.
LEMMA Concluding ==
  ASSUME ReportInv, NEW u \in Testers, work[u].step \in Comparing,
         NEW status \in {"VerifiedEqual", "SampleMatch", "Different", "Unverified"},
         Concludes(u, status),
         MaxRows >= SampleCap /\ work[u].since = writes =>
           /\ status = "VerifiedEqual" => result[Original] = result[work[u].candidate]
           /\ status = "Different" => result[Original] # result[work[u].candidate]
  PROVE  Progress(u)
<1>. DEFINE f == Concluded(u, status)
            w == [NoWork EXCEPT !.step = "record", !.candidate = work[u].candidate, !.found = f]
<1>1. work[u] \in Work /\ work[u].candidate \in Candidates
  BY DEF ReportInv, ReportTypeOK, RequestsOK, RequestOK
<1>2. f.comparison \in Comparison
  <2>1. status \in Statuses /\ (work[u].since = writes) \in BOOLEAN
        /\ (result[Original] = result[work[u].candidate]) \in BOOLEAN
    BY DEF Statuses
  <2>2. \A a, b \in BOOLEAN :
          [of |-> work[u].candidate, status |-> status, rested |-> a, equal |-> b] \in Comparison
    BY <1>1, <2>1, Nothing
  <2>. QED BY <2>1, <2>2 DEF Concluded
<1>3. f \in Evidence
  BY <1>1, <1>2, EvidenceIs DEF Concluded
<1>4. w \in Work
  <2>1. "record" \in TestSteps /\ work[u].candidate \in Candidates \cup {NoSql} /\ NoWork \in Work
    BY <1>1, Nothing DEF TestSteps
  <2>. HIDE DEF f
  <2>. QED BY <1>3, <2>1, WorkWritten
<1>5. TrueVerdict(f.comparison)
  BY DEF TrueVerdict, Concluded
<1>6. w.step = "record" /\ w.found = f
  BY DEF NoWork
<1>7. RequestOK(w)
  <2>. HIDE DEF w, f
  <2>. QED BY <1>5, <1>6 DEF RequestOK, Comparing
<1>8. work' = [work EXCEPT ![u] = w]
  BY DEF Concludes
<1>. HIDE DEF w
<1>. QED BY <1>4, <1>7, <1>8 DEF Progress

\* The statement on the original, after which nothing else is known.
LEMMA BeforeStep ==
  ASSUME ReportInv, NEW u \in Testers, RunBefore(u)
  PROVE  Progress(u)
<1>1. PICK b \in Reading(u, Original) : work' = [work EXCEPT ![u].half = TRUE, ![u].before = b]
  BY DEF RunBefore
<1>. DEFINE o == work[u]
            w == [o EXCEPT !.step = o.step, !.half = TRUE, !.before = b]
<1>2. o \in Work /\ RequestOK(o) /\ o.step \in Comparing /\ b \in Bags
  BY <1>1, ReadingIsBag DEF ReportInv, ReportTypeOK, RequestsOK, RunBefore, Comparing, Queries
<1>3. w \in Work
  <2>1. o.step \in TestSteps
    BY <1>2 DEF TestSteps, Comparing
  <2>. HIDE DEF o
  <2>. QED BY <1>2, <2>1, WorkWritten
<1>4. /\ w.step = o.step /\ w.candidate = o.candidate /\ w.since = o.since /\ w.rows = o.rows
      /\ w.found = o.found /\ w.before = b
  <2>. HIDE DEF o
  <2>. QED BY <1>2 DEF Work
<1>5. b \in IF o.step = "sample" THEN Sample(result[Original], o.rows) ELSE {result[Original]}
  BY <1>1 DEF Reading
<1>6. RequestOK(w)
  <2>. HIDE DEF w, o
  <2>. QED BY <1>2, <1>4, <1>5 DEF RequestOK
<1>7. work' = [work EXCEPT ![u] = w]
  <2>1. work' = [work EXCEPT ![u] = [o EXCEPT !.half = TRUE, !.before = b]]
    BY <1>1 DEF ReportInv, ReportTypeOK
  <2>2. [o EXCEPT !.half = TRUE, !.before = b] = w
    <3>. HIDE DEF o
    <3>. QED BY <1>2 DEF Work
  <2>. QED BY <2>1, <2>2
<1>. HIDE DEF w
<1>. QED BY <1>3, <1>6, <1>7 DEF Progress

\* The statement on the candidate, whose answer is compared.
LEMMA AfterStep ==
  ASSUME ReportInv, NEW u \in Testers, RunAfter(u)
  PROVE  Progress(u)
<1>. DEFINE o == work[u]
            before == o.before
            Rested == MaxRows >= SampleCap /\ o.since = writes
            R == result[Original]
            C == result[o.candidate]
<1>1. PICK after \in Reading(u, o.candidate) :
         \/ /\ o.step = "fingerprint"
            /\ Concludes(u, IF before = after THEN "VerifiedEqual" ELSE "Different")
         \/ /\ o.step = "count"
            /\ Size(before) # Size(after)
            /\ Concludes(u, "Different")
         \/ /\ o.step = "count"
            /\ Size(before) = Size(after)
            /\ work' = [work EXCEPT ![u].step = "sample", ![u].half = FALSE,
                                    ![u].before = NoRows, ![u].rows = Size(before)]
         \/ /\ o.step = "sample"
            /\ Concludes(u, IF before # after THEN "Different"
                            ELSE IF o.rows <= SampleCap THEN "VerifiedEqual"
                            ELSE "SampleMatch")
  BY DEF RunAfter
<1>2. o \in Work /\ RequestOK(o) /\ o.step \in Comparing /\ o.half
  BY <1>1 DEF ReportInv, ReportTypeOK, RequestsOK, RunAfter, Comparing
<1>3. o.candidate \in Candidates /\ Original \in Queries /\ o.candidate \in Queries
  BY <1>2 DEF RequestOK, Queries
<1>4. R \in Bags /\ C \in Bags /\ before \in Bags /\ o.rows \in Nat /\ Size(before) \in Nat
  BY <1>2, <1>3, Returned, WorkWritten, SizeOrder DEF ReportInv
<1>5. o.step # "sample" => after = C
  BY DEF Reading
<1>6. o.step # "sample" /\ o.since = writes => before = R
  BY <1>2 DEF RequestOK
<1>7. CASE o.step = "fingerprint"
  <2>1. Concludes(u, IF before = after THEN "VerifiedEqual" ELSE "Different")
    BY <1>1, <1>7
  <2>2. CASE before = after
    BY <1>2, <1>5, <1>6, <1>7, <2>1, <2>2, Concluding
  <2>3. CASE before # after
    BY <1>2, <1>5, <1>6, <1>7, <2>1, <2>3, Concluding
  <2>. QED BY <2>2, <2>3
<1>8. CASE o.step = "count" /\ Size(before) # Size(after)
  <2>1. Concludes(u, "Different")
    BY <1>1, <1>8
  <2>2. o.since = writes => R # C
    BY <1>5, <1>6, <1>8
  <2>. QED BY <1>2, <2>1, <2>2, Concluding
<1>9. CASE o.step = "count" /\ Size(before) = Size(after)
  <2>. DEFINE w == [o EXCEPT !.step = "sample", !.half = FALSE, !.before = NoRows, !.rows = Size(before)]
  <2>1. work' = [work EXCEPT ![u].step = "sample", ![u].half = FALSE,
                             ![u].before = NoRows, ![u].rows = Size(before)]
    BY <1>1, <1>9
  <2>2. work' = [work EXCEPT ![u] = w]
    BY <2>1 DEF ReportInv, ReportTypeOK
  <2>3. w \in Work
    <3>1. "sample" \in TestSteps /\ NoRows \in Bags
      BY Nothing DEF TestSteps
    <3>2. ASSUME NEW m \in Nat
          PROVE  [o EXCEPT !.step = "sample", !.half = FALSE, !.before = NoRows, !.rows = m] \in Work
      <4>. HIDE DEF o
      <4>. QED BY <1>2, <3>1, <3>2, WorkWritten
    <3>. QED BY <1>4, <3>2
  <2>4. /\ w.step = "sample" /\ w.candidate = o.candidate /\ w.since = o.since
        /\ w.rows = Size(before) /\ w.found = o.found /\ ~w.half
    <3>. HIDE DEF o, before
    <3>. QED BY <1>2 DEF Work
  <2>5. o.since = writes => Size(before) = Size(R) /\ Size(before) = Size(C)
    BY <1>5, <1>6, <1>9
  <2>6. RequestOK(w)
    <3>. HIDE DEF w, o, before
    <3>. QED BY <1>2, <1>9, <2>4, <2>5 DEF RequestOK, Comparing, R, C
  <2>. HIDE DEF w
  <2>. QED BY <2>2, <2>3, <2>6 DEF Progress
<1>10. CASE o.step = "sample"
  <2>1. Concludes(u, IF before # after THEN "Different"
                     ELSE IF o.rows <= SampleCap THEN "VerifiedEqual" ELSE "SampleMatch")
    BY <1>1, <1>10
  <2>2. ASSUME Rested
        PROVE  (R = C => before = after) /\ (o.rows <= SampleCap /\ before = after => R = C)
    <3>1. before \in Sample(R, o.rows) /\ after \in Sample(C, o.rows)
      BY <1>2, <1>10, <2>2 DEF RequestOK, Reading
    <3>2. Size(R) = o.rows /\ Size(C) = o.rows
      BY <1>2, <1>10, <2>2 DEF RequestOK
    <3>. HIDE DEF R, C, o, before
    <3>. QED BY <1>4, <2>2, <3>1, <3>2, SamplesTell
  <2>3. CASE before # after
    <3>1. Rested => R # C
      BY <2>2, <2>3
    <3>. QED BY <1>2, <2>1, <2>3, <3>1, Concluding
  <2>4. CASE before = after /\ o.rows <= SampleCap
    <3>1. Rested => R = C
      BY <2>2, <2>4
    <3>. QED BY <1>2, <2>1, <2>4, <3>1, Concluding
  <2>5. CASE before = after /\ ~(o.rows <= SampleCap)
    BY <1>2, <2>1, <2>5, Concluding
  <2>. QED BY <2>3, <2>4, <2>5
<1>. QED BY <1>1, <1>7, <1>8, <1>9, <1>10

\* A request goes to a step at which it needs nothing but what it has found.
LEMMA Moving ==
  ASSUME ReportInv, NEW u \in Testers, NEW w \in Work, work' = [work EXCEPT ![u] = w],
         TrueVerdict(w.found.comparison),
         w.step \notin Comparing, w.step = "store" => Reportable(w.found.comparison)
  PROVE  Progress(u)
BY DEF Progress, RequestOK

\* A request that ends.
LEMMA Ending ==
  ASSUME ReportInv, NEW u \in Testers, TestEnds(u)
  PROVE  Progress(u)
<1>. DEFINE w == [NoWork EXCEPT !.step = "ended"]
<1>1. w \in Work /\ RequestOK(w)
  BY Nothing, NothingOK, WorkWritten DEF TestSteps
<1>2. work' = [work EXCEPT ![u] = w]
  BY DEF TestEnds
<1>. HIDE DEF w
<1>. QED BY <1>1, <1>2 DEF Progress

\* A statement that fails ends the comparison, or leaves it to the counts.
LEMMA FailsStep ==
  ASSUME ReportInv, NEW u \in Testers, RunFails(u)
  PROVE  Progress(u)
<1>. DEFINE o == work[u]
            w == [o EXCEPT !.step = "count", !.half = FALSE, !.before = NoRows]
<1>1. o \in Work /\ RequestOK(o) /\ o.step \in Comparing
  BY DEF ReportInv, ReportTypeOK, RequestsOK, RunFails, Comparing
<1>2. CASE o.step = "fingerprint" /\ GoesTo(u, "count")
  <2>1. w \in Work
    <3>1. "count" \in TestSteps /\ NoRows \in Bags
      BY Nothing DEF TestSteps
    <3>. HIDE DEF o
    <3>. QED BY <1>1, <3>1, WorkWritten
  <2>2. /\ w.step = "count" /\ w.candidate = o.candidate /\ w.since = o.since
        /\ w.found = o.found /\ ~w.half
    <3>. HIDE DEF o
    <3>. QED BY <1>1 DEF Work
  <2>3. RequestOK(w)
    <3>. HIDE DEF w, o
    <3>. QED BY <1>1, <2>2 DEF RequestOK
  <2>4. work' = [work EXCEPT ![u] = w]
    BY <1>2 DEF GoesTo, ReportInv, ReportTypeOK
  <2>. HIDE DEF w
  <2>. QED BY <2>1, <2>3, <2>4 DEF Progress
<1>3. CASE Concludes(u, "Unverified")
  BY <1>1, <1>3, Concluding
<1>. QED BY <1>2, <1>3 DEF RunFails

\* A test starts with nothing in hand.
LEMMA TestStarts ==
  ASSUME ReportInv, NEW u \in Testers, NEW c \in Candidates, TestCandidate(u, c)
  PROVE  Progress(u)
<1>0. work[u] = NoWork /\ writes \in Nat /\ NoWork \in Work
  BY Nothing DEF TestCandidate, IsNext, ReportInv, ReportTypeOK
<1>1. CASE work' = [work EXCEPT ![u].step = "fingerprint", ![u].candidate = c, ![u].since = writes]
  <2>. DEFINE w == [NoWork EXCEPT !.step = "fingerprint", !.candidate = c, !.since = writes]
  <2>1. w \in Work
    <3>1. "fingerprint" \in TestSteps
      BY DEF TestSteps
    <3>. QED BY <1>0, <3>1, WorkWritten
  <2>2. w.step = "fingerprint" /\ w.candidate = c /\ w.since = writes /\ ~w.half /\ w.found = NoEvidence
    BY DEF NoWork
  <2>3. RequestOK(w)
    <3>. HIDE DEF w
    <3>. QED BY <1>0, <2>2, NothingOK DEF RequestOK
  <2>4. work' = [work EXCEPT ![u] = w]
    BY <1>0, <1>1 DEF ReportInv, ReportTypeOK
  <2>. HIDE DEF w
  <2>. QED BY <2>1, <2>3, <2>4 DEF Progress
<1>2. CASE work' = [work EXCEPT ![u] =
              [NoWork EXCEPT !.step = "record", !.candidate = c,
                 !.found = [candidate |-> c,
                            comparison |-> [of |-> c, status |-> "NotRequested",
                                            rested |-> FALSE, equal |-> FALSE]]]]
  <2>. DEFINE e == [of |-> c, status |-> "NotRequested", rested |-> FALSE, equal |-> FALSE]
              f == [candidate |-> c, comparison |-> e]
              w == [NoWork EXCEPT !.step = "record", !.candidate = c, !.found = f]
  <2>1. e \in Comparison
    BY Nothing DEF Statuses
  <2>2. f \in Evidence
    <3>. HIDE DEF e
    <3>. QED BY <2>1, EvidenceIs
  <2>3. w \in Work
    <3>1. "record" \in TestSteps
      BY DEF TestSteps
    <3>. HIDE DEF f
    <3>. QED BY <1>0, <2>2, <3>1, WorkWritten
  <2>4. w.step = "record" /\ w.found = f
    BY DEF NoWork
  <2>5. TrueVerdict(f.comparison)
    BY DEF TrueVerdict
  <2>6. work' = [work EXCEPT ![u] = w]
    BY <1>2
  <2>. HIDE DEF w, f
  <2>. QED BY <2>3, <2>4, <2>5, <2>6, Moving DEF Comparing
<1>. QED BY <1>1, <1>2 DEF TestCandidate

\* A request goes on with what it has found.
LEMMA GoingOn ==
  ASSUME ReportInv, NEW u \in Testers, NEW st \in {"attach", "complete"},
         work' = [work EXCEPT ![u].step = st]
  PROVE  Progress(u)
<1>. DEFINE o == work[u]
            w == [o EXCEPT !.step = st]
<1>1. o \in Work /\ RequestOK(o) /\ st \in TestSteps
  BY DEF ReportInv, ReportTypeOK, RequestsOK, TestSteps
<1>2. w \in Work /\ w.step = st /\ w.found = o.found
  <2>. HIDE DEF o
  <2>. QED BY <1>1, WorkWritten DEF Work
<1>3. work' = [work EXCEPT ![u] = w]
  BY DEF ReportInv, ReportTypeOK
<1>. HIDE DEF w, o
<1>. QED BY <1>1, <1>2, <1>3, Moving DEF RequestOK, Comparing

\* What the investigation shows is reported only if it is true.
LEMMA ReadStarts ==
  ASSUME ReportInv, NEW u \in Testers, ReadEvidence(u)
  PROVE  Progress(u)
<1>1. CASE TestEnds(u)
  BY <1>1, Ending
<1>2. CASE /\ Reportable(inv.shows.comparison)
           /\ work' = [work EXCEPT ![u].step = "store", ![u].found = inv.shows]
  <2>. DEFINE f == inv.shows
              w == [NoWork EXCEPT !.step = "store", !.found = f]
  <2>1. f \in Evidence /\ TrueVerdict(f.comparison) /\ work[u] = NoWork /\ "store" \in TestSteps
    BY DEF ReportInv, ReportTypeOK, Investigation, KnownOK, ReadEvidence, IsNext, TestSteps
  <2>2. work' = [work EXCEPT ![u] = w]
    BY <1>2, <2>1 DEF ReportInv, ReportTypeOK
  <2>3. w \in Work
    <3>. HIDE DEF f
    <3>. QED BY <2>1, Nothing, WorkWritten
  <2>4. w.step = "store" /\ w.found = f
    BY DEF NoWork
  <2>. HIDE DEF w
  <2>. QED BY <1>2, <2>1, <2>2, <2>3, <2>4, Moving DEF Comparing
<1>. QED BY <1>1, <1>2 DEF ReadEvidence

\* What a request does to itself leaves the others sound.
LEMMA ProgressKeeps ==
  ASSUME ReportInv, NEW u \in Testers, Progress(u), UNCHANGED <<result, writes>>
  PROVE  work' \in [Testers -> Work] /\ RequestsOK'
<1>1. PICK w \in Work : RequestOK(w) /\ work' = [work EXCEPT ![u] = w]
  BY DEF Progress
<1>2. work \in [Testers -> Work] /\ work' \in [Testers -> Work]
  BY <1>1 DEF ReportInv, ReportTypeOK
<1>3. \A v \in Testers : RequestOK(work'[v])
  BY <1>1, <1>2 DEF ReportInv, RequestsOK
<1>4. RequestsOK'
  BY <1>3 DEF RequestsOK, RequestOK
<1>. QED BY <1>2, <1>4

\* The steps of users: every one is a request's progress, and stores nothing
\* but what that request has found.
LEMMA UserStep ==
  ASSUME ReportInv, NEW u \in Testers,
         (\E c \in Candidates : TestCandidate(u, c)) \/ ReadEvidence(u) \/ TestStep(u)
  PROVE  ReportInv'
<1>. DEFINE f == work[u].found
<1>1. Progress(u)
  BY TestStarts, ReadStarts, BeforeStep, AfterStep, FailsStep, GoingOn, Ending
     DEF TestStep, RecordCandidate, AttachCandidate, StoreInvestigationReport, CompleteInvestigation
<1>2. UNCHANGED <<result, writes>>
  BY DEF TestStep, TestCandidate, ReadEvidence, RunBefore, RunAfter, RunFails,
         RecordCandidate, AttachCandidate, StoreInvestigationReport, CompleteInvestigation
<1>3. /\ f \in Evidence /\ f.comparison \in Comparison
      /\ TrueVerdict(f.comparison)
      /\ work[u].step = "store" => Reportable(f.comparison)
  BY DEF ReportInv, ReportTypeOK, Work, Evidence, RequestsOK, RequestOK
<1>4. \/ UNCHANGED <<tested, inv, reports>>
      \/ tested' = [tested EXCEPT ![work[u].candidate] = f.comparison] /\ UNCHANGED <<inv, reports>>
      \/ inv' = [inv EXCEPT !.status = "comparing", !.shows = f] /\ UNCHANGED <<tested, reports>>
      \/ inv' = [inv EXCEPT !.status = "complete", !.report = u] /\ UNCHANGED <<tested, reports>>
      \/ reports' = [reports EXCEPT ![u] = f] /\ work[u].step = "store" /\ UNCHANGED <<tested, inv>>
  BY DEF TestStep, TestCandidate, ReadEvidence, RunBefore, RunAfter, RunFails,
         RecordCandidate, AttachCandidate, StoreInvestigationReport, CompleteInvestigation
<1>5. tested' \in [Candidates -> Comparison] /\ \A c \in Candidates : TrueVerdict(tested'[c])
  <2>1. tested \in [Candidates -> Comparison] /\ \A c \in Candidates : TrueVerdict(tested[c])
    BY DEF ReportInv, ReportTypeOK, KnownOK
  <2>2. UNCHANGED tested \/ tested' = [tested EXCEPT ![work[u].candidate] = f.comparison]
    BY <1>4
  <2>. HIDE DEF f
  <2>. QED BY <1>3, <2>1, <2>2
<1>6. inv' \in Investigation /\ TrueVerdict(inv'.shows.comparison)
  <2>. DEFINE E == Evidence
  <2>1. inv \in Investigation /\ TrueVerdict(inv.shows.comparison) /\ f \in E
    BY <1>3 DEF ReportInv, ReportTypeOK, KnownOK
  <2>2. Investigation =
          [status : {"open", "comparing", "complete"}, shows : E, report : Testers \cup {NoSql}]
    BY DEF Investigation
  <2>3. \/ UNCHANGED inv
        \/ inv' = [inv EXCEPT !.status = "comparing", !.shows = f]
        \/ inv' = [inv EXCEPT !.status = "complete", !.report = u]
    BY <1>4
  <2>. HIDE DEF f, E
  <2>. QED BY <1>3, <2>1, <2>2, <2>3
<1>7. /\ reports' \in [Testers -> Evidence]
      /\ \A v \in Testers : TrueVerdict(reports'[v].comparison) /\ Reportable(reports'[v].comparison)
  <2>1. /\ reports \in [Testers -> Evidence]
        /\ \A v \in Testers : TrueVerdict(reports[v].comparison) /\ Reportable(reports[v].comparison)
    BY DEF ReportInv, ReportTypeOK, KnownOK
  <2>2. UNCHANGED reports \/ (reports' = [reports EXCEPT ![u] = f] /\ Reportable(f.comparison))
    BY <1>3, <1>4
  <2>. HIDE DEF f
  <2>. QED BY <1>3, <2>1, <2>2
<1>8. KnownOK'
  BY <1>5, <1>6, <1>7 DEF KnownOK, TrueVerdict, Reportable
<1>9. ReportTypeOK'
  BY <1>1, <1>2, <1>5, <1>6, <1>7, ProgressKeeps DEF ReportInv, ReportTypeOK
<1>. QED BY <1>1, <1>2, <1>8, <1>9, ProgressKeeps DEF ReportInv

\* Once a table changes, nothing that is being compared has rested.
LEMMA ChangeStep ==
  ASSUME ReportInv, TablesChange
  PROVE  ReportInv'
<1>1. ReportTypeOK'
  BY DEF ReportInv, ReportTypeOK, TablesChange
<1>2. KnownOK'
  BY DEF ReportInv, KnownOK, TrueVerdict, Reportable, TablesChange
<1>3. ASSUME NEW u \in Testers PROVE RequestOK(work[u])'
  <2>. DEFINE w == work[u]
  <2>0. RequestOK(w)
    BY DEF ReportInv, RequestsOK
  <2>1. w \in Work /\ writes \in Nat
    BY DEF ReportInv, ReportTypeOK
  <2>4. writes' = writes + 1 /\ work'[u] = work[u]
    BY DEF TablesChange
  <2>2. w.since \in Nat
    BY <2>1 DEF Work
  <2>3. w.since <= writes => w.since <= writes' /\ w.since # writes'
    BY <2>1, <2>2, <2>4
  <2>. QED BY <2>0, <2>1, <2>3, <2>4 DEF RequestOK, TrueVerdict, Reportable
<1>. QED BY <1>1, <1>2, <1>3 DEF ReportInv, RequestsOK

\* Types of the tests and the reports, and that what a request has found is true
\* unless a table has changed since it began.
THEOREM ReportsAreSound == ReportsSpec => []ReportInv
<1>1. ReportsInit => ReportInv
  <2>. SUFFICES ASSUME ReportsInit PROVE ReportInv
    OBVIOUS
  <2>1. NoComparison \in Comparison /\ TrueVerdict(NoComparison)
    BY DEF Comparison, TrueVerdict, NoComparison
  <2>2. inv \in Investigation /\ TrueVerdict(inv.shows.comparison)
    <3>1. CASE inv = [status |-> "open", shows |-> NoEvidence, report |-> NoSql]
      BY <3>1, Nothing, NothingOK DEF Investigation
    <3>2. ASSUME NEW c \in Candidates, NEW s \in LegacyStatuses,
                 inv = [status |-> "comparing", report |-> NoSql,
                        shows |-> [candidate |-> c, comparison |->
                                     [of |-> c, status |-> s, rested |-> FALSE, equal |-> FALSE]]]
          PROVE  inv \in Investigation /\ TrueVerdict(inv.shows.comparison)
      <4>. DEFINE e == [of |-> c, status |-> s, rested |-> FALSE, equal |-> FALSE]
                  f == [candidate |-> c, comparison |-> e]
      <4>1. e \in Comparison /\ TrueVerdict(e)
        BY DEF Comparison, TrueVerdict
      <4>2. f \in Evidence /\ TrueVerdict(f.comparison)
        <5>. HIDE DEF e
        <5>. QED BY <4>1, EvidenceIs
      <4>3. inv = [status |-> "comparing", report |-> NoSql, shows |-> f]
        BY <3>2
      <4>. HIDE DEF f
      <4>. QED BY <4>2, <4>3 DEF Investigation
    <3>. QED BY <3>1, <3>2 DEF ReportsInit
  <2>3. ReportTypeOK
    BY <2>1, <2>2, Nothing DEF ReportsInit, ReportTypeOK
  <2>4. RequestsOK
    BY NothingOK DEF ReportsInit, RequestsOK
  <2>5. KnownOK
    BY <2>1, <2>2, NothingOK DEF ReportsInit, KnownOK
  <2>. QED BY <2>3, <2>4, <2>5 DEF ReportInv
<1>2. ReportInv /\ [ReportsNext]_reportVars => ReportInv'
  <2>. SUFFICES ASSUME ReportInv, [ReportsNext]_reportVars PROVE ReportInv'
    OBVIOUS
  <2>1. ASSUME UNCHANGED reportVars PROVE ReportInv'
    BY <2>1 DEF reportVars, ReportInv, ReportTypeOK, RequestsOK, RequestOK, KnownOK, TrueVerdict, Reportable
  <2>. QED BY <2>1, UserStep, ChangeStep DEF ReportsNext
<1>. QED BY <1>1, <1>2, PTL DEF ReportsSpec

\* A comparison that concludes that the results are the same, or are not, of
\* results that rested while it was made, says so of the results.
THEOREM VerdictsHold == ReportsSpec => []VerdictsAreTrue
<1>1. ReportInv => VerdictsAreTrue
  BY DEF ReportInv, KnownOK, VerdictsAreTrue, Known, TrueVerdict
<1>. QED BY <1>1, ReportsAreSound, PTL

HIDE ReportAssumption

-----------------------------------------------------------------------------
(* The instances for TLC.                                                  *)

\* Each step is one of at most one component.
LEMMA PartsStep ==
  ASSUME [Next]_<<part, outboxVars, sessionVars, poolVars, rateVars, embedVars, reportVars>>
  PROVE  /\ [OutboxNext]_outboxVars /\ [SessionNext]_sessionVars /\ [PoolsNext]_poolVars
         /\ [RateNext]_rateVars /\ [EmbedNext]_embedVars /\ [ReportsNext]_reportVars
BY DEF Next, OutboxPart, SessionPart, PoolPart, RatePart, EmbedPart, ReportPart

\* A behaviour of the instances is one of every component: what is proved of a
\* component for its own specification holds of it in their run.
THEOREM PartsAreComponents ==
  Spec => OutboxSpec /\ SessionSpec /\ PoolsSpec /\ RateSpec /\ EmbedSpec /\ ReportsSpec
<1>1. Init => OutboxInit /\ SessionInit /\ PoolsInit /\ RateInit /\ EmbedInit /\ ReportsInit
  BY DEF Init
<1>2. [Next]_<<part, outboxVars, sessionVars, poolVars, rateVars, embedVars, reportVars>>
        => /\ [OutboxNext]_outboxVars /\ [SessionNext]_sessionVars /\ [PoolsNext]_poolVars
           /\ [RateNext]_rateVars /\ [EmbedNext]_embedVars /\ [ReportsNext]_reportVars
  BY PartsStep
<1>. QED BY <1>1, <1>2, PTL
         DEF Spec, OutboxSpec, SessionSpec, PoolsSpec, RateSpec, EmbedSpec, ReportsSpec

\* Every component keeps the types of its state in the run of all.
THEOREM ServicesTyped == Spec => []ServicesTypeOK
<1>1. PoolSound /\ EmbedInv /\ ReportInv => PoolTypeOK /\ EmbedTypeOK /\ ReportTypeOK
  BY DEF PoolSound, EmbedInv, ReportInv
<1>. QED BY <1>1, PartsAreComponents, OutboxTypeCorrect, SessionTypeCorrect, PoolsAreSound,
            RateTypeCorrect, EmbedderIsSound, ReportsAreSound, PTL DEF ServicesTypeOK

\* What the run of all of them checks of the sessions, the pools, the limiter,
\* the embedder and the reports is so for every value of the constants.
THEOREM ServicesKeepProperties ==
  Spec => /\ RevokedIsFinal
          /\ [](OneSessionPerLogin /\ SessionIsMembership)
          /\ [](PoolsAccountedFor /\ WithinBudget /\ PoolIsWhatWasResolved)
          /\ [](WindowBound /\ OneDimension /\ VerdictsAreTrue)
BY PartsAreComponents, RevokedIsFinalHolds, OneSessionPerLoginHolds, SessionIsMembershipHolds,
   PoolsNeverLeak, PoolsWithinBudget, PoolsAreResolved, WindowBoundHolds, VectorsHaveOneDimension,
   VerdictsHold, PTL
=============================================================================
