---------------------------- MODULE WebhookOutbox ----------------------------
(***************************************************************************)
(* The transactional outbox of scheduled reports (app.webhook_deliveries): *)
(* a row per schedule run, claimed under a lease by the inline attempt of  *)
(* a schedule execution or by the sweep of StartWebhookRetryWorker, POSTed *)
(* to the receiver and updated with the classified answer.                 *)
(*                                                                         *)
(* Every SQL statement or transaction is one action; the HTTP exchange     *)
(* lies between the claim and the update, so another replica may act in    *)
(* the middle.  Time is abstract: a lease is "held" until it is "expired", *)
(* and a row in backoff is not due until its backoff elapses.              *)
(***************************************************************************)
EXTENDS Naturals, FiniteSets

CONSTANTS
  Deliveries,         \* outbox rows; the idempotency key is the schedule run
  Senders,            \* goroutines that attempt deliveries, on all replicas
  MaxAttempts,        \* maxWebhookAttempts
  SweepLimit,         \* LIMIT of the sweep's claim
  LeaseCoversAttempt, \* TRUE: a lease outlives the live sender that holds it
  MaxDisruptions      \* bound on crashes, lost updates and early expiries

ASSUME OutboxAssumption ==
  /\ MaxAttempts \in Nat \ {0}
  /\ SweepLimit \in Nat \ {0}
  /\ MaxDisruptions \in Nat
  /\ LeaseCoversAttempt \in BOOLEAN

VARIABLES
  row,         \* app.webhook_deliveries, one record per idempotency key
  claims,      \* per sender, the claimed attempts it has still to record
  answer,      \* per sender, the attempt it has POSTed and its outcome
  posted,      \* history: the attempt numbers POSTed per delivery
  received,    \* history: deliveries the receiver has processed
  disruptions  \* crashes, lost updates and early lease expiries so far

outboxVars == <<row, claims, answer, posted, received, disruptions>>

Terminal == {"delivered", "dead_letter"}
Outcomes == {"delivered", "dead_letter", "failed"}
Claim == [delivery : Deliveries, attempt : Nat]
NoAnswer == [sent |-> FALSE]
Answer == {NoAnswer} \cup [sent : {TRUE}, claim : Claim, outcome : Outcomes]
Row == [status : {"absent", "pending", "delivering"} \cup Terminal,
        attempts : Nat,
        due : BOOLEAN,
        lease : {"none", "held", "expired"}]

AbsentRow == [status |-> "absent", attempts |-> 0, due |-> FALSE, lease |-> "none"]

OutboxInit ==
  /\ row = [d \in Deliveries |-> AbsentRow]
  /\ claims = [p \in Senders |-> {}]
  /\ answer = [p \in Senders |-> NoAnswer]
  /\ posted = [d \in Deliveries |-> {}]
  /\ received = {}
  /\ disruptions = 0

-----------------------------------------------------------------------------
(* Classification of an attempt.                                           *)

Replies == {"2xx", "retryable_4xx", "4xx", "5xx", "network_error"}

\* Mutant: whatever is not permanent counts as delivered.
ClassifyReplyOptimistic(reply) == IF reply = "4xx" THEN "dead_letter" ELSE "delivered"

\* 2xx delivers, another 4xx than 408 and 429 is permanent, the rest is retried.
ClassifyReply(reply) ==
  CASE reply = "2xx" -> "delivered"
    [] reply = "4xx" -> "dead_letter"
    [] OTHER -> "failed"

\* Mutant: the outcome is stored as it is.
ClassifyOutboxResultRaw(outcome, attempt) ==
  IF attempt >= MaxAttempts /\ outcome = "failed" THEN "dead_letter" ELSE outcome

\* The row's status after an attempt: retry unless the attempts are exhausted.
ClassifyOutboxResult(outcome, attempt) ==
  IF outcome \in Terminal THEN outcome
  ELSE IF attempt >= MaxAttempts THEN "dead_letter" ELSE "pending"

-----------------------------------------------------------------------------
(* Operations on rows.                                                     *)

Enqueued == [status |-> "pending", attempts |-> 0, due |-> TRUE, lease |-> "none"]

\* Mutant: the conflict resets the row.
EnqueueResetting(d) ==
  /\ row' = [row EXCEPT ![d] = Enqueued]
  /\ UNCHANGED <<claims, answer, posted, received, disruptions>>

\* INSERT ... ON CONFLICT: a pending row only has its target and payload
\* refreshed, any other row is left alone, so an existing row is unchanged.
EnqueueWebhookDelivery(d) ==
  /\ row' = IF row[d].status = "absent" THEN [row EXCEPT ![d] = Enqueued] ELSE row
  /\ UNCHANGED <<claims, answer, posted, received, disruptions>>

Eligible(d) == row[d].status = "pending" /\ row[d].due

Idle(p) == claims[p] = {} /\ answer[p] = NoAnswer

\* Mutant: the claim does not count as an attempt.
ClaimedUncounted(r) ==
  [status |-> "delivering", attempts |-> r.attempts, due |-> r.due, lease |-> "held"]

\* The claimed row: its attempt is counted before it is made.
Claimed(r) ==
  [status |-> "delivering", attempts |-> r.attempts + 1, due |-> r.due, lease |-> "held"]

\* One UPDATE ... RETURNING moves the eligible rows in S to "delivering".
ClaimRows(p, S) ==
  /\ Idle(p)
  /\ S # {}
  /\ \A d \in S : Eligible(d)
  /\ row' = [d \in Deliveries |-> IF d \in S THEN Claimed(row[d]) ELSE row[d]]
  /\ claims' = [claims EXCEPT ![p] =
                  {[delivery |-> d, attempt |-> Claimed(row[d]).attempts] : d \in S}]
  /\ UNCHANGED <<answer, posted, received, disruptions>>

\* The inline attempt claims the one row its schedule execution enqueued.
AttemptOutboxDelivery(p, d) == ClaimRows(p, {d})

\* The sweep claims up to SweepLimit rows; SKIP LOCKED may leave any of them.
SweepClaim(p) ==
  \E S \in SUBSET Deliveries : Cardinality(S) <= SweepLimit /\ ClaimRows(p, S)

Stuck(d) == row[d].status = "delivering" /\ row[d].lease = "expired"
Reclaimed(r) ==
  [status |-> "pending", attempts |-> r.attempts, due |-> TRUE, lease |-> "none"]

\* reclaimStuckOutboxLeases: the first transaction of a sweep.
ReclaimStuckOutboxLeases ==
  /\ \E d \in Deliveries : Stuck(d)
  /\ row' = [d \in Deliveries |-> IF Stuck(d) THEN Reclaimed(row[d]) ELSE row[d]]
  /\ UNCHANGED <<claims, answer, posted, received, disruptions>>

\* attemptOutboxHTTP: a 2xx answer means the receiver processed the delivery;
\* after a network error it may or may not have.
AttemptOutboxHTTP(p, c) ==
  /\ answer[p] = NoAnswer
  /\ c \in claims[p]
  /\ posted' = [posted EXCEPT ![c.delivery] = @ \cup {c.attempt}]
  /\ \E reply \in Replies :
       /\ answer' = [answer EXCEPT ![p] =
                       [sent |-> TRUE, claim |-> c, outcome |-> ClassifyReply(reply)]]
       /\ \/ /\ reply \in {"2xx", "network_error"}
             /\ received' = received \cup {c.delivery}
          \/ /\ reply # "2xx"
             /\ UNCHANGED received
  /\ UNCHANGED <<row, claims, disruptions>>

\* The final status of the attempt sender p has POSTed.
FinalStatus(p) == ClassifyOutboxResult(answer[p].outcome, answer[p].claim.attempt)

DropClaim(p) ==
  /\ claims' = [claims EXCEPT ![p] = @ \ {answer[p].claim}]
  /\ answer' = [answer EXCEPT ![p] = NoAnswer]

\* UPDATE ... WHERE id = $1: neither the lease nor the status is compared.
RecordAttempt(p) ==
  LET d == answer[p].claim.delivery
  IN  /\ answer[p].sent
      /\ row' = [row EXCEPT ![d].status = FinalStatus(p), ![d].lease = "none",
                            ![d].due = FinalStatus(p) \in Terminal]
      /\ DropClaim(p)
      /\ UNCHANGED <<posted, received, disruptions>>

\* The UPDATE fails: its error is ignored and the row stays "delivering".
LoseRecord(p) ==
  /\ answer[p].sent
  /\ disruptions < MaxDisruptions
  /\ disruptions' = disruptions + 1
  /\ DropClaim(p)
  /\ UNCHANGED <<row, posted, received>>

\* The process of sender p dies with claims in hand.
CrashSender(p) ==
  /\ claims[p] # {}
  /\ disruptions < MaxDisruptions
  /\ disruptions' = disruptions + 1
  /\ claims' = [claims EXCEPT ![p] = {}]
  /\ answer' = [answer EXCEPT ![p] = NoAnswer]
  /\ UNCHANGED <<row, posted, received>>

-----------------------------------------------------------------------------
(* The passing of time.                                                    *)

HeldBy(p, d) == \E c \in claims[p] : c.delivery = d /\ c.attempt = row[d].attempts

\* webhookClaimLease runs out on a row whose claimant is gone or superseded.
LeaseExpires(d) ==
  /\ row[d].lease = "held"
  /\ \A p \in Senders : ~HeldBy(p, d)
  /\ row' = [row EXCEPT ![d].lease = "expired"]
  /\ UNCHANGED <<claims, answer, posted, received, disruptions>>

\* The lease is meant to outlast every attempt; it does not when the process
\* stalls or its batch is slow, and then the live claimant does not notice.
LeaseExpiresEarly(d) ==
  /\ ~LeaseCoversAttempt
  /\ row[d].lease = "held"
  /\ \E p \in Senders : HeldBy(p, d)
  /\ disruptions < MaxDisruptions
  /\ disruptions' = disruptions + 1
  /\ row' = [row EXCEPT ![d].lease = "expired"]
  /\ UNCHANGED <<claims, answer, posted, received>>

\* next_attempt_at passes (webhookBackoff after the last attempt).
BackoffElapses(d) ==
  /\ row[d].status = "pending"
  /\ ~row[d].due
  /\ row' = [row EXCEPT ![d].due = TRUE]
  /\ UNCHANGED <<claims, answer, posted, received, disruptions>>

-----------------------------------------------------------------------------

SenderStep(p) ==
  \/ \E c \in claims[p] : AttemptOutboxHTTP(p, c)
  \/ RecordAttempt(p)

OutboxNext ==
  \/ \E d \in Deliveries :
       EnqueueWebhookDelivery(d) \/ LeaseExpires(d) \/ LeaseExpiresEarly(d) \/ BackoffElapses(d)
  \/ ReclaimStuckOutboxLeases
  \/ \E p \in Senders :
       \/ \E d \in Deliveries : AttemptOutboxDelivery(p, d)
       \/ SweepClaim(p)
       \/ SenderStep(p)
       \/ LoseRecord(p)
       \/ CrashSender(p)

OutboxSpec == OutboxInit /\ [][OutboxNext]_outboxVars

\* The ticker of every replica keeps sweeping, an attempt has an HTTP timeout,
\* and time passes; disruptions are never fair.
OutboxFairness ==
  /\ \A p \in Senders : WF_outboxVars(SweepClaim(p)) /\ WF_outboxVars(SenderStep(p))
  /\ WF_outboxVars(ReclaimStuckOutboxLeases)
  /\ \A d \in Deliveries : WF_outboxVars(LeaseExpires(d)) /\ WF_outboxVars(BackoffElapses(d))

OutboxFairSpec == OutboxSpec /\ OutboxFairness

-----------------------------------------------------------------------------
(* Properties.                                                             *)

\* Types of the outbox table, the senders' claims and the histories.
OutboxTypeOK ==
  /\ row \in [Deliveries -> Row]
  /\ claims \in [Senders -> SUBSET Claim]
  /\ answer \in [Senders -> Answer]
  /\ posted \in [Deliveries -> SUBSET Nat]
  /\ received \in SUBSET Deliveries
  /\ disruptions \in 0..MaxDisruptions

\* No attempt number of a delivery is ever in the hands of two senders, and an
\* attempt is POSTed at most once: a claim that has not been sent is not among
\* the attempts the receiver has seen, whatever leases and crashes do.
AttemptOwnedOnce ==
  /\ \A p, q \in Senders : p # q => claims[p] \cap claims[q] = {}
  /\ \A p \in Senders : \A c \in claims[p] :
       ~(answer[p].sent /\ answer[p].claim = c) => c.attempt \notin posted[c.delivery]

\* "delivered" never lies: the receiver has answered the delivery with a 2xx or
\* processed it, even when stale senders write the row after losing their lease.
DeliveredWasReceived ==
  \A d \in Deliveries : row[d].status = "delivered" => d \in received

\* While leases cover the attempts, a claim in hand is the row's current attempt
\* under a live lease: no other replica can reclaim, resend or overwrite it.
ClaimIsCurrent ==
  LeaseCoversAttempt =>
    \A p \in Senders : \A c \in claims[p] :
      LET r == row[c.delivery]
      IN  r.status = "delivering" /\ r.attempts = c.attempt /\ r.lease = "held"

\* While leases cover the attempts, a delivered or dead-lettered row is final:
\* no stale update returns it to the queue or flips its outcome.
TerminalIsFinal ==
  [][LeaseCoversAttempt =>
       \A d \in Deliveries : row[d].status \in Terminal => row'[d].status = row[d].status]_outboxVars

\* The promise of the outbox: a row that is not settled is an open delivery.
Outcome(r) ==
  CASE r.status = "absent" -> "none"
    [] r.status \in {"pending", "delivering"} -> "open"
    [] OTHER -> r.status

Promise == INSTANCE AtLeastOnceDelivery WITH
  outcome <- [d \in Deliveries |-> Outcome(row[d])]

\* While leases cover the attempts, the outbox implements at-least-once delivery
\* with a single final outcome; under fairness every open delivery is settled.
ImplementsPromise == Promise!FairSpec
=============================================================================
