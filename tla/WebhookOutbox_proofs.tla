------------------------- MODULE WebhookOutbox_proofs -------------------------
(***************************************************************************)
(* Proofs about the webhook outbox, for every set of deliveries and of     *)
(* senders and every value of the limits: typing, the ownership of         *)
(* attempts, the meaning of "delivered" and, while leases cover the        *)
(* attempts, that the outbox implements at-least-once delivery.            *)
(***************************************************************************)
EXTENDS WebhookOutbox, TLAPS

USE OutboxAssumption

-----------------------------------------------------------------------------
(* Typing.                                                                 *)

LEMMA RowOperations ==
  ASSUME NEW r \in Row
  PROVE  /\ Claimed(r) \in Row
         /\ Reclaimed(r) \in Row
         /\ Enqueued \in Row
  BY DEF Row, Claimed, Reclaimed, Enqueued, Terminal

LEMMA ClassificationTyped ==
  /\ \A reply \in Replies : ClassifyReply(reply) \in Outcomes
  /\ \A outcome \in Outcomes, n \in Nat :
       ClassifyOutboxResult(outcome, n) \in {"pending"} \cup Terminal
  BY DEF Replies, ClassifyReply, Outcomes, ClassifyOutboxResult, Terminal

LEMMA SentAnswerTyped ==
  ASSUME OutboxTypeOK, NEW p \in Senders, answer[p].sent
  PROVE  /\ answer[p].claim \in Claim
         /\ answer[p].claim.delivery \in Deliveries
         /\ answer[p].claim.attempt \in Nat
         /\ answer[p].outcome \in Outcomes
         /\ FinalStatus(p) \in {"pending"} \cup Terminal
<1>1. answer[p] \in [sent : {TRUE}, claim : Claim, outcome : Outcomes]
  <2>1. answer[p] \in Answer
    BY DEF OutboxTypeOK
  <2>2. answer[p] # NoAnswer
    <3>1. ~NoAnswer.sent
      BY Zenon DEF NoAnswer
    <3>. QED BY <3>1, Zenon
  <2>. QED BY <2>1, <2>2 DEF Answer
<1>2. /\ answer[p].claim \in Claim
      /\ answer[p].outcome \in Outcomes
  BY <1>1
<1>3. answer[p].claim.delivery \in Deliveries /\ answer[p].claim.attempt \in Nat
  BY <1>2 DEF Claim
<1>. QED BY <1>2, <1>3, ClassificationTyped DEF FinalStatus

LEMMA DropClaimTyped ==
  ASSUME OutboxTypeOK, NEW p \in Senders, DropClaim(p)
  PROVE  claims' \in [Senders -> SUBSET Claim] /\ answer' \in [Senders -> Answer]
  BY DEF OutboxTypeOK, DropClaim, Answer

\* Every operation keeps the types.
LEMMA OutboxTypeStep ==
  OutboxTypeOK /\ [OutboxNext]_outboxVars => OutboxTypeOK'
<1>. SUFFICES ASSUME OutboxTypeOK, [OutboxNext]_outboxVars
              PROVE  OutboxTypeOK'
  OBVIOUS
<1>. USE DEF OutboxTypeOK
<1>1. ASSUME NEW d \in Deliveries, EnqueueWebhookDelivery(d) PROVE OutboxTypeOK'
  BY <1>1, RowOperations DEF EnqueueWebhookDelivery
<1>2. ASSUME NEW d \in Deliveries, LeaseExpires(d) \/ LeaseExpiresEarly(d)
      PROVE  OutboxTypeOK'
  BY <1>2, SMTT(60) DEF LeaseExpires, LeaseExpiresEarly, Row
<1>3. ASSUME NEW d \in Deliveries, BackoffElapses(d) PROVE OutboxTypeOK'
  BY <1>3 DEF BackoffElapses, Row
<1>4. CASE ReclaimStuckOutboxLeases
  BY <1>4, RowOperations DEF ReclaimStuckOutboxLeases
<1>5. ASSUME NEW p \in Senders, NEW S \in SUBSET Deliveries, ClaimRows(p, S)
      PROVE  OutboxTypeOK'
  <2>1. row' \in [Deliveries -> Row]
    BY <1>5, RowOperations DEF ClaimRows
  <2>2. \A d \in S : [delivery |-> d, attempt |-> Claimed(row[d]).attempts] \in Claim
    BY RowOperations DEF Claim, Row
  <2>. QED BY <1>5, <2>1, <2>2 DEF ClaimRows
<1>6. ASSUME NEW p \in Senders, NEW c \in claims[p], AttemptOutboxHTTP(p, c)
      PROVE  OutboxTypeOK'
  <2>1. c \in Claim /\ c.delivery \in Deliveries /\ c.attempt \in Nat
    BY DEF Claim
  <2>2. PICK reply \in Replies :
          answer' = [answer EXCEPT ![p] =
                       [sent |-> TRUE, claim |-> c, outcome |-> ClassifyReply(reply)]]
    BY <1>6 DEF AttemptOutboxHTTP
  <2>3. [sent |-> TRUE, claim |-> c, outcome |-> ClassifyReply(reply)] \in Answer
    BY <2>1, ClassificationTyped DEF Answer
  <2>4. answer' \in [Senders -> Answer]
    BY <2>2, <2>3
  <2>. QED BY <1>6, <2>1, <2>4 DEF AttemptOutboxHTTP
<1>7. ASSUME NEW p \in Senders, RecordAttempt(p) PROVE OutboxTypeOK'
  <2>1. row' \in [Deliveries -> Row]
    <3>. DEFINE d == answer[p].claim.delivery
                R == [row[d] EXCEPT !.status = FinalStatus(p), !.lease = "none",
                                    !.due = FinalStatus(p) \in Terminal]
    <3>1. d \in Deliveries /\ FinalStatus(p) \in {"pending"} \cup Terminal
      BY <1>7, SentAnswerTyped DEF RecordAttempt
    <3>2. R \in Row
      <4>1. row[d] \in Row /\ FinalStatus(p) \in {"pending"} \cup Terminal
        BY <3>1
      <4>2. (FinalStatus(p) \in Terminal) \in BOOLEAN
        OBVIOUS
      <4>. HIDE DEF d
      <4>. QED BY <4>1, <4>2, ZenonT(60) DEF Row
    <3>3. row' = [row EXCEPT ![d] = R]
      BY <1>7 DEF RecordAttempt
    <3>. HIDE DEF R, d
    <3>. QED BY <3>1, <3>2, <3>3
  <2>. QED BY <1>7, <2>1, DropClaimTyped DEF RecordAttempt
<1>8. ASSUME NEW p \in Senders, LoseRecord(p) PROVE OutboxTypeOK'
  BY <1>8, DropClaimTyped DEF LoseRecord
<1>9. ASSUME NEW p \in Senders, CrashSender(p) PROVE OutboxTypeOK'
  <2>1. NoAnswer \in Answer
    BY DEF Answer
  <2>. QED BY <1>9, <2>1 DEF CrashSender
<1>10. CASE UNCHANGED outboxVars
  BY <1>10 DEF outboxVars
<1>. QED
  BY <1>1, <1>2, <1>3, <1>4, <1>5, <1>6, <1>7, <1>8, <1>9, <1>10
     DEF OutboxNext, AttemptOutboxDelivery, SweepClaim, SenderStep

\* The outbox table, the claims and the histories keep their types under every
\* operation (app/service/webhook_retry.go).
THEOREM OutboxTypeCorrect == OutboxSpec => []OutboxTypeOK
<1>1. OutboxInit => OutboxTypeOK
  BY DEF OutboxInit, OutboxTypeOK, AbsentRow, Row, Answer
<1>2. OutboxTypeOK /\ [OutboxNext]_outboxVars => OutboxTypeOK'
  BY OutboxTypeStep
<1>. QED BY <1>1, <1>2, PTL DEF OutboxSpec

-----------------------------------------------------------------------------
(* Ownership of attempts.  Attempt numbers only grow, so a claim made now is *)
(* newer than every claim in hand and every attempt POSTed so far: this is   *)
(* what makes AttemptOwnedOnce inductive.                                    *)

AbsentIsFresh == \A d \in Deliveries : row[d].status = "absent" => row[d].attempts = 0

AnswerIsClaimed == \A p \in Senders : answer[p].sent => answer[p].claim \in claims[p]

ClaimsAreCounted ==
  \A p \in Senders : \A c \in claims[p] : c.attempt <= row[c.delivery].attempts

PostsAreCounted == \A d \in Deliveries : \A n \in posted[d] : n <= row[d].attempts

UnsentIsUnposted ==
  \A p \in Senders : \A c \in claims[p] :
    ~(answer[p].sent /\ answer[p].claim = c) => c.attempt \notin posted[c.delivery]

ClaimsAreDisjoint ==
  \A p, q \in Senders : p # q => claims[p] \cap claims[q] = {}

OwnershipInv ==
  /\ OutboxTypeOK
  /\ AbsentIsFresh
  /\ AnswerIsClaimed
  /\ ClaimsAreCounted
  /\ PostsAreCounted
  /\ UnsentIsUnposted
  /\ ClaimsAreDisjoint

\* Operations that touch neither the claims nor the posts, and never lower the
\* attempt count of a row.
LEMMA CountingPreserved ==
  ASSUME OwnershipInv, OutboxTypeOK',
         UNCHANGED <<claims, answer, posted>>,
         \A d \in Deliveries :
           /\ row'[d].attempts = row[d].attempts
           /\ row'[d].status = "absent" => row[d].status = "absent"
  PROVE  OwnershipInv'
<1>. USE DEF OwnershipInv
<1>1. AbsentIsFresh'
  BY DEF AbsentIsFresh
<1>2. AnswerIsClaimed' /\ UnsentIsUnposted' /\ ClaimsAreDisjoint'
  BY DEF AnswerIsClaimed, UnsentIsUnposted, ClaimsAreDisjoint
<1>3. ClaimsAreCounted'
  BY DEF ClaimsAreCounted, OutboxTypeOK, Claim
<1>4. PostsAreCounted'
  BY DEF PostsAreCounted
<1>. QED BY <1>1, <1>2, <1>3, <1>4

\* Dropping claims, with the answer, loses nothing that the invariant needs.
LEMMA DroppingPreserved ==
  ASSUME OwnershipInv, OutboxTypeOK', NEW p \in Senders,
         NEW K \in SUBSET claims[p],
         answer[p].sent => answer[p].claim \notin K,
         claims' = [claims EXCEPT ![p] = K],
         answer' = [answer EXCEPT ![p] = NoAnswer],
         UNCHANGED posted,
         \A d \in Deliveries :
           /\ row'[d].attempts = row[d].attempts
           /\ row'[d].status = "absent" => row[d].status = "absent"
  PROVE  OwnershipInv'
<1>. USE DEF OwnershipInv
<1>1. AbsentIsFresh'
  BY DEF AbsentIsFresh
<1>2. \A q \in Senders : claims'[q] \subseteq claims[q]
  BY DEF OutboxTypeOK
<1>3. ~NoAnswer.sent
  BY Zenon DEF NoAnswer
<1>4. /\ ~answer'[p].sent
      /\ \A q \in Senders : q # p => answer'[q] = answer[q] /\ claims'[q] = claims[q]
      /\ claims'[p] = K
  BY <1>3 DEF OutboxTypeOK
<1>5. AnswerIsClaimed'
  BY <1>4 DEF AnswerIsClaimed
<1>6. UnsentIsUnposted'
  BY <1>2, <1>4 DEF UnsentIsUnposted
<1>7. ClaimsAreDisjoint'
  BY <1>2 DEF ClaimsAreDisjoint
<1>8. ClaimsAreCounted'
  BY <1>2 DEF ClaimsAreCounted, OutboxTypeOK, Claim
<1>9. PostsAreCounted'
  BY DEF PostsAreCounted
<1>. QED BY <1>1, <1>5, <1>6, <1>7, <1>8, <1>9

\* A claim takes attempt numbers that nobody has used.
LEMMA ClaimRowsPreserves ==
  ASSUME OwnershipInv, OutboxTypeOK', NEW p \in Senders, NEW S \in SUBSET Deliveries,
         ClaimRows(p, S)
  PROVE  OwnershipInv'
<1>. USE DEF OwnershipInv
<1>. DEFINE New == {[delivery |-> d, attempt |-> Claimed(row[d]).attempts] : d \in S}
<1>1. /\ \A d \in S : row'[d].attempts = row[d].attempts + 1 /\ row'[d].status = "delivering"
      /\ \A d \in Deliveries \ S : row'[d] = row[d]
  BY DEF ClaimRows, Claimed, OutboxTypeOK
<1>2. \A d \in Deliveries :
        /\ row[d].attempts \in Nat /\ row'[d].attempts \in Nat
        /\ row[d].attempts <= row'[d].attempts
  BY <1>1 DEF OutboxTypeOK, Row
<1>3. claims[p] = {} /\ answer[p] = NoAnswer /\ claims'[p] = New
      /\ \A q \in Senders : q # p => claims'[q] = claims[q]
  BY DEF ClaimRows, Idle, OutboxTypeOK
<1>4. \A c \in New : /\ c.delivery \in S
                     /\ c.attempt = row[c.delivery].attempts + 1
  BY DEF Claimed
<1>5. UNCHANGED <<answer, posted>>
  BY DEF ClaimRows
<1>6. ~answer[p].sent
  <2>1. ~NoAnswer.sent
    BY Zenon DEF NoAnswer
  <2>. QED BY <1>3, <2>1
<1>7. AbsentIsFresh'
  BY <1>1 DEF AbsentIsFresh
<1>8. AnswerIsClaimed'
  BY <1>3, <1>5, <1>6 DEF AnswerIsClaimed
<1>9. ClaimsAreCounted'
  <2>. SUFFICES ASSUME NEW q \in Senders, NEW c \in claims'[q]
                PROVE  c.attempt <= row'[c.delivery].attempts
    BY DEF ClaimsAreCounted
  <2>1. CASE q = p
    BY <2>1, <1>1, <1>2, <1>3, <1>4
  <2>2. CASE q # p
    <3>1. c \in Claim /\ c.attempt <= row[c.delivery].attempts
      BY <2>2, <1>3 DEF ClaimsAreCounted, OutboxTypeOK
    <3>. QED BY <3>1, <1>2 DEF Claim
  <2>. QED BY <2>1, <2>2
<1>10. PostsAreCounted'
  <2>. SUFFICES ASSUME NEW d \in Deliveries, NEW n \in posted[d]
                PROVE  n <= row'[d].attempts
    BY <1>5 DEF PostsAreCounted
  <2>1. n \in Nat /\ n <= row[d].attempts
    BY DEF PostsAreCounted, OutboxTypeOK
  <2>. QED BY <2>1, <1>2
<1>11. \A c \in New : c.attempt \notin posted[c.delivery]
  <2>. SUFFICES ASSUME NEW c \in New, c.attempt \in posted[c.delivery] PROVE FALSE
    OBVIOUS
  <2>1. c.delivery \in Deliveries /\ c.attempt <= row[c.delivery].attempts
    BY <1>4 DEF PostsAreCounted
  <2>. QED BY <2>1, <1>2, <1>4
<1>12. UnsentIsUnposted'
  BY <1>3, <1>5, <1>11 DEF UnsentIsUnposted
<1>13. \A q \in Senders : \A c \in New : q # p => c \notin claims[q]
  <2>. SUFFICES ASSUME NEW q \in Senders, NEW c \in New, c \in claims[q] PROVE FALSE
    OBVIOUS
  <2>1. c.delivery \in Deliveries /\ c.attempt <= row[c.delivery].attempts
    BY <1>4 DEF ClaimsAreCounted
  <2>. QED BY <2>1, <1>2, <1>4
<1>14. ClaimsAreDisjoint'
  BY <1>3, <1>13 DEF ClaimsAreDisjoint
<1>. QED BY <1>7, <1>8, <1>9, <1>10, <1>12, <1>14

\* A POST uses up the one claim it is made for.
LEMMA PostPreserves ==
  ASSUME OwnershipInv, OutboxTypeOK', NEW p \in Senders, NEW c \in claims[p],
         AttemptOutboxHTTP(p, c)
  PROVE  OwnershipInv'
<1>. USE DEF OwnershipInv
<1>1. /\ UNCHANGED <<row, claims>>
      /\ posted' = [posted EXCEPT ![c.delivery] = @ \cup {c.attempt}]
  BY DEF AttemptOutboxHTTP
<1>2. /\ answer'[p].sent /\ answer'[p].claim = c
      /\ \A q \in Senders : q # p => answer'[q] = answer[q]
  BY DEF AttemptOutboxHTTP, OutboxTypeOK
<1>3. \A q \in Senders : \A b \in claims[q] :
        b.delivery \in Deliveries /\ b.attempt \in Nat
        /\ b = [delivery |-> b.delivery, attempt |-> b.attempt]
  BY DEF OutboxTypeOK, Claim
<1>4. /\ \A d \in Deliveries : d # c.delivery => posted'[d] = posted[d]
      /\ posted'[c.delivery] = posted[c.delivery] \cup {c.attempt}
  BY <1>1, <1>3 DEF OutboxTypeOK
<1>5. AbsentIsFresh' /\ ClaimsAreDisjoint' /\ ClaimsAreCounted'
  BY <1>1 DEF AbsentIsFresh, ClaimsAreDisjoint, ClaimsAreCounted
<1>6. AnswerIsClaimed'
  BY <1>1, <1>2 DEF AnswerIsClaimed
<1>7. PostsAreCounted'
  BY <1>1, <1>3, <1>4 DEF PostsAreCounted, ClaimsAreCounted
<1>8. UnsentIsUnposted'
  <2>. SUFFICES ASSUME NEW q \in Senders, NEW b \in claims[q],
                       ~(answer'[q].sent /\ answer'[q].claim = b)
                PROVE  b.attempt \notin posted'[b.delivery]
    BY <1>1 DEF UnsentIsUnposted
  <2>1. b # c
    BY <1>2 DEF ClaimsAreDisjoint
  <2>2. b.attempt # c.attempt \/ b.delivery # c.delivery
    BY <2>1, <1>3
  <2>3. ~(answer[q].sent /\ answer[q].claim = b)
    <3>1. ~NoAnswer.sent
      BY Zenon DEF NoAnswer
    <3>. QED BY <3>1, <1>2 DEF AttemptOutboxHTTP
  <2>4. b.attempt \notin posted[b.delivery]
    BY <2>3 DEF UnsentIsUnposted
  <2>. QED BY <2>2, <2>4, <1>3, <1>4
<1>. QED BY <1>5, <1>6, <1>7, <1>8

\* Every operation keeps attempts owned.
LEMMA OwnershipStep ==
  OwnershipInv /\ OutboxTypeOK' /\ [OutboxNext]_outboxVars => OwnershipInv'
<1>. SUFFICES ASSUME OwnershipInv, OutboxTypeOK', [OutboxNext]_outboxVars
              PROVE  OwnershipInv'
  OBVIOUS
<1>0. OutboxTypeOK
  BY DEF OwnershipInv
<1>1. ASSUME NEW d \in Deliveries, EnqueueWebhookDelivery(d) PROVE OwnershipInv'
  <2>1. \A e \in Deliveries :
          /\ row'[e].attempts = row[e].attempts
          /\ row'[e].status = "absent" => row[e].status = "absent"
    BY <1>0, <1>1 DEF EnqueueWebhookDelivery, OwnershipInv, AbsentIsFresh, OutboxTypeOK, Enqueued
  <2>. QED BY <1>1, <2>1, CountingPreserved DEF EnqueueWebhookDelivery
<1>2. ASSUME NEW d \in Deliveries, LeaseExpires(d) \/ LeaseExpiresEarly(d) \/ BackoffElapses(d)
      PROVE  OwnershipInv'
  <2>1. \A e \in Deliveries :
          /\ row'[e].attempts = row[e].attempts
          /\ row'[e].status = "absent" => row[e].status = "absent"
    BY <1>0, <1>2 DEF LeaseExpires, LeaseExpiresEarly, BackoffElapses, OutboxTypeOK, Row
  <2>. QED BY <1>2, <2>1, CountingPreserved DEF LeaseExpires, LeaseExpiresEarly, BackoffElapses
<1>3. CASE ReclaimStuckOutboxLeases
  <2>1. \A e \in Deliveries :
          /\ row'[e].attempts = row[e].attempts
          /\ row'[e].status = "absent" => row[e].status = "absent"
    BY <1>0, <1>3 DEF ReclaimStuckOutboxLeases, Reclaimed, OutboxTypeOK
  <2>. QED BY <1>3, <2>1, CountingPreserved DEF ReclaimStuckOutboxLeases
<1>4. ASSUME NEW p \in Senders, NEW S \in SUBSET Deliveries, ClaimRows(p, S)
      PROVE  OwnershipInv'
  BY <1>4, ClaimRowsPreserves
<1>5. ASSUME NEW p \in Senders, NEW c \in claims[p], AttemptOutboxHTTP(p, c)
      PROVE  OwnershipInv'
  BY <1>5, PostPreserves
<1>6. ASSUME NEW p \in Senders, RecordAttempt(p) \/ LoseRecord(p) PROVE OwnershipInv'
  <2>1. answer[p].sent /\ DropClaim(p) /\ UNCHANGED posted
    BY <1>6 DEF RecordAttempt, LoseRecord
  <2>2. \A e \in Deliveries :
          /\ row'[e].attempts = row[e].attempts
          /\ row'[e].status = "absent" => row[e].status = "absent"
    <3>1. FinalStatus(p) # "absent"
      BY <1>0, <2>1, SentAnswerTyped DEF Terminal
    <3>. QED BY <1>0, <1>6, <3>1 DEF RecordAttempt, LoseRecord, OutboxTypeOK, Row
  <2>. DEFINE K == claims[p] \ {answer[p].claim}
  <2>3. claims' = [claims EXCEPT ![p] = K] /\ answer' = [answer EXCEPT ![p] = NoAnswer]
    BY <2>1 DEF DropClaim
  <2>4. K \in SUBSET claims[p] /\ answer[p].claim \notin K
    OBVIOUS
  <2>. HIDE DEF K
  <2>. QED BY <2>1, <2>2, <2>3, <2>4, DroppingPreserved
<1>7. ASSUME NEW p \in Senders, CrashSender(p) PROVE OwnershipInv'
  BY <1>7, DroppingPreserved DEF CrashSender
<1>8. CASE UNCHANGED outboxVars
  BY <1>8, CountingPreserved DEF outboxVars
<1>. QED
  BY <1>1, <1>2, <1>3, <1>4, <1>5, <1>6, <1>7, <1>8
     DEF OutboxNext, AttemptOutboxDelivery, SweepClaim, SenderStep

LEMMA OwnershipInit == OutboxInit => OwnershipInv
<1>. SUFFICES ASSUME OutboxInit PROVE OwnershipInv
  OBVIOUS
<1>1. ~NoAnswer.sent
  BY Zenon DEF NoAnswer
<1>2. OutboxTypeOK
  BY DEF OutboxInit, OutboxTypeOK, AbsentRow, Row, Answer
<1>3. AbsentIsFresh /\ PostsAreCounted
  BY DEF OutboxInit, AbsentIsFresh, PostsAreCounted, AbsentRow
<1>4. AnswerIsClaimed
  BY <1>1 DEF OutboxInit, AnswerIsClaimed
<1>5. ClaimsAreCounted /\ UnsentIsUnposted /\ ClaimsAreDisjoint
  BY DEF OutboxInit, ClaimsAreCounted, UnsentIsUnposted, ClaimsAreDisjoint
<1>. QED BY <1>2, <1>3, <1>4, <1>5 DEF OwnershipInv

LEMMA OwnershipInductive == OutboxSpec => []OwnershipInv
<1>1. OutboxInit => OwnershipInv
  BY OwnershipInit
<1>2. OwnershipInv /\ OutboxTypeOK' /\ [OutboxNext]_outboxVars => OwnershipInv'
  BY OwnershipStep
<1>. QED BY <1>1, <1>2, OutboxTypeCorrect, PTL DEF OutboxSpec

\* However many replicas claim, crash, lose updates and lose leases, no attempt
\* is in two hands and none is POSTed twice (webhook_retry.go:76-92, 184-189).
THEOREM OwnedOnce == OutboxSpec => []AttemptOwnedOnce
<1>1. OwnershipInv => AttemptOwnedOnce
  BY DEF OwnershipInv, AttemptOwnedOnce, ClaimsAreDisjoint, UnsentIsUnposted
<1>. QED BY <1>1, OwnershipInductive, PTL

-----------------------------------------------------------------------------
(* What "delivered" means.                                                   *)

AnsweredWasReceived ==
  \A p \in Senders :
    answer[p].sent /\ answer[p].outcome = "delivered" => answer[p].claim.delivery \in received

ReceiptInv == OwnershipInv /\ AnsweredWasReceived /\ DeliveredWasReceived

LEMMA OnlyDeliveredIsFinallyDelivered ==
  ASSUME NEW outcome \in Outcomes, NEW n \in Nat,
         ClassifyOutboxResult(outcome, n) = "delivered"
  PROVE  outcome = "delivered"
  BY DEF ClassifyOutboxResult, Outcomes, Terminal

LEMMA OnlySuccessIsDelivered ==
  ASSUME NEW reply \in Replies, ClassifyReply(reply) = "delivered"
  PROVE  reply = "2xx"
  BY DEF Replies, ClassifyReply

\* Every operation keeps what "delivered" means.
LEMMA ReceiptStep ==
  ReceiptInv /\ OwnershipInv' /\ [OutboxNext]_outboxVars => ReceiptInv'
<1>. SUFFICES ASSUME ReceiptInv, OwnershipInv', [OutboxNext]_outboxVars
              PROVE  AnsweredWasReceived' /\ DeliveredWasReceived'
  BY DEF ReceiptInv
<1>. USE DEF ReceiptInv
<1>0. OutboxTypeOK /\ ~NoAnswer.sent
  BY Zenon DEF OwnershipInv, NoAnswer
<1>1. ASSUME NEW d \in Deliveries,
             EnqueueWebhookDelivery(d) \/ LeaseExpires(d) \/ LeaseExpiresEarly(d) \/ BackoffElapses(d)
      PROVE  AnsweredWasReceived' /\ DeliveredWasReceived'
  <2>1. UNCHANGED <<answer, received>>
    BY <1>1 DEF EnqueueWebhookDelivery, LeaseExpires, LeaseExpiresEarly, BackoffElapses
  <2>2. \A e \in Deliveries : row'[e].status = "delivered" => row[e].status = "delivered"
    BY <1>0, <1>1 DEF EnqueueWebhookDelivery, LeaseExpires, LeaseExpiresEarly, BackoffElapses,
                      Enqueued, OutboxTypeOK, Row
  <2>. QED BY <2>1, <2>2 DEF AnsweredWasReceived, DeliveredWasReceived
<1>2. CASE ReclaimStuckOutboxLeases
  BY <1>0, <1>2 DEF ReclaimStuckOutboxLeases, Reclaimed, OutboxTypeOK,
                    AnsweredWasReceived, DeliveredWasReceived
<1>3. ASSUME NEW p \in Senders, NEW S \in SUBSET Deliveries, ClaimRows(p, S)
      PROVE  AnsweredWasReceived' /\ DeliveredWasReceived'
  BY <1>0, <1>3 DEF ClaimRows, Claimed, OutboxTypeOK, AnsweredWasReceived, DeliveredWasReceived
<1>4. ASSUME NEW p \in Senders, NEW c \in claims[p], AttemptOutboxHTTP(p, c)
      PROVE  AnsweredWasReceived' /\ DeliveredWasReceived'
  <2>1. row' = row /\ received \subseteq received'
    BY <1>4 DEF AttemptOutboxHTTP
  <2>2. PICK reply \in Replies :
          /\ answer' = [answer EXCEPT ![p] =
                          [sent |-> TRUE, claim |-> c, outcome |-> ClassifyReply(reply)]]
          /\ reply = "2xx" => c.delivery \in received'
    BY <1>4 DEF AttemptOutboxHTTP
  <2>3. answer'[p].outcome = "delivered" => answer'[p].claim.delivery \in received'
    BY <1>0, <2>2, OnlySuccessIsDelivered DEF OutboxTypeOK
  <2>4. \A q \in Senders : q # p => answer'[q] = answer[q]
    BY <1>0, <2>2 DEF OutboxTypeOK
  <2>5. AnsweredWasReceived'
    BY <2>1, <2>3, <2>4 DEF AnsweredWasReceived
  <2>. QED BY <2>1, <2>5 DEF DeliveredWasReceived
<1>5. ASSUME NEW p \in Senders, RecordAttempt(p)
      PROVE  AnsweredWasReceived' /\ DeliveredWasReceived'
  <2>. DEFINE d == answer[p].claim.delivery
  <2>1. answer[p].sent /\ received' = received
    BY <1>5 DEF RecordAttempt
  <2>2. /\ d \in Deliveries
        /\ answer[p].outcome \in Outcomes
        /\ answer[p].claim.attempt \in Nat
    BY <1>0, <2>1, SentAnswerTyped
  <2>3. FinalStatus(p) = "delivered" => d \in received
    BY <2>1, <2>2, OnlyDeliveredIsFinallyDelivered DEF FinalStatus, AnsweredWasReceived
  <2>4. /\ row'[d].status = FinalStatus(p)
        /\ \A e \in Deliveries : e # d => row'[e] = row[e]
    BY <1>0, <1>5, <2>2 DEF RecordAttempt, OutboxTypeOK, Row
  <2>5. DeliveredWasReceived'
    BY <2>1, <2>3, <2>4 DEF DeliveredWasReceived
  <2>6. AnsweredWasReceived'
    BY <1>0, <1>5, <2>1 DEF RecordAttempt, DropClaim, OutboxTypeOK, AnsweredWasReceived
  <2>. QED BY <2>5, <2>6
<1>6. ASSUME NEW p \in Senders, LoseRecord(p) \/ CrashSender(p)
      PROVE  AnsweredWasReceived' /\ DeliveredWasReceived'
  <2>1. /\ UNCHANGED <<row, received>>
        /\ answer' = [answer EXCEPT ![p] = NoAnswer]
    BY <1>6 DEF LoseRecord, CrashSender, DropClaim
  <2>. QED BY <1>0, <2>1 DEF OutboxTypeOK, AnsweredWasReceived, DeliveredWasReceived
<1>7. CASE UNCHANGED outboxVars
  BY <1>7 DEF outboxVars, AnsweredWasReceived, DeliveredWasReceived
<1>. QED
  BY <1>1, <1>2, <1>3, <1>4, <1>5, <1>6, <1>7
     DEF OutboxNext, AttemptOutboxDelivery, SweepClaim, SenderStep

LEMMA ReceiptInit == OutboxInit => ReceiptInv
<1>. SUFFICES ASSUME OutboxInit PROVE ReceiptInv
  OBVIOUS
<1>1. ~NoAnswer.sent
  BY Zenon DEF NoAnswer
<1>2. AnsweredWasReceived
  BY <1>1 DEF OutboxInit, AnsweredWasReceived
<1>3. DeliveredWasReceived
  BY DEF OutboxInit, DeliveredWasReceived, AbsentRow
<1>. QED BY <1>2, <1>3, OwnershipInit DEF ReceiptInv

LEMMA ReceiptInductive == OutboxSpec => []ReceiptInv
<1>1. OutboxInit => ReceiptInv
  BY ReceiptInit
<1>2. ReceiptInv /\ OwnershipInv' /\ [OutboxNext]_outboxVars => ReceiptInv'
  BY ReceiptStep
<1>. QED BY <1>1, <1>2, OwnershipInductive, PTL DEF OutboxSpec

\* A row says "delivered" only of a delivery the receiver has processed, although
\* the updates that say so compare neither lease nor status (webhook_retry.go:132-144).
THEOREM DeliveredMeansReceived == OutboxSpec => []DeliveredWasReceived
<1>1. ReceiptInv => DeliveredWasReceived
  BY DEF ReceiptInv
<1>. QED BY <1>1, ReceiptInductive, PTL

-----------------------------------------------------------------------------
(* While leases cover the attempts.                                          *)

CurrentInv == OwnershipInv /\ ClaimIsCurrent

\* Two claims in hand on one delivery are both its current attempt, hence equal,
\* hence in the same hands.
LEMMA OneClaimPerDelivery ==
  ASSUME CurrentInv, LeaseCoversAttempt, NEW p \in Senders, NEW q \in Senders,
         NEW b \in claims[p], NEW c \in claims[q], b.delivery = c.delivery
  PROVE  p = q /\ b = c
<1>1. /\ b = [delivery |-> b.delivery, attempt |-> b.attempt]
      /\ c = [delivery |-> c.delivery, attempt |-> c.attempt]
  BY DEF CurrentInv, OwnershipInv, OutboxTypeOK, Claim
<1>2. b.attempt = c.attempt
  BY DEF CurrentInv, ClaimIsCurrent
<1>3. b = c
  BY <1>1, <1>2
<1>. QED BY <1>3 DEF CurrentInv, OwnershipInv, ClaimsAreDisjoint

\* The rows of the claims that stay in hand are left alone.
LEMMA CurrentPreserved ==
  ASSUME CurrentInv, OwnershipInv', LeaseCoversAttempt,
         \A q \in Senders : claims'[q] \subseteq claims[q],
         \A q \in Senders : \A c \in claims'[q] : row'[c.delivery] = row[c.delivery]
  PROVE  CurrentInv'
  BY DEF CurrentInv, ClaimIsCurrent

\* Every operation leaves the claims in hand current.
LEMMA CurrentStep ==
  CurrentInv /\ OwnershipInv' /\ [OutboxNext]_outboxVars => CurrentInv'
<1>. SUFFICES ASSUME CurrentInv, OwnershipInv', [OutboxNext]_outboxVars, LeaseCoversAttempt
              PROVE  CurrentInv'
  BY DEF CurrentInv, ClaimIsCurrent
<1>0. /\ OutboxTypeOK
      /\ \A q \in Senders : \A c \in claims[q] :
           /\ c.delivery \in Deliveries
           /\ row[c.delivery].status = "delivering"
           /\ row[c.delivery].attempts = c.attempt
           /\ row[c.delivery].lease = "held"
  BY DEF CurrentInv, OwnershipInv, OutboxTypeOK, ClaimIsCurrent, Claim
<1>1. ASSUME NEW d \in Deliveries,
             EnqueueWebhookDelivery(d) \/ LeaseExpires(d) \/ BackoffElapses(d)
      PROVE  CurrentInv'
  <2>1. \A e \in Deliveries : row'[e] # row[e] =>
          \A q \in Senders : \A c \in claims[q] : c.delivery # e
    BY <1>0, <1>1 DEF EnqueueWebhookDelivery, LeaseExpires, HeldBy, BackoffElapses, OutboxTypeOK
  <2>2. claims' = claims
    BY <1>1 DEF EnqueueWebhookDelivery, LeaseExpires, BackoffElapses
  <2>. QED BY <1>0, <2>1, <2>2, CurrentPreserved
<1>2. ASSUME NEW d \in Deliveries, LeaseExpiresEarly(d) PROVE CurrentInv'
  BY <1>2 DEF LeaseExpiresEarly
<1>3. CASE ReclaimStuckOutboxLeases
  <2>1. claims' = claims
    BY <1>3 DEF ReclaimStuckOutboxLeases
  <2>2. \A q \in Senders : \A c \in claims[q] : row'[c.delivery] = row[c.delivery]
    BY <1>0, <1>3 DEF ReclaimStuckOutboxLeases, Stuck, OutboxTypeOK
  <2>. QED BY <2>1, <2>2, CurrentPreserved
<1>4. ASSUME NEW p \in Senders, NEW S \in SUBSET Deliveries, ClaimRows(p, S)
      PROVE  CurrentInv'
  <2>1. /\ \A q \in Senders : q # p => claims'[q] = claims[q]
        /\ claims'[p] = {[delivery |-> d, attempt |-> Claimed(row[d]).attempts] : d \in S}
        /\ \A d \in S : row'[d] = Claimed(row[d])
        /\ \A d \in Deliveries \ S : row'[d] = row[d]
    BY <1>0, <1>4 DEF ClaimRows, OutboxTypeOK
  <2>2. \A q \in Senders : \A c \in claims[q] : c.delivery \notin S
    BY <1>0, <1>4 DEF ClaimRows, Eligible
  <2>3. \A c \in claims'[p] :
          /\ row'[c.delivery].status = "delivering"
          /\ row'[c.delivery].attempts = c.attempt
          /\ row'[c.delivery].lease = "held"
    <3>. SUFFICES ASSUME NEW c \in claims'[p]
                  PROVE  /\ row'[c.delivery].status = "delivering"
                         /\ row'[c.delivery].attempts = c.attempt
                         /\ row'[c.delivery].lease = "held"
      BY Zenon
    <3>1. PICK d \in S : c = [delivery |-> d, attempt |-> Claimed(row[d]).attempts]
      BY <2>1, Zenon
    <3>2. /\ c.delivery = d
          /\ c.attempt = Claimed(row[d]).attempts
          /\ row'[d] = Claimed(row[d])
      BY <2>1, <3>1
    <3>. QED BY <3>2 DEF Claimed
  <2>4. \A q \in Senders : q # p => \A c \in claims'[q] :
          /\ row'[c.delivery].status = "delivering"
          /\ row'[c.delivery].attempts = c.attempt
          /\ row'[c.delivery].lease = "held"
    BY <1>0, <2>1, <2>2
  <2>. QED BY <2>3, <2>4 DEF CurrentInv, ClaimIsCurrent
<1>5. ASSUME NEW p \in Senders, NEW c \in claims[p], AttemptOutboxHTTP(p, c)
      PROVE  CurrentInv'
  BY <1>5, CurrentPreserved DEF AttemptOutboxHTTP
<1>6. ASSUME NEW p \in Senders, RecordAttempt(p) PROVE CurrentInv'
  <2>. DEFINE a == answer[p].claim
  <2>1. /\ a \in claims[p] /\ a.delivery \in Deliveries
        /\ claims' = [claims EXCEPT ![p] = @ \ {a}]
        /\ \A d \in Deliveries : d # a.delivery => row'[d] = row[d]
    BY <1>0, <1>6 DEF RecordAttempt, DropClaim, CurrentInv, OwnershipInv, AnswerIsClaimed, OutboxTypeOK
  <2>2. \A q \in Senders : claims'[q] \subseteq claims[q]
    BY <1>0, <2>1 DEF OutboxTypeOK
  <2>3. \A q \in Senders : \A c \in claims'[q] : c.delivery # a.delivery
    <3>. SUFFICES ASSUME NEW q \in Senders, NEW c \in claims'[q], c.delivery = a.delivery
                  PROVE  FALSE
      OBVIOUS
    <3>1. q = p /\ c = a
      BY <2>1, <2>2, OneClaimPerDelivery
    <3>. QED BY <1>0, <2>1, <3>1 DEF OutboxTypeOK
  <2>. QED BY <1>0, <2>1, <2>2, <2>3, CurrentPreserved
<1>7. ASSUME NEW p \in Senders, LoseRecord(p) \/ CrashSender(p) PROVE CurrentInv'
  <2>1. row' = row /\ \A q \in Senders : claims'[q] \subseteq claims[q]
    BY <1>0, <1>7 DEF LoseRecord, CrashSender, DropClaim, OutboxTypeOK
  <2>. QED BY <2>1, CurrentPreserved
<1>8. CASE UNCHANGED outboxVars
  BY <1>8, CurrentPreserved DEF outboxVars
<1>. QED
  BY <1>1, <1>2, <1>3, <1>4, <1>5, <1>6, <1>7, <1>8
     DEF OutboxNext, AttemptOutboxDelivery, SweepClaim, SenderStep

LEMMA CurrentInit == OutboxInit => CurrentInv
  BY OwnershipInit DEF OutboxInit, CurrentInv, ClaimIsCurrent

LEMMA CurrentInductive == OutboxSpec => []CurrentInv
<1>1. OutboxInit => CurrentInv
  BY CurrentInit
<1>2. CurrentInv /\ OwnershipInv' /\ [OutboxNext]_outboxVars => CurrentInv'
  BY CurrentStep
<1>. QED BY <1>1, <1>2, OwnershipInductive, PTL DEF OutboxSpec

\* A claim in hand is the current attempt of a leased row, as long as the lease of
\* five minutes outlives the attempts (webhook_retry.go:23, 76-92, 184-189).
THEOREM ClaimsStayCurrent == OutboxSpec => []ClaimIsCurrent
<1>1. CurrentInv => ClaimIsCurrent
  BY DEF CurrentInv
<1>. QED BY <1>1, CurrentInductive, PTL

\* The row a sender is about to update is still the one it claimed.
LEMMA RecordedRowIsDelivering ==
  ASSUME CurrentInv, LeaseCoversAttempt, NEW p \in Senders, answer[p].sent
  PROVE  /\ answer[p].claim \in claims[p]
         /\ answer[p].claim.delivery \in Deliveries
         /\ row[answer[p].claim.delivery].status = "delivering"
  BY DEF CurrentInv, OwnershipInv, AnswerIsClaimed, ClaimIsCurrent, OutboxTypeOK, Claim

\* Under the same condition a settled row keeps its outcome, although the updates
\* after an attempt do not check that the row is still theirs (webhook_retry.go:132-144).
THEOREM SettledIsFinal == OutboxSpec => TerminalIsFinal
<1>1. ASSUME CurrentInv, [OutboxNext]_outboxVars, LeaseCoversAttempt,
             NEW d \in Deliveries, row[d].status \in Terminal
      PROVE  row'[d].status = row[d].status
  <2>0. OutboxTypeOK /\ row[d].status \notin {"absent", "pending", "delivering"}
    BY <1>1 DEF CurrentInv, OwnershipInv, Terminal
  <2>1. CASE row' = row
    BY <2>1
  <2>2. ASSUME NEW e \in Deliveries,
               EnqueueWebhookDelivery(e) \/ LeaseExpires(e) \/ LeaseExpiresEarly(e) \/ BackoffElapses(e)
        PROVE  row'[d].status = row[d].status
    BY <2>0, <2>2 DEF EnqueueWebhookDelivery, LeaseExpires, LeaseExpiresEarly, BackoffElapses,
                      OutboxTypeOK, Row
  <2>3. CASE ReclaimStuckOutboxLeases
    BY <2>0, <2>3 DEF ReclaimStuckOutboxLeases, Stuck
  <2>4. ASSUME NEW p \in Senders, NEW S \in SUBSET Deliveries, ClaimRows(p, S)
        PROVE  row'[d].status = row[d].status
    BY <2>0, <2>4 DEF ClaimRows, Eligible
  <2>5. ASSUME NEW p \in Senders, RecordAttempt(p)
        PROVE  row'[d].status = row[d].status
    <3>1. answer[p].sent
      BY <2>5 DEF RecordAttempt
    <3>2. answer[p].claim.delivery # d
      BY <1>1, <2>0, <3>1, RecordedRowIsDelivering
    <3>. QED BY <2>0, <2>5, <3>2 DEF RecordAttempt, OutboxTypeOK
  <2>. QED
    BY <1>1, <2>1, <2>2, <2>3, <2>4, <2>5
       DEF OutboxNext, AttemptOutboxDelivery, SweepClaim, SenderStep,
           AttemptOutboxHTTP, LoseRecord, CrashSender, outboxVars
<1>2. CurrentInv /\ [OutboxNext]_outboxVars =>
        [LeaseCoversAttempt =>
           \A d \in Deliveries :
             row[d].status \in Terminal => row'[d].status = row[d].status]_outboxVars
  BY <1>1
<1>. QED BY <1>2, CurrentInductive, PTL DEF OutboxSpec, TerminalIsFinal

-----------------------------------------------------------------------------
(* Refinement: while leases cover the attempts, the outbox is at-least-once  *)
(* delivery with a single final outcome.                                     *)

LEMMA OutcomeOfRow ==
  ASSUME NEW r \in Row
  PROVE  /\ r.status = "absent" <=> Outcome(r) = "none"
         /\ r.status \in {"pending", "delivering"} <=> Outcome(r) = "open"
         /\ r.status \in Terminal <=> Outcome(r) \in Terminal
         /\ r.status \in Terminal => Outcome(r) = r.status
  BY DEF Row, Outcome, Terminal

\* A change of one row is a change of one outcome.
LEMMA OutcomeOfOneRow ==
  ASSUME OutboxTypeOK, NEW d \in Deliveries, NEW s,
         \A e \in Deliveries : e # d => Outcome(row'[e]) = Outcome(row[e]),
         Outcome(row'[d]) = s
  PROVE  [e \in Deliveries |-> Outcome(row'[e])]
           = [[e \in Deliveries |-> Outcome(row[e])] EXCEPT ![d] = s]
  OBVIOUS

\* Every operation is one of the promise, or invisible to it.
LEMMA PromiseStep ==
  ASSUME LeaseCoversAttempt
  PROVE  CurrentInv /\ ReceiptInv /\ CurrentInv' /\ [OutboxNext]_outboxVars
           => [Promise!Next]_(Promise!vars)
<1>. DEFINE outcome == [d \in Deliveries |-> Outcome(row[d])]
<1>. SUFFICES ASSUME CurrentInv, ReceiptInv, CurrentInv', [OutboxNext]_outboxVars
              PROVE  [Promise!Next]_(Promise!vars)
  OBVIOUS
<1>0. OutboxTypeOK /\ \A d \in Deliveries : row[d] \in Row
  BY DEF CurrentInv, OwnershipInv, OutboxTypeOK
<1>1. ASSUME UNCHANGED received, \A d \in Deliveries : Outcome(row'[d]) = Outcome(row[d])
      PROVE  UNCHANGED Promise!vars
  BY <1>1 DEF Promise!vars
<1>2. ASSUME NEW d \in Deliveries, EnqueueWebhookDelivery(d)
      PROVE  [Promise!Next]_(Promise!vars)
  <2>1. CASE row[d].status = "absent"
    <3>1. /\ Outcome(row[d]) = "none" /\ Outcome(row'[d]) = "open"
          /\ \A e \in Deliveries : e # d => row'[e] = row[e]
      BY <1>0, <1>2, <2>1 DEF EnqueueWebhookDelivery, Enqueued, Outcome, OutboxTypeOK
    <3>2. Promise!Open(d)
      BY <1>0, <1>2, <3>1, OutcomeOfOneRow DEF Promise!Open, EnqueueWebhookDelivery
    <3>. QED BY <3>2 DEF Promise!Next
  <2>2. CASE row[d].status # "absent"
    BY <1>1, <1>2, <2>2 DEF EnqueueWebhookDelivery
  <2>. QED BY <2>1, <2>2
<1>3. ASSUME NEW d \in Deliveries, LeaseExpires(d) \/ LeaseExpiresEarly(d) \/ BackoffElapses(d)
      PROVE  [Promise!Next]_(Promise!vars)
  <2>1. UNCHANGED received /\ \A e \in Deliveries : row'[e].status = row[e].status
    BY <1>0, <1>3 DEF LeaseExpires, LeaseExpiresEarly, BackoffElapses, OutboxTypeOK, Row
  <2>. QED BY <1>1, <2>1 DEF Outcome
<1>4. CASE ReclaimStuckOutboxLeases
  <2>1. \A d \in Deliveries : Outcome(row'[d]) = Outcome(row[d])
    BY <1>0, <1>4 DEF ReclaimStuckOutboxLeases, Stuck, Reclaimed, Outcome, OutboxTypeOK
  <2>. QED BY <1>1, <1>4, <2>1 DEF ReclaimStuckOutboxLeases
<1>5. ASSUME NEW p \in Senders, NEW S \in SUBSET Deliveries, ClaimRows(p, S)
      PROVE  [Promise!Next]_(Promise!vars)
  <2>1. \A d \in Deliveries : Outcome(row'[d]) = Outcome(row[d])
    BY <1>0, <1>5 DEF ClaimRows, Claimed, Eligible, Outcome, OutboxTypeOK
  <2>. QED BY <1>1, <1>5, <2>1 DEF ClaimRows
<1>6. ASSUME NEW p \in Senders, NEW c \in claims[p], AttemptOutboxHTTP(p, c)
      PROVE  [Promise!Next]_(Promise!vars)
  <2>1. c.delivery \in Deliveries /\ row[c.delivery].status = "delivering"
    BY <1>0 DEF CurrentInv, ClaimIsCurrent, OutboxTypeOK, Claim
  <2>2. row' = row /\ (received' = received \/ received' = received \cup {c.delivery})
    BY <1>6 DEF AttemptOutboxHTTP
  <2>3. CASE received' = received
    BY <1>1, <2>2, <2>3
  <2>4. CASE received' = received \cup {c.delivery}
    <3>1. Promise!Receive(c.delivery)
      BY <2>1, <2>2, <2>4, <1>0, OutcomeOfRow DEF Promise!Receive
    <3>. QED BY <2>1, <3>1 DEF Promise!Next
  <2>. QED BY <2>2, <2>3, <2>4
<1>7. ASSUME NEW p \in Senders, RecordAttempt(p)
      PROVE  [Promise!Next]_(Promise!vars)
  <2>. DEFINE d == answer[p].claim.delivery
  <2>1. /\ answer[p].sent /\ UNCHANGED received
        /\ answer[p].claim.attempt \in Nat
        /\ answer[p].outcome \in Outcomes
        /\ FinalStatus(p) \in {"pending"} \cup Terminal
    BY <1>0, <1>7, SentAnswerTyped DEF RecordAttempt
  <2>2. d \in Deliveries /\ row[d].status = "delivering"
    BY <2>1, RecordedRowIsDelivering
  <2>3. /\ row'[d].status = FinalStatus(p)
        /\ \A e \in Deliveries : e # d => row'[e] = row[e]
    <3>1. /\ row \in [Deliveries -> Row] /\ row[d] \in Row
          /\ row' = [row EXCEPT ![d].status = FinalStatus(p), ![d].lease = "none",
                                ![d].due = FinalStatus(p) \in Terminal]
      BY <1>0, <1>7, <2>2 DEF RecordAttempt, OutboxTypeOK
    <3>. HIDE DEF d
    <3>. QED BY <2>2, <3>1 DEF Row
  <2>4. Outcome(row[d]) = "open"
    BY <2>2 DEF Outcome
  <2>5. CASE FinalStatus(p) = "pending"
    <3>1. Outcome(row'[d]) = "open"
      BY <2>3, <2>5 DEF Outcome
    <3>. QED BY <1>1, <2>1, <2>3, <2>4, <3>1
  <2>6. CASE FinalStatus(p) \in Terminal
    <3>1. Outcome(row'[d]) = FinalStatus(p)
      BY <2>3, <2>6 DEF Outcome, Terminal
    <3>2. FinalStatus(p) = "delivered" => d \in received
      BY <2>1, OnlyDeliveredIsFinallyDelivered DEF FinalStatus, ReceiptInv, AnsweredWasReceived
    <3>3. outcome' = [outcome EXCEPT ![d] = FinalStatus(p)]
      BY <1>0, <2>2, <2>3, <3>1, OutcomeOfOneRow
    <3>4. Promise!Settle(d)
      BY <2>1, <2>2, <2>4, <2>6, <3>2, <3>3 DEF Promise!Settle, Terminal
    <3>. QED BY <2>2, <3>4 DEF Promise!Next
  <2>. QED BY <2>1, <2>5, <2>6
<1>8. ASSUME NEW p \in Senders, LoseRecord(p) \/ CrashSender(p)
      PROVE  [Promise!Next]_(Promise!vars)
  BY <1>1, <1>8 DEF LoseRecord, CrashSender
<1>9. CASE UNCHANGED outboxVars
  BY <1>1, <1>9 DEF outboxVars
<1>. QED
  BY <1>2, <1>3, <1>4, <1>5, <1>6, <1>7, <1>8, <1>9
     DEF OutboxNext, AttemptOutboxDelivery, SweepClaim, SenderStep

\* Every operation of the outbox opens, receives or settles one delivery, or is
\* invisible to the promise (webhook_retry.go, schedules.go:332-370).
THEOREM KeepsPromise == ASSUME LeaseCoversAttempt PROVE OutboxSpec => Promise!Spec
<1>1. OutboxInit => Promise!Init
  BY DEF OutboxInit, Promise!Init, Outcome, AbsentRow
<1>2. CurrentInv /\ ReceiptInv /\ CurrentInv' /\ [OutboxNext]_outboxVars
        => [Promise!Next]_(Promise!vars)
  BY PromiseStep
<1>. QED BY <1>1, <1>2, CurrentInductive, ReceiptInductive, PTL DEF OutboxSpec, Promise!Spec
=============================================================================
