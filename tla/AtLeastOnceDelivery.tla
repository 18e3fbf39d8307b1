------------------------- MODULE AtLeastOnceDelivery -------------------------
(***************************************************************************)
(* What the webhook outbox promises of each delivery, without rows, leases *)
(* or senders: once opened it is settled exactly once, either "delivered", *)
(* which the receiver has then seen, or "dead_letter"; until then it may   *)
(* reach the receiver any number of times, and never after.                *)
(***************************************************************************)
CONSTANT Deliveries

VARIABLES
  outcome,  \* per delivery: "none", "open", "delivered" or "dead_letter"
  received  \* the deliveries the receiver has processed

vars == <<outcome, received>>

Init ==
  /\ outcome = [d \in Deliveries |-> "none"]
  /\ received = {}

Open(d) ==
  /\ outcome[d] = "none"
  /\ outcome' = [outcome EXCEPT ![d] = "open"]
  /\ UNCHANGED received

Receive(d) ==
  /\ outcome[d] = "open"
  /\ received' = received \cup {d}
  /\ UNCHANGED outcome

Settle(d) ==
  /\ outcome[d] = "open"
  /\ \/ /\ d \in received
        /\ outcome' = [outcome EXCEPT ![d] = "delivered"]
     \/ outcome' = [outcome EXCEPT ![d] = "dead_letter"]
  /\ UNCHANGED received

Next == \E d \in Deliveries : Open(d) \/ Receive(d) \/ Settle(d)

Spec == Init /\ [][Next]_vars

\* An open delivery is not left open for ever.
FairSpec == Spec /\ \A d \in Deliveries : WF_vars(Settle(d))
=============================================================================
