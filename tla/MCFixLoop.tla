------------------------------- MODULE MCFixLoop -------------------------------
(* Three bounded instances of FixLoop in one run.  "replicas": two replicas  *)
(* poll one connection, one may fail or lose its lock.  "clicks": one        *)
(* replica, and users who open investigations of an alert while an older one *)
(* of the query is settled.  "fixes": the same with an open alert that has   *)
(* its investigation.  The later instances start in states the first reaches *)
(* and with the bounds on what they leave out used up.                       *)
EXTENDS FixLoop

CONSTANTS p2, a1, a2, i1

VARIABLE instance

AlertOf(acknowledged, resolved, previous) ==
  [used |-> TRUE, connection |-> CHOOSE c \in Connections : TRUE,
   query |-> CHOOSE q \in Queries : TRUE,
   acknowledged |-> acknowledged, resolved |-> resolved, previous |-> previous]

Replicas == instance = "replicas"
Fixes == instance = "fixes"

MCInit ==
  /\ instance \in {"replicas", "clicks", "fixes"}
  /\ alert = [a \in Alerts |->
                CASE a = a2 /\ ~Replicas -> AlertOf(TRUE, 1, None)
                  [] a = a1 /\ Fixes -> AlertOf(FALSE, 0, a2)
                  [] OTHER -> UnusedAlert]
  /\ latest = [q \in Queries |-> NoInterval]
  /\ holder = [c \in Connections |-> Nobody]
  /\ poller = [p \in Pollers |-> Idle]
  /\ seen = [c \in Connections |-> {}]
  /\ faults = IF Replicas THEN 0 ELSE MaxFaults
  /\ inv \in {[i \in Investigations |->
                IF i = i1 /\ Fixes THEN [NoInvestigation EXCEPT !.used = TRUE, !.stat = m]
                ELSE NoInvestigation] : m \in Means}
  /\ link = [a \in Alerts |-> IF a = a1 /\ Fixes THEN i1 ELSE None]
  /\ client = [c \in Clients |-> Resting]
  /\ verdicts = [p \in Pollers |-> {}]
  /\ fresh = [i \in Investigations |-> {}]
  /\ evidence = [i \in Investigations |-> "none"]
  /\ ops = IF Replicas THEN MaxOps ELSE 0

MCNext ==
  /\ Next
  /\ UNCHANGED instance
  /\ IF Replicas THEN UNCHANGED latest ELSE poller'[p2] = Idle

MCSpec == MCInit /\ [][MCNext]_<<vars, instance>> /\ Fairness
=============================================================================
