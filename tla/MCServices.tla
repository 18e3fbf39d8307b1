------------------------------ MODULE MCServices ------------------------------
(***************************************************************************)
(* Instances for TLC of the components that share no state: each behaviour *)
(* is one of the component that part names, and the others stay as they    *)
(* start.  Of the initial states it takes some: the user is a member of    *)
(* the default organization or of none, the mode "open", which leaves the  *)
(* buckets as "closed" does, is left out, the replica's own bucket runs    *)
(* with one time from which admissions count, and an investigation starts  *)
(* with a query of two rows, within the cap of samples, or of three and no *)
(* comparison or one earlier release's.                                    *)
(***************************************************************************)
EXTENDS WebhookOutbox, BrowserSessions, TenantPools, RateLimiter, Embedder, InvestigationReports

VARIABLE part

\* Two unequal results of two rows, which the cap of samples allows, and two
\* of three.
MCResults == {b \in [1..2 -> 0..2] : b[1] + b[2] \in {2, 3} /\ b[1] > 0}

Init ==
  /\ part \in {"outbox", "sessions", "pools", "rate", "embedder", "reports"}
  /\ OutboxInit /\ SessionInit /\ PoolsInit /\ RateInit /\ EmbedInit /\ ReportsInit
  /\ \A s \in Browser : session[s] = NoSession \/ session[s].org = DefaultOrg
  /\ member[DefaultOrg] = NotMember => \A o \in Orgs : member[o] = NotMember
  /\ policy = "closed" \/ (policy = "local_fallback" /\ since = 2)
  /\ part # "sessions" => \A o \in Orgs : member[o] = NotMember
  /\ part # "rate" => since = 0
  /\ part # "embedder" => expected = 0
  /\ result[Original] \in {[b \in 1..2 |-> 1], [b \in 1..2 |-> 3 - b]}
  /\ inv.status = "open" \/ inv.shows.comparison.status = "Equal"
  /\ part # "reports" => inv.status = "open" /\ \A q \in Queries : result[q] = [b \in 1..2 |-> 1]

OutboxPart ==
  /\ part = "outbox" /\ OutboxNext
  /\ UNCHANGED <<part, sessionVars, poolVars, rateVars, embedVars, reportVars>>
SessionPart ==
  /\ part = "sessions" /\ SessionNext
  /\ UNCHANGED <<part, outboxVars, poolVars, rateVars, embedVars, reportVars>>
PoolPart ==
  /\ part = "pools" /\ PoolsNext
  /\ UNCHANGED <<part, outboxVars, sessionVars, rateVars, embedVars, reportVars>>
RatePart ==
  /\ part = "rate" /\ RateNext
  /\ UNCHANGED <<part, outboxVars, sessionVars, poolVars, embedVars, reportVars>>
EmbedPart ==
  /\ part = "embedder" /\ EmbedNext
  /\ UNCHANGED <<part, outboxVars, sessionVars, poolVars, rateVars, reportVars>>
ReportPart ==
  /\ part = "reports" /\ ReportsNext
  /\ UNCHANGED <<part, outboxVars, sessionVars, poolVars, rateVars, embedVars>>

Next == OutboxPart \/ SessionPart \/ PoolPart \/ RatePart \/ EmbedPart \/ ReportPart

Spec ==
  /\ Init
  /\ [][Next]_<<part, outboxVars, sessionVars, poolVars, rateVars, embedVars, reportVars>>
  /\ OutboxFairness /\ PoolsFairness /\ EmbedFairness

\* Types of every component.
ServicesTypeOK ==
  OutboxTypeOK /\ SessionTypeOK /\ PoolTypeOK /\ RateTypeOK /\ EmbedTypeOK /\ ReportTypeOK
=============================================================================
