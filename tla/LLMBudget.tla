------------------------------- MODULE LLMBudget -------------------------------
(***************************************************************************)
(* One LLM call under governance: the policy decides, tokens are reserved  *)
(* in the budget ledger, the circuit breaker is asked, the provider is     *)
(* called, and the reservation is reconciled to the actual usage or        *)
(* released.  Calls of several users of one organization interleave, in    *)
(* processes that may crash; every statement of the ledger is a step, and  *)
(* the check of BudgetStore.Reserve reads usage and reservations in two,   *)
(* as READ COMMITTED runs them.                                            *)
(*                                                                         *)
(* Ledgers are per organization, so one organization is modelled.  A cost  *)
(* limit is a token limit in another unit (EstimateCostUSD is linear) and  *)
(* the daily and monthly windows sum the same rows within one day, so a    *)
(* scope has one limit.  Every reservation is of the same size, Estimate:  *)
(* the prompt estimate plus the dominating output allowance.               *)
(***************************************************************************)
EXTENDS Naturals, FiniteSets, Functions

CONSTANTS
  Calls, Users, Processes,
  Anonymous,        \* the empty UserID, which the ledger gives no limit of its own
  UserOf,           \* the user of each call
  ProcessOf,        \* the process that serves it
  OrgLimit,         \* the organization's token limit, 0 for unlimited
  UserLimit,        \* a user's token limit, 0 for unlimited
  Estimate,         \* tokens reserved for a call
  Usages,           \* tokens a call may turn out to use
  Inputs,           \* the GovernanceInputs that occur
  Threshold,        \* defaultCircuitThreshold
  FailClosedValues, \* the values of LLM_BUDGET_FAIL_CLOSED to start with
  TtlCoversCall,    \* TRUE: a reservation outlives the call it was made for
  RlsEnforced,      \* TRUE: the application role is subject to row security
  MaxFaults         \* bound on crashes and failing ledger statements

ASSUME BudgetAssumption ==
  /\ IsFiniteSet(Calls)
  /\ UserOf \in [Calls -> Users] /\ ProcessOf \in [Calls -> Processes]
  /\ OrgLimit \in Nat /\ UserLimit \in Nat /\ Estimate \in Nat
  /\ Usages \subseteq Nat
  /\ Inputs \subseteq [injection : BOOLEAN, cloud : BOOLEAN, allowCloud : BOOLEAN,
                       rows : BOOLEAN, redact : BOOLEAN]
  /\ Threshold \in Nat \ {0} /\ MaxFaults \in Nat
  /\ FailClosedValues \subseteq BOOLEAN /\ TtlCoversCall \in BOOLEAN /\ RlsEnforced \in BOOLEAN

VARIABLES
  failClosed,  \* BudgetConfig.FailClosed
  pc,          \* per call, the statement it has reached
  read,        \* per call, the committed usage its transaction has read
  requestID,   \* per call, whether it holds the id of its reservation
  used,        \* per call, the tokens the provider has spent on it
  reservation, \* app.llm_budget_reservations: status, and expires_at passed
  orgUsage,    \* app.llm_budget_usage
  userUsage,   \* app.llm_user_budget_usage
  failures,    \* per process, the breaker's consecutive failures
  open,        \* per process, whether the breaker is open
  faults,      \* crashes and failing statements so far
  lost,        \* history: a ledger write has been lost
  raced,       \* history: per call, the ledger moved under its Reserve
  streak       \* history: per process, failed calls in a row

callVars == <<read, requestID, used>>
breakerVars == <<failures, open, streak>>
ledgerVars == <<reservation, orgUsage, userUsage>>
vars == <<failClosed, pc, callVars, reservation, orgUsage, userUsage,
          failures, open, faults, lost, raced, streak>>

InReserve == {"orgUsage", "orgReserved", "userUsage", "userReserved", "insert"}
InRecord == {"mark", "org", "user"}
Ended == {"done", "failed", "denied", "crashed"}
Steps == {"new", "lock", "allow", "call", "release"} \cup InReserve \cup InRecord \cup Ended

Reservation == [status : {"none", "reserved", "committed", "released", "expired"},
                lapsed : BOOLEAN]

Init ==
  /\ failClosed \in FailClosedValues
  /\ pc = [c \in Calls |-> "new"]
  /\ read = [c \in Calls |-> 0]
  /\ requestID = [c \in Calls |-> FALSE]
  /\ used = [c \in Calls |-> 0]
  /\ reservation = [c \in Calls |-> [status |-> "none", lapsed |-> FALSE]]
  /\ orgUsage = 0
  /\ userUsage = [u \in Users |-> 0]
  /\ failures = [p \in Processes |-> 0]
  /\ open = [p \in Processes |-> FALSE]
  /\ faults = 0
  /\ lost = FALSE
  /\ raced = [c \in Calls |-> FALSE]
  /\ streak = [p \in Processes |-> 0]

-----------------------------------------------------------------------------
(* The policy and the ledger's reads.                                      *)

\* The policy's decision on a request (SendRowData is folded into rows).
EvaluateGovernance(in) ==
  CASE in.injection -> "deny_injection"
    [] in.cloud /\ ~in.allowCloud -> "deny_cloud"
    [] in.cloud /\ in.rows /\ ~in.redact -> "deny_row_data"
    [] in.cloud -> "allow_cloud"
    [] OTHER -> "allow_local"

Allowed(decision) == decision \in {"allow_local", "allow_cloud"}

Enabled == OrgLimit > 0 \/ UserLimit > 0

\* Mutant: the reads forget expires_at.
ActiveWhateverExpiry(c) == reservation[c].status = "reserved"

\* What activeReservations counts: reserved and not past its expires_at.
Active(c) == reservation[c].status = "reserved" /\ ~reservation[c].lapsed

ActiveOf(u) == {c \in Calls : UserOf[c] = u /\ Active(c)}
ActiveOfOrg == {c \in Calls : Active(c)}

Reserved(calls) == Estimate * Cardinality(calls)

Exceeds(limit, tokens) == limit > 0 /\ tokens > limit

\* Mutant: no advisory lock.
LockAlwaysFree(u) == u \in Users

\* Mutant: a session lock, which a denied request leaves behind.
LockSurvivesDenial(u) ==
  \A c \in Calls : UserOf[c] = u => pc[c] \notin InReserve \cup {"denied"}

\* The advisory lock of Reserve is keyed by the organization and the user.
LockFree(u) == \A c \in Calls : UserOf[c] = u => pc[c] \notin InReserve

\* The history of one Reserve: another call has moved the ledger meanwhile.
Disturb(c) == raced' = [b \in Calls |-> raced[b] \/ (b # c /\ pc[b] \in InReserve)]

Goto(c, label) == pc' = [pc EXCEPT ![c] = label]
-----------------------------------------------------------------------------
(* Before the call: the policy, the reservation, the breaker.              *)

\* A request arrives and the policy decides.
Start(c, in) ==
  /\ pc[c] = "new"
  /\ Goto(c, IF ~Allowed(EvaluateGovernance(in)) THEN "denied"
             ELSE IF Enabled THEN "lock" ELSE "allow")
  /\ UNCHANGED <<failClosed, callVars, ledgerVars, breakerVars, faults, lost, raced>>

\* The transaction of Reserve begins and takes the advisory lock.
LockBudget(c) ==
  /\ pc[c] = "lock"
  /\ LockFree(UserOf[c])
  /\ Goto(c, "orgUsage")
  /\ raced' = [raced EXCEPT ![c] = \E b \in Calls : pc[b] \in {"org", "user"}]
  /\ UNCHANGED <<failClosed, callVars, ledgerVars, breakerVars, faults, lost>>

\* committedUsage of the organization or, next, of the user.
ReadUsage(c) ==
  /\ \/ /\ pc[c] = "orgUsage"
        /\ read' = [read EXCEPT ![c] = orgUsage]
        /\ Goto(c, "orgReserved")
     \/ /\ pc[c] = "userUsage"
        /\ read' = [read EXCEPT ![c] = userUsage[UserOf[c]]]
        /\ Goto(c, "userReserved")
  /\ UNCHANGED <<failClosed, requestID, used, ledgerVars, breakerVars, faults, lost, raced>>

\* Mutant: the organization's check counts the user's own reservations.
CheckOrgOfUser(c) ==
  /\ pc[c] = "orgReserved"
  /\ Goto(c, IF Exceeds(OrgLimit, read[c] + Reserved(ActiveOf(UserOf[c])) + Estimate)
             THEN "denied"
             ELSE IF UserOf[c] = Anonymous THEN "insert" ELSE "userUsage")
  /\ UNCHANGED <<failClosed, callVars, ledgerVars, breakerVars, faults, lost, raced>>

\* activeReservations, and the verdict of checkScope on the organization's limit.
CheckOrg(c) ==
  /\ pc[c] = "orgReserved"
  /\ Goto(c, IF Exceeds(OrgLimit, read[c] + Reserved(ActiveOfOrg) + Estimate) THEN "denied"
             ELSE IF UserOf[c] = Anonymous THEN "insert" ELSE "userUsage")
  /\ UNCHANGED <<failClosed, callVars, ledgerVars, breakerVars, faults, lost, raced>>

\* The same for the user's limit.
CheckUser(c) ==
  /\ pc[c] = "userReserved"
  /\ Goto(c, IF Exceeds(UserLimit, read[c] + Reserved(ActiveOf(UserOf[c])) + Estimate)
             THEN "denied" ELSE "insert")
  /\ UNCHANGED <<failClosed, callVars, ledgerVars, breakerVars, faults, lost, raced>>

\* The row becomes visible, and the lock is released, by the commit.
InsertReservation(c) ==
  /\ pc[c] = "insert"
  /\ reservation' = [reservation EXCEPT ![c] = [status |-> "reserved", lapsed |-> FALSE]]
  /\ requestID' = [requestID EXCEPT ![c] = TRUE]
  /\ Goto(c, "allow")
  /\ Disturb(c)
  /\ UNCHANGED <<failClosed, read, used, orgUsage, userUsage, breakerVars, faults, lost>>

\* Where Reserve goes on when a statement fails: ledgerError.
LedgerError == IF failClosed THEN "denied" ELSE "allow"

\* A statement of Reserve fails and the transaction is rolled back; when it is
\* the commit whose answer is lost, the row may be there all the same.
ReserveFails(c) ==
  /\ faults < MaxFaults
  /\ pc[c] \in InReserve \cup {"lock"}
  /\ \/ UNCHANGED <<reservation, raced>>
     \/ /\ pc[c] = "insert"
        /\ reservation' = [reservation EXCEPT ![c] = [status |-> "reserved", lapsed |-> FALSE]]
        /\ Disturb(c)
  /\ Goto(c, LedgerError)
  /\ faults' = faults + 1
  /\ UNCHANGED <<failClosed, callVars, orgUsage, userUsage, breakerVars, lost>>

\* Mutant: a failed or refused call keeps its reservation.
AfterFailureUnreleased(c) == "failed"

\* Where a call goes when it ends without usage: releaseOnFailure.
AfterFailure(c) == IF requestID[c] THEN "release" ELSE "failed"

\* The breaker of the process lets the call through or refuses it.
Allow(c) ==
  /\ pc[c] = "allow"
  /\ Goto(c, IF open[ProcessOf[c]] THEN AfterFailure(c) ELSE "call")
  /\ UNCHANGED <<failClosed, callVars, ledgerVars, breakerVars, faults, lost, raced>>
-----------------------------------------------------------------------------
(* The call and what is recorded of it.                                    *)

\* Mutant: the threshold is off by one.
TrippedLate(p) == failures[p] + 1 > Threshold

\* RecordFailure: the breaker opens at the threshold and counts anew.
Tripped(p) == failures[p] + 1 >= Threshold

RecordFailure(p) ==
  /\ failures' = [failures EXCEPT ![p] = IF Tripped(p) THEN 0 ELSE @ + 1]
  /\ open' = [open EXCEPT ![p] = @ \/ Tripped(p)]
  /\ streak' = [streak EXCEPT ![p] = @ + 1]

RecordSuccess(p) ==
  /\ failures' = [failures EXCEPT ![p] = 0]
  /\ open' = [open EXCEPT ![p] = FALSE]
  /\ streak' = [streak EXCEPT ![p] = 0]

\* The provider fails; the reservation is given back.
CallFails(c) ==
  /\ pc[c] = "call"
  /\ RecordFailure(ProcessOf[c])
  /\ Goto(c, AfterFailure(c))
  /\ UNCHANGED <<failClosed, callVars, ledgerVars, faults, lost, raced>>

\* The provider answers, having spent the tokens; a call without a reservation
\* goes straight to RecordUsage.
CallSucceeds(c, tokens) ==
  /\ pc[c] = "call"
  /\ RecordSuccess(ProcessOf[c])
  /\ used' = [used EXCEPT ![c] = tokens]
  /\ Goto(c, IF requestID[c] THEN "mark" ELSE "org")
  /\ UNCHANGED <<failClosed, read, requestID, ledgerVars, faults, lost, raced>>

\* ReconcileUsage's UPDATE, of a reservation that is still reserved.
MarkCommitted(c) ==
  /\ pc[c] = "mark"
  /\ reservation' = [reservation EXCEPT ![c].status = IF @ = "reserved" THEN "committed" ELSE @]
  /\ Goto(c, "org")
  /\ Disturb(c)
  /\ UNCHANGED <<failClosed, callVars, orgUsage, userUsage, breakerVars, faults, lost>>

\* Mutant: the upsert overwrites with what was read, instead of adding.
RecordOrgUsageStale(c) ==
  /\ pc[c] = "org"
  /\ orgUsage' = read[c] + used[c]
  /\ Goto(c, IF UserOf[c] = Anonymous THEN "done" ELSE "user")
  /\ Disturb(c)
  /\ UNCHANGED <<failClosed, callVars, reservation, userUsage, breakerVars, faults, lost>>

\* RecordUsage's first statement: the organization's ledger.
RecordOrgUsage(c) ==
  /\ pc[c] = "org"
  /\ orgUsage' = orgUsage + used[c]
  /\ Goto(c, IF UserOf[c] = Anonymous THEN "done" ELSE "user")
  /\ Disturb(c)
  /\ UNCHANGED <<failClosed, callVars, reservation, userUsage, breakerVars, faults, lost>>

\* RecordUsage's second statement: the user's ledger.
RecordUserUsage(c) ==
  /\ pc[c] = "user"
  /\ userUsage' = [userUsage EXCEPT ![UserOf[c]] = @ + used[c]]
  /\ Goto(c, "done")
  /\ Disturb(c)
  /\ UNCHANGED <<failClosed, callVars, reservation, orgUsage, breakerVars, faults, lost>>

\* ReleaseReservation's UPDATE, of a reservation that is still reserved.
ReleaseReservation(c) ==
  /\ pc[c] = "release"
  /\ reservation' = [reservation EXCEPT ![c].status = IF @ = "reserved" THEN "released" ELSE @]
  /\ Goto(c, "failed")
  /\ UNCHANGED <<failClosed, callVars, orgUsage, userUsage, breakerVars, faults, lost, raced>>

\* What follows a ledger write whose error is counted and ignored.
AfterWrite(c) ==
  CASE pc[c] = "mark" -> "org"
    [] pc[c] = "org" /\ UserOf[c] # Anonymous -> "user"
    [] pc[c] = "release" -> "failed"
    [] OTHER -> "done"

WriteFails(c) ==
  /\ faults < MaxFaults
  /\ pc[c] \in InRecord \cup {"release"}
  /\ Goto(c, AfterWrite(c))
  /\ lost' = TRUE
  /\ faults' = faults + 1
  /\ UNCHANGED <<failClosed, callVars, ledgerVars, breakerVars, raced>>
-----------------------------------------------------------------------------
(* Time, crashes, and the cleanup loop.                                    *)

\* expires_at passes; before the call has ended only if calls may outlive it.
ReservationLapses(c) ==
  /\ Active(c)
  /\ TtlCoversCall => pc[c] \in Ended
  /\ reservation' = [reservation EXCEPT ![c].lapsed = TRUE]
  /\ UNCHANGED <<failClosed, pc, callVars, orgUsage, userUsage, breakerVars, faults, lost, raced>>

\* ExpireAbandoned runs on the loop's context, which names no organization, so
\* row security shows it no row.
ExpireAbandoned ==
  /\ ~RlsEnforced
  /\ \E c \in Calls : reservation[c].status = "reserved" /\ reservation[c].lapsed
  /\ reservation' = [c \in Calls |->
       IF reservation[c].status = "reserved" /\ reservation[c].lapsed
       THEN [reservation[c] EXCEPT !.status = "expired"] ELSE reservation[c]]
  /\ UNCHANGED <<failClosed, pc, callVars, orgUsage, userUsage, breakerVars, faults, lost, raced>>

\* The cooldown of an open breaker passes.
BreakerCools(p) ==
  /\ open[p]
  /\ open' = [open EXCEPT ![p] = FALSE]
  /\ streak' = [streak EXCEPT ![p] = 0]
  /\ UNCHANGED <<failClosed, pc, callVars, ledgerVars, failures, faults, lost, raced>>

\* A process dies: its calls are gone and its transactions are rolled back.
Crash(p) ==
  /\ faults < MaxFaults
  /\ \E c \in Calls : ProcessOf[c] = p /\ pc[c] \notin Ended \cup {"new"}
  /\ pc' = [c \in Calls |-> IF ProcessOf[c] = p /\ pc[c] \notin Ended \cup {"new"}
                            THEN "crashed" ELSE pc[c]]
  /\ failures' = [failures EXCEPT ![p] = 0]
  /\ open' = [open EXCEPT ![p] = FALSE]
  /\ streak' = [streak EXCEPT ![p] = 0]
  /\ faults' = faults + 1
  /\ lost' = (lost \/ \E c \in Calls : ProcessOf[c] = p /\ pc[c] \in InRecord)
  /\ UNCHANGED <<failClosed, callVars, ledgerVars, raced>>

\* One step of a call that has begun.
CallStep(c) ==
  \/ LockBudget(c) \/ ReadUsage(c) \/ CheckOrg(c) \/ CheckUser(c) \/ InsertReservation(c)
  \/ Allow(c) \/ CallFails(c) \/ (\E n \in Usages : CallSucceeds(c, n))
  \/ MarkCommitted(c) \/ RecordOrgUsage(c) \/ RecordUserUsage(c) \/ ReleaseReservation(c)

Next ==
  \/ \E c \in Calls :
       \/ \E in \in Inputs : Start(c, in)
       \/ CallStep(c)
       \/ ReserveFails(c) \/ WriteFails(c)
       \/ ReservationLapses(c)
  \/ ExpireAbandoned
  \/ \E p \in Processes : BreakerCools(p) \/ Crash(p)

Spec == Init /\ [][Next]_vars

\* Statements and provider calls have timeouts, and time passes.
Fairness ==
  /\ \A c \in Calls : WF_vars(CallStep(c)) /\ WF_vars(ReservationLapses(c))

FairSpec == Spec /\ Fairness
-----------------------------------------------------------------------------
(* Properties.                                                             *)

\* Types of the ledgers, the breakers and the calls' local state.
BudgetTypeOK ==
  /\ failClosed \in BOOLEAN
  /\ pc \in [Calls -> Steps]
  /\ read \in [Calls -> Nat]
  /\ requestID \in [Calls -> BOOLEAN]
  /\ used \in [Calls -> Nat]
  /\ reservation \in [Calls -> Reservation]
  /\ orgUsage \in Nat
  /\ userUsage \in [Users -> Nat]
  /\ failures \in [Processes -> 0..(Threshold - 1)]
  /\ open \in [Processes -> BOOLEAN]
  /\ faults \in 0..MaxFaults
  /\ lost \in BOOLEAN
  /\ raced \in [Calls -> BOOLEAN]
  /\ streak \in [Processes -> Nat]

\* Concurrent requests of one user never reserve more than the user's limit: the
\* advisory lock spans the check and the insert, on every exit of Reserve.
UserReservationsFit ==
  UserLimit > 0 =>
    \A u \in Users \ {Anonymous} : Reserved(ActiveOf(u)) <= UserLimit

\* The reservations of an organization never exceed its limit, whoever makes them.
OrgReservationsFit ==
  OrgLimit > 0 => Reserved(ActiveOfOrg) <= OrgLimit

\* An admission whose check was not raced by another user's admission or by a
\* reconciliation leaves usage and reservations within both limits.
SoloAdmissionFits ==
  [][\A c \in Calls :
       ~raced[c] /\ reservation[c].status = "none" /\ reservation'[c].status = "reserved" =>
         /\ OrgLimit > 0 => orgUsage + Reserved({b \in Calls : Active(b)'}) <= OrgLimit
         /\ UserLimit > 0 /\ UserOf[c] # Anonymous =>
              userUsage[UserOf[c]]
                + Reserved({b \in Calls : UserOf[b] = UserOf[c] /\ Active(b)'}) <= UserLimit]_vars

\* However calls interleave, and although their errors are ignored, the ledgers
\* hold what the provider spent, once: more never, less only after a lost write.
Spent(calls) == SumFunctionOnSet(used, calls)

UsageIsSpend ==
  /\ orgUsage <= Spent(Calls)
  /\ ~lost /\ (\A c \in Calls : pc[c] \notin InRecord) =>
       /\ orgUsage = Spent(Calls)
       /\ \A u \in Users \ {Anonymous} :
            userUsage[u] = Spent({c \in Calls : UserOf[c] = u})

\* Failing closed, a call is at the provider only under a reservation the ledger
\* counts; and unless something failed, a call that has ended counts no longer.
CountedWhileInFlight ==
  Enabled =>
    /\ failClosed /\ TtlCoversCall => \A c \in Calls : pc[c] \in {"call", "mark"} => Active(c)
    /\ faults = 0 => \A c \in Calls : pc[c] \in Ended => ~Active(c)

\* A process whose last Threshold calls all failed lets no further call through
\* until the cooldown, also when the failures are those of overlapping calls.
BreakerOpensOnStreak ==
  \A p \in Processes : streak[p] >= Threshold => open[p]

\* A request that has begun ends: no lock, refusal or failing write strands it.
EveryCallEnds == \A c \in Calls : pc[c] # "new" ~> pc[c] \in Ended

\* No reservation counts against the budget for ever, although the process that
\* made it may be gone and the cleanup loop may see no row.
ReservationsEnd == \A c \in Calls : Active(c) ~> ~Active(c)
=============================================================================
