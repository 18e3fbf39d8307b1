--------------------------- MODULE LLMBudget_proofs ---------------------------
(***************************************************************************)
(* Proofs about the LLM budget, for every set of calls, users, processes   *)
(* and every value of the limits: typing, what the advisory lock of        *)
(* Reserve guarantees, what an undisturbed admission guarantees, that the  *)
(* breaker opens, and that the ledgers hold what the provider has spent.   *)
(***************************************************************************)
EXTENDS LLMBudget, Sums

USE BudgetAssumption

-----------------------------------------------------------------------------
(* Sums of reservations.                                                   *)

\* Fewer reservations are a smaller sum, and one more adds at most Estimate.
LEMMA ReservedMonotone ==
  ASSUME NEW S \in SUBSET Calls, NEW T \in SUBSET Calls
  PROVE  /\ Reserved(S) \in Nat
         /\ S \subseteq T => Reserved(S) <= Reserved(T)
         /\ \A c \in Calls : S \subseteq T \cup {c} => Reserved(S) <= Reserved(T) + Estimate
<1>1. /\ IsFiniteSet(S) /\ IsFiniteSet(T)
      /\ Cardinality(S) \in Nat /\ Cardinality(T) \in Nat
  BY FS_Subset, FS_CardinalityType
<1>2. ASSUME NEW a \in Nat, NEW b \in Nat, a <= b
      PROVE  Estimate * a <= Estimate * b
  BY <1>2, Z3
<1>3. ASSUME S \subseteq T PROVE Cardinality(S) <= Cardinality(T)
  BY <1>1, <1>3, FS_Subset
<1>4. ASSUME NEW c \in Calls, S \subseteq T \cup {c}
      PROVE  Reserved(S) <= Reserved(T) + Estimate
  <2>1. /\ IsFiniteSet(T \cup {c})
        /\ Cardinality(T \cup {c}) = Cardinality(T) \/ Cardinality(T \cup {c}) = Cardinality(T) + 1
    BY <1>1, FS_AddElement
  <2>2. Cardinality(S) <= Cardinality(T) + 1
    BY <1>1, <1>4, <2>1, FS_Subset
  <2>3. Estimate * Cardinality(S) <= Estimate * (Cardinality(T) + 1)
    BY <1>1, <1>2, <2>2
  <2>4. Estimate * (Cardinality(T) + 1) = Estimate * Cardinality(T) + Estimate
    BY <1>1, Z3
  <2>. QED BY <2>3, <2>4 DEF Reserved
<1>5. Reserved(S) \in Nat
  BY <1>1, Z3 DEF Reserved
<1>6. ASSUME S \subseteq T PROVE Reserved(S) <= Reserved(T)
  BY <1>1, <1>2, <1>3, <1>6 DEF Reserved
<1>. QED BY <1>4, <1>5, <1>6

-----------------------------------------------------------------------------
(* Typing.                                                                 *)

\* A reservation that lapses is still one: only the flag of its expiry changes.
LEMMA LapsedTyped ==
  ASSUME NEW r \in Reservation
  PROVE  [r EXCEPT !.lapsed = TRUE] \in Reservation
BY DEF Reservation

\* The ledgers, the breakers and the calls' state keep their types.
THEOREM BudgetTypeCorrect == Spec => []BudgetTypeOK
<1>1. Init => BudgetTypeOK
  <2>. SUFFICES ASSUME Init PROVE BudgetTypeOK
    OBVIOUS
  <2>1. failClosed \in BOOLEAN
    BY Zenon DEF Init, BudgetAssumption
  <2>2. 0 \in 0..(Threshold - 1) /\ 0 \in 0..MaxFaults
    OBVIOUS
  <2>. QED BY <2>1, <2>2 DEF Init, BudgetTypeOK, Steps, Reservation
<1>2. BudgetTypeOK /\ [Next]_vars => BudgetTypeOK'
  <2>. SUFFICES ASSUME BudgetTypeOK, [Next]_vars PROVE BudgetTypeOK'
    OBVIOUS
  <2>. USE DEF BudgetTypeOK, Steps, InReserve, InRecord, Ended, Goto, callVars, ledgerVars, breakerVars
  <2>1. ASSUME NEW c \in Calls, NEW in \in Inputs, Start(c, in) PROVE BudgetTypeOK'
    BY <2>1 DEF Start
  <2>2. ASSUME NEW c \in Calls, LockBudget(c) PROVE BudgetTypeOK'
    BY <2>2 DEF LockBudget
  <2>3. ASSUME NEW c \in Calls, ReadUsage(c) PROVE BudgetTypeOK'
    BY <2>3 DEF ReadUsage
  <2>4. ASSUME NEW c \in Calls, CheckOrg(c) PROVE BudgetTypeOK'
    BY <2>4 DEF CheckOrg
  <2>5. ASSUME NEW c \in Calls, CheckUser(c) PROVE BudgetTypeOK'
    BY <2>5 DEF CheckUser
  <2>6. ASSUME NEW c \in Calls, InsertReservation(c) PROVE BudgetTypeOK'
    BY <2>6 DEF InsertReservation, Disturb, Reservation
  <2>7. ASSUME NEW c \in Calls, ReserveFails(c) PROVE BudgetTypeOK'
    <3>1. raced' \in [Calls -> BOOLEAN]
      <4>1. CASE Disturb(c)
        BY <4>1, Zenon DEF Disturb
      <4>2. CASE UNCHANGED raced
        BY <4>2
      <4>. QED BY <2>7, <4>1, <4>2 DEF ReserveFails
    <3>2. reservation' \in [Calls -> Reservation]
      <4>1. [status |-> "reserved", lapsed |-> FALSE] \in Reservation
        BY DEF Reservation
      <4>2. \/ reservation' = reservation
            \/ reservation' = [reservation EXCEPT ![c] = [status |-> "reserved", lapsed |-> FALSE]]
        BY <2>7, Zenon DEF ReserveFails
      <4>. QED BY <4>1, <4>2, Zenon
    <3>3. pc' \in [Calls -> Steps]
      BY <2>7 DEF ReserveFails, LedgerError
    <3>4. faults' \in 0..MaxFaults
      BY <2>7 DEF ReserveFails
    <3>. QED BY <2>7, <3>1, <3>2, <3>3, <3>4 DEF ReserveFails
  <2>8. ASSUME NEW c \in Calls, Allow(c) PROVE BudgetTypeOK'
    BY <2>8 DEF Allow, AfterFailure
  <2>9. ASSUME NEW c \in Calls, CallFails(c) PROVE BudgetTypeOK'
    BY <2>9 DEF CallFails, RecordFailure, Tripped, AfterFailure
  <2>10. ASSUME NEW c \in Calls, NEW n \in Usages, CallSucceeds(c, n) PROVE BudgetTypeOK'
    BY <2>10 DEF CallSucceeds, RecordSuccess
  <2>11. ASSUME NEW c \in Calls, MarkCommitted(c) PROVE BudgetTypeOK'
    <3>1. raced' \in [Calls -> BOOLEAN]
      BY <2>11, Zenon DEF MarkCommitted, Disturb
    <3>2. reservation' \in [Calls -> Reservation]
      BY <2>11 DEF MarkCommitted, Reservation
    <3>3. pc' \in [Calls -> Steps]
      BY <2>11 DEF MarkCommitted
    <3>. QED BY <2>11, <3>1, <3>2, <3>3, Zenon DEF MarkCommitted
  <2>12. ASSUME NEW c \in Calls, RecordOrgUsage(c) PROVE BudgetTypeOK'
    BY <2>12 DEF RecordOrgUsage, Disturb
  <2>13. ASSUME NEW c \in Calls, RecordUserUsage(c) PROVE BudgetTypeOK'
    BY <2>13 DEF RecordUserUsage, Disturb
  <2>14. ASSUME NEW c \in Calls, ReleaseReservation(c) PROVE BudgetTypeOK'
    BY <2>14 DEF ReleaseReservation, Reservation
  <2>15. ASSUME NEW c \in Calls, WriteFails(c) PROVE BudgetTypeOK'
    <3>1. AfterWrite(c) \in Steps
      BY Zenon DEF AfterWrite
    <3>2. pc' \in [Calls -> Steps]
      BY <2>15, <3>1, Zenon DEF WriteFails
    <3>3. faults' \in 0..MaxFaults
      BY <2>15 DEF WriteFails
    <3>. QED BY <2>15, <3>2, <3>3, Zenon DEF WriteFails
  <2>16. ASSUME NEW c \in Calls, ReservationLapses(c) PROVE BudgetTypeOK'
    <3>1. reservation' \in [Calls -> Reservation]
      <4>1. [reservation[c] EXCEPT !.lapsed = TRUE] \in Reservation
        BY LapsedTyped
      <4>2. reservation' = [reservation EXCEPT ![c] = [reservation[c] EXCEPT !.lapsed = TRUE]]
        BY <2>16 DEF ReservationLapses
      <4>. QED BY <4>1, <4>2
    <3>. QED BY <2>16, <3>1, Zenon DEF ReservationLapses
  <2>17. ASSUME ExpireAbandoned PROVE BudgetTypeOK'
    BY <2>17 DEF ExpireAbandoned, Reservation
  <2>18. ASSUME NEW p \in Processes, BreakerCools(p) PROVE BudgetTypeOK'
    BY <2>18 DEF BreakerCools
  <2>19. ASSUME NEW p \in Processes, Crash(p) PROVE BudgetTypeOK'
    BY <2>19 DEF Crash
  <2>20. CASE UNCHANGED vars
    BY <2>20 DEF vars
  <2>. QED BY <2>1, <2>2, <2>3, <2>4, <2>5, <2>6, <2>7, <2>8, <2>9, <2>10, <2>11, <2>12, <2>13,
              <2>14, <2>15, <2>16, <2>17, <2>18, <2>19, <2>20 DEF Next, CallStep
<1>. QED BY <1>1, <1>2, PTL DEF Spec

-----------------------------------------------------------------------------
(* The advisory lock.                                                      *)

\* Reserve takes its lock once per user, keeps it until the transaction ends,
\* and at the insert still has the room it checked for.
LockHeldOnce ==
  \A b, c \in Calls :
    b # c /\ UserOf[b] = UserOf[c] /\ pc[b] \in InReserve => pc[c] \notin InReserve

RoomAtInsert ==
  UserLimit > 0 =>
    \A c \in Calls :
      pc[c] = "insert" /\ UserOf[c] # Anonymous =>
        Reserved(ActiveOf(UserOf[c])) + Estimate <= UserLimit

LockInv == LockHeldOnce /\ RoomAtInsert /\ UserReservationsFit

\* How a step moves the calls that are inside Reserve.
LEMMA ReserveProgress ==
  ASSUME BudgetTypeOK, [Next]_vars, NEW c \in Calls
  PROVE  /\ pc'[c] \in InReserve => pc[c] \in InReserve \/ LockBudget(c)
         /\ pc'[c] = "insert" => pc[c] = "insert" \/ CheckUser(c) \/ CheckOrg(c)
<1>. USE DEF BudgetTypeOK, Goto, InReserve
<1>1. ASSUME NEW b \in Calls, NEW in \in Inputs, Start(b, in)
      PROVE  pc'[c] \in InReserve => pc[c] \in InReserve /\ pc'[c] = pc[c]
  BY <1>1 DEF Start
<1>2. ASSUME NEW b \in Calls, CallStep(b)
      PROVE  /\ pc'[c] \in InReserve => pc[c] \in InReserve \/ LockBudget(c)
             /\ pc'[c] = "insert" => pc[c] = "insert" \/ CheckUser(c) \/ CheckOrg(c)
  BY <1>2 DEF CallStep, LockBudget, ReadUsage, CheckOrg, CheckUser, InsertReservation, Allow,
              AfterFailure, CallFails, CallSucceeds, MarkCommitted, RecordOrgUsage,
              RecordUserUsage, ReleaseReservation
<1>3. ASSUME NEW b \in Calls, ReserveFails(b) \/ WriteFails(b) \/ ReservationLapses(b)
      PROVE  pc'[c] \in InReserve => pc[c] \in InReserve /\ pc'[c] = pc[c]
  BY <1>3 DEF ReserveFails, LedgerError, WriteFails, AfterWrite, ReservationLapses
<1>4. ASSUME ExpireAbandoned \/ (\E p \in Processes : BreakerCools(p) \/ Crash(p))
      PROVE  pc'[c] \in InReserve => pc[c] \in InReserve /\ pc'[c] = pc[c]
  BY <1>4 DEF ExpireAbandoned, BreakerCools, Crash
<1>5. CASE UNCHANGED vars
  BY <1>5 DEF vars
<1>. QED BY <1>1, <1>2, <1>3, <1>4, <1>5 DEF Next

\* A step does not make the reservation of a call, nor count it again.
NoNew(b) ==
  /\ Active(b)' => Active(b)
  /\ reservation'[b].status = "reserved" => reservation[b].status = "reserved"

\* Only an insert adds an active reservation, at the end of its transaction.
LEMMA ActiveGrowth ==
  ASSUME BudgetTypeOK, [Next]_vars
  PROVE  \/ \A b \in Calls : NoNew(b)
         \/ \E c \in Calls :
              /\ pc[c] = "insert" /\ pc'[c] \notin InReserve
              /\ \A b \in Calls \ {c} : NoNew(b) /\ pc'[b] = pc[b]
              /\ Disturb(c) /\ orgUsage' = orgUsage /\ userUsage' = userUsage
<1>. USE DEF BudgetTypeOK, Goto, InReserve, Active, NoNew
<1>1. ASSUME NEW c \in Calls, InsertReservation(c)
      PROVE  /\ pc[c] = "insert" /\ pc'[c] \notin InReserve
             /\ \A b \in Calls \ {c} : NoNew(b) /\ pc'[b] = pc[b]
             /\ Disturb(c) /\ orgUsage' = orgUsage /\ userUsage' = userUsage
  BY <1>1 DEF InsertReservation
<1>2. ASSUME NEW c \in Calls, ReserveFails(c)
      PROVE  \/ reservation' = reservation
             \/ /\ pc[c] = "insert" /\ pc'[c] \notin InReserve
                /\ \A b \in Calls \ {c} : NoNew(b) /\ pc'[b] = pc[b]
                /\ Disturb(c) /\ orgUsage' = orgUsage /\ userUsage' = userUsage
  BY <1>2 DEF ReserveFails, LedgerError
<1>3. ASSUME NEW c \in Calls, CallStep(c), ~InsertReservation(c)
      PROVE  \A b \in Calls : NoNew(b)
  <2>1. CASE MarkCommitted(c)
    BY <2>1 DEF MarkCommitted, Reservation
  <2>2. CASE ReleaseReservation(c)
    BY <2>2 DEF ReleaseReservation, Reservation
  <2>3. CASE reservation' = reservation
    BY <2>3
  <2>. QED BY <1>3, <2>1, <2>2, <2>3 DEF CallStep, LockBudget, ReadUsage, CheckOrg, CheckUser, Allow,
         CallFails, CallSucceeds, RecordOrgUsage, RecordUserUsage, ledgerVars
<1>4. ASSUME NEW c \in Calls, ReservationLapses(c) PROVE \A b \in Calls : NoNew(b)
  BY <1>4 DEF ReservationLapses, Reservation
<1>5. ASSUME ExpireAbandoned PROVE \A b \in Calls : NoNew(b)
  BY <1>5 DEF ExpireAbandoned, Reservation
<1>6. ASSUME \/ \E c \in Calls, in \in Inputs : Start(c, in)
             \/ \E c \in Calls : WriteFails(c)
             \/ \E p \in Processes : BreakerCools(p) \/ Crash(p)
             \/ UNCHANGED vars
      PROVE  reservation' = reservation
  BY <1>6 DEF Start, WriteFails, BreakerCools, Crash, ledgerVars, vars
<1>7. CASE reservation' = reservation
  BY <1>7
<1>. QED BY <1>1, <1>2, <1>3, <1>4, <1>5, <1>6, <1>7 DEF Next

\* Calls of one user, however many and wherever, reserve at most the user's limit.
THEOREM UserReservationsBounded == Spec => []UserReservationsFit
<1>1. Init => LockInv
  <2>. SUFFICES ASSUME Init PROVE LockInv
    OBVIOUS
  <2>1. \A u \in Users : ActiveOf(u) = {}
    BY DEF Init, ActiveOf, Active
  <2>2. Reserved({}) = 0
    BY FS_EmptySet, Z3 DEF Reserved
  <2>3. \A c \in Calls : pc[c] = "new"
    BY DEF Init
  <2>4. UserReservationsFit
    BY <2>1, <2>2 DEF UserReservationsFit
  <2>. QED BY <2>3, <2>4 DEF LockInv, LockHeldOnce, RoomAtInsert, InReserve
<1>2. BudgetTypeOK /\ LockInv /\ [Next]_vars => LockInv'
  <2>. SUFFICES ASSUME BudgetTypeOK, LockInv, [Next]_vars PROVE LockInv'
    OBVIOUS
  <2>1. LockHeldOnce'
    <3>. SUFFICES ASSUME NEW b \in Calls, NEW c \in Calls, b # c, UserOf[b] = UserOf[c],
                         pc'[b] \in InReserve, pc'[c] \in InReserve
                  PROVE  FALSE
      BY DEF LockHeldOnce
    <3>1. CASE LockBudget(b)
      <4>1. pc'[c] = pc[c]
        BY <3>1 DEF LockBudget, Goto, BudgetTypeOK
      <4>. QED BY <3>1, <4>1 DEF LockBudget, LockFree
    <3>2. CASE LockBudget(c)
      <4>1. pc'[b] = pc[b]
        BY <3>2 DEF LockBudget, Goto, BudgetTypeOK
      <4>. QED BY <3>2, <4>1 DEF LockBudget, LockFree
    <3>. QED BY <3>1, <3>2, ReserveProgress DEF LockInv, LockHeldOnce
  <2>2. ASSUME NEW u \in Users
        PROVE  /\ Reserved(ActiveOf(u)) \in Nat /\ Reserved(ActiveOf(u))' \in Nat
               /\ ActiveOf(u) \in SUBSET Calls /\ ActiveOf(u)' \in SUBSET Calls
    <3>1. ActiveOf(u) \in SUBSET Calls /\ ActiveOf(u)' \in SUBSET Calls
      BY DEF ActiveOf
    <3>2. Reserved(ActiveOf(u)) \in Nat
      BY <3>1, ReservedMonotone
    <3>3. Reserved(ActiveOf(u)') \in Nat
      BY <3>1, ReservedMonotone
    <3>. QED BY <3>1, <3>2, <3>3 DEF Reserved
  <2>. DEFINE Sum(u) == Reserved(ActiveOf(u))
  <2>3. ASSUME NEW u \in Users, \A b \in Calls : UserOf[b] = u => (Active(b)' => Active(b))
        PROVE  Reserved(ActiveOf(u)') <= Reserved(ActiveOf(u))
    <3>1. ActiveOf(u)' \subseteq ActiveOf(u)
      BY <2>3 DEF ActiveOf
    <3>. QED BY <2>2, <3>1, ReservedMonotone
  <2>4. ASSUME UserLimit > 0, NEW c \in Calls, pc'[c] = "insert", UserOf[c] # Anonymous
        PROVE  Reserved(ActiveOf(UserOf[c])') + Estimate <= UserLimit
    <3>. DEFINE u == UserOf[c]
    <3>1. u \in Users
      OBVIOUS
    <3>2. CASE CheckUser(c)
      <4>1. Reserved(ActiveOf(u)') = Reserved(ActiveOf(u))
        BY <3>2 DEF CheckUser, ActiveOf, Active, ledgerVars
      <4>2. read[c] + Reserved(ActiveOf(u)) + Estimate <= UserLimit
        BY <2>2, <2>4, <3>1, <3>2 DEF CheckUser, Goto, BudgetTypeOK, Exceeds
      <4>. QED BY <2>2, <3>1, <4>1, <4>2 DEF BudgetTypeOK
    <3>3. CASE CheckOrg(c)
      BY <2>4, <3>3 DEF CheckOrg, Goto, BudgetTypeOK
    <3>4. CASE pc[c] = "insert"
      <4>1. Reserved(ActiveOf(u)) + Estimate <= UserLimit
        BY <2>4, <3>4 DEF LockInv, RoomAtInsert
      <4>2. \A b \in Calls : UserOf[b] = u => (Active(b)' => Active(b))
        <5>1. ASSUME NEW d \in Calls, pc[d] = "insert", pc'[d] \notin InReserve
              PROVE  UserOf[d] # u
          <6>1. d # c
            BY <2>4, <5>1 DEF InReserve
          <6>. QED BY <3>4, <5>1, <6>1 DEF LockInv, LockHeldOnce, InReserve
        <5>. QED BY <5>1, ActiveGrowth DEF NoNew
      <4>3. Reserved(ActiveOf(u)') <= Reserved(ActiveOf(u))
        BY <2>3, <3>1, <4>2
      <4>4. Reserved(ActiveOf(u)') \in Nat
        BY <2>2, <3>1, ReservedMonotone
      <4>. QED BY <2>2, <3>1, <4>1, <4>3, <4>4
    <3>. QED BY <2>4, <3>2, <3>3, <3>4, ReserveProgress
  <2>5. ASSUME UserLimit > 0, NEW u \in Users \ {Anonymous}
        PROVE  Reserved(ActiveOf(u)') <= UserLimit
    <3>1. Reserved(ActiveOf(u)') \in Nat
      BY <2>2, ReservedMonotone
    <3>2. CASE \A b \in Calls : UserOf[b] = u => (Active(b)' => Active(b))
      BY <2>2, <2>3, <2>5, <3>1, <3>2 DEF LockInv, UserReservationsFit
    <3>3. ASSUME NEW c \in Calls, pc[c] = "insert", UserOf[c] = u,
                 \A b \in Calls \ {c} : Active(b)' => Active(b)
          PROVE  Reserved(ActiveOf(u)') <= UserLimit
      <4>1. ActiveOf(u)' \subseteq ActiveOf(u) \cup {c}
        BY <3>3 DEF ActiveOf
      <4>2. Reserved(ActiveOf(u)') <= Reserved(ActiveOf(u)) + Estimate
        BY <2>2, <4>1, ReservedMonotone
      <4>3. Reserved(ActiveOf(u)) + Estimate <= UserLimit
        BY <2>5, <3>3 DEF LockInv, RoomAtInsert
      <4>. QED BY <2>2, <3>1, <4>2, <4>3
    <3>. QED BY <3>2, <3>3, ActiveGrowth DEF NoNew
  <2>. QED BY <2>1, <2>4, <2>5 DEF LockInv, RoomAtInsert, UserReservationsFit, Reserved
<1>3. LockInv => UserReservationsFit
  BY DEF LockInv
<1>. QED BY <1>1, <1>2, <1>3, BudgetTypeCorrect, PTL DEF Spec

-----------------------------------------------------------------------------
(* An admission that nothing has raced.                                    *)

OrgRoom == OrgLimit > 0 => orgUsage + Reserved(ActiveOfOrg) + Estimate <= OrgLimit

UserRoom(u) ==
  UserLimit > 0 /\ u # Anonymous =>
    userUsage[u] + Reserved(ActiveOf(u)) + Estimate <= UserLimit

\* While nothing has raced a Reserve, what it has read is still what is there, and
\* the limits it has passed still have room.
SoloInv ==
  \A c \in Calls : ~raced[c] =>
    /\ pc[c] = "orgReserved" => read[c] = orgUsage
    /\ pc[c] = "userReserved" => read[c] = userUsage[UserOf[c]]
    /\ pc[c] \in {"userUsage", "userReserved", "insert"} => OrgRoom
    /\ pc[c] = "insert" => UserRoom(UserOf[c])

\* What another call's step may do to an undisturbed Reserve: nothing it has read.
LEMMA Undisturbed ==
  ASSUME BudgetTypeOK, [Next]_vars, NEW c \in Calls, pc'[c] \in InReserve, ~raced'[c]
  PROVE  \/ LockBudget(c) \/ ReadUsage(c) \/ CheckOrg(c) \/ CheckUser(c)
         \/ /\ pc'[c] = pc[c] /\ read'[c] = read[c] /\ ~raced[c]
            /\ orgUsage' = orgUsage /\ userUsage' = userUsage
            /\ \A b \in Calls : Active(b)' => Active(b)
<1>. DEFINE Own == LockBudget(c) \/ ReadUsage(c) \/ CheckOrg(c) \/ CheckUser(c)
            Calm == /\ pc'[c] = pc[c] /\ read'[c] = read[c] /\ ~raced[c]
                    /\ orgUsage' = orgUsage /\ userUsage' = userUsage
<1>. USE DEF BudgetTypeOK, Goto, InReserve, Disturb, callVars, ledgerVars
<1>1. ASSUME NEW b \in Calls, NEW in \in Inputs, Start(b, in) PROVE Calm
  BY <1>1 DEF Start
<1>2. ASSUME NEW b \in Calls, LockBudget(b) \/ ReadUsage(b) \/ CheckOrg(b) \/ CheckUser(b)
      PROVE  Own \/ Calm
  BY <1>2 DEF LockBudget, ReadUsage, CheckOrg, CheckUser
<1>3. ASSUME NEW b \in Calls, InsertReservation(b) \/ MarkCommitted(b) \/ RecordOrgUsage(b)
                              \/ RecordUserUsage(b)
      PROVE  Calm
  BY <1>3 DEF InsertReservation, MarkCommitted, RecordOrgUsage, RecordUserUsage
<1>4. ASSUME NEW b \in Calls, \/ Allow(b) \/ CallFails(b) \/ ReleaseReservation(b)
                              \/ \E n \in Usages : CallSucceeds(b, n)
      PROVE  Calm
  BY <1>4 DEF Allow, AfterFailure, CallFails, ReleaseReservation, CallSucceeds
<1>5. ASSUME NEW b \in Calls, ReserveFails(b) \/ WriteFails(b) \/ ReservationLapses(b)
      PROVE  Calm
  BY <1>5 DEF ReserveFails, LedgerError, WriteFails, AfterWrite, ReservationLapses
<1>6. ASSUME ExpireAbandoned \/ (\E p \in Processes : BreakerCools(p) \/ Crash(p)) PROVE Calm
  BY <1>6 DEF ExpireAbandoned, BreakerCools, Crash
<1>7. ASSUME UNCHANGED vars PROVE Calm
  <2>1. /\ pc' = pc /\ read' = read /\ raced' = raced
        /\ orgUsage' = orgUsage /\ userUsage' = userUsage
    BY <1>7 DEF vars
  <2>. QED BY <2>1
<1>8. Own \/ Calm
  BY <1>1, <1>2, <1>3, <1>4, <1>5, <1>6, <1>7 DEF Next, CallStep
<1>9. ASSUME Calm PROVE \A b \in Calls : Active(b)' => Active(b)
  <2>1. ASSUME NEW d \in Calls, Disturb(d), pc'[d] \notin InReserve PROVE FALSE
    <3>1. d # c
      BY <2>1
    <3>. QED BY <1>9, <2>1, <3>1 DEF Disturb
  <2>. QED BY <2>1, ActiveGrowth DEF NoNew
<1>. QED BY <1>8, <1>9

\* No reservation more, no usage more: the room that was there is there.
LEMMA RoomKept ==
  ASSUME BudgetTypeOK, orgUsage' = orgUsage, userUsage' = userUsage,
         \A b \in Calls : Active(b)' => Active(b)
  PROVE  /\ OrgRoom => OrgRoom'
         /\ \A u \in Users : UserRoom(u) => UserRoom(u)'
<1>1. ActiveOfOrg' \in SUBSET Calls /\ ActiveOfOrg \in SUBSET Calls /\ ActiveOfOrg' \subseteq ActiveOfOrg
  BY DEF ActiveOfOrg
<1>2. /\ Reserved(ActiveOfOrg') <= Reserved(ActiveOfOrg)
      /\ Reserved(ActiveOfOrg') \in Nat /\ Reserved(ActiveOfOrg) \in Nat
  BY <1>1, ReservedMonotone
<1>3. OrgRoom => OrgRoom'
  <2>1. Reserved(ActiveOfOrg)' = Reserved(ActiveOfOrg')
    BY DEF Reserved
  <2>2. OrgRoom' <=> (OrgLimit > 0 => orgUsage' + Reserved(ActiveOfOrg)' + Estimate <= OrgLimit)
    BY DEF OrgRoom
  <2>. QED BY <1>2, <2>1, <2>2 DEF OrgRoom, BudgetTypeOK
<1>4. ASSUME NEW u \in Users PROVE UserRoom(u) => UserRoom(u)'
  <2>1. ActiveOf(u)' \in SUBSET Calls /\ ActiveOf(u) \in SUBSET Calls /\ ActiveOf(u)' \subseteq ActiveOf(u)
    BY DEF ActiveOf
  <2>2. /\ Reserved(ActiveOf(u)') <= Reserved(ActiveOf(u))
        /\ Reserved(ActiveOf(u)') \in Nat /\ Reserved(ActiveOf(u)) \in Nat
    BY <2>1, ReservedMonotone
  <2>3. Reserved(ActiveOf(u))' = Reserved(ActiveOf(u)')
    BY DEF Reserved
  <2>4. UserRoom(u)' <=>
          (UserLimit > 0 /\ u # Anonymous =>
             userUsage'[u] + Reserved(ActiveOf(u))' + Estimate <= UserLimit)
    BY DEF UserRoom
  <2>. QED BY <2>2, <2>3, <2>4 DEF UserRoom, BudgetTypeOK
<1>. QED BY <1>3, <1>4

\* An admission nothing has raced leaves usage and reservations within the limits,
\* whatever limits, users and estimates.
THEOREM SoloAdmissionsFit == Spec => SoloAdmissionFits
<1>1. Init => SoloInv
  BY DEF Init, SoloInv
<1>2. BudgetTypeOK /\ SoloInv /\ [Next]_vars => SoloInv'
  <2>. SUFFICES ASSUME BudgetTypeOK, SoloInv, [Next]_vars, NEW c \in Calls, ~raced'[c]
                PROVE  /\ pc'[c] = "orgReserved" => read'[c] = orgUsage'
                       /\ pc'[c] = "userReserved" => read'[c] = userUsage'[UserOf[c]]
                       /\ pc'[c] \in {"userUsage", "userReserved", "insert"} => OrgRoom'
                       /\ pc'[c] = "insert" => UserRoom(UserOf[c])'
    BY DEF SoloInv
  <2>. DEFINE Goal == /\ pc'[c] = "orgReserved" => read'[c] = orgUsage'
                      /\ pc'[c] = "userReserved" => read'[c] = userUsage'[UserOf[c]]
                      /\ pc'[c] \in {"userUsage", "userReserved", "insert"} => OrgRoom'
                      /\ pc'[c] = "insert" => UserRoom(UserOf[c])'
  <2>0. UserOf[c] \in Users
    OBVIOUS
  <2>1. CASE pc'[c] \notin InReserve
    BY <2>1 DEF InReserve
  <2>2. CASE LockBudget(c)
    BY <2>2 DEF LockBudget, Goto, BudgetTypeOK
  <2>3. ASSUME ReadUsage(c) \/ CheckOrg(c) \/ CheckUser(c)
        PROVE  /\ raced' = raced /\ orgUsage' = orgUsage /\ userUsage' = userUsage
               /\ reservation' = reservation
               /\ OrgRoom => OrgRoom'
               /\ UserRoom(UserOf[c]) => UserRoom(UserOf[c])'
    <3>1. /\ raced' = raced /\ orgUsage' = orgUsage /\ userUsage' = userUsage
          /\ reservation' = reservation
      BY <2>3 DEF ReadUsage, CheckOrg, CheckUser, ledgerVars
    <3>2. \A b \in Calls : Active(b)' => Active(b)
      BY <3>1 DEF Active
    <3>. QED BY <2>0, <3>1, <3>2, RoomKept
  <2>4. CASE ReadUsage(c)
    <3>1. ~raced[c]
      BY <2>3, <2>4
    <3>2. CASE pc[c] = "orgUsage"
      BY <2>3, <2>4, <3>2 DEF ReadUsage, Goto, BudgetTypeOK
    <3>3. CASE pc[c] = "userUsage"
      <4>1. OrgRoom'
        BY <2>3, <2>4, <3>1, <3>3 DEF SoloInv
      <4>. QED BY <2>3, <2>4, <3>3, <4>1 DEF ReadUsage, Goto, BudgetTypeOK
    <3>. QED BY <2>4, <3>2, <3>3 DEF ReadUsage
  <2>5. CASE CheckOrg(c)
    <3>1. ~raced[c]
      BY <2>3, <2>5
    <3>2. CASE pc'[c] = "denied"
      BY <3>2
    <3>3. CASE pc'[c] # "denied"
      <4>1. ActiveOfOrg \in SUBSET Calls
        BY DEF ActiveOfOrg
      <4>2. read[c] = orgUsage /\ Reserved(ActiveOfOrg) \in Nat
        BY <2>5, <3>1, <4>1, ReservedMonotone DEF CheckOrg, SoloInv
      <4>3. ~Exceeds(OrgLimit, read[c] + Reserved(ActiveOfOrg) + Estimate)
        BY <2>5, <3>3 DEF CheckOrg, Goto, BudgetTypeOK
      <4>4. OrgRoom
        BY <4>2, <4>3 DEF OrgRoom, Exceeds, BudgetTypeOK
      <4>5. pc'[c] = "insert" => UserOf[c] = Anonymous
        BY <2>5 DEF CheckOrg, Goto, BudgetTypeOK
      <4>6. pc'[c] \in {"insert", "userUsage"}
        BY <2>5, <3>3 DEF CheckOrg, Goto, BudgetTypeOK
      <4>7. pc'[c] = "insert" => UserRoom(UserOf[c])'
        BY <2>3, <2>5, <4>5 DEF UserRoom
      <4>. QED BY <2>3, <2>5, <4>4, <4>6, <4>7
    <3>. QED BY <3>2, <3>3
  <2>6. CASE CheckUser(c)
    <3>1. ~raced[c]
      BY <2>3, <2>6
    <3>. DEFINE u == UserOf[c]
    <3>2. ActiveOf(u) \in SUBSET Calls
      BY DEF ActiveOf
    <3>3. read[c] = userUsage[u] /\ Reserved(ActiveOf(u)) \in Nat /\ OrgRoom
      BY <2>6, <3>1, <3>2, ReservedMonotone DEF CheckUser, SoloInv
    <3>4. CASE pc'[c] = "insert"
      <4>1. ~Exceeds(UserLimit, read[c] + Reserved(ActiveOf(u)) + Estimate)
        BY <2>6, <3>4 DEF CheckUser, Goto, BudgetTypeOK
      <4>2. UserRoom(u)
        BY <2>0, <3>3, <4>1 DEF UserRoom, Exceeds, BudgetTypeOK
      <4>. QED BY <2>3, <2>6, <3>3, <3>4, <4>2
    <3>5. CASE pc'[c] = "denied"
      BY <3>5
    <3>. QED BY <2>6, <3>4, <3>5 DEF CheckUser, Goto, BudgetTypeOK
  <2>7. CASE /\ pc'[c] = pc[c] /\ read'[c] = read[c] /\ ~raced[c]
             /\ orgUsage' = orgUsage /\ userUsage' = userUsage
             /\ \A b \in Calls : Active(b)' => Active(b)
    <3>1. (OrgRoom => OrgRoom') /\ (UserRoom(UserOf[c]) => UserRoom(UserOf[c])')
      BY <2>0, <2>7, RoomKept
    <3>. QED BY <2>7, <3>1 DEF SoloInv
  <2>. QED BY <2>1, <2>2, <2>4, <2>5, <2>6, <2>7, Undisturbed
<1>3. BudgetTypeOK /\ SoloInv /\ [Next]_vars =>
        \A c \in Calls :
          ~raced[c] /\ reservation[c].status = "none" /\ reservation'[c].status = "reserved" =>
            /\ OrgLimit > 0 => orgUsage + Reserved({b \in Calls : Active(b)'}) <= OrgLimit
            /\ UserLimit > 0 /\ UserOf[c] # Anonymous =>
                 userUsage[UserOf[c]]
                   + Reserved({b \in Calls : UserOf[b] = UserOf[c] /\ Active(b)'}) <= UserLimit
  <2>. SUFFICES ASSUME BudgetTypeOK, SoloInv, [Next]_vars, NEW c \in Calls, ~raced[c],
                       reservation[c].status = "none", reservation'[c].status = "reserved"
                PROVE  /\ OrgLimit > 0 => orgUsage + Reserved({b \in Calls : Active(b)'}) <= OrgLimit
                       /\ UserLimit > 0 /\ UserOf[c] # Anonymous =>
                            userUsage[UserOf[c]]
                              + Reserved({b \in Calls : UserOf[b] = UserOf[c] /\ Active(b)'}) <= UserLimit
    OBVIOUS
  <2>. DEFINE u == UserOf[c]
              OrgNow == {b \in Calls : Active(b)'}
              UserNow == {b \in Calls : UserOf[b] = UserOf[c] /\ Active(b)'}
  <2>1. pc[c] = "insert" /\ \A b \in Calls \ {c} : Active(b)' => Active(b)
    BY ActiveGrowth DEF NoNew
  <2>2. OrgRoom /\ UserRoom(u) /\ u \in Users
    BY <2>1 DEF SoloInv
  <2>3. /\ OrgNow \in SUBSET Calls /\ OrgNow \subseteq ActiveOfOrg \cup {c}
        /\ UserNow \in SUBSET Calls /\ UserNow \subseteq ActiveOf(u) \cup {c}
        /\ ActiveOfOrg \in SUBSET Calls /\ ActiveOf(u) \in SUBSET Calls
    BY <2>1 DEF ActiveOfOrg, ActiveOf
  <2>. HIDE DEF OrgNow, UserNow
  <2>4. /\ Reserved(OrgNow) <= Reserved(ActiveOfOrg) + Estimate
        /\ Reserved(OrgNow) \in Nat /\ Reserved(ActiveOfOrg) \in Nat
    BY <2>3, ReservedMonotone
  <2>5. /\ Reserved(UserNow) <= Reserved(ActiveOf(u)) + Estimate
        /\ Reserved(UserNow) \in Nat /\ Reserved(ActiveOf(u)) \in Nat
    BY <2>3, ReservedMonotone
  <2>6. OrgLimit > 0 => orgUsage + Reserved(OrgNow) <= OrgLimit
    BY <2>2, <2>4 DEF OrgRoom, BudgetTypeOK
  <2>7. UserLimit > 0 /\ u # Anonymous => userUsage[u] + Reserved(UserNow) <= UserLimit
    BY <2>2, <2>5 DEF UserRoom, BudgetTypeOK
  <2>. QED BY <2>6, <2>7 DEF OrgNow, UserNow
<1>. QED BY <1>1, <1>2, <1>3, BudgetTypeCorrect, PTL DEF Spec, SoloAdmissionFits

-----------------------------------------------------------------------------
(* The circuit breaker.                                                    *)

\* A closed breaker has counted every failure of the current streak.
StreakCounted == \A p \in Processes : ~open[p] => streak[p] <= failures[p]

\* Threshold failures in a row open the breaker, whatever overlaps.
THEOREM BreakerOpens == Spec => []BreakerOpensOnStreak
<1>1. Init => StreakCounted
  BY DEF Init, StreakCounted
<1>2. BudgetTypeOK /\ StreakCounted /\ [Next]_vars => StreakCounted'
  <2>. SUFFICES ASSUME BudgetTypeOK, StreakCounted, [Next]_vars PROVE StreakCounted'
    OBVIOUS
  <2>1. ASSUME NEW c \in Calls, CallFails(c) PROVE StreakCounted'
    <3>. DEFINE p == ProcessOf[c]
    <3>. SUFFICES ASSUME NEW q \in Processes, ~open'[q] PROVE streak'[q] <= failures'[q]
      BY DEF StreakCounted
    <3>1. /\ failures' = [failures EXCEPT ![p] = IF Tripped(p) THEN 0 ELSE failures[p] + 1]
          /\ open' = [open EXCEPT ![p] = open[p] \/ Tripped(p)]
          /\ streak' = [streak EXCEPT ![p] = streak[p] + 1]
      BY <2>1, Zenon DEF CallFails, RecordFailure
    <3>2. CASE q = p
      <4>1. ~open[p] /\ ~Tripped(p)
        BY <3>1, <3>2, Zenon DEF BudgetTypeOK
      <4>2. streak[p] <= failures[p]
        BY <4>1 DEF StreakCounted
      <4>3. failures'[p] = failures[p] + 1 /\ streak'[p] = streak[p] + 1
        BY <3>1, <4>1 DEF BudgetTypeOK
      <4>. QED BY <3>2, <4>2, <4>3 DEF BudgetTypeOK
    <3>3. CASE q # p
      BY <3>1, <3>3 DEF StreakCounted, BudgetTypeOK
    <3>. QED BY <3>2, <3>3
  <2>2. ASSUME NEW c \in Calls, NEW n \in Usages, CallSucceeds(c, n) PROVE StreakCounted'
    BY <2>2 DEF CallSucceeds, RecordSuccess, StreakCounted, BudgetTypeOK
  <2>3. ASSUME NEW p \in Processes, BreakerCools(p) PROVE StreakCounted'
    BY <2>3 DEF BreakerCools, StreakCounted, BudgetTypeOK
  <2>4. ASSUME NEW p \in Processes, Crash(p) PROVE StreakCounted'
    BY <2>4 DEF Crash, StreakCounted, BudgetTypeOK
  <2>5. CASE UNCHANGED breakerVars
    BY <2>5 DEF breakerVars, StreakCounted
  <2>6. ASSUME NEW c \in Calls, CallStep(c), ~CallFails(c), \A n \in Usages : ~CallSucceeds(c, n)
        PROVE  UNCHANGED breakerVars
    BY <2>6 DEF CallStep, LockBudget, ReadUsage, CheckOrg, CheckUser, InsertReservation, Allow,
                MarkCommitted, RecordOrgUsage, RecordUserUsage, ReleaseReservation, breakerVars
  <2>7. ASSUME \/ \E c \in Calls : \/ \E in \in Inputs : Start(c, in)
                                   \/ ReserveFails(c) \/ WriteFails(c) \/ ReservationLapses(c)
               \/ ExpireAbandoned \/ UNCHANGED vars
        PROVE  UNCHANGED breakerVars
    BY <2>7 DEF Start, ReserveFails, WriteFails, ReservationLapses, ExpireAbandoned, breakerVars, vars
  <2>. QED BY <2>1, <2>2, <2>3, <2>4, <2>5, <2>6, <2>7 DEF Next
<1>3. BudgetTypeOK /\ StreakCounted => BreakerOpensOnStreak
  BY DEF BudgetTypeOK, StreakCounted, BreakerOpensOnStreak
<1>. QED BY <1>1, <1>2, <1>3, BudgetTypeCorrect, PTL DEF Spec

-----------------------------------------------------------------------------
(* What the ledger counts.                                                 *)

\* Failing closed, a call on its way to the provider has its reservation, and
\* without faults a reservation that counts belongs to a call still under way.
Covered(c) == pc[c] \in {"allow", "call", "mark"} => Active(c)
Accounted(c) == Active(c) => requestID[c] /\ pc[c] \in {"allow", "call", "mark", "release"}

CountInv ==
  \A c \in Calls :
    /\ Enabled /\ failClosed /\ TtlCoversCall => Covered(c)
    /\ faults = 0 => Accounted(c)

\* A call is made only under a counted reservation, and gives it back when it ends.
THEOREM CountedInFlight == Spec => []CountedWhileInFlight
<1>1. Init => CountInv
  BY DEF Init, CountInv, Covered, Accounted, Active
<1>2. BudgetTypeOK /\ CountInv /\ [Next]_vars => CountInv'
  <2>. SUFFICES ASSUME BudgetTypeOK, CountInv, [Next]_vars, NEW c \in Calls
                PROVE  /\ Enabled /\ failClosed' /\ TtlCoversCall => Covered(c)'
                       /\ faults' = 0 => Accounted(c)'
    BY DEF CountInv, Enabled
  <2>. DEFINE Goal == /\ Enabled /\ failClosed' /\ TtlCoversCall => Covered(c)'
                      /\ faults' = 0 => Accounted(c)'
  <2>. USE DEF CountInv, Covered, Accounted, Active, BudgetTypeOK, Goto, callVars, ledgerVars
  <2>1. ASSUME NEW b \in Calls, NEW in \in Inputs, Start(b, in) PROVE Goal
    BY <2>1 DEF Start
  <2>2. ASSUME NEW b \in Calls, LockBudget(b) \/ ReadUsage(b) \/ CheckOrg(b) \/ CheckUser(b)
        PROVE  Goal
    BY <2>2 DEF LockBudget, ReadUsage, CheckOrg, CheckUser
  <2>3. ASSUME NEW b \in Calls, InsertReservation(b) PROVE Goal
    BY <2>3 DEF InsertReservation
  <2>4. ASSUME NEW b \in Calls, ReserveFails(b) PROVE Goal
    BY <2>4 DEF ReserveFails, LedgerError, InReserve
  <2>5. ASSUME NEW b \in Calls, Allow(b) \/ CallFails(b) \/ (\E n \in Usages : CallSucceeds(b, n))
        PROVE  Goal
    BY <2>5 DEF Allow, AfterFailure, CallFails, CallSucceeds
  <2>6. ASSUME NEW b \in Calls, MarkCommitted(b) PROVE Goal
    BY <2>6 DEF MarkCommitted, Reservation
  <2>7. ASSUME NEW b \in Calls, RecordOrgUsage(b) \/ RecordUserUsage(b) PROVE Goal
    BY <2>7 DEF RecordOrgUsage, RecordUserUsage
  <2>8. ASSUME NEW b \in Calls, ReleaseReservation(b) PROVE Goal
    BY <2>8 DEF ReleaseReservation, Reservation
  <2>9. ASSUME NEW b \in Calls, WriteFails(b) PROVE Goal
    BY <2>9 DEF WriteFails, AfterWrite, InRecord
  <2>10. ASSUME NEW b \in Calls, ReservationLapses(b) PROVE Goal
    BY <2>10 DEF ReservationLapses, Reservation, Ended
  <2>11. ASSUME ExpireAbandoned PROVE Goal
    BY <2>11 DEF ExpireAbandoned, Reservation
  <2>12. ASSUME NEW p \in Processes, BreakerCools(p) PROVE Goal
    BY <2>12 DEF BreakerCools
  <2>13. ASSUME NEW p \in Processes, Crash(p) PROVE Goal
    BY <2>13 DEF Crash
  <2>14. ASSUME UNCHANGED vars PROVE Goal
    <3>1. /\ pc' = pc /\ reservation' = reservation /\ requestID' = requestID
          /\ faults' = faults /\ failClosed' = failClosed
      BY <2>14 DEF vars
    <3>. QED BY <3>1
  <2>. QED BY <2>1, <2>2, <2>3, <2>4, <2>5, <2>6, <2>7, <2>8, <2>9, <2>10, <2>11, <2>12, <2>13,
              <2>14 DEF Next, CallStep
<1>3. CountInv => CountedWhileInFlight
  BY DEF CountInv, CountedWhileInFlight, Covered, Accounted, Ended
<1>. QED BY <1>1, <1>2, <1>3, BudgetTypeCorrect, PTL DEF Spec

-----------------------------------------------------------------------------
(* The ledgers hold what was spent.                                        *)

\* Calls whose usage the organization's ledger, or the user's, has yet to take.
OrgDue == {c \in Calls : pc[c] \in {"mark", "org"}}
UserDue(u) == {c \in Calls : UserOf[c] = u /\ pc[c] \in InRecord}
Of(u) == {c \in Calls : UserOf[c] = u}

\* What is in a ledger and what is due to it is what was spent, unless a write
\* was lost; what is lost is never in the ledger.
SpendInv ==
  /\ \A c \in Calls : pc[c] \in {"new", "lock", "allow", "call"} \cup InReserve => used[c] = 0
  /\ orgUsage + Spent(OrgDue) <= Spent(Calls)
  /\ ~lost =>
       /\ orgUsage + Spent(OrgDue) = Spent(Calls)
       /\ \A u \in Users \ {Anonymous} : userUsage[u] + Spent(UserDue(u)) = Spent(Of(u))

\* Sums over calls are naturals.
LEMMA SpentNat ==
  ASSUME used \in [Calls -> Nat], NEW S \in SUBSET Calls
  PROVE  Spent(S) \in Nat /\ IsFiniteSet(S)
<1>1. IsFiniteSet(S)
  BY FS_Subset DEF BudgetAssumption
<1>. QED BY <1>1, SumNat DEF Spent

\* A step that leaves the ledgers and what is due to them.
LEMMA NothingDue ==
  ASSUME BudgetTypeOK, SpendInv, UNCHANGED <<used, orgUsage, userUsage>>, lost' = lost,
         \A c \in Calls : /\ pc'[c] \in {"mark", "org"} <=> pc[c] \in {"mark", "org"}
                          /\ pc'[c] \in InRecord <=> pc[c] \in InRecord
                          /\ pc'[c] \in {"new", "lock", "allow", "call"} \cup InReserve =>
                               pc[c] \in {"new", "lock", "allow", "call"} \cup InReserve
  PROVE  SpendInv'
<1>1. OrgDue' = OrgDue /\ \A u : UserDue(u)' = UserDue(u) /\ Of(u)' = Of(u)
  BY DEF OrgDue, UserDue, Of
<1>2. \A S : SumFunctionOnSet(used', S) = SumFunctionOnSet(used, S)
  OBVIOUS
<1>. QED BY <1>1, <1>2 DEF SpendInv, Spent

\* A lost write or a crash: less is due, and nothing else happens.
LEMMA DueIsLost ==
  ASSUME BudgetTypeOK, SpendInv, UNCHANGED <<used, orgUsage, userUsage>>, lost',
         \A c \in Calls : /\ pc'[c] \in {"mark", "org"} => pc[c] \in {"mark", "org"}
                          /\ pc'[c] \in {"new", "lock", "allow", "call"} \cup InReserve =>
                               pc[c] \in {"new", "lock", "allow", "call"} \cup InReserve
  PROVE  SpendInv'
<1>1. OrgDue' \subseteq OrgDue /\ OrgDue \in SUBSET Calls
  BY DEF OrgDue
<1>2. SumFunctionOnSet(used, OrgDue') <= Spent(OrgDue)
  <2>1. IsFiniteSet(OrgDue) /\ \A c \in OrgDue : used[c] \in Nat
    BY <1>1, SpentNat DEF BudgetTypeOK
  <2>. HIDE DEF OrgDue
  <2>. QED BY <1>1, <2>1, SumSubset DEF Spent
<1>3. orgUsage + SumFunctionOnSet(used, OrgDue') <= Spent(Calls)
  <2>1. SumFunctionOnSet(used, OrgDue') \in Nat /\ Spent(OrgDue) \in Nat /\ Spent(Calls) \in Nat
    BY <1>1, SpentNat DEF BudgetTypeOK, Spent
  <2>. QED BY <1>2, <2>1 DEF SpendInv, BudgetTypeOK
<1>4. Spent(OrgDue)' = SumFunctionOnSet(used, OrgDue') /\ Spent(Calls)' = Spent(Calls)
  BY DEF Spent
<1>. QED BY <1>3, <1>4 DEF SpendInv

\* The provider answers: what was spent is due to both ledgers.
LEMMA AnswerIsDue ==
  ASSUME BudgetTypeOK, SpendInv, NEW c \in Calls, NEW n \in Usages, CallSucceeds(c, n)
  PROVE  SpendInv'
<1>1. /\ pc[c] = "call" /\ used[c] = 0 /\ n \in Nat
      /\ used' = [used EXCEPT ![c] = n] /\ used \in [Calls -> Nat] /\ used' \in [Calls -> Nat]
      /\ pc' = [pc EXCEPT ![c] = IF requestID[c] THEN "mark" ELSE "org"]
      /\ UNCHANGED <<orgUsage, userUsage, lost>>
  BY DEF CallSucceeds, Goto, SpendInv, BudgetTypeOK, ledgerVars
<1>2. ASSUME NEW S \in SUBSET Calls, c \notin S
      PROVE  SumFunctionOnSet(used', S) = Spent(S)
  <2>1. \A b \in S : used'[b] \in Nat /\ used'[b] = used[b]
    BY <1>1, <1>2
  <2>. QED BY <1>1, <2>1, SpentNat, SumSame DEF Spent
<1>3. ASSUME NEW S \in SUBSET Calls, c \notin S
      PROVE  /\ SumFunctionOnSet(used', S \cup {c}) = Spent(S) + n
             /\ Spent(S \cup {c}) = Spent(S)
  <2>1. IsFiniteSet(S) /\ Spent(S) \in Nat
    BY <1>1, SpentNat
  <2>2. SumFunctionOnSet(used', S \cup {c}) = used'[c] + SumFunctionOnSet(used', S)
    BY <1>1, <1>3, <2>1, SumAdd
  <2>3. Spent(S \cup {c}) = used[c] + Spent(S)
    BY <1>1, <1>3, <2>1, SumAdd DEF Spent
  <2>4. SumFunctionOnSet(used', S) = Spent(S) /\ used'[c] = n /\ used[c] = 0 /\ n \in Nat
    BY <1>1, <1>2, <1>3
  <2>. QED BY <2>1, <2>2, <2>3, <2>4
<1>4. /\ OrgDue' = OrgDue \cup {c} /\ c \notin OrgDue /\ OrgDue \in SUBSET Calls
      /\ \A u : /\ Of(u) \in SUBSET Calls /\ UserDue(u) \in SUBSET Calls /\ c \notin UserDue(u)
                /\ Of(u)' = Of(u)
                /\ UserOf[c] = u => UserDue(u)' = UserDue(u) \cup {c}
                /\ UserOf[c] # u => UserDue(u)' = UserDue(u)
  BY <1>1 DEF OrgDue, UserDue, Of, BudgetTypeOK, InRecord
<1>5. SumFunctionOnSet(used', OrgDue') = Spent(OrgDue) + n
  BY <1>3, <1>4
<1>6. SumFunctionOnSet(used', Calls) = Spent(Calls) + n
  <2>1. (Calls \ {c}) \cup {c} = Calls
    OBVIOUS
  <2>. QED BY <1>3, <2>1
<1>7. ASSUME NEW u \in Users \ {Anonymous}, userUsage[u] + Spent(UserDue(u)) = Spent(Of(u))
      PROVE  userUsage[u] + SumFunctionOnSet(used', UserDue(u)') = SumFunctionOnSet(used', Of(u))
  <2>0. Spent(UserDue(u)) \in Nat /\ userUsage[u] \in Nat /\ Spent(Of(u)) \in Nat
    BY <1>1, <1>4, SpentNat DEF BudgetTypeOK
  <2>1. CASE UserOf[c] = u
    <3>1. SumFunctionOnSet(used', UserDue(u)') = Spent(UserDue(u)) + n
      BY <1>3, <1>4, <2>1
    <3>2. SumFunctionOnSet(used', Of(u)) = Spent(Of(u)) + n
      <4>1. (Of(u) \ {c}) \cup {c} = Of(u) /\ Of(u) \ {c} \in SUBSET Calls
        BY <2>1 DEF Of
      <4>. QED BY <1>3, <4>1
    <3>. QED BY <1>1, <1>7, <2>0, <3>1, <3>2
  <2>2. CASE UserOf[c] # u
    <3>1. c \notin Of(u)
      BY <2>2 DEF Of
    <3>2. SumFunctionOnSet(used', Of(u)) = Spent(Of(u))
      BY <1>2, <1>4, <3>1
    <3>3. SumFunctionOnSet(used', UserDue(u)') = Spent(UserDue(u))
      BY <1>2, <1>4, <2>2
    <3>. QED BY <1>7, <3>2, <3>3
  <2>. QED BY <2>1, <2>2
<1>8. /\ Spent(OrgDue) \in Nat /\ Spent(Calls) \in Nat /\ orgUsage \in Nat
  BY <1>1, <1>4, SpentNat DEF BudgetTypeOK
<1>9. /\ orgUsage' + Spent(OrgDue)' <= Spent(Calls)'
      /\ ~lost' => orgUsage' + Spent(OrgDue)' = Spent(Calls)'
  <2>1. /\ orgUsage + Spent(OrgDue) <= Spent(Calls)
        /\ ~lost => orgUsage + Spent(OrgDue) = Spent(Calls)
    BY DEF SpendInv
  <2>2. Spent(OrgDue)' = Spent(OrgDue) + n /\ Spent(Calls)' = Spent(Calls) + n
    BY <1>5, <1>6 DEF Spent
  <2>. QED BY <1>1, <1>8, <2>1, <2>2
<1>10. ~lost' => \A u \in Users \ {Anonymous} :
                    userUsage'[u] + Spent(UserDue(u))' = Spent(Of(u))'
  BY <1>1, <1>4, <1>7 DEF SpendInv, Spent
<1>11. \A b \in Calls : pc'[b] \in {"new", "lock", "allow", "call"} \cup InReserve => used'[b] = 0
  BY <1>1 DEF SpendInv, BudgetTypeOK, InReserve
<1>. QED BY <1>9, <1>10, <1>11 DEF SpendInv

\* The organization's ledger takes what is due to it.
LEMMA OrgTakes ==
  ASSUME BudgetTypeOK, SpendInv, NEW c \in Calls, RecordOrgUsage(c)
  PROVE  SpendInv'
<1>1. /\ pc[c] = "org" /\ used' = used /\ lost' = lost /\ userUsage' = userUsage
      /\ orgUsage' = orgUsage + used[c] /\ used \in [Calls -> Nat]
      /\ pc' = [pc EXCEPT ![c] = IF UserOf[c] = Anonymous THEN "done" ELSE "user"]
      /\ orgUsage \in Nat
  BY DEF RecordOrgUsage, Goto, BudgetTypeOK, callVars
<1>2. /\ OrgDue' = OrgDue \ {c} /\ c \in OrgDue /\ OrgDue \in SUBSET Calls
      /\ \A u \in Users \ {Anonymous} : UserDue(u)' = UserDue(u) /\ Of(u)' = Of(u)
  BY <1>1 DEF OrgDue, UserDue, Of, BudgetTypeOK, InRecord
<1>3. Spent(OrgDue) = used[c] + Spent(OrgDue)'
  <2>1. IsFiniteSet(OrgDue) /\ \A b \in OrgDue : used[b] \in Nat
    BY <1>1, <1>2, SpentNat
  <2>. HIDE DEF OrgDue
  <2>2. SumFunctionOnSet(used, OrgDue) = used[c] + SumFunctionOnSet(used, OrgDue \ {c})
    BY <1>2, <2>1, SumRemove
  <2>. QED BY <1>1, <1>2, <2>2 DEF Spent
<1>4. Spent(OrgDue \ {c}) \in Nat /\ used[c] \in Nat /\ Spent(Calls) \in Nat
  BY <1>1, <1>2, SpentNat
<1>5. Spent(OrgDue)' = Spent(OrgDue \ {c}) /\ Spent(Calls)' = Spent(Calls)
  BY <1>1, <1>2 DEF Spent
<1>6. /\ orgUsage' + Spent(OrgDue)' <= Spent(Calls)'
      /\ ~lost' => orgUsage' + Spent(OrgDue)' = Spent(Calls)'
  BY <1>1, <1>3, <1>4, <1>5 DEF SpendInv
<1>7. ~lost' => \A u \in Users \ {Anonymous} :
                    userUsage'[u] + Spent(UserDue(u))' = Spent(Of(u))'
  BY <1>1, <1>2 DEF SpendInv, Spent
<1>8. \A b \in Calls : pc'[b] \in {"new", "lock", "allow", "call"} \cup InReserve => used'[b] = 0
  BY <1>1 DEF SpendInv, BudgetTypeOK, InReserve
<1>. QED BY <1>6, <1>7, <1>8 DEF SpendInv

\* The user's ledger takes what is due to it.
LEMMA UserTakes ==
  ASSUME BudgetTypeOK, SpendInv, NEW c \in Calls, RecordUserUsage(c)
  PROVE  SpendInv'
<1>1. /\ pc[c] = "user" /\ used' = used /\ lost' = lost /\ orgUsage' = orgUsage
      /\ userUsage' = [userUsage EXCEPT ![UserOf[c]] = @ + used[c]] /\ used \in [Calls -> Nat]
      /\ pc' = [pc EXCEPT ![c] = "done"]
      /\ userUsage \in [Users -> Nat] /\ UserOf[c] \in Users
  BY DEF RecordUserUsage, Goto, BudgetTypeOK, callVars
<1>2. /\ OrgDue' = OrgDue
      /\ \A u : /\ Of(u)' = Of(u) /\ UserDue(u) \in SUBSET Calls
                /\ UserOf[c] = u => UserDue(u)' = UserDue(u) \ {c} /\ c \in UserDue(u)
                /\ UserOf[c] # u => UserDue(u)' = UserDue(u)
  BY <1>1 DEF OrgDue, UserDue, Of, BudgetTypeOK, InRecord
<1>3. ASSUME NEW u \in Users, userUsage[u] + Spent(UserDue(u)) = Spent(Of(u))
      PROVE  userUsage'[u] + Spent(UserDue(u))' = Spent(Of(u))'
  <2>1. CASE UserOf[c] = u
    <3>. DEFINE D == UserDue(u)
    <3>1. D \in SUBSET Calls /\ c \in D /\ UserDue(u)' = D \ {c}
      BY <1>2, <2>1
    <3>2. IsFiniteSet(D) /\ (\A b \in D : used[b] \in Nat) /\ Spent(D \ {c}) \in Nat
      BY <1>1, <3>1, SpentNat
    <3>. HIDE DEF D
    <3>3. Spent(D) = used[c] + Spent(D \ {c})
      BY <3>1, <3>2, SumRemove DEF Spent
    <3>4. Spent(UserDue(u))' = Spent(D \ {c}) /\ Spent(Of(u))' = Spent(Of(u))
      BY <1>1, <1>2, <3>1 DEF Spent
    <3>5. userUsage'[u] = userUsage[u] + used[c] /\ userUsage[u] \in Nat /\ used[c] \in Nat
      BY <1>1, <2>1
    <3>6. userUsage[u] + Spent(D) = Spent(Of(u))
      BY <1>3 DEF D
    <3>. QED BY <3>2, <3>3, <3>4, <3>5, <3>6
  <2>2. CASE UserOf[c] # u
    <3>1. /\ userUsage'[u] = userUsage[u]
          /\ Spent(UserDue(u))' = Spent(UserDue(u)) /\ Spent(Of(u))' = Spent(Of(u))
      BY <1>1, <1>2, <2>2 DEF Spent
    <3>. QED BY <1>3, <3>1
  <2>. QED BY <2>1, <2>2
<1>4. Spent(OrgDue)' = Spent(OrgDue) /\ Spent(Calls)' = Spent(Calls)
  BY <1>1, <1>2 DEF Spent
<1>5. \A b \in Calls : pc'[b] \in {"new", "lock", "allow", "call"} \cup InReserve => used'[b] = 0
  BY <1>1 DEF SpendInv, BudgetTypeOK, InReserve
<1>. QED BY <1>1, <1>3, <1>4, <1>5 DEF SpendInv

\* The ledgers hold what the provider has spent, once, for every number of
\* concurrent calls: more never, and less only after a lost write.
THEOREM UsageIsTheSpend == Spec => []UsageIsSpend
<1>1. Init => SpendInv
  <2>. SUFFICES ASSUME Init PROVE SpendInv
    OBVIOUS
  <2>1. OrgDue = {} /\ \A u : UserDue(u) = {}
    BY DEF Init, OrgDue, UserDue, InRecord
  <2>2. ASSUME NEW S \in SUBSET Calls PROVE Spent(S) = 0
    <3>. DEFINE zero == [c \in Calls |-> 0]
    <3>1. used = zero /\ IsFiniteSet(S)
      BY FS_Subset DEF Init
    <3>2. \A x \in S : zero[x] = 0
      OBVIOUS
    <3>. HIDE DEF zero
    <3>. QED BY <3>1, <3>2, SumZero DEF Spent
  <2>3. \A u : Of(u) \in SUBSET Calls
    BY DEF Of
  <2>4. Spent(OrgDue) = 0 /\ Spent(Calls) = 0 /\ \A u : Spent(UserDue(u)) = 0 /\ Spent(Of(u)) = 0
    BY <2>1, <2>2, <2>3
  <2>. QED BY <2>4 DEF Init, SpendInv
<1>2. BudgetTypeOK /\ SpendInv /\ [Next]_vars => SpendInv'
  <2>. SUFFICES ASSUME BudgetTypeOK, SpendInv, [Next]_vars PROVE SpendInv'
    OBVIOUS
  <2>. DEFINE Kept == /\ UNCHANGED <<used, orgUsage, userUsage>> /\ lost' = lost
                      /\ \A c \in Calls :
                           /\ pc'[c] \in {"mark", "org"} <=> pc[c] \in {"mark", "org"}
                           /\ pc'[c] \in InRecord <=> pc[c] \in InRecord
                           /\ pc'[c] \in {"new", "lock", "allow", "call"} \cup InReserve =>
                                pc[c] \in {"new", "lock", "allow", "call"} \cup InReserve
  <2>. USE DEF BudgetTypeOK, Goto, callVars, ledgerVars, InReserve, InRecord
  <2>1. ASSUME NEW c \in Calls, NEW in \in Inputs, Start(c, in) PROVE Kept
    BY <2>1 DEF Start
  <2>2. ASSUME NEW c \in Calls, LockBudget(c) \/ ReadUsage(c) \/ CheckOrg(c) \/ CheckUser(c) PROVE Kept
    BY <2>2 DEF LockBudget, ReadUsage, CheckOrg, CheckUser
  <2>3. ASSUME NEW c \in Calls, InsertReservation(c) \/ ReleaseReservation(c) PROVE Kept
    BY <2>3 DEF InsertReservation, ReleaseReservation
  <2>4. ASSUME NEW c \in Calls, ReserveFails(c) PROVE Kept
    BY <2>4 DEF ReserveFails, LedgerError
  <2>5. ASSUME NEW c \in Calls, Allow(c) \/ CallFails(c) PROVE Kept
    BY <2>5 DEF Allow, CallFails, AfterFailure
  <2>6. ASSUME NEW c \in Calls, MarkCommitted(c) PROVE Kept
    BY <2>6 DEF MarkCommitted
  <2>7. ASSUME NEW c \in Calls, ReservationLapses(c) PROVE Kept
    BY <2>7 DEF ReservationLapses
  <2>8. ASSUME ExpireAbandoned PROVE Kept
    BY <2>8 DEF ExpireAbandoned
  <2>9. ASSUME NEW p \in Processes, BreakerCools(p) PROVE Kept
    BY <2>9 DEF BreakerCools
  <2>10. ASSUME UNCHANGED vars PROVE Kept
    BY <2>10 DEF vars
  <2>11. Kept => SpendInv'
    BY NothingDue
  <2>. HIDE DEF Kept
  <2>12. ASSUME NEW c \in Calls, WriteFails(c) PROVE SpendInv'
    <3>1. /\ UNCHANGED <<used, orgUsage, userUsage>> /\ lost'
          /\ \A b \in Calls : /\ pc'[b] \in {"mark", "org"} => pc[b] \in {"mark", "org"}
                              /\ pc'[b] \in {"new", "lock", "allow", "call"} \cup InReserve =>
                                   pc[b] \in {"new", "lock", "allow", "call"} \cup InReserve
      BY <2>12 DEF WriteFails, AfterWrite
    <3>. QED BY <3>1, DueIsLost
  <2>13. ASSUME NEW p \in Processes, Crash(p) PROVE SpendInv'
    <3>1. /\ UNCHANGED <<used, orgUsage, userUsage>>
          /\ \A b \in Calls : /\ pc'[b] \in {"mark", "org"} => pc[b] \in {"mark", "org"}
                              /\ pc'[b] \in {"new", "lock", "allow", "call"} \cup InReserve =>
                                   pc[b] \in {"new", "lock", "allow", "call"} \cup InReserve
      BY <2>13 DEF Crash
    <3>2. CASE lost'
      BY <3>1, <3>2, DueIsLost
    <3>3. CASE ~lost'
      <4>1. Kept
        BY <2>13, <3>3 DEF Crash, Kept, Ended
      <4>. QED BY <2>11, <4>1
    <3>. QED BY <3>2, <3>3
  <2>. QED BY <2>1, <2>2, <2>3, <2>4, <2>5, <2>6, <2>7, <2>8, <2>9, <2>10, <2>11, <2>12, <2>13,
              AnswerIsDue, OrgTakes, UserTakes DEF Next, CallStep
<1>3. BudgetTypeOK /\ SpendInv => UsageIsSpend
  <2>. SUFFICES ASSUME BudgetTypeOK, SpendInv PROVE UsageIsSpend
    OBVIOUS
  <2>1. OrgDue \in SUBSET Calls /\ Calls \in SUBSET Calls
    BY DEF OrgDue
  <2>2. Spent(OrgDue) \in Nat /\ Spent(Calls) \in Nat /\ orgUsage \in Nat
    BY <2>1, SpentNat DEF BudgetTypeOK
  <2>3. orgUsage <= Spent(Calls)
    BY <2>2 DEF SpendInv
  <2>4. ASSUME ~lost, \A c \in Calls : pc[c] \notin InRecord
        PROVE  /\ orgUsage = Spent(Calls)
               /\ \A u \in Users \ {Anonymous} :
                    userUsage[u] = Spent({c \in Calls : UserOf[c] = u})
    <3>1. OrgDue = {} /\ \A u : UserDue(u) = {}
      BY <2>4 DEF OrgDue, UserDue, InRecord
    <3>2. Spent({}) = 0
      BY SumEmpty DEF Spent
    <3>3. orgUsage = Spent(Calls)
      BY <2>2, <2>4, <3>1, <3>2 DEF SpendInv
    <3>4. ASSUME NEW u \in Users \ {Anonymous} PROVE userUsage[u] = Spent(Of(u))
      <4>1. userUsage[u] \in Nat
        BY DEF BudgetTypeOK
      <4>2. userUsage[u] + Spent({}) = Spent(Of(u))
        BY <2>4, <3>1 DEF SpendInv
      <4>. QED BY <3>2, <4>1, <4>2
    <3>. QED BY <3>3, <3>4 DEF Of
  <2>. QED BY <2>3, <2>4 DEF UsageIsSpend
<1>. QED BY <1>1, <1>2, <1>3, BudgetTypeCorrect, PTL DEF Spec
=============================================================================
