------------------------------- MODULE Embedder -------------------------------
(***************************************************************************)
(* Concurrent embedding calls of one process (GovernedEmbedder): policy,   *)
(* circuit breaker, semaphore, the call itself, and the dimension of the   *)
(* vectors, which the first answer pins unless it was set.                 *)
(***************************************************************************)
EXTENDS Naturals, FiniteSets

CONSTANTS
  Calls,           \* calls of Embed, numbered by arrival
  Dims,            \* lengths of vectors a backend may return, apart from 0
  MaxConcurrency,  \* capacity of sem
  EmbedThreshold   \* failures in a row that open the breaker

ASSUME EmbedAssumption ==
  /\ Calls \subseteq Nat
  /\ Dims \subseteq Nat \ {0}
  /\ MaxConcurrency \in Nat \ {0}
  /\ EmbedThreshold \in Nat \ {0}

VARIABLES
  embed,      \* progress of every call
  holding,    \* calls that hold a place of sem
  expected,   \* expectedDim, 0 when it is not pinned
  failed,     \* failures in a row
  broken,     \* the breaker is open
  vectors     \* history: the dimension every call returned

embedVars == <<embed, holding, expected, failed, broken, vectors>>

EmbedCall ==
  [step : {"idle", "waiting", "calling", "checking", "swapping", "leaving", "ended"},
   got : Dims \cup {0}]
NoCall == [step |-> "idle", got |-> 0]

EmbedInit ==
  /\ embed = [c \in Calls |-> NoCall]
  /\ holding = {}
  /\ expected \in Dims \cup {0}
  /\ failed = 0
  /\ broken = FALSE
  /\ vectors = [c \in Calls |-> 0]

Steps(c, step) == [embed EXCEPT ![c].step = step]

\* RecordFailure, and the caller is left with an error.
Fails(c) ==
  /\ embed' = [embed EXCEPT ![c] = [step |-> "leaving", got |-> 0]]
  /\ IF failed + 1 >= EmbedThreshold
       THEN broken' = TRUE /\ failed' = 0
       ELSE failed' = failed + 1 /\ UNCHANGED broken

\* RecordSuccess
Succeeds(c) ==
  /\ embed' = Steps(c, "leaving")
  /\ failed' = 0
  /\ broken' = FALSE

\* Policy and breaker are asked before the wait for a place.
Enter(c) ==
  /\ embed[c] = NoCall
  /\ \A b \in Calls : b < c => embed[b] # NoCall
  /\ \/ embed' = Steps(c, "ended")
     \/ ~broken /\ embed' = Steps(c, "waiting")
  /\ UNCHANGED <<holding, expected, failed, broken, vectors>>

Acquire(c) ==
  /\ embed[c].step = "waiting"
  /\ Cardinality(holding) < MaxConcurrency
  /\ holding' = holding \cup {c}
  /\ embed' = Steps(c, "calling")
  /\ UNCHANGED <<expected, failed, broken, vectors>>

\* The caller's context ends while it waits.
GiveUp(c) ==
  /\ embed[c].step = "waiting"
  /\ embed' = Steps(c, "ended")
  /\ UNCHANGED <<holding, expected, failed, broken, vectors>>

\* The backend answers with a vector, or with an error, at the latest after the
\* timeout.
Respond(c) ==
  /\ embed[c].step = "calling"
  /\ \/ /\ \E n \in Dims \cup {0} : embed' = [embed EXCEPT ![c] = [step |-> "checking", got |-> n]]
        /\ UNCHANGED <<failed, broken>>
     \/ Fails(c)
  /\ UNCHANGED <<holding, expected, vectors>>

\* checkDimension: an empty vector fails, otherwise the pin is loaded.
LoadDimension(c) ==
  /\ embed[c].step = "checking"
  /\ \/ /\ embed[c].got # 0 /\ expected = 0
        /\ embed' = Steps(c, "swapping")
        /\ UNCHANGED <<failed, broken>>
     \/ /\ embed[c].got # 0 /\ expected = embed[c].got
        /\ Succeeds(c)
     \/ /\ embed[c].got = 0 \/ expected \notin {0, embed[c].got}
        /\ Fails(c)
  /\ UNCHANGED <<holding, expected, vectors>>

\* Mutant: the pin is stored without a look.
SwappedAlways(c) == TRUE

Swapped(c) == expected = 0

\* CompareAndSwap(0, got); who loses loads again.
SwapDimension(c) ==
  /\ embed[c].step = "swapping"
  /\ \/ Swapped(c) /\ expected' = embed[c].got /\ Succeeds(c)
     \/ ~Swapped(c) /\ embed' = Steps(c, "checking") /\ UNCHANGED <<expected, failed, broken>>
  /\ UNCHANGED <<holding, vectors>>

\* Mutant: a failed call keeps its place.
ReleasedBy(c) == IF embed[c].got = 0 THEN {} ELSE {c}

\* Deferred: the place is given back on every path.
Released(c) == {c}

\* The call is audited, gives its place back and returns.
Leave(c) ==
  /\ embed[c].step = "leaving"
  /\ embed' = Steps(c, "ended")
  /\ vectors' = [vectors EXCEPT ![c] = embed[c].got]
  /\ holding' = holding \ Released(c)
  /\ UNCHANGED <<expected, failed, broken>>

CoolDown ==
  /\ broken
  /\ broken' = FALSE
  /\ UNCHANGED <<embed, holding, expected, failed, vectors>>

EmbedStep(c) ==
  Acquire(c) \/ Respond(c) \/ LoadDimension(c) \/ SwapDimension(c) \/ Leave(c)

EmbedNext ==
  \/ \E c \in Calls : Enter(c) \/ GiveUp(c) \/ EmbedStep(c)
  \/ CoolDown

\* Steps are code that runs on; the backend answers or its timeout does.
EmbedFairness == \A c \in Calls : WF_embedVars(EmbedStep(c))

EmbedSpec == EmbedInit /\ [][EmbedNext]_embedVars
EmbedFairSpec == EmbedSpec /\ EmbedFairness

-----------------------------------------------------------------------------

\* Types of the calls, the pin and the breaker.
EmbedTypeOK ==
  /\ embed \in [Calls -> EmbedCall]
  /\ holding \in SUBSET Calls
  /\ expected \in Dims \cup {0}
  /\ failed \in 0..EmbedThreshold - 1
  /\ broken \in BOOLEAN
  /\ vectors \in [Calls -> Dims \cup {0}]

\* All vectors that callers receive, and may store side by side, have one
\* dimension, although the first answers arrive concurrently.
OneDimension ==
  \A b, c \in Calls : 0 \notin {vectors[b], vectors[c]} => vectors[b] = vectors[c]

\* Every call ends, whichever way those before it in the semaphore ended.
EveryEmbedEnds == \A c \in Calls : embed[c].step # "idle" ~> embed[c].step = "ended"
=============================================================================
