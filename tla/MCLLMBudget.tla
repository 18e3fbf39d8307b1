------------------------------ MODULE MCLLMBudget ------------------------------
(***************************************************************************)
(* Instances of LLMBudget for TLC: two calls of one user, one of another.  *)
(* A principal without a user is a branch of the ledger's code that no     *)
(* request takes: PrincipalFromContext names it "system".                  *)
(***************************************************************************)
EXTENDS LLMBudget, TLC

CONSTANTS c1, c2, c3, u1, u2, p1, p2

MCUserOf == c1 :> u1 @@ c2 :> u1 @@ c3 :> u2
MCProcessOf == c1 :> p1 @@ c2 :> p2 @@ c3 :> p2

\* Local SQL generation, and row data for a cloud provider that is not redacted.
MCInputs ==
  {[injection |-> FALSE, cloud |-> FALSE, allowCloud |-> FALSE, rows |-> TRUE, redact |-> FALSE],
   [injection |-> FALSE, cloud |-> TRUE, allowCloud |-> TRUE, rows |-> TRUE, redact |-> FALSE]}
=============================================================================
