------------------------- MODULE InvestigationReports -------------------------
(***************************************************************************)
(* Evidence for a rewrite: users test candidates for the SQL of an         *)
(* investigation (AddCandidate), which compares what the two queries       *)
(* return, and generate reports of what was found (GenerateReport), while  *)
(* the analysed tables change.                                             *)
(*                                                                         *)
(* A comparison executes up to six statements, each in a transaction of    *)
(* its own: an aggregate over every row of both results, and where that    *)
(* fails the counts and then samples of them.  A result is a bag of rows;  *)
(* rows are numbered in the order of their hashes.  That two results agree *)
(* in the aggregate only if they are equal is taken for granted, and so is *)
(* that their columns have the same names and types.                       *)
(***************************************************************************)
EXTENDS Naturals, FiniteSets, Functions

CONSTANTS
  ResultRows,  \* rows a query may return
  Results,     \* results: how often each row is returned
  Original,    \* the SQL of the investigation
  Candidates,  \* rewrites of it
  NoSql,       \* no candidate, no comparison, no report
  Testers,     \* requests of users, numbered by arrival
  SampleCap,   \* equivalenceSampleCap
  MaxRows,     \* maxRows of the Runner
  MaxWrites    \* bound on changes of the analysed tables

ASSUME ReportAssumption ==
  /\ ResultRows \subseteq Nat /\ IsFiniteSet(ResultRows)
  /\ Results \subseteq [ResultRows -> Nat]
  /\ Original \notin Candidates \cup {NoSql} /\ NoSql \notin Candidates \cup Testers
  /\ Testers \subseteq Nat
  /\ SampleCap \in Nat \ {0} /\ MaxRows \in Nat \ {0}
  /\ MaxWrites \in Nat

VARIABLES
  result,   \* what each query returns
  writes,   \* changes of the analysed tables so far
  tested,   \* investigation_candidates: the last comparison of each candidate
  inv,      \* the investigation: status, candidate, comparison and report
  reports,  \* reports, named after the request that stored them
  work      \* progress of every request

reportVars == <<result, writes, tested, inv, reports, work>>

Queries == {Original} \cup Candidates
Statuses == {"VerifiedEqual", "SampleMatch", "Different", "Unverified", "NotRequested"}
\* What comparisons of earlier releases hold: a status that was renamed, or
\* nothing but a checksum flag.
LegacyStatuses == {"Equal", "ChecksumTrue", "ChecksumFalse", "NoChecksum"}
NoComparison == [of |-> NoSql, status |-> "none", rested |-> FALSE, equal |-> FALSE]
\* rested and equal are history: no table changed while the results were
\* compared, and they were the same at its end.
Comparison ==
  {NoComparison} \cup
  [of : Candidates, status : Statuses \cup LegacyStatuses, rested : BOOLEAN, equal : BOOLEAN]
Evidence == [candidate : Candidates \cup {NoSql}, comparison : Comparison]
NoEvidence == [candidate |-> NoSql, comparison |-> NoComparison]
Investigation ==
  [status : {"open", "comparing", "complete"}, shows : Evidence, report : Testers \cup {NoSql}]

TestSteps == {"idle", "fingerprint", "count", "sample", "record", "attach", "store", "complete", "ended"}
\* What a request has in hand: the candidate it tests, the first of two
\* results, whether it has that one, the count of the rows, what it has
\* found or read, and (history) the changes of the tables before it compared.
Work == [step : TestSteps, candidate : Candidates \cup {NoSql}, before : [ResultRows -> Nat],
         half : BOOLEAN, rows : Nat, found : Evidence, since : Nat]

NoRows == [x \in ResultRows |-> 0]
NoWork == [step |-> "idle", candidate |-> NoSql, before |-> NoRows, half |-> FALSE, rows |-> 0,
           found |-> NoEvidence, since |-> 0]

\* An investigation is open, or a release before this one has compared a
\* candidate of it.
ReportsInit ==
  /\ result \in [Queries -> Results]
  /\ writes = 0
  /\ tested = [c \in Candidates |-> NoComparison]
  /\ reports = [u \in Testers |-> NoEvidence]
  /\ work = [u \in Testers |-> NoWork]
  /\ \/ inv = [status |-> "open", shows |-> NoEvidence, report |-> NoSql]
     \/ \E c \in Candidates, s \in LegacyStatuses :
          inv = [status |-> "comparing", report |-> NoSql,
                 shows |-> [candidate |-> c, comparison |->
                              [of |-> c, status |-> s, rested |-> FALSE, equal |-> FALSE]]]

-----------------------------------------------------------------------------
(* Comparing results.                                                      *)

Size(bag) == SumFunction(bag)
Least(m, n) == IF m <= n THEN m ELSE n

\* A LIMIT without an order returns any of the rows.
AnyRows(bag, n) ==
  {s \in [ResultRows -> 0..n] :
     Size(s) = Least(n, Size(bag)) /\ \A x \in ResultRows : s[x] <= bag[x]}

\* ORDER BY md5(row): no row comes before all those of a smaller hash.
FirstByHash(bag, n) ==
  {s \in AnyRows(bag, n) : \A x, y \in ResultRows : x < y /\ s[y] > 0 => s[x] = bag[x]}

\* Mutant: an unordered sample of a result that exceeds the cap.
SampleUnordered(bag, rows) == AnyRows(bag, Least(SampleCap, MaxRows))

\* The rows of one side, ordered only if the counted result exceeds the cap.
Sample(bag, rows) ==
  IF rows > SampleCap THEN FirstByHash(bag, Least(SampleCap, MaxRows))
                      ELSE AnyRows(bag, Least(SampleCap, MaxRows))

\* What a statement returns of a query's result.
Reading(u, q) ==
  IF work[u].step = "sample" THEN Sample(result[q], work[u].rows) ELSE {result[q]}

Concluded(u, status) ==
  [candidate |-> work[u].candidate,
   comparison |-> [of |-> work[u].candidate, status |-> status,
                   rested |-> work[u].since = writes,
                   equal |-> result[Original] = result[work[u].candidate]]]
Concludes(u, status) ==
  work' = [work EXCEPT ![u] = [NoWork EXCEPT !.step = "record", !.candidate = work[u].candidate,
                                             !.found = Concluded(u, status)]]
GoesTo(u, step) == work' = [work EXCEPT ![u].step = step, ![u].half = FALSE, ![u].before = NoRows]

\* The statement on the original SQL.
RunBefore(u) ==
  /\ work[u].step \in {"fingerprint", "count", "sample"}
  /\ ~work[u].half
  /\ \E b \in Reading(u, Original) : work' = [work EXCEPT ![u].half = TRUE, ![u].before = b]
  /\ UNCHANGED <<result, writes, tested, inv, reports>>

\* The statement on the candidate, and the decision.
RunAfter(u) ==
  LET before == work[u].before
  IN  /\ work[u].half
      /\ \E after \in Reading(u, work[u].candidate) :
           \/ /\ work[u].step = "fingerprint"
              /\ Concludes(u, IF before = after THEN "VerifiedEqual" ELSE "Different")
           \/ /\ work[u].step = "count"
              /\ Size(before) # Size(after)
              /\ Concludes(u, "Different")
           \/ /\ work[u].step = "count"
              /\ Size(before) = Size(after)
              /\ work' = [work EXCEPT ![u].step = "sample", ![u].half = FALSE,
                                      ![u].before = NoRows, ![u].rows = Size(before)]
           \/ /\ work[u].step = "sample"
              /\ Concludes(u, IF before # after THEN "Different"
                              ELSE IF work[u].rows <= SampleCap THEN "VerifiedEqual"
                              ELSE "SampleMatch")
      /\ UNCHANGED <<result, writes, tested, inv, reports>>

\* A statement fails: without the aggregate the rows are counted, without the
\* counts or the samples nothing is known.
RunFails(u) ==
  /\ \/ work[u].step = "fingerprint" /\ GoesTo(u, "count")
     \/ work[u].step \in {"count", "sample"} /\ Concludes(u, "Unverified")
  /\ UNCHANGED <<result, writes, tested, inv, reports>>

-----------------------------------------------------------------------------
(* AddCandidate.                                                           *)

\* Requests arrive in the order of their numbers.
IsNext(u) == work[u] = NoWork /\ \A v \in Testers : v < u => work[v] # NoWork
TestEnds(u) == work' = [work EXCEPT ![u] = [NoWork EXCEPT !.step = "ended"]]

\* The results are compared only if that is asked for.
TestCandidate(u, c) ==
  /\ IsNext(u)
  /\ \/ work' = [work EXCEPT ![u].step = "fingerprint", ![u].candidate = c, ![u].since = writes]
     \/ work' = [work EXCEPT ![u] =
          [NoWork EXCEPT !.step = "record", !.candidate = c,
             !.found = [candidate |-> c,
                        comparison |-> [of |-> c, status |-> "NotRequested",
                                        rested |-> FALSE, equal |-> FALSE]]]]
  /\ UNCHANGED <<result, writes, tested, inv, reports>>

\* A candidate tested before is refreshed.
RecordCandidate(u) ==
  /\ work[u].step = "record"
  /\ \/ /\ tested' = [tested EXCEPT ![work[u].candidate] = work[u].found.comparison]
        /\ work' = [work EXCEPT ![u].step = "attach"]
     \/ TestEnds(u) /\ UNCHANGED tested
  /\ UNCHANGED <<result, writes, inv, reports>>

AttachCandidate(u) ==
  /\ work[u].step = "attach"
  /\ \/ inv' = [inv EXCEPT !.status = "comparing", !.shows = work[u].found]
     \/ UNCHANGED inv
  /\ TestEnds(u)
  /\ UNCHANGED <<result, writes, tested, reports>>

-----------------------------------------------------------------------------
(* GenerateReport.                                                         *)

\* Statuses of earlier releases are read as what they meant.
EquivalenceStatus(comparison) ==
  CASE comparison.status \in {"Equal", "ChecksumTrue"} -> "VerifiedEqual"
    [] comparison.status = "ChecksumFalse" -> "Different"
    [] comparison.status = "NoChecksum" -> "Unverified"
    [] OTHER -> comparison.status

EquivalenceIsShippable(status) == status \in {"VerifiedEqual", "SampleMatch"}

\* An investigation without a comparison is reported as it is.
Reportable(comparison) ==
  comparison = NoComparison \/ EquivalenceIsShippable(EquivalenceStatus(comparison))

\* One statement reads the investigation, and everything is built from that.
ReadEvidence(u) ==
  /\ IsNext(u)
  /\ \/ /\ Reportable(inv.shows.comparison)
        /\ work' = [work EXCEPT ![u].step = "store", ![u].found = inv.shows]
     \/ /\ ~Reportable(inv.shows.comparison)
        /\ TestEnds(u)
  /\ UNCHANGED <<result, writes, tested, inv, reports>>

StoreInvestigationReport(u) ==
  /\ work[u].step = "store"
  /\ \/ /\ reports' = [reports EXCEPT ![u] = work[u].found]
        /\ work' = [work EXCEPT ![u].step = "complete"]
     \/ TestEnds(u) /\ UNCHANGED reports
  /\ UNCHANGED <<result, writes, tested, inv>>

\* The investigation is complete, whatever it shows by now.
CompleteInvestigation(u) ==
  /\ work[u].step = "complete"
  /\ \/ inv' = [inv EXCEPT !.status = "complete", !.report = u]
     \/ UNCHANGED inv
  /\ TestEnds(u)
  /\ UNCHANGED <<result, writes, tested, reports>>

-----------------------------------------------------------------------------

\* Somebody changes the analysed tables.
TablesChange ==
  /\ writes < MaxWrites
  /\ writes' = writes + 1
  /\ result' \in [Queries -> Results]
  /\ UNCHANGED <<tested, inv, reports, work>>

TestStep(u) ==
  \/ RunBefore(u) \/ RunAfter(u) \/ RunFails(u)
  \/ RecordCandidate(u) \/ AttachCandidate(u)
  \/ StoreInvestigationReport(u) \/ CompleteInvestigation(u)

ReportsNext ==
  \/ \E u \in Testers : (\E c \in Candidates : TestCandidate(u, c)) \/ ReadEvidence(u) \/ TestStep(u)
  \/ TablesChange

ReportsSpec == ReportsInit /\ [][ReportsNext]_reportVars

-----------------------------------------------------------------------------
(* Properties.                                                             *)

\* Types of the tables' results, the table of candidates, the investigation and
\* the requests.
ReportTypeOK ==
  /\ result \in [Queries -> Results]
  /\ writes \in 0..MaxWrites
  /\ tested \in [Candidates -> Comparison]
  /\ inv \in Investigation
  /\ reports \in [Testers -> Evidence]
  /\ work \in [Testers -> Work]

Known == {tested[c] : c \in Candidates} \cup {inv.shows.comparison}
           \cup {reports[u].comparison : u \in Testers}

\* A comparison during which the tables rested says "equal" only of equal
\* results and "different" only of different ones, on every path by which its
\* statements fail, within the cap and beyond; and a report rests on such a
\* comparison or on a sample, also when candidates are tested again meanwhile.
\* Needs a Runner that returns as many rows as a sample has.
VerdictsAreTrue ==
  MaxRows >= SampleCap =>
    /\ \A e \in Known :
         e.rested => /\ e.status = "VerifiedEqual" => e.equal
                     /\ e.status = "Different" => ~e.equal
    /\ \A u \in Testers : reports[u] # NoEvidence => Reportable(reports[u].comparison)
=============================================================================
