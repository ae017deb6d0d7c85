--------------------------- MODULE CandidateSearch ---------------------------
(* The search behind compile() and solve() of the timer allocators, as the    *)
(* checks of experiments/timer-allocation and of the interrupt gates rely on  *)
(* it: the allocation units of a problem are decided in canonical order, each *)
(* takes its first candidate that fits what was chosen before, a dead end     *)
(* goes back one unit, every candidate tried counts as a visit, and a budget  *)
(* of visits ends the search.  The allocator is a library outside src/; the   *)
(* answer it must give is the one oracle_checks.cpp finds by brute force.     *)
EXTENDS Integers

CONSTANT Problems   \* the problems a run poses, in canonical form:
                    \* units, most, options[u] (how many candidates unit u
                    \* has), clash (the pairs <<u, i, v, j>>, u < v, of
                    \* candidates that exclude each other), budget, refusal

ASSUME ProblemsAssumption ==
  \A p \in Problems :
     /\ p.units \in Nat /\ p.most \in Nat /\ p.budget \in Nat
     /\ p.options \in [1..p.units -> 0..p.most]
     /\ p.refusal \notin {"searching", "success", "conflict"}

VARIABLES
  problem,   \* the problem being solved
  depth,     \* how many units are decided
  chosen,    \* the candidate of each unit, 0 for a unit that has none
  next,      \* the candidate of unit depth + 1 to try next
  visited,   \* how many candidates were tried
  status     \* "searching", or the verdict

searchvars == <<problem, depth, chosen, next, visited, status>>

Undecided(p) == [u \in 1..p.units |-> 0]

\* A problem the validation refuses never reaches the search.
SearchInit ==
  /\ problem \in Problems
  /\ depth = 0
  /\ chosen = Undecided(problem)
  /\ next = 1
  /\ visited = 0
  /\ status = IF problem.refusal = "none" THEN "searching" ELSE problem.refusal

----------------------------------------------------------------------------
\* What the answer has to be, without the search

\* Mutant: only neighbours are compared.
FeasibleNext(p, f) ==
  /\ \A u \in 1..p.units : f[u] >= 1 /\ f[u] <= p.options[u]
  /\ \A u, v \in 1..p.units : v = u + 1 => <<u, f[u], v, f[v]>> \notin p.clash

\* f gives every unit one of its candidates and no two exclude each other.
Feasible(p, f) ==
  /\ \A u \in 1..p.units : f[u] >= 1 /\ f[u] <= p.options[u]
  /\ \A u, v \in 1..p.units : u < v => <<u, f[u], v, f[v]>> \notin p.clash

Assignments(p) == {f \in [1..p.units -> 1..p.most] : Feasible(p, f)}

\* f and g agree on the first n units.
Agree(f, g, n) == \A u \in 1..n : f[u] = g[u]

\* g is the first of the feasible assignments in the order of the loops.
Least(p, g) ==
  \A f \in Assignments(p) :
     \A u \in 1..p.units : Agree(f, g, u - 1) => g[u] <= f[u]

----------------------------------------------------------------------------
\* The search

Searching == status = "searching" /\ depth < problem.units

Fits == \A u \in 1..depth :
          <<u, chosen[u], depth + 1, next>> \notin problem.clash

TryCandidate ==
  /\ Searching /\ next <= problem.options[depth + 1]
  /\ visited < problem.budget
  /\ visited' = visited + 1
  /\ \/ /\ Fits
        /\ chosen' = [chosen EXCEPT ![depth + 1] = next]
        /\ depth' = depth + 1
        /\ next' = 1
     \/ /\ ~Fits
        /\ next' = next + 1
        /\ UNCHANGED <<chosen, depth>>
  /\ UNCHANGED <<problem, status>>

\* The budget is spent: what was chosen so far is withdrawn.
Exhaust ==
  /\ Searching /\ next <= problem.options[depth + 1]
  /\ visited >= problem.budget
  /\ status' = "exhausted"
  /\ depth' = 0
  /\ chosen' = Undecided(problem)
  /\ UNCHANGED <<problem, next, visited>>

Backtrack ==
  /\ Searching /\ next > problem.options[depth + 1] /\ depth > 0
  /\ depth' = depth - 1
  /\ next' = chosen[depth] + 1
  /\ chosen' = [chosen EXCEPT ![depth] = 0]
  /\ UNCHANGED <<problem, visited, status>>

Conflict ==
  /\ Searching /\ next > problem.options[depth + 1] /\ depth = 0
  /\ status' = "conflict"
  /\ UNCHANGED <<problem, depth, chosen, next, visited>>

Finish ==
  /\ status = "searching" /\ depth = problem.units
  /\ status' = "success"
  /\ UNCHANGED <<problem, depth, chosen, next, visited>>

SearchNext == TryCandidate \/ Exhaust \/ Backtrack \/ Conflict \/ Finish

SearchSpec == SearchInit /\ [][SearchNext]_searchvars

----------------------------------------------------------------------------
\* Properties

\* The search answers as a brute force over all assignments would: a success
\* is the least feasible assignment, a conflict means that none is feasible,
\* and a failure leaks no part of an assignment.
OracleAgrees ==
  /\ status = "success" => Feasible(problem, chosen) /\ Least(problem, chosen)
  /\ status = "conflict" => Assignments(problem) = {}
  /\ status \notin {"searching", "success"} => chosen = Undecided(problem)
=============================================================================
