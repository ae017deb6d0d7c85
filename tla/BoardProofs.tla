----------------------------- MODULE BoardProofs -----------------------------
(* What a board rests on before and while its program runs: the search that   *)
(* allocates its timers, for every set of problems; the options of a request, *)
(* for every set of declarations; and the order of the start and of the       *)
(* events, for every set of programs that keep it.                            *)
EXTENDS CandidateSearch, RequestOptions, BoardEvents, WellFoundedInduction,
        SequenceTheorems, TLAPS

----------------------------------------------------------------------------
\* The search

\* What the search state is made of.
SearchTypeInv ==
  /\ problem \in Problems
  /\ depth \in 0..problem.units
  /\ chosen \in [1..problem.units -> 0..problem.most]
  /\ next \in Nat \ {0}
  /\ visited \in Nat

\* The decided units hold candidates that go together, the others none.
PathInv ==
  /\ \A u \in 1..depth : chosen[u] >= 1 /\ chosen[u] <= problem.options[u]
  /\ \A u, v \in 1..depth :
       u < v => <<u, chosen[u], v, chosen[v]>> \notin problem.clash
  /\ \A u \in depth+1..problem.units : chosen[u] = 0

\* No feasible assignment was passed over: each one is at or after the path
\* decided so far, and one that continues the path does so at next or later.
NonePassed ==
  \A f \in Assignments(problem) :
     /\ \A u \in 1..depth : Agree(f, chosen, u - 1) => chosen[u] <= f[u]
     /\ (Agree(f, chosen, depth) /\ depth < problem.units) => next <= f[depth + 1]

\* The verdicts are given on the states that justify them.
VerdictInv ==
  /\ status = "success" => depth = problem.units
  /\ status = "conflict" => Assignments(problem) = {}
  /\ status \notin {"searching", "success"} => depth = 0

SearchInv ==
  /\ SearchTypeInv
  /\ PathInv
  /\ status \in {"searching", "success"} => NonePassed
  /\ VerdictInv

LEMMA FeasibleFacts ==
  ASSUME NEW p \in Problems, NEW f \in Assignments(p), NEW u \in 1..p.units
  PROVE  /\ f[u] \in Nat
         /\ f[u] >= 1
         /\ f[u] <= p.options[u]
         /\ \A v \in 1..p.units : v < u => <<v, f[v], u, f[u]>> \notin p.clash
BY ProblemsAssumption DEF Assignments, Feasible

\* The search starts with every assignment ahead of it.
LEMMA InitSearchInv == SearchInit => SearchInv
<1> SUFFICES ASSUME SearchInit PROVE SearchInv
  OBVIOUS
<1> USE DEF SearchInit, Undecided
<1>0. problem.units \in Nat /\ problem.most \in Nat
  BY ProblemsAssumption
<1>1. SearchTypeInv
  BY <1>0 DEF SearchTypeInv
<1>2. PathInv
  BY <1>0 DEF PathInv
<1>3. NonePassed
  <2> SUFFICES ASSUME NEW f \in Assignments(problem), 0 < problem.units
               PROVE  1 <= f[1]
    BY <1>0 DEF NonePassed
  <2> QED BY <1>0, FeasibleFacts
<1>4. /\ status \notin {"success", "conflict"}
      /\ depth = 0
  BY ProblemsAssumption
<1> QED BY <1>1, <1>2, <1>3, <1>4 DEF SearchInv, VerdictInv

LEMMA TrySearchInv == SearchInv /\ TryCandidate => SearchInv'
<1> SUFFICES ASSUME SearchInv, TryCandidate PROVE SearchInv'
  OBVIOUS
<1> USE DEF Searching
<1>0. /\ problem \in Problems /\ problem' = problem
      /\ problem.units \in Nat /\ problem.most \in Nat
      /\ problem.options \in [1..problem.units -> 0..problem.most]
      /\ depth \in Nat /\ depth < problem.units /\ depth + 1 \in 1..problem.units
      /\ next \in Nat /\ next >= 1 /\ next <= problem.options[depth + 1]
      /\ status = "searching" /\ status' = "searching"
      /\ chosen \in [1..problem.units -> 0..problem.most]
      /\ visited \in Nat /\ visited' \in Nat
      /\ NonePassed /\ PathInv
  BY ProblemsAssumption DEF SearchInv, SearchTypeInv, TryCandidate
<1>a. problem.options[depth + 1] \in 0..problem.most
  BY <1>0
<1>1. CASE Fits /\ chosen' = [chosen EXCEPT ![depth + 1] = next]
           /\ depth' = depth + 1 /\ next' = 1
  <2>1. SearchTypeInv'
    BY <1>0, <1>a, <1>1 DEF SearchTypeInv
  <2>2. PathInv'
    <3>1. \A u \in 1..problem.units :
            chosen'[u] = IF u = depth + 1 THEN next ELSE chosen[u]
      BY <1>0, <1>1
    <3>2. \A u \in 1..depth' : chosen'[u] >= 1 /\ chosen'[u] <= problem'.options[u]
      BY <1>0, <1>1, <3>1 DEF PathInv
    <3>3. \A u, v \in 1..depth' :
            u < v => <<u, chosen'[u], v, chosen'[v]>> \notin problem'.clash
      <4> SUFFICES ASSUME NEW u \in 1..depth', NEW v \in 1..depth', u < v
                   PROVE  <<u, chosen'[u], v, chosen'[v]>> \notin problem.clash
        BY <1>0
      <4>1. u \in 1..depth /\ chosen'[u] = chosen[u]
        BY <1>0, <1>1, <3>1
      <4>2. CASE v = depth + 1
        BY <1>0, <1>1, <3>1, <4>1, <4>2 DEF Fits
      <4>3. CASE v # depth + 1
        BY <1>0, <1>1, <3>1, <4>1, <4>3 DEF PathInv
      <4> QED BY <4>2, <4>3
    <3>4. \A u \in depth'+1..problem'.units : chosen'[u] = 0
      BY <1>0, <1>1, <3>1 DEF PathInv
    <3> QED BY <3>2, <3>3, <3>4 DEF PathInv
  <2>3. NonePassed'
    <3> SUFFICES ASSUME NEW f \in Assignments(problem)
                 PROVE  /\ \A u \in 1..depth' : Agree(f, chosen', u - 1) => chosen'[u] <= f[u]
                        /\ (Agree(f, chosen', depth') /\ depth' < problem.units)
                             => next' <= f[depth' + 1]
      BY <1>0 DEF NonePassed
    <3>1. ASSUME NEW u \in 1..depth', Agree(f, chosen', u - 1)
          PROVE  chosen'[u] <= f[u]
      <4>1. Agree(f, chosen, u - 1)
        BY <1>0, <1>1, <3>1 DEF Agree
      <4>2. CASE u = depth + 1
        BY <1>0, <1>1, <4>1, <4>2 DEF NonePassed
      <4>3. CASE u # depth + 1
        BY <1>0, <1>1, <4>1, <4>3 DEF NonePassed
      <4> QED BY <4>2, <4>3
    <3>2. ASSUME depth' < problem.units
          PROVE  next' <= f[depth' + 1]
      BY <1>0, <1>1, <3>2, FeasibleFacts
    <3> QED BY <3>1, <3>2
  <2> QED BY <1>0, <2>1, <2>2, <2>3 DEF SearchInv, VerdictInv
<1>2. CASE ~Fits /\ next' = next + 1 /\ UNCHANGED <<chosen, depth>>
  <2>1. SearchTypeInv'
    BY <1>0, <1>2 DEF SearchTypeInv
  <2>2. PathInv'
    BY <1>0, <1>2 DEF PathInv
  <2>3. NonePassed'
    <3> SUFFICES ASSUME NEW f \in Assignments(problem), Agree(f, chosen, depth)
                 PROVE  next + 1 <= f[depth + 1]
      BY <1>0, <1>2 DEF NonePassed, Agree
    <3>1. next <= f[depth + 1] /\ f[depth + 1] \in Nat
      BY <1>0, FeasibleFacts DEF NonePassed
    <3>2. PICK u \in 1..depth : <<u, chosen[u], depth + 1, next>> \in problem.clash
      BY <1>2 DEF Fits
    <3>3. <<u, f[u], depth + 1, f[depth + 1]>> \notin problem.clash
      BY <1>0, FeasibleFacts
    <3>4. f[u] = chosen[u]
      BY DEF Agree
    <3>5. f[depth + 1] # next
      BY <3>2, <3>3, <3>4
    <3> QED BY <1>0, <3>1, <3>5
  <2> QED BY <1>0, <1>2, <2>1, <2>2, <2>3 DEF SearchInv, VerdictInv
<1> QED BY <1>1, <1>2 DEF TryCandidate

LEMMA BacktrackSearchInv == SearchInv /\ Backtrack => SearchInv'
<1> SUFFICES ASSUME SearchInv, Backtrack PROVE SearchInv'
  OBVIOUS
<1> USE DEF Searching
<1>0. /\ problem \in Problems /\ problem' = problem
      /\ problem.units \in Nat /\ problem.most \in Nat
      /\ depth \in Nat /\ depth > 0 /\ depth < problem.units /\ depth' = depth - 1
      /\ next \in Nat /\ next > problem.options[depth + 1]
      /\ problem.options[depth + 1] \in Nat
      /\ next' = chosen[depth] + 1
      /\ chosen' = [chosen EXCEPT ![depth] = 0]
      /\ status = "searching" /\ status' = "searching"
      /\ chosen \in [1..problem.units -> 0..problem.most]
      /\ chosen[depth] \in Nat
      /\ visited \in Nat /\ visited' = visited
      /\ NonePassed /\ PathInv
  BY ProblemsAssumption DEF SearchInv, SearchTypeInv, Backtrack
<1>1. SearchTypeInv'
  BY <1>0 DEF SearchTypeInv
<1>2. PathInv'
  BY <1>0 DEF PathInv
<1>3. NonePassed'
  <2> SUFFICES ASSUME NEW f \in Assignments(problem)
               PROVE  /\ \A u \in 1..depth' : Agree(f, chosen', u - 1) => chosen'[u] <= f[u]
                      /\ (Agree(f, chosen', depth') /\ depth' < problem.units)
                           => next' <= f[depth' + 1]
    BY <1>0 DEF NonePassed
  <2>1. ASSUME NEW u \in 1..depth', Agree(f, chosen', u - 1)
        PROVE  chosen'[u] <= f[u]
    <3>1. u \in 1..depth /\ chosen'[u] = chosen[u]
      BY <1>0
    <3>2. Agree(f, chosen, u - 1)
      BY <1>0, <2>1 DEF Agree
    <3> QED BY <1>0, <3>1, <3>2 DEF NonePassed
  <2>2. ASSUME Agree(f, chosen', depth')
        PROVE  chosen[depth] + 1 <= f[depth]
    <3>1. Agree(f, chosen, depth - 1)
      BY <1>0, <2>2 DEF Agree
    <3>2. chosen[depth] <= f[depth] /\ f[depth] \in Nat
      BY <1>0, <3>1, FeasibleFacts DEF NonePassed
    <3>3. CASE f[depth] = chosen[depth]
      <4>1. Agree(f, chosen, depth)
        BY <1>0, <3>1, <3>3 DEF Agree
      <4>2. next <= f[depth + 1] /\ f[depth + 1] <= problem.options[depth + 1]
            /\ f[depth + 1] \in Nat
        BY <1>0, <4>1, FeasibleFacts DEF NonePassed
      <4> QED BY <1>0, <4>2
    <3> QED BY <1>0, <3>2, <3>3
  <2>3. depth' + 1 = depth
    BY <1>0
  <2> QED BY <1>0, <2>1, <2>2, <2>3
<1> QED BY <1>0, <1>1, <1>2, <1>3 DEF SearchInv, VerdictInv

LEMMA VerdictSearchInv ==
  SearchInv /\ (Exhaust \/ Conflict \/ Finish) => SearchInv'
<1> SUFFICES ASSUME SearchInv PROVE (Exhaust \/ Conflict \/ Finish) => SearchInv'
  OBVIOUS
<1>0. problem.units \in Nat /\ problem.most \in Nat
      /\ problem.options \in [1..problem.units -> 0..problem.most]
  BY ProblemsAssumption DEF SearchInv, SearchTypeInv
<1>1. CASE Exhaust
  BY <1>0, <1>1 DEF Exhaust, SearchInv, SearchTypeInv, PathInv, VerdictInv, Undecided
<1>2. CASE Conflict
  <2>1. /\ UNCHANGED <<problem, depth, chosen, next, visited>>
        /\ status' = "conflict" /\ status = "searching" /\ depth = 0
        /\ 0 < problem.units /\ next > problem.options[1] /\ next \in Nat
    BY <1>2 DEF Conflict, Searching, SearchInv, SearchTypeInv
  <2>2. ASSUME NEW f \in Assignments(problem)
        PROVE  FALSE
    <3>1. next <= f[1]
      BY <1>0, <2>1 DEF SearchInv, NonePassed, Agree
    <3>2. f[1] <= problem.options[1] /\ f[1] \in Nat
      BY <1>0, <2>1, FeasibleFacts DEF SearchInv, SearchTypeInv
    <3> QED BY <1>0, <2>1, <3>1, <3>2
  <2>3. Assignments(problem)' = {}
    BY <2>1, <2>2 DEF Assignments, Feasible
  <2> QED BY <2>1, <2>3 DEF SearchInv, SearchTypeInv, PathInv, VerdictInv
<1>3. CASE Finish
  <2>1. /\ UNCHANGED <<problem, depth, chosen, next, visited>>
        /\ status' = "success" /\ status = "searching" /\ depth = problem.units
    BY <1>3 DEF Finish
  <2>2. SearchTypeInv' /\ PathInv'
    BY <2>1 DEF SearchInv, SearchTypeInv, PathInv
  <2>3. VerdictInv'
    BY <2>1 DEF VerdictInv
  <2>4. NonePassed'
    <3>1. NonePassed
      BY <2>1 DEF SearchInv
    <3> QED BY <2>1, <3>1 DEF NonePassed, Agree
  <2>5. SearchInv'
    BY <2>2, <2>3, <2>4 DEF SearchInv
  <2> QED BY <2>5
<1> QED BY <1>1, <1>2, <1>3

\* Every reachable state of the search justifies what it has passed over: the
\* invariant the answer rests on.
THEOREM SearchInvariant == SearchSpec => []SearchInv
<1>1. SearchInit => SearchInv
  BY InitSearchInv
<1>2. SearchInv /\ [SearchNext]_searchvars => SearchInv'
  <2> SUFFICES ASSUME SearchInv, [SearchNext]_searchvars PROVE SearchInv'
    OBVIOUS
  <2>1. CASE SearchNext
    BY <2>1, TrySearchInv, BacktrackSearchInv, VerdictSearchInv DEF SearchNext
  <2>2. CASE UNCHANGED searchvars
    BY <2>2 DEF searchvars, SearchInv, SearchTypeInv, PathInv, NonePassed, VerdictInv,
         Agree, Assignments, Feasible
  <2> QED BY <2>1, <2>2
<1> QED BY <1>1, <1>2, PTL DEF SearchSpec

\* The search answers as the brute force of oracle_checks.cpp does, for every
\* set of problems: the least feasible assignment, a conflict only when there
\* is none, and no partial assignment after a failure.
THEOREM SearchOracleAgrees == SearchSpec => []OracleAgrees
<1>1. SearchInv => OracleAgrees
  <2> SUFFICES ASSUME SearchInv PROVE OracleAgrees
    OBVIOUS
  <2>0. problem.units \in Nat /\ problem.most \in Nat
    BY ProblemsAssumption DEF SearchInv, SearchTypeInv
  <2>1. ASSUME status = "success"
        PROVE  Feasible(problem, chosen) /\ Least(problem, chosen)
    BY <2>0, <2>1 DEF SearchInv, PathInv, NonePassed, VerdictInv, Feasible, Least
  <2>2. ASSUME status \notin {"searching", "success"}
        PROVE  chosen = Undecided(problem)
    <3>1. chosen \in [1..problem.units -> 0..problem.most]
          /\ \A u \in 1..problem.units : chosen[u] = 0
      BY <2>0, <2>2 DEF SearchInv, SearchTypeInv, PathInv, VerdictInv
    <3> QED BY <3>1 DEF Undecided
  <2> QED BY <2>1, <2>2 DEF OracleAgrees, SearchInv, VerdictInv
<1> QED BY <1>1, SearchInvariant, PTL

----------------------------------------------------------------------------
\* The comparison of ratios

LEMMA Quotient ==
  ASSUME NEW n \in Nat, NEW d \in Nat \ {0}
  PROVE  /\ n \div d \in Nat
         /\ n % d \in Nat
         /\ (n % d) < d
         /\ n = d * (n \div d) + (n % d)
BY SMT

LEMMA Scaled ==
  ASSUME NEW x \in Int, NEW y \in Int, NEW d \in Nat \ {0}
  PROVE  /\ x <= y <=> x * d <= y * d
         /\ x < y <=> x * d < y * d
BY SMT

\* One round of the comparison: n = b * w + x over b against d * v + y over d.
LEMMA OneRound ==
  ASSUME NEW b \in Nat \ {0}, NEW w \in Nat, NEW x \in Nat, x < b,
         NEW d \in Nat \ {0}, NEW v \in Nat, NEW y \in Nat, y < d
  PROVE  (b * w + x) * d <= (d * v + y) * b
         <=> \/ w < v
             \/ w = v /\ (x = 0 \/ (y # 0 /\ d * x <= b * y))
<1> DEFINE m == b * d
<1>1. m \in Nat \ {0}
  BY SMT
<1>2. (b * w + x) * d = m * w + x * d /\ (d * v + y) * b = m * v + y * b
  BY SMT
<1>3. x * d < m /\ y * b < m /\ 0 <= x * d /\ 0 <= y * b
  BY Scaled, SMT
<1>4. CASE w < v
  <2>1. (w + 1) * m <= v * m
    BY <1>4, <1>1, Scaled
  <2>2. m * w + m <= m * v
    BY <2>1, <1>1, SMT
  <2> HIDE DEF m
  <2> QED BY <1>1, <1>2, <1>3, <1>4, <2>2
<1>5. CASE v < w
  <2>1. (v + 1) * m <= w * m
    BY <1>5, <1>1, Scaled
  <2>2. m * v + m <= m * w
    BY <2>1, <1>1, SMT
  <2> HIDE DEF m
  <2> QED BY <1>1, <1>2, <1>3, <1>5, <2>2
<1>6. CASE w = v
  <2>1. x # 0 => x * d > 0
    BY Scaled, SMT
  <2>2. x * d = d * x /\ y * b = b * y
    BY SMT
  <2> HIDE DEF m
  <2> QED BY <1>1, <1>2, <1>3, <1>6, <2>1, <2>2
<1> QED BY <1>4, <1>5, <1>6

\* What one round makes of a comparison f, and the comparison of the products.
Round(f) ==
  [r \in Ratios \X Ratios |->
    LET p == r[1]
        q == r[2]
        whole(x) == x[1] \div x[2]
        rest(x) == x[1] % x[2]
    IN  \/ whole(p) < whole(q)
        \/ /\ whole(p) = whole(q)
           /\ \/ rest(p) = 0
              \/ /\ rest(q) # 0
                 /\ f[<< <<q[2], rest(q)>>, <<p[2], rest(p)>> >>]]

Products == [r \in Ratios \X Ratios |-> r[1][1] * r[2][2] <= r[2][1] * r[1][2]]

LEMMA RatioFacts ==
  ASSUME NEW p \in Ratios
  PROVE  p[1] \in Nat /\ p[2] \in Nat \ {0} /\ p = <<p[1], p[2]>>
BY DEF Ratios

LEMMA RoundAt ==
  ASSUME NEW f, NEW p \in Ratios, NEW q \in Ratios
  PROVE  Round(f)[<<p, q>>] =
           (\/ p[1] \div p[2] < q[1] \div q[2]
            \/ /\ p[1] \div p[2] = q[1] \div q[2]
               /\ \/ p[1] % p[2] = 0
                  \/ /\ q[1] % q[2] # 0
                     /\ f[<< <<q[2], q[1] % q[2]>>, <<p[2], p[1] % p[2]>> >>])
BY Zenon DEF Round

\* The comparison of the products is unchanged by a round, so that there is a
\* function that is.
LEMMA ProductsFixed == Products = Round(Products)
<1> SUFFICES ASSUME NEW p \in Ratios, NEW q \in Ratios
             PROVE  Products[<<p, q>>] = Round(Products)[<<p, q>>]
  BY Zenon DEF Products, Round
<1> DEFINE w == p[1] \div p[2]
           x == p[1] % p[2]
           v == q[1] \div q[2]
           y == q[1] % q[2]
           here == Products[<<p, q>>]
           there == Products[<< <<q[2], y>>, <<p[2], x>> >>]
           less == p[1] * q[2] <= q[1] * p[2]
           fewer == q[2] * x <= p[2] * y
<1>1. /\ p[1] \in Nat /\ p[2] \in Nat \ {0} /\ q[1] \in Nat /\ q[2] \in Nat \ {0}
      /\ w \in Nat /\ x \in Nat /\ x < p[2] /\ p[1] = p[2] * w + x
      /\ v \in Nat /\ y \in Nat /\ y < q[2] /\ q[1] = q[2] * v + y
  BY RatioFacts, Quotient
<1>2. Round(Products)[<<p, q>>] =
        (w < v \/ (w = v /\ (x = 0 \/ (y # 0 /\ there))))
  BY RoundAt
<1> HIDE DEF w, x, v, y
<1>3. less <=> (w < v \/ (w = v /\ (x = 0 \/ (y # 0 /\ fewer))))
  <2> DEFINE b == p[2]
             d == q[2]
  <2>1. b \in Nat \ {0} /\ d \in Nat \ {0} /\ x < b /\ y < d
    BY <1>1
  <2>2. p[1] = b * w + x /\ q[1] = d * v + y
    BY <1>1
  <2> HIDE DEF b, d
  <2>3. (b * w + x) * d <= (d * v + y) * b
        <=> \/ w < v
            \/ w = v /\ (x = 0 \/ (y # 0 /\ d * x <= b * y))
    BY <2>1, <1>1, OneRound
  <2> QED BY <2>2, <2>3 DEF b, d
<1>4. here = less
  BY DEF Products
<1>5. x # 0 /\ y # 0 => there = fewer
  <2> SUFFICES ASSUME x # 0, y # 0 PROVE there = fewer
    OBVIOUS
  <2>1. <<q[2], y>> \in Ratios /\ <<p[2], x>> \in Ratios
    BY <1>1 DEF Ratios
  <2> QED BY <2>1 DEF Products
<1>6. less \in BOOLEAN /\ fewer \in BOOLEAN
  OBVIOUS
<1> HIDE DEF here, there, less, fewer
<1>7. here = (w < v \/ (w = v /\ (x = 0 \/ (y # 0 /\ there))))
  BY <1>3, <1>4, <1>5, <1>6
<1> QED BY <1>2, <1>7 DEF here

LEMMA ComparedIsFixed == Compared = Round(Compared)
<1> DEFINE Fixed(f) == f = Round(f)
<1>1. Fixed(Products)
  BY ProductsFixed, Zenon
<1>2. Compared = CHOOSE f : Fixed(f)
  BY Zenon DEF Compared, Round
<1> HIDE DEF Fixed
<1>3. Fixed(Compared)
  BY <1>1, <1>2, Zenon
<1> QED BY <1>3, Zenon DEF Fixed

LEMMA LeastNumber ==
  ASSUME NEW T \in SUBSET Nat, T # {}
  PROVE  \E n \in T : \A m \in T : n <= m
<1>1. PICK n \in T : \A m \in T : <<m, n>> \notin OpToRel(<, Nat)
  BY WFMin, NatLessThanWellFounded, Zenon
<1>2. \A m \in T : ~ (m < n)
  BY <1>1 DEF OpToRel
<1> QED BY <1>2

\* The comparison that avoids every product, round by round, compares the
\* products, for ratios of any size: of the pairs on which the two differ, one
\* with the least denominators would have a successor on which they differ too.
THEOREM RatiosAreCompared ==
  ASSUME NEW p \in Ratios, NEW q \in Ratios
  PROVE  AtMost(p, q) = (p[1] * q[2] <= q[1] * p[2])
<1> DEFINE Size(r) == r[1][2] + r[2][2]
           Wrong == {r \in Ratios \X Ratios : Compared[r] # Products[r]}
           T == {Size(r) : r \in Wrong}
<1>1. SUFFICES ASSUME Wrong # {} PROVE FALSE
  <2>1. Compared[<<p, q>>] = Products[<<p, q>>]
    BY <1>1
  <2> QED BY <2>1 DEF AtMost, Products
<1>2. T \in SUBSET Nat /\ T # {}
  BY <1>1 DEF Ratios
<1>3. PICK least \in T : \A m \in T : least <= m
  BY <1>2, LeastNumber
<1>4. PICK r \in Wrong : \A s \in Wrong : Size(r) <= Size(s)
  BY <1>3
<1>5. PICK a \in Ratios, b \in Ratios : r = <<a, b>>
  BY <1>4
<1> DEFINE x == a[1] % a[2]
           y == b[1] % b[2]
           successor == << <<b[2], y>>, <<a[2], x>> >>
<1>6. /\ a[1] \in Nat /\ a[2] \in Nat \ {0} /\ b[1] \in Nat /\ b[2] \in Nat \ {0}
      /\ x \in Nat /\ x < a[2] /\ y \in Nat /\ y < b[2]
  BY RatioFacts, Quotient
<1>7. x # 0 /\ y # 0 => Compared[successor] = Products[successor]
  <2> SUFFICES ASSUME x # 0, y # 0 PROVE Compared[successor] = Products[successor]
    OBVIOUS
  <2> HIDE DEF x, y
  <2>1. successor \in Ratios \X Ratios
    BY <1>6 DEF Ratios
  <2>2. Size(successor) < Size(r)
    BY <1>5, <1>6
  <2>3. successor \notin Wrong
    BY <2>2, <1>4, <1>6, <1>5
  <2> QED BY <2>1, <2>3
<1>8. Compared[r] = Products[r]
  <2> DEFINE u == a[1] \div a[2]
             v == b[1] \div b[2]
             one == Compared[successor]
             other == Products[successor]
  <2>1. Compared[<<a, b>>] = (u < v \/ (u = v /\ (x = 0 \/ (y # 0 /\ one))))
    <3>1. Round(Compared)[<<a, b>>] = (u < v \/ (u = v /\ (x = 0 \/ (y # 0 /\ one))))
      BY RoundAt
    <3> QED BY <3>1, ComparedIsFixed, Zenon
  <2>2. Products[<<a, b>>] = (u < v \/ (u = v /\ (x = 0 \/ (y # 0 /\ other))))
    <3>1. Round(Products)[<<a, b>>] = (u < v \/ (u = v /\ (x = 0 \/ (y # 0 /\ other))))
      BY RoundAt
    <3> QED BY <3>1, ProductsFixed, Zenon
  <2>3. x # 0 /\ y # 0 => one = other
    BY <1>7
  <2> HIDE DEF u, v, one, other, x, y
  <2> QED BY <1>5, <2>1, <2>2, <2>3
<1> QED BY <1>4, <1>8

\* The comparison is a total preorder.
LEMMA RatioOrder ==
  ASSUME NEW p \in Ratios, NEW q \in Ratios
  PROVE  /\ AtMost(p, p)
         /\ AtMost(p, q) \/ AtMost(q, p)
<1>1. /\ p[1] \in Nat /\ p[2] \in Nat /\ q[1] \in Nat /\ q[2] \in Nat
  BY RatioFacts
<1>2. p[1] * q[2] \in Nat /\ q[1] * p[2] \in Nat /\ p[1] * p[2] \in Nat
  BY <1>1
<1>3. /\ AtMost(p, p) = (p[1] * p[2] <= p[1] * p[2])
      /\ AtMost(p, q) = (p[1] * q[2] <= q[1] * p[2])
      /\ AtMost(q, p) = (q[1] * p[2] <= p[1] * q[2])
  BY RatiosAreCompared
<1>4. /\ p[1] * p[2] <= p[1] * p[2]
      /\ p[1] * q[2] <= q[1] * p[2] \/ q[1] * p[2] <= p[1] * q[2]
  BY <1>2
<1> QED BY <1>3, <1>4, Zenon

LEMMA RatioTransitive ==
  ASSUME NEW p \in Ratios, NEW q \in Ratios, NEW r \in Ratios,
         AtMost(p, q), AtMost(q, r)
  PROVE  AtMost(p, r)
<1> DEFINE a == p[1] b == p[2] c == q[1] d == q[2] e == r[1] f == r[2]
<1>1. /\ a \in Nat /\ b \in Nat \ {0} /\ c \in Nat /\ d \in Nat \ {0}
      /\ e \in Nat /\ f \in Nat \ {0}
  BY RatioFacts
<1>2. a * d <= c * b /\ c * f <= e * d
  BY RatiosAreCompared
<1>3. AtMost(p, r) = (a * f <= e * b)
  BY RatiosAreCompared
<1> HIDE DEF a, b, c, d, e, f
<1>4. (a * d) * f <= (c * b) * f /\ (c * f) * b <= (e * d) * b
  BY <1>1, <1>2, Scaled
<1>5. (a * f) * d <= (e * b) * d
  BY <1>1, <1>4, SMT
<1>6. a * f <= e * b
  BY <1>1, <1>5, Scaled
<1> QED BY <1>3, <1>6

----------------------------------------------------------------------------
\* The options of a request

Lower(i) == Around(Option(i).rate, Option(i).tol)[1]
Upper(i) == Around(Option(i).rate, Option(i).tol)[2]

\* The options that were folded, and those of them that are rates.
Done == Active \ left
DoneRates == {i \in Done : Option(i).kind = "rate"}

\* What Consistent says, of some of the options.
ConsistentOn(S) ==
  /\ \A i \in S : Covers(Option(i).family, declared.target)
  /\ \A i \in S : Option(i).kind = "rate" => ValidWindow(Option(i).rate, Option(i).tol)
  /\ \A i, j \in S : Option(i).kind = "rate" /\ Option(j).kind = "rate" =>
       AtMost(Lower(i), Upper(j))
  /\ \A i, j \in S :
       Option(i).kind # "rate" /\ Option(i).kind = Option(j).kind =>
         Option(i).value = Option(j).value

Values == {"pin", "waveform", "source"}

IsConfig(c) ==
  c = [field \in {"window", "pin", "waveform", "source", "error"} |-> c[field]]

FoldTypeInv ==
  /\ declared \in Declarations
  /\ left \subseteq Active
  /\ IsConfig(config)

\* The window runs from the last of the lower bounds to the first of the upper.
WindowInv ==
  \/ DoneRates = {} /\ config.window = Unset
  \/ \E i, j \in DoneRates :
       /\ config.window = <<Lower(i), Upper(j)>>
       /\ \A k \in DoneRates : AtMost(Lower(k), Lower(i)) /\ AtMost(Upper(j), Upper(k))

\* What the configuration states of a kind is what the folded options state.
ValueInv ==
  \A k \in Values :
    \/ (\A i \in Done : Option(i).kind # k) /\ config[k] = Blank[k]
    \/ \E i \in Done : Option(i).kind = k /\ config[k] = Option(i).value

FoldedInv ==
  /\ FoldTypeInv
  /\ config.error = "none" <=> ConsistentOn(Done)
  /\ config.error = "none" => WindowInv /\ ValueInv

LEMMA OptionFacts ==
  ASSUME declared \in Declarations, NEW i \in Active
  PROVE  IsOption(Option(i), declared.target)
BY OptionsAssumption DEF Active, Option

\* The bounds of a valid rate are ratios, in this order.
LEMMA BoundFacts ==
  ASSUME declared \in Declarations, NEW i \in Active, Option(i).kind = "rate",
         ValidWindow(Option(i).rate, Option(i).tol)
  PROVE  /\ Lower(i) \in Ratios /\ Upper(i) \in Ratios
         /\ AtMost(Lower(i), Upper(i))
<1> DEFINE n == Option(i).rate[1]
           d == Option(i).rate[2]
           t == Option(i).tol[1]
           u == Option(i).tol[2]
<1>1. n \in Nat \ {0} /\ d \in Nat \ {0} /\ t \in Nat /\ u \in Nat \ {0} /\ t <= u
  <2>1. IsOption(Option(i), declared.target)
    BY OptionFacts
  <2> QED BY <2>1 DEF IsOption, ValidWindow
<1>2. Lower(i) = <<n * (u - t), d * u>> /\ Upper(i) = <<n * (u + t), d * u>>
  BY DEF Lower, Upper, Around
<1> HIDE DEF n, d, t, u
<1>3. n * (u - t) \in Nat /\ n * (u + t) \in Nat /\ d * u \in Nat \ {0}
  <2>1. u - t \in Nat /\ u + t \in Nat
    BY <1>1
  <2> DEFINE low == u - t
             high == u + t
  <2> HIDE DEF low, high
  <2>2. n * low \in Nat /\ n * high \in Nat /\ d * u \in Nat \ {0}
    BY <1>1, <2>1, SMT DEF low, high
  <2> QED BY <2>2 DEF low, high
<1>4. Lower(i) \in Ratios /\ Upper(i) \in Ratios
  BY <1>2, <1>3 DEF Ratios
<1>5. n * (u - t) <= n * (u + t)
  BY <1>1, SMT
<1>6. (n * (u - t)) * (d * u) <= (n * (u + t)) * (d * u)
  BY <1>3, <1>5, Scaled
<1>7. AtMost(Lower(i), Upper(i)) = ((n * (u - t)) * (d * u) <= (n * (u + t)) * (d * u))
  BY <1>2, <1>4, RatiosAreCompared
<1> QED BY <1>4, <1>6, <1>7

LEMMA FoldInitInv == FoldInit => FoldedInv
BY DEF FoldInit, FoldedInv, FoldTypeInv, IsConfig, WindowInv, ValueInv, Values, ConsistentOn, Done,
       DoneRates, Blank, Unset

Met(i) == Intersect(config.window, Around(Option(i).rate, Option(i).tol))

\* What one option does to a configuration.
LEMMA AppliedFacts ==
  ASSUME FoldTypeInv, NEW i \in Active
  PROVE  LET o == Option(i)
             made == Applied(config, o, declared.target)
         IN  /\ IsConfig(made)
             /\ config.error # "none" => made.error # "none"
             /\ ~Covers(o.family, declared.target) => made.error # "none"
             /\ Covers(o.family, declared.target) /\ o.kind = "rate" =>
                  /\ ~ValidWindow(o.rate, o.tol) => made.error # "none"
                  /\ ValidWindow(o.rate, o.tol) /\ EmptyWindow(Met(i)) => made.error # "none"
                  /\ ValidWindow(o.rate, o.tol) /\ ~EmptyWindow(Met(i)) =>
                       made = [config EXCEPT !.window = Met(i)]
             /\ Covers(o.family, declared.target) /\ o.kind # "rate" =>
                  /\ o.kind \in Values
                  /\ IF config[o.kind] \in {Blank[o.kind], o.value}
                     THEN made = [config EXCEPT ![o.kind] = o.value]
                     ELSE made.error # "none"
<1> DEFINE o == Option(i)
           made == Applied(config, o, declared.target)
<1>1. IsConfig(config)
  BY DEF FoldTypeInv
<1>2. \A c, e : IsConfig(c) /\ e # "none" =>
        /\ IsConfig(WithError(c, e))
        /\ WithError(c, e).error # "none"
  BY DEF IsConfig, WithError
<1>3. \A w : /\ IsConfig([config EXCEPT !.window = w])
             /\ [config EXCEPT !.window = w].error = config.error
  BY <1>1 DEF IsConfig
<1>4. \A k \in Values : \A v :
             /\ IsConfig([config EXCEPT ![k] = v])
             /\ [config EXCEPT ![k] = v].error = config.error
  BY <1>1 DEF IsConfig, Values
<1>5. CASE ~Covers(o.family, declared.target)
  BY <1>1, <1>2, <1>5 DEF Applied
<1>6. CASE Covers(o.family, declared.target) /\ o.kind = "rate"
  BY <1>1, <1>2, <1>3, <1>6 DEF Applied, Met
<1>7. CASE Covers(o.family, declared.target) /\ o.kind # "rate"
  <2>1. o.kind \in Values
    BY <1>7, OptionFacts DEF IsOption, Values, FoldTypeInv
  <2> QED BY <1>1, <1>2, <1>4, <1>7, <2>1 DEF Applied
<1> QED BY <1>5, <1>6, <1>7

\* An error stays, and so does the contradiction it was given for.
LEMMA ErrorStays ==
  ASSUME FoldedInv, NEW i \in left, Fold(i), config.error # "none"
  PROVE  FoldedInv'
<1> DEFINE o == Option(i)
<1>1. declared' = declared /\ left' = left \ {i} /\ i \in Active
  BY DEF Fold, FoldedInv, FoldTypeInv
<1>2. Active' = Active /\ \A j : Option(j)' = Option(j)
  BY <1>1 DEF Active, Option
<1>3. Done \subseteq Done'
  BY <1>1, <1>2 DEF Done
<1>4. ~ConsistentOn(Done)'
  BY <1>1, <1>2, <1>3 DEF FoldedInv, ConsistentOn, Lower, Upper
<1>5. FoldTypeInv' /\ config'.error # "none"
  BY <1>1, <1>2, AppliedFacts DEF FoldedInv, FoldTypeInv, Fold
<1> QED BY <1>4, <1>5 DEF FoldedInv

\* What stays the same while one more option is folded.
LEMMA OneMore ==
  ASSUME FoldedInv, NEW i \in left, Fold(i)
  PROVE  /\ declared' = declared
         /\ config' = Applied(config, Option(i), declared.target)
         /\ i \in Active /\ i \notin Done
         /\ Active' = Active
         /\ Done' = Done \cup {i}
         /\ \A j : /\ Option(j)' = Option(j)
                   /\ Lower(j)' = Lower(j)
                   /\ Upper(j)' = Upper(j)
         /\ ConsistentOn(Done)' = ConsistentOn(Done \cup {i})
         /\ IsConfig(config')
         /\ FoldTypeInv'
<1>1. declared' = declared /\ left' = left \ {i} /\ i \in Active
  BY DEF Fold, FoldedInv, FoldTypeInv
<1>2. Active' = Active /\ \A j : Option(j)' = Option(j)
  BY <1>1 DEF Active, Option
<1>3. Done' = Done \cup {i} /\ i \notin Done
  BY <1>1, <1>2 DEF Done
<1>4. \A j : Lower(j)' = Lower(j) /\ Upper(j)' = Upper(j)
  BY <1>2 DEF Lower, Upper
<1>5. ConsistentOn(Done)' = ConsistentOn(Done \cup {i})
  BY <1>1, <1>2, <1>3, <1>4 DEF ConsistentOn
<1>6. IsConfig(config') /\ config' = Applied(config, Option(i), declared.target)
  BY <1>1, AppliedFacts DEF FoldedInv, Fold
<1>7. FoldTypeInv'
  BY <1>1, <1>2, <1>6 DEF FoldTypeInv, FoldedInv, IsConfig
<1> QED BY <1>1, <1>2, <1>3, <1>4, <1>5, <1>6, <1>7

\* An option that was not folded into the configuration contradicts it.
LEMMA RefusedStep ==
  ASSUME FoldedInv, NEW i \in left, Fold(i), config'.error # "none",
         ~ConsistentOn(Done \cup {i})
  PROVE  FoldedInv'
BY OneMore, Zenon DEF FoldedInv

\* Where the windows of the folded rates meet with one more.
LEMMA MetBounds ==
  ASSUME FoldedInv, config.error = "none", NEW i \in left,
         Option(i).kind = "rate", ValidWindow(Option(i).rate, Option(i).tol)
  PROVE  LET S == DoneRates \cup {i}
         IN  /\ \A k \in S : Lower(k) \in Ratios /\ Upper(k) \in Ratios
             /\ \E a, b \in S : 
                  /\ Met(i) = <<Lower(a), Upper(b)>>
                  /\ \A k \in S : AtMost(Lower(k), Lower(a)) /\ AtMost(Upper(b), Upper(k))
<1> DEFINE S == DoneRates \cup {i}
<1>1. declared \in Declarations /\ i \in Active
  BY DEF FoldedInv, FoldTypeInv
<1>2. \A k \in S : Lower(k) \in Ratios /\ Upper(k) \in Ratios /\ AtMost(Lower(k), Upper(k))
  <2>1. \A k \in S : /\ k \in Active /\ Option(k).kind = "rate"
                     /\ ValidWindow(Option(k).rate, Option(k).tol)
    BY <1>1 DEF FoldedInv, ConsistentOn, DoneRates, Done
  <2> QED BY <1>1, <2>1, BoundFacts
<1>3. Around(Option(i).rate, Option(i).tol) = <<Lower(i), Upper(i)>>
  BY DEF Around, Lower, Upper
<1>4. CASE DoneRates = {} /\ config.window = Unset
  <2>1. Met(i) = <<Lower(i), Upper(i)>>
    BY <1>3, <1>4 DEF Met, Intersect
  <2>2. S = {i}
    BY <1>4
  <2>3. AtMost(Lower(i), Lower(i)) /\ AtMost(Upper(i), Upper(i))
    BY <1>2, RatioOrder
  <2> QED BY <1>2, <2>1, <2>2, <2>3
<1>5. ASSUME NEW a \in DoneRates, NEW b \in DoneRates,
             config.window = <<Lower(a), Upper(b)>>,
             \A k \in DoneRates : AtMost(Lower(k), Lower(a)) /\ AtMost(Upper(b), Upper(k))
      PROVE  \E l, u \in S :
               /\ Met(i) = <<Lower(l), Upper(u)>>
               /\ \A k \in S : AtMost(Lower(k), Lower(l)) /\ AtMost(Upper(u), Upper(k))
  <2>1. config.window # Unset /\ <<Lower(i), Upper(i)>> # Unset
    BY <1>5 DEF Unset
  <2>2. Met(i) = << IF AtMost(Lower(a), Lower(i)) THEN Lower(i) ELSE Lower(a),
                    IF AtMost(Upper(b), Upper(i)) THEN Upper(b) ELSE Upper(i) >>
    BY <1>3, <1>5, <2>1 DEF Met, Intersect
  <2>3. PICK l \in S : /\ Lower(l) = IF AtMost(Lower(a), Lower(i)) THEN Lower(i) ELSE Lower(a)
                       /\ \A k \in S : AtMost(Lower(k), Lower(l))
    <3>1. CASE AtMost(Lower(a), Lower(i))
      <4>1. \A k \in S : AtMost(Lower(k), Lower(i))
        BY <1>2, <1>5, <3>1, RatioOrder, RatioTransitive
      <4> QED BY <3>1, <4>1
    <3>2. CASE ~AtMost(Lower(a), Lower(i))
      <4>1. \A k \in S : AtMost(Lower(k), Lower(a))
        BY <1>2, <1>5, <3>2, RatioOrder
      <4> QED BY <3>2, <4>1
    <3> QED BY <3>1, <3>2
  <2>4. PICK u \in S : /\ Upper(u) = IF AtMost(Upper(b), Upper(i)) THEN Upper(b) ELSE Upper(i)
                       /\ \A k \in S : AtMost(Upper(u), Upper(k))
    <3>1. CASE AtMost(Upper(b), Upper(i))
      <4>1. \A k \in S : AtMost(Upper(b), Upper(k))
        BY <1>5, <3>1
      <4> QED BY <3>1, <4>1
    <3>2. CASE ~AtMost(Upper(b), Upper(i))
      <4>1. AtMost(Upper(i), Upper(b))
        BY <1>2, <3>2, RatioOrder
      <4>2. \A k \in S : AtMost(Upper(i), Upper(k))
        BY <1>2, <1>5, <4>1, RatioOrder, RatioTransitive
      <4> QED BY <3>2, <4>2
    <3> QED BY <3>1, <3>2
  <2> QED BY <2>2, <2>3, <2>4
<1>6. WindowInv
  BY DEF FoldedInv
<1>7. \E l, u \in S :
         /\ Met(i) = <<Lower(l), Upper(u)>>
         /\ \A k \in S : AtMost(Lower(k), Lower(l)) /\ AtMost(Upper(u), Upper(k))
  BY <1>4, <1>5, <1>6 DEF WindowInv
<1> QED BY <1>2, <1>7

\* A rate is folded: its window meets the others' exactly when each two of the
\* rates have a rate in common.
LEMMA RateStep ==
  ASSUME FoldedInv, config.error = "none", NEW i \in left, Fold(i),
         Covers(Option(i).family, declared.target), Option(i).kind = "rate"
  PROVE  FoldedInv'
<1> DEFINE o == Option(i)
           S == DoneRates \cup {i}
<1>1. ConsistentOn(Done) /\ ValueInv /\ FoldTypeInv /\ i \in Active
  BY DEF FoldedInv, FoldTypeInv
<1>2. CASE ~ValidWindow(o.rate, o.tol)
  <2>1. ~ConsistentOn(Done \cup {i})
    BY <1>2 DEF ConsistentOn
  <2>2. config'.error # "none"
    BY <1>1, <1>2, OneMore, AppliedFacts
  <2> QED BY <2>1, <2>2, RefusedStep
<1>3. CASE ValidWindow(o.rate, o.tol)
  <2>1. PICK a \in S, b \in S :
          /\ Met(i) = <<Lower(a), Upper(b)>>
          /\ \A k \in S : AtMost(Lower(k), Lower(a)) /\ AtMost(Upper(b), Upper(k))
    BY <1>3, MetBounds
  <2>2. \A k \in S : Lower(k) \in Ratios /\ Upper(k) \in Ratios
    BY <1>3, MetBounds
  <2>3. EmptyWindow(Met(i)) <=> ~AtMost(Lower(a), Upper(b))
    BY <2>1 DEF EmptyWindow, Unset
  <2>4. S = {k \in Done \cup {i} : Option(k).kind = "rate"}
    BY DEF DoneRates
  <2>5. CASE ~AtMost(Lower(a), Upper(b))
    <3>1. ~ConsistentOn(Done \cup {i})
      BY <2>4, <2>5 DEF ConsistentOn
    <3>2. config'.error # "none"
      BY <1>1, <1>3, <2>3, <2>5, OneMore, AppliedFacts
    <3> QED BY <3>1, <3>2, RefusedStep
  <2>6. CASE AtMost(Lower(a), Upper(b))
    <3>1. config' = [config EXCEPT !.window = Met(i)]
      BY <1>1, <1>3, <2>3, <2>6, OneMore, AppliedFacts
    <3>2. \A k, l \in S : AtMost(Lower(k), Upper(l))
      <4> TAKE k \in S, l \in S
      <4>1. AtMost(Lower(k), Lower(a)) /\ AtMost(Upper(b), Upper(l))
        BY <2>1
      <4>2. AtMost(Lower(k), Upper(b))
        BY <2>2, <2>6, <4>1, RatioTransitive
      <4> QED BY <2>2, <4>1, <4>2, RatioTransitive
    <3>3. ConsistentOn(Done \cup {i})
      BY <1>1, <1>3, <2>4, <3>2 DEF ConsistentOn
    <3>4. config'.error = "none" /\ config'.window = Met(i)
          /\ \A k \in Values : config'[k] = config[k]
      BY <1>1, <3>1 DEF FoldTypeInv, IsConfig, Values
    <3>5. DoneRates' = S
      <4>1. Done' = Done \cup {i} /\ \A k : Option(k)' = Option(k)
        BY OneMore
      <4>2. DoneRates' = {k \in Done \cup {i} : Option(k).kind = "rate"}
        BY <4>1 DEF DoneRates
      <4> QED BY <2>4, <4>2
    <3>6. WindowInv'
      <4>1. \A k : Lower(k)' = Lower(k) /\ Upper(k)' = Upper(k)
        BY OneMore
      <4>2. /\ config'.window = <<Lower(a)', Upper(b)'>>
            /\ \A k \in S : AtMost(Lower(k)', Lower(a)') /\ AtMost(Upper(b)', Upper(k)')
        BY <2>1, <3>4, <4>1
      <4> QED BY <3>5, <4>2 DEF WindowInv
    <3>7. ValueInv'
      <4> SUFFICES ASSUME NEW k \in Values
                   PROVE  \/ (\A j \in Done' : Option(j)'.kind # k) /\ config'[k] = Blank[k]
                          \/ \E j \in Done' : Option(j)'.kind = k /\ config'[k] = Option(j)'.value
        BY DEF ValueInv
      <4>1. Done' = Done \cup {i} /\ (\A j : Option(j)' = Option(j)) /\ k # "rate"
        BY OneMore DEF Values
      <4> QED BY <1>1, <3>4, <4>1 DEF ValueInv
    <3> QED BY <3>3, <3>4, <3>6, <3>7, OneMore, Zenon DEF FoldedInv
  <2> QED BY <2>5, <2>6
<1> QED BY <1>2, <1>3

\* Another option is folded: its value is the one stated before, if any was.
LEMMA ValueStep ==
  ASSUME FoldedInv, config.error = "none", NEW i \in left, Fold(i),
         Covers(Option(i).family, declared.target), Option(i).kind # "rate"
  PROVE  FoldedInv'
<1> DEFINE o == Option(i)
           kind == o.kind
<1>1. ConsistentOn(Done) /\ ValueInv /\ WindowInv /\ FoldTypeInv /\ i \in Active
  BY DEF FoldedInv, FoldTypeInv
<1>2. kind \in Values /\ o.value # Blank[kind]
  BY <1>1, OptionFacts DEF FoldTypeInv, IsOption, Values
<1>3. \A j \in Done : Option(j).kind = kind => config[kind] = Option(j).value
  BY <1>1, <1>2 DEF ValueInv, ConsistentOn, Values
<1>4. CASE config[kind] \notin {Blank[kind], o.value}
  <2>1. ~ConsistentOn(Done \cup {i})
    <3>1. PICK j \in Done : Option(j).kind = kind /\ config[kind] = Option(j).value
      BY <1>1, <1>2, <1>4 DEF ValueInv
    <3> QED BY <1>4, <3>1 DEF ConsistentOn
  <2>2. config'.error # "none"
    BY <1>1, <1>4, OneMore, AppliedFacts
  <2> QED BY <2>1, <2>2, RefusedStep
<1>5. CASE config[kind] \in {Blank[kind], o.value}
  <2>1. config' = [config EXCEPT ![kind] = o.value]
    BY <1>1, <1>5, OneMore, AppliedFacts
  <2>2. \A j \in Done : Option(j).kind = kind => Option(j).value = o.value
    <3> SUFFICES ASSUME NEW j \in Done, Option(j).kind = kind PROVE Option(j).value = o.value
      OBVIOUS
    <3>1. j \in Active /\ Option(j).value # Blank[kind]
      <4>1. j \in Active
        BY DEF Done
      <4> QED BY <1>1, <1>2, <4>1, OptionFacts DEF FoldTypeInv, IsOption, Values
    <3> QED BY <1>3, <1>5, <3>1
  <2>3. ConsistentOn(Done \cup {i})
    BY <1>1, <2>2 DEF ConsistentOn
  <2>4. /\ config'.error = "none" /\ config'.window = config.window
        /\ config'[kind] = o.value
        /\ \A k \in Values \ {kind} : config'[k] = config[k]
    BY <1>1, <1>2, <2>1 DEF FoldTypeInv, IsConfig, Values
  <2>5. WindowInv'
    <3>1. DoneRates' = DoneRates
      BY OneMore DEF DoneRates
    <3>2. \A k : Lower(k)' = Lower(k) /\ Upper(k)' = Upper(k)
      BY OneMore
    <3>3. \/ DoneRates = {} /\ config'.window = Unset
          \/ \E a, b \in DoneRates :
               /\ config'.window = <<Lower(a)', Upper(b)'>>
               /\ \A k \in DoneRates :
                    AtMost(Lower(k)', Lower(a)') /\ AtMost(Upper(b)', Upper(k)')
      BY <1>1, <2>4, <3>2 DEF WindowInv
    <3> QED BY <3>1, <3>3 DEF WindowInv
  <2>6. ValueInv'
    <3> SUFFICES ASSUME NEW k \in Values
                 PROVE  \/ (\A j \in Done' : Option(j)'.kind # k) /\ config'[k] = Blank[k]
                        \/ \E j \in Done' : Option(j)'.kind = k /\ config'[k] = Option(j)'.value
      BY DEF ValueInv
    <3>1. Done' = Done \cup {i} /\ \A j : Option(j)' = Option(j)
      BY OneMore
    <3>2. CASE k = kind
      BY <2>4, <3>1, <3>2
    <3>3. CASE k # kind
      BY <1>1, <2>4, <3>1, <3>3 DEF ValueInv
    <3> QED BY <3>2, <3>3
  <2> QED BY <2>3, <2>4, <2>5, <2>6, OneMore, Zenon DEF FoldedInv
<1> QED BY <1>4, <1>5

THEOREM FoldInvariant == FoldSpec => []FoldedInv
<1>1. FoldedInv /\ [FoldNext]_foldvars => FoldedInv'
  <2> SUFFICES ASSUME FoldedInv, [FoldNext]_foldvars PROVE FoldedInv'
    OBVIOUS
  <2>1. ASSUME NEW i \in left, Fold(i) PROVE FoldedInv'
    <3>1. CASE config.error # "none"
      BY <2>1, <3>1, ErrorStays
    <3>2. CASE config.error = "none" /\ ~Covers(Option(i).family, declared.target)
      <4>1. ~ConsistentOn(Done \cup {i})
        BY <3>2 DEF ConsistentOn
      <4>2. config'.error # "none"
        BY <2>1, <3>2, OneMore, AppliedFacts DEF FoldedInv
      <4> QED BY <2>1, <4>1, <4>2, RefusedStep
    <3>3. CASE config.error = "none" /\ Covers(Option(i).family, declared.target)
      BY <2>1, <3>3, RateStep, ValueStep
    <3> QED BY <3>1, <3>2, <3>3
  <2>2. CASE UNCHANGED foldvars
    BY <2>2 DEF foldvars, FoldedInv, FoldTypeInv, WindowInv, ValueInv, ConsistentOn, Done,
         DoneRates, Active, Option, Lower, Upper
  <2> QED BY <2>1, <2>2 DEF FoldNext
<1> QED BY <1>1, FoldInitInv, PTL DEF FoldSpec

\* A rate is between the bounds of a declared rate exactly when its relative
\* error is within the tolerance.
LEMMA BetweenIsWithin ==
  ASSUME declared \in Declarations, NEW i \in Active, Option(i).kind = "rate",
         ValidWindow(Option(i).rate, Option(i).tol),
         NEW r \in Rates
  PROVE  AtMost(Lower(i), r) /\ AtMost(r, Upper(i))
           <=> Within(r, Option(i).rate, Option(i).tol)
<1> DEFINE n == Option(i).rate[1]
           d == Option(i).rate[2]
           t == Option(i).tol[1]
           u == Option(i).tol[2]
           a == r[1]
           b == r[2]
<1>1. /\ n \in Nat \ {0} /\ d \in Nat \ {0} /\ t \in Nat /\ u \in Nat \ {0} /\ t <= u
      /\ a \in Nat \ {0} /\ b \in Nat \ {0} /\ r \in Ratios
  <2>1. IsOption(Option(i), declared.target)
    BY OptionFacts
  <2>2. r \in (Nat \ {0}) \X (Nat \ {0})
    BY OptionsAssumption
  <2> QED BY <2>1, <2>2 DEF IsOption, ValidWindow, Ratios
<1>2. Lower(i) = <<n * (u - t), d * u>> /\ Upper(i) = <<n * (u + t), d * u>>
      /\ Option(i).tol = <<t, u>>
  <2>1. IsOption(Option(i), declared.target)
    BY OptionFacts
  <2> QED BY <2>1 DEF Lower, Upper, Around, IsOption
<1> DEFINE x == a * d
           y == n * b
           error == IF x - y < 0 THEN -(x - y) ELSE x - y
<1>3. Within(r, Option(i).rate, Option(i).tol) = AtMost(<<error, y>>, <<t, u>>)
  BY <1>2 DEF Within
<1> HIDE DEF n, d, t, u, a, b
<1>4. x \in Nat \ {0} /\ y \in Nat \ {0}
  BY <1>1, SMT
<1>5. error \in Nat
  BY <1>4
<1>6. Lower(i) \in Ratios /\ Upper(i) \in Ratios
  BY BoundFacts
<1>7. AtMost(Lower(i), r) = ((n * (u - t)) * b <= a * (d * u))
  BY <1>1, <1>2, <1>6, RatiosAreCompared DEF a, b
<1>8. AtMost(r, Upper(i)) = (a * (d * u) <= (n * (u + t)) * b)
  BY <1>1, <1>2, <1>6, RatiosAreCompared DEF a, b
<1>9. AtMost(<<error, y>>, <<t, u>>) = (error * u <= t * y)
  <2>1. <<error, y>> \in Ratios /\ <<t, u>> \in Ratios
    BY <1>1, <1>4, <1>5 DEF Ratios
  <2> HIDE DEF error, y
  <2> QED BY <2>1, RatiosAreCompared
<1>10. /\ (n * (u - t)) * b = y * u - y * t
       /\ (n * (u + t)) * b = y * u + y * t
       /\ a * (d * u) = x * u
       /\ t * y = y * t
  BY <1>1, SMT
<1>11. error * u = IF x - y < 0 THEN y * u - x * u ELSE x * u - y * u
  BY <1>1, <1>4, SMT
<1> HIDE DEF x, y, error
<1>12. (y * u - y * t <= x * u /\ x * u <= y * u + y * t) <=> error * u <= y * t
  <2>1. x * u \in Int /\ y * u \in Int /\ y * t \in Nat
    BY <1>1, <1>4, SMT
  <2>2. (x - y < 0) <=> (x * u < y * u)
    BY <1>1, <1>4, Scaled
  <2> QED BY <1>11, <2>1, <2>2
<1> QED BY <1>3, <1>7, <1>8, <1>9, <1>10, <1>12

\* Whatever the order in which the options of a declaration are folded, the
\* request is in error exactly when they contradict each other or the target,
\* and a rate is in the window exactly when it is within the tolerance of each
\* rate that was declared (frequency_checks.cpp, main): for every declaration.
THEOREM OrderDoesNotMatter == FoldSpec => []OrderIsImmaterial
<1>1. FoldedInv => OrderIsImmaterial
  <2> SUFFICES ASSUME FoldedInv, left = {} PROVE
        /\ (config.error = "none") <=> Consistent
        /\ Consistent /\ RateOptions # {} =>
             \A r \in Rates : InWindow(config.window, r) <=>
               \A i \in RateOptions : Within(r, Option(i).rate, Option(i).tol)
    BY DEF OrderIsImmaterial
  <2>1. Done = Active /\ DoneRates = RateOptions
    BY DEF Done, DoneRates, RateOptions
  <2>2. Consistent <=> ConsistentOn(Done)
    BY <2>1 DEF Consistent, ConsistentOn, RateOptions, Lower, Upper
  <2>3. (config.error = "none") <=> Consistent
    BY <2>2 DEF FoldedInv
  <2>4. ASSUME Consistent, RateOptions # {}, NEW r \in Rates
        PROVE  InWindow(config.window, r) <=>
                 \A i \in RateOptions : Within(r, Option(i).rate, Option(i).tol)
    <3>1. PICK a \in RateOptions, b \in RateOptions :
            /\ config.window = <<Lower(a), Upper(b)>>
            /\ \A k \in RateOptions : AtMost(Lower(k), Lower(a)) /\ AtMost(Upper(b), Upper(k))
      BY <2>1, <2>3, <2>4 DEF FoldedInv, WindowInv
    <3>2. /\ declared \in Declarations
          /\ \A k \in RateOptions : /\ k \in Active /\ Option(k).kind = "rate"
                                    /\ ValidWindow(Option(k).rate, Option(k).tol)
      BY <2>4 DEF FoldedInv, FoldTypeInv, Consistent, RateOptions
    <3>3. \A k \in RateOptions : Lower(k) \in Ratios /\ Upper(k) \in Ratios
      BY <3>2, BoundFacts
    <3>4. r \in Ratios /\ r[1] > 0
      BY OptionsAssumption DEF Ratios
    <3>5. InWindow(config.window, r) <=> AtMost(Lower(a), r) /\ AtMost(r, Upper(b))
      BY <3>1, <3>4 DEF InWindow, Unset
    <3>6. AtMost(Lower(a), r) <=> \A k \in RateOptions : AtMost(Lower(k), r)
      BY <3>1, <3>3, <3>4, RatioTransitive
    <3>7. AtMost(r, Upper(b)) <=> \A k \in RateOptions : AtMost(r, Upper(k))
      BY <3>1, <3>3, <3>4, RatioTransitive
    <3>8. \A k \in RateOptions : AtMost(Lower(k), r) /\ AtMost(r, Upper(k))
                                 <=> Within(r, Option(k).rate, Option(k).tol)
      BY <3>2, BetweenIsWithin
    <3> QED BY <3>5, <3>6, <3>7, <3>8
  <2> QED BY <2>3, <2>4
<1> QED BY <1>1, FoldInvariant, PTL

----------------------------------------------------------------------------
\* The programs of the boards

\* The code left is the program from its n-th operation on, behind the
\* operations a dispatch, a test or a loop put ahead of it.
Ahead(n) == Len(code) - (Len(program.code) + 1 - n)

CodeInv(n) ==
  /\ n \in 1..Len(program.code) + 1
  /\ Ahead(n) \in Nat
  /\ \A i \in DOMAIN code : i > Ahead(n) => code[i] = program.code[n + i - Ahead(n) - 1]

\* A report is followed by the clearing of the overrun it reports, and nothing
\* is dropped unreported in between.
AheadInv(n) ==
  \A i \in 1..Ahead(n) :
    \/ code[i].op \in {"dispatch", "overrun"}
    \/ code[i].op = "callback" /\ i = 1
    \/ code[i].op = "report" /\ i = 1 /\ Ahead(n) > 1 /\ code[2].op = "clear" /\ overrun
    \/ code[i].op = "clear" /\ i = 1 /\ overrun /\ ~silent
    \/ code[i].op = "clear" /\ i = 2 /\ code[1].op = "report"

\* The queue is ready once it was prepared, and empty before.
QueueInv(n) ==
  /\ queue = "ready" <=> \E k \in 1..n-1 : program.code[k].op = "prepare"
  /\ queue = "stopped" => records = <<>> /\ ~silent

\* What is up was raised, by an operation before the n-th if it is an interrupt.
FlagsInv(n) ==
  \A s \in Sources :
    /\ <<"irq", s>> \in flags => \E k \in 1..n-1 : MayRaise(program.code[k], "irq", s)
    /\ \A flag \in {"clock", "irq", "installed"} :
         <<flag, s>> \in flags => Raisable(program, flag, s)

RunningInv == \E n \in Nat : CodeInv(n) /\ AheadInv(n) /\ QueueInv(n) /\ FlagsInv(n)

\* The clean-up has made its operations before the n-th and is left with the
\* others; what they have taken back stays so, as no interrupt is enabled.
CleanUpInv(n) ==
  /\ n \in 1..Len(program.failure) + 1
  /\ Len(code) = Len(program.failure) + 1 - n
  /\ \A i \in DOMAIN code : code[i] = program.failure[n + i - 1]
  /\ \A k \in 1..n-1 : program.failure[k].op # "loop"
  /\ \A s \in Sources, flag \in {"clock", "irq", "installed"} : <<flag, s>> \in flags =>
       /\ Raisable(program, flag, s)
       /\ \A k \in 1..n-1 : program.failure[k] # Down(flag, s)
  /\ \A s \in pending, k \in 1..n-1 :
       program.failure[k] = Forget(s) =>
         /\ Raisable(program, "clock", s)
         /\ \A j \in 1..k-1 : program.failure[j] # Down("clock", s)
  /\ records # <<>> => /\ Has(program.code, "prepare")
                       /\ \A k \in 1..n-1 : program.failure[k].op # "stop"

RejectedInv ==
  /\ Has(program.code, "try")
  /\ \A s \in Sources : <<"irq", s>> \notin flags
  /\ \E n \in Nat : CleanUpInv(n)

EventsTypeInv ==
  /\ program \in Programs
  /\ IsSequence(code)
  /\ IsSequence(records)
  /\ pending \subseteq Sources
  /\ queue \in {"stopped", "ready"}
  /\ overrun \in BOOLEAN /\ silent \in BOOLEAN

EventsInv ==
  /\ EventsTypeInv
  /\ early = FALSE
  /\ silent => overrun
  /\ outcome # "rejected" => RunningInv
  /\ outcome = "rejected" => RejectedInv

LEMMA SequenceFacts ==
  ASSUME NEW c, IsSequence(c)
  PROVE  /\ Len(c) \in Nat
         /\ DOMAIN c = 1..Len(c)
         /\ c = <<>> <=> Len(c) = 0
         /\ c # <<>> => /\ Head(c) = c[1]
                        /\ IsSequence(Tail(c))
                        /\ Len(Tail(c)) = Len(c) - 1
                        /\ \A i \in 1..Len(c)-1 : Tail(c)[i] = c[i + 1]
<1> DEFINE S == {c[i] : i \in DOMAIN c}
<1>1. c \in Seq(S)
  BY DEF IsSequence
<1>2. /\ Len(c) \in Nat /\ DOMAIN c = 1..Len(c)
      /\ c = <<>> <=> Len(c) = 0
  BY <1>1, EmptySeq
<1>3. ASSUME c # <<>> PROVE /\ Head(c) = c[1]
                           /\ Tail(c) \in Seq(S)
                           /\ Len(Tail(c)) = Len(c) - 1
                           /\ \A i \in 1..Len(c)-1 : Tail(c)[i] = c[i + 1]
  <2> HIDE DEF S
  <2> QED BY <1>1, <1>3, HeadTailProperties
<1>4. ASSUME c # <<>> PROVE IsSequence(Tail(c))
  <2> DEFINE T == Tail(c)
  <2>1. T \in Seq(S) BY <1>3, <1>4
  <2> HIDE DEF T, S
  <2>2. /\ Len(T) \in Nat /\ T = [i \in 1..Len(T) |-> T[i]] /\ DOMAIN T = 1..Len(T)
    BY <2>1
  <2>3. T \in Seq({T[i] : i \in DOMAIN T})
    BY <2>1, <2>2
  <2> QED BY <2>3 DEF IsSequence, T
<1> QED BY <1>2, <1>3, <1>4

LEMMA SeqIsSequence ==
  ASSUME NEW S, NEW c \in Seq(S)
  PROVE  IsSequence(c)
<1>1. Len(c) \in Nat /\ DOMAIN c = 1..Len(c)
  OBVIOUS
<1>2. c \in Seq({c[i] : i \in DOMAIN c})
  BY <1>1
<1> QED BY <1>2 DEF IsSequence

LEMMA ConcatFacts ==
  ASSUME NEW c, NEW d, IsSequence(c), IsSequence(d)
  PROVE  /\ IsSequence(c \o d)
         /\ Len(c \o d) = Len(c) + Len(d)
         /\ \A i \in 1..Len(c) : (c \o d)[i] = c[i]
         /\ \A i \in 1..Len(c) + Len(d) : i > Len(c) => (c \o d)[i] = d[i - Len(c)]
<1> DEFINE S == {c[i] : i \in DOMAIN c} \cup {d[i] : i \in DOMAIN d}
<1>1. c \in Seq(S) /\ d \in Seq(S)
  <2>1. Len(c) \in Nat /\ DOMAIN c = 1..Len(c) /\ Len(d) \in Nat /\ DOMAIN d = 1..Len(d)
    BY SequenceFacts
  <2>2. c \in Seq({c[i] : i \in DOMAIN c}) /\ d \in Seq({d[i] : i \in DOMAIN d})
    BY DEF IsSequence
  <2> QED BY <2>1, <2>2
<1> HIDE DEF S
<1>2. /\ c \o d \in Seq(S)
      /\ Len(c \o d) = Len(c) + Len(d)
      /\ \A i \in 1..Len(c)+Len(d) : (c \o d)[i] = IF i <= Len(c) THEN c[i] ELSE d[i - Len(c)]
  BY <1>1, ConcatProperties
<1>3. Len(c) \in Nat /\ Len(d) \in Nat
  BY SequenceFacts
<1>4. IsSequence(c \o d)
  BY <1>2, SeqIsSequence
<1> QED BY <1>2, <1>3, <1>4

\* The code loses its first t operations and gets b others ahead of the rest:
\* what is left of the program is the same, or its n-th operation is done.
LEMMA CodeMoves ==
  ASSUME EventsTypeInv, program' = program,
         NEW n \in Nat, CodeInv(n),
         NEW t \in {0, 1}, t <= Len(code),
         NEW b \in Nat,
         IsSequence(code'), Len(code') = Len(code) - t + b,
         \A i \in 1..Len(code') : i > b => code'[i] = code[i - b + t]
  PROVE  \/ Ahead(n) >= t /\ CodeInv(n)' /\ Ahead(n)' = Ahead(n) - t + b
         \/ /\ Ahead(n) = 0 /\ t = 1 /\ n <= Len(program.code)
            /\ code[1] = program.code[n]
            /\ CodeInv(n + 1)' /\ Ahead(n + 1)' = b
<1> DEFINE size == Len(program.code)
<1>1. /\ Len(code) \in Nat /\ DOMAIN code = 1..Len(code)
      /\ Len(code') \in Nat /\ DOMAIN code' = 1..Len(code')
      /\ size \in Nat /\ size' = size
  <2>1. IsSequence(code) /\ IsSequence(program.code)
    BY ProgramsAssumption DEF EventsTypeInv, KeepsOrder
  <2> QED BY <2>1, SequenceFacts
<1>2. /\ n \in 1..size + 1
      /\ Ahead(n) \in Nat
      /\ \A i \in DOMAIN code : i > Ahead(n) => code[i] = program.code[n + i - Ahead(n) - 1]
  BY DEF CodeInv
<1>a. \A k \in Nat : Ahead(k) = Len(code) - (size + 1 - k) /\ Ahead(k)' = Len(code') - (size + 1 - k)
  BY <1>1 DEF Ahead
<1>b. \A k \in Nat :
             /\ k \in 1..size + 1
             /\ Ahead(k)' \in Nat
             /\ \A i \in 1..Len(code') :
                   i > Ahead(k)' => code'[i] = program.code[k + i - Ahead(k)' - 1]
             => CodeInv(k)'
  BY <1>1 DEF CodeInv
<1> HIDE DEF size
<1>c. Len(code) = Ahead(n) + size + 1 - n
  <2>1. Ahead(n) = Len(code) - (size + 1 - n)
    BY <1>a
  <2> QED BY <2>1, <1>1, <1>2
<1>3. CASE Ahead(n) >= t
  <2>1. Ahead(n)' = Ahead(n) - t + b
    <3>1. Ahead(n)' = Len(code') - (size + 1 - n)
      BY <1>a
    <3>2. Len(code') = Len(code) - t + b /\ t \in Nat
      OBVIOUS
    <3>3. size \in Nat /\ Len(code) \in Nat /\ Ahead(n) \in Nat
      BY <1>1, <1>2
    <3> QED BY <3>1, <3>2, <3>3, <1>c, SMTT(30)
  <2>2. ASSUME NEW i \in 1..Len(code'), i > Ahead(n) - t + b
        PROVE  code'[i] = program.code[n + i - (Ahead(n) - t + b) - 1]
    <3>1. i > b /\ i - b + t \in 1..Len(code) /\ i - b + t > Ahead(n)
      BY <1>1, <1>2, <1>3, <2>2
    <3>2. code'[i] = code[i - b + t]
      BY <3>1
    <3>3. code[i - b + t] = program.code[n + (i - b + t) - Ahead(n) - 1]
      BY <1>1, <1>2, <3>1
    <3>4. n + (i - b + t) - Ahead(n) - 1 = n + i - (Ahead(n) - t + b) - 1
      BY <1>2
    <3> QED BY <3>2, <3>3, <3>4
  <2>3. CodeInv(n)'
    BY <1>1, <1>2, <1>3, <1>b, <2>1, <2>2
  <2> QED BY <1>3, <2>1, <2>3
<1>4. CASE ~(Ahead(n) >= t)
  <2>1. Ahead(n) = 0 /\ t = 1 /\ n <= size /\ n + 1 \in 1..size + 1
    BY <1>1, <1>2, <1>4, <1>c
  <2>2. code[1] = program.code[n]
    <3>1. 1 \in DOMAIN code /\ 1 > Ahead(n) /\ n + 1 - Ahead(n) - 1 = n
      BY <1>1, <2>1
    <3> QED BY <1>2, <3>1
  <2>3. Ahead(n + 1)' = b
    <3>1. Ahead(n + 1)' = Len(code') - (size + 1 - (n + 1))
      BY <1>a
    <3> QED BY <1>1, <1>2, <1>c, <2>1, <3>1
  <2>4. ASSUME NEW i \in 1..Len(code'), i > b
        PROVE  code'[i] = program.code[n + 1 + i - b - 1]
    <3>1. i - b + 1 \in DOMAIN code /\ i - b + 1 > Ahead(n)
      BY <1>1, <1>2, <2>1, <2>4
    <3>2. code'[i] = code[i - b + 1]
      BY <2>1, <2>4
    <3>3. code[i - b + 1] = program.code[n + (i - b + 1) - Ahead(n) - 1]
      BY <1>2, <3>1
    <3>4. n + (i - b + 1) - Ahead(n) - 1 = n + 1 + i - b - 1
      BY <1>2, <2>1
    <3> QED BY <3>2, <3>3, <3>4
  <2>5. CodeInv(n + 1)'
    BY <1>b, <2>1, <2>3, <2>4
  <2> QED BY <2>1, <2>2, <2>3, <2>5 DEF size
<1> QED BY <1>3, <1>4

\* A step of the program that takes its first t operations (none if it is a
\* loop) and puts b ahead keeps the invariant of a running program.
LEMMA RunningStep ==
  ASSUME EventsTypeInv, RunningInv, program' = program,
         NEW t \in {0, 1}, NEW b \in Nat, code # <<>>,
         IsSequence(code'), Len(code') = Len(code) - t + b,
         \A i \in 1..Len(code') : i > b => code'[i] = code[i - b + t],
         t = 0 => code[1].op = "loop",
         \A i \in 1..b :
           \/ code'[i].op \in {"dispatch", "overrun"}
           \/ code'[i].op = "callback" /\ i = 1
           \/ code'[i].op = "report" /\ i = 1 /\ b > 1 /\ code'[2].op = "clear" /\ overrun'
           \/ code'[i].op = "clear" /\ i = 2 /\ code'[1].op = "report",
         code[1].op = "report" => b = 0 /\ overrun' /\ ~silent',
         IF code[1].op = "prepare" THEN queue' = "ready" ELSE queue' = queue,
         queue' = "stopped" => records' = <<>> /\ ~silent',
         \/ flags' \subseteq flags
         \/ code[1].op \in {"up", "try"} /\ flags' = flags \cup {code[1].flag}
  PROVE  RunningInv'
<1>1. PICK n \in Nat : CodeInv(n) /\ AheadInv(n) /\ QueueInv(n) /\ FlagsInv(n)
  BY DEF RunningInv
<1>2. /\ Len(code) \in Nat /\ DOMAIN code = 1..Len(code) /\ Len(code) >= 1
      /\ Len(program.code) \in Nat /\ DOMAIN program.code = 1..Len(program.code)
      /\ n \in 1..Len(program.code) + 1
      /\ Ahead(n) \in Nat
  <2>1. IsSequence(code) /\ IsSequence(program.code)
    BY ProgramsAssumption DEF EventsTypeInv, KeepsOrder
  <2>2. n \in 1..Len(program.code) + 1 /\ Ahead(n) \in Nat
    BY <1>1 DEF CodeInv
  <2> QED BY <2>1, <2>2, SequenceFacts
<1>3. Ahead(n) >= 1 => code[1].op \in {"dispatch", "overrun", "callback", "report", "clear"}
  BY <1>1, <1>2 DEF AheadInv
<1>4. CASE Ahead(n) >= t /\ CodeInv(n)' /\ Ahead(n)' = Ahead(n) - t + b
  <2>1. t = 0 => Ahead(n) = 0
    BY <1>2, <1>3
  <2>2. code[1].op \notin {"prepare", "up", "try"}
    BY <1>2, <1>3, <1>4
  <2>3. AheadInv(n)'
    <3> SUFFICES ASSUME NEW i \in 1..Ahead(n)'
                 PROVE
          \/ code'[i].op \in {"dispatch", "overrun"}
          \/ code'[i].op = "callback" /\ i = 1
          \/ code'[i].op = "report" /\ i = 1 /\ Ahead(n)' > 1 /\ code'[2].op = "clear" /\ overrun'
          \/ code'[i].op = "clear" /\ i = 1 /\ overrun' /\ ~silent'
          \/ code'[i].op = "clear" /\ i = 2 /\ code'[1].op = "report"
      BY DEF AheadInv
    <3>1. CASE i <= b
      <4>1. b > 1 => Ahead(n)' > 1
        BY <1>2, <1>4
      <4> QED BY <3>1, <4>1
    <3>2. CASE ~(i <= b)
      <4>1. t = 1 /\ i - b + t \in 2..Ahead(n) /\ i - b + t <= Len(code)
            /\ i \in 1..Len(code')
        <5>1. t = 1
          BY <1>2, <1>4, <2>1, <3>2
        <5>2. Ahead(n) <= Len(code)
          <6> DEFINE size == Len(program.code)
          <6>1. Ahead(n) = Len(code) - (size + 1 - n) /\ size \in Nat /\ n <= size + 1
            BY <1>2 DEF Ahead
          <6> HIDE DEF size
          <6> QED BY <1>2, <6>1
        <5> QED BY <1>2, <1>4, <3>2, <5>1, <5>2
      <4>2. code'[i] = code[i - b + t]
        BY <3>2, <4>1
      <4>3. \/ code[i - b + t].op \in {"dispatch", "overrun"}
            \/ code[i - b + t].op = "clear" /\ i - b + t = 2 /\ code[1].op = "report"
        BY <1>1, <1>2, <4>1 DEF AheadInv
      <4>4. i - b + t = 2 /\ b = 0 => i = 1
        BY <4>1
      <4> QED BY <4>2, <4>3, <4>4
    <3> QED BY <3>1, <3>2
  <2>4. QueueInv(n)'
    BY <1>1, <2>2 DEF QueueInv
  <2>5. FlagsInv(n)'
    BY <1>1, <2>2 DEF FlagsInv, Sources
  <2> QED BY <1>4, <2>3, <2>4, <2>5 DEF RunningInv
<1>5. CASE /\ Ahead(n) = 0 /\ t = 1 /\ n <= Len(program.code)
           /\ code[1] = program.code[n]
           /\ CodeInv(n + 1)' /\ Ahead(n + 1)' = b
  <2>1. n \in 1..Len(program.code) /\ n + 1 \in Nat /\ 1..(n + 1) - 1 = 1..(n - 1) \cup {n}
    BY <1>2, <1>5
  <2>2. AheadInv(n + 1)'
    BY <1>5 DEF AheadInv
  <2>3. QueueInv(n + 1)'
    <3>1. queue = "ready" <=> \E k \in 1..n-1 : program.code[k].op = "prepare"
      BY <1>1 DEF QueueInv
    <3>2. queue' = "ready" <=> \E k \in 1..(n + 1) - 1 : program.code[k].op = "prepare"
      BY <1>5, <2>1, <3>1
    <3> QED BY <3>2 DEF QueueInv
  <2>4. FlagsInv(n + 1)'
    <3> SUFFICES ASSUME NEW s \in Sources
          PROVE /\ <<"irq", s>> \in flags' =>
                     \E k \in 1..(n + 1) - 1 : MayRaise(program.code[k], "irq", s)
                /\ \A flag \in {"clock", "irq", "installed"} :
                     <<flag, s>> \in flags' => Raisable(program, flag, s)
      BY DEF FlagsInv, Sources
    <3>1. \A f : f \in flags' => f \in flags \/ (code[1].op \in {"up", "try"} /\ f = code[1].flag)
      OBVIOUS
    <3>2. \A flag : <<flag, s>> \in flags' =>
            <<flag, s>> \in flags \/ MayRaise(program.code[n], flag, s)
      BY <1>5, <3>1 DEF MayRaise
    <3>3. \A flag : MayRaise(program.code[n], flag, s) => Raisable(program, flag, s)
      BY <1>2, <2>1 DEF Raisable
    <3> QED BY <1>1, <2>1, <3>2, <3>3 DEF FlagsInv
  <2> QED BY <1>5, <2>1, <2>2, <2>3, <2>4 DEF RunningInv
<1>6. t <= Len(code)
  BY <1>2
<1>7. \/ Ahead(n) >= t /\ CodeInv(n)' /\ Ahead(n)' = Ahead(n) - t + b
      \/ /\ Ahead(n) = 0 /\ t = 1 /\ n <= Len(program.code)
         /\ code[1] = program.code[n]
         /\ CodeInv(n + 1)' /\ Ahead(n + 1)' = b
  <2>1. CodeInv(n)
    BY <1>1
  <2> QED BY <1>6, <2>1, CodeMoves
<1> QED BY <1>4, <1>5, <1>7

\* A step that leaves the program where it is.
LEMMA RunningStill ==
  ASSUME RunningInv, UNCHANGED <<program, code, flags, queue>>,
         queue = "stopped" => records' = <<>> /\ ~silent',
         overrun => overrun',
         overrun /\ ~silent => ~silent'
  PROVE  RunningInv'
<1>1. PICK n \in Nat : CodeInv(n) /\ AheadInv(n) /\ QueueInv(n) /\ FlagsInv(n)
  BY DEF RunningInv
<1>2. Ahead(n)' = Ahead(n)
  BY DEF Ahead
<1>3. CodeInv(n)'
  BY <1>1, <1>2 DEF CodeInv
<1>4. AheadInv(n)'
  <2>1. \A i \in 1..Ahead(n) :
          \/ code'[i].op \in {"dispatch", "overrun"}
          \/ code'[i].op = "callback" /\ i = 1
          \/ code'[i].op = "report" /\ i = 1 /\ Ahead(n) > 1 /\ code'[2].op = "clear" /\ overrun'
          \/ code'[i].op = "clear" /\ i = 1 /\ overrun' /\ ~silent'
          \/ code'[i].op = "clear" /\ i = 2 /\ code'[1].op = "report"
    BY <1>1 DEF AheadInv
  <2> QED BY <1>2, <2>1 DEF AheadInv
<1>5. QueueInv(n)'
  BY <1>1 DEF QueueInv
<1>6. FlagsInv(n)'
  BY <1>1 DEF FlagsInv, Sources
<1> QED BY <1>3, <1>4, <1>5, <1>6 DEF RunningInv

\* The next operation is one that was put ahead, or one of the program's own.
LEMMA HeadOperation ==
  ASSUME EventsTypeInv, RunningInv, code # <<>>
  PROVE  \/ code[1].op \in {"dispatch", "overrun", "callback"}
         \/ code[1].op = "report" /\ overrun
         \/ code[1].op = "clear" /\ overrun /\ ~silent
         \/ /\ code[1].op \notin {"callback", "report", "clear"}
            /\ \E n \in DOMAIN program.code :
                 code[1] = program.code[n] /\ QueueInv(n) /\ FlagsInv(n)
<1>1. PICK n \in Nat : CodeInv(n) /\ AheadInv(n) /\ QueueInv(n) /\ FlagsInv(n)
  BY DEF RunningInv
<1>2. /\ Len(code) \in Nat /\ DOMAIN code = 1..Len(code) /\ Len(code) >= 1
      /\ Len(program.code) \in Nat /\ DOMAIN program.code = 1..Len(program.code)
      /\ n \in 1..Len(program.code) + 1
      /\ Ahead(n) \in Nat
  <2>1. IsSequence(code) /\ IsSequence(program.code)
    BY ProgramsAssumption DEF EventsTypeInv, KeepsOrder
  <2>2. n \in 1..Len(program.code) + 1 /\ Ahead(n) \in Nat
    BY <1>1 DEF CodeInv
  <2> QED BY <2>1, <2>2, SequenceFacts
<1>3. CASE Ahead(n) >= 1
  BY <1>1, <1>2, <1>3 DEF AheadInv
<1>4. CASE Ahead(n) = 0
  <2> DEFINE size == Len(program.code)
  <2>1. 0 = Len(code) - (size + 1 - n)
    BY <1>4 DEF Ahead
  <2>2. n <= size
    <3>1. size \in Nat /\ Len(code) \in Nat /\ Len(code) >= 1
      BY <1>2
    <3> HIDE DEF size
    <3> QED BY <2>1, <3>1
  <2>3. n \in DOMAIN program.code /\ n + 1 - 0 - 1 = n
    BY <1>2, <2>2
  <2>4. code[1] = program.code[n]
    BY <1>1, <1>2, <1>4, <2>3 DEF CodeInv
  <2>5. code[1].op \notin {"callback", "report", "clear"}
    BY <2>3, <2>4, ProgramsAssumption DEF EventsTypeInv, WellOrdered, WrittenByHand, Has, KeepsOrder
  <2> QED BY <1>1, <2>3, <2>4, <2>5
<1> QED BY <1>2, <1>3, <1>4

LEMMA TailStep ==
  ASSUME EventsTypeInv, RunningInv, program' = program, code # <<>>, code' = Tail(code),
         Head(code).op = "report" => overrun' /\ ~silent',
         IF Head(code).op = "prepare" THEN queue' = "ready" ELSE queue' = queue,
         queue' = "stopped" => records' = <<>> /\ ~silent',
         \/ flags' \subseteq flags
         \/ Head(code).op \in {"up", "try"} /\ flags' = flags \cup {Head(code).flag}
  PROVE  IsSequence(code') /\ RunningInv'
<1>1. /\ Len(code) \in Nat
      /\ Head(code) = code[1]
      /\ IsSequence(code') /\ Len(code') = Len(code) - 1 + 0
      /\ \A i \in 1..Len(code') : code'[i] = code[i - 0 + 1]
  <2>1. IsSequence(code)
    BY DEF EventsTypeInv
  <2>2. /\ Len(code) \in Nat
        /\ Head(code) = code[1]
        /\ IsSequence(code') /\ Len(code') = Len(code) - 1
        /\ \A i \in 1..Len(code)-1 : code'[i] = code[i + 1]
    BY <2>1, SequenceFacts
  <2>3. \A i \in 1..Len(code') : i - 0 + 1 = i + 1
    OBVIOUS
  <2> QED BY <2>2, <2>3
<1>2. 1 \in {0, 1} /\ 0 \in Nat /\ 1 # 0 /\ 1..0 = {}
  OBVIOUS
<1>3. code[1].op = "report" => 0 = 0 /\ overrun' /\ ~silent'
  BY <1>1
<1> QED BY <1>1, <1>2, <1>3, RunningStep

LEMMA PostedFacts ==
  ASSUME EventsTypeInv, NEW s, Posted(s)
  PROVE  /\ IsSequence(records')
         /\ overrun' \in BOOLEAN /\ silent' \in BOOLEAN
         /\ (silent => overrun) => (silent' => overrun')
         /\ overrun => overrun'
         /\ overrun /\ ~silent => ~silent'
         /\ queue' = queue
<1> DEFINE held == s \in {records[i] : i \in DOMAIN records}
           coalesced == program.delivery[s] = "elide" /\ held
           full == Len(records) >= program.capacity
<1>1. /\ records' = IF coalesced \/ full THEN records ELSE Append(records, s)
      /\ overrun' = (overrun \/ (~coalesced /\ full))
      /\ silent' = (silent \/ (~coalesced /\ full /\ ~overrun))
      /\ queue' = queue
  BY DEF Posted
<1>2. IsSequence(records) /\ overrun \in BOOLEAN /\ silent \in BOOLEAN
  BY DEF EventsTypeInv
<1>3. IsSequence(Append(records, s))
  <2>1. Len(records) \in Nat /\ DOMAIN records = 1..Len(records)
    BY <1>2, SequenceFacts
  <2>2. records \in Seq({records[i] : i \in DOMAIN records} \cup {s})
    <3>1. records \in Seq({records[i] : i \in DOMAIN records})
      BY <1>2 DEF IsSequence
    <3> QED BY <2>1, <3>1
  <2>3. Append(records, s) \in Seq({records[i] : i \in DOMAIN records} \cup {s})
    BY <2>2
  <2> QED BY <2>3, SeqIsSequence
<1> HIDE DEF coalesced, full
<1>4. IsSequence(records')
  BY <1>1, <1>2, <1>3
<1>5. /\ overrun' \in BOOLEAN /\ silent' \in BOOLEAN
      /\ (silent => overrun) => (silent' => overrun')
      /\ overrun => overrun'
      /\ overrun /\ ~silent => ~silent'
  BY <1>1, <1>2, Zenon
<1> QED BY <1>1, <1>4, <1>5

\* A step that takes the next operation of a program that runs.
LEMMA TailEvents ==
  ASSUME EventsInv, outcome = "running", outcome' # "rejected",
         program' = program, code # <<>>, code' = Tail(code), early' = early,
         IsSequence(records'), pending' \subseteq Sources,
         queue' \in {"stopped", "ready"},
         overrun' \in BOOLEAN, silent' \in BOOLEAN, silent' => overrun',
         Head(code).op = "report" => overrun' /\ ~silent',
         IF Head(code).op = "prepare" THEN queue' = "ready" ELSE queue' = queue,
         queue' = "stopped" => records' = <<>> /\ ~silent',
         \/ flags' \subseteq flags
         \/ Head(code).op \in {"up", "try"} /\ flags' = flags \cup {Head(code).flag}
  PROVE  EventsInv'
<1>1. EventsTypeInv /\ RunningInv
  BY DEF EventsInv
<1>2. IsSequence(code') /\ RunningInv'
  BY <1>1, TailStep
<1>3. EventsTypeInv'
  BY <1>1, <1>2 DEF EventsTypeInv, Sources
<1> QED BY <1>2, <1>3 DEF EventsInv

LEMMA InitEventsInv == Init => EventsInv
<1> SUFFICES ASSUME Init PROVE EventsInv
  OBVIOUS
<1>0. /\ program \in Programs /\ WellOrdered(program)
      /\ IsSequence(program.code) /\ code = program.code
      /\ Len(program.code) \in Nat /\ DOMAIN program.code = 1..Len(program.code)
  <2>1. /\ program \in Programs /\ WellOrdered(program)
        /\ IsSequence(program.code) /\ code = program.code
    BY ProgramsAssumption DEF Init, KeepsOrder
  <2> QED BY <2>1, SequenceFacts
<1>1. EventsTypeInv
  <2>1. IsSequence(<<>>)
    <3>1. <<>> \in Seq(Nat)
      OBVIOUS
    <3> QED BY <3>1, SeqIsSequence
  <2>2. pending \subseteq Sources
    BY DEF Init
  <2> QED BY <1>0, <2>1, <2>2 DEF Init, EventsTypeInv
<1>2. CodeInv(1) /\ Ahead(1) = 0
  <2> DEFINE size == Len(program.code)
  <2>1. Ahead(1) = size - (size + 1 - 1)
    BY <1>0 DEF Ahead
  <2>2. Ahead(1) = 0 /\ 1 \in 1..size + 1
    <3>1. size \in Nat
      BY <1>0
    <3> HIDE DEF size
    <3> QED BY <2>1, <3>1
  <2>3. \A i \in DOMAIN code : 1 + i - Ahead(1) - 1 = i
    BY <1>0, <2>2
  <2> QED BY <1>0, <2>2, <2>3 DEF CodeInv
<1>3. AheadInv(1) /\ QueueInv(1)
  BY <1>2 DEF Init, AheadInv, QueueInv
<1>4. FlagsInv(1)
  <2> SUFFICES ASSUME NEW s \in Sources
               PROVE  /\ <<"irq", s>> \notin flags
                      /\ \A flag \in {"clock", "irq", "installed"} :
                           <<flag, s>> \in flags => Raisable(program, flag, s)
    BY DEF FlagsInv
  <2>1. \A flag \in {"clock", "irq", "installed"} :
          <<flag, s>> \in flags => <<flag, s>> \in program.board.always
    BY DEF Init
  <2> QED BY <1>0, <2>1 DEF Raisable, WellOrdered, EnablingIsLast, Sources
<1> QED BY <1>1, <1>2, <1>3, <1>4 DEF EventsInv, RunningInv, Init

\* The operations that only take themselves from the code.
LEMMA PlainOperations ==
  EventsInv /\ (Write \/ ForgetPending \/ RaiseSource \/ RunCallback \/ DispatchReturns
                \/ Expect \/ AwaitTick) => EventsInv'
<1> SUFFICES ASSUME EventsInv PROVE
      (Write \/ ForgetPending \/ RaiseSource \/ RunCallback \/ DispatchReturns
       \/ Expect \/ AwaitTick) => EventsInv'
  OBVIOUS
<1> USE DEF At, Go, run, hardware, context, history, Called
<1>0. /\ EventsTypeInv /\ IsSequence(records) /\ pending \subseteq Sources
      /\ queue \in {"stopped", "ready"} /\ overrun \in BOOLEAN /\ silent \in BOOLEAN
      /\ silent => overrun
      /\ outcome = "running" => /\ RunningInv
                                /\ queue = "stopped" => records = <<>> /\ ~silent
  BY DEF EventsInv, EventsTypeInv, RunningInv, QueueInv
<1>1. CASE Write
  BY <1>0, <1>1, TailEvents DEF Write
<1>2. CASE ForgetPending
  BY <1>0, <1>2, TailEvents DEF ForgetPending
<1>3. CASE RaiseSource
  <2>1. Head(code).source \in Sources
    <3>1. Head(code) = code[1] /\ code[1].op = "raise" /\ code # <<>>
      BY <1>0, <1>3, SequenceFacts DEF RaiseSource, EventsTypeInv
    <3>2. PICK n \in DOMAIN program.code : code[1] = program.code[n]
      BY <1>0, <1>3, <3>1, HeadOperation DEF RaiseSource
    <3> QED BY <1>0, <3>1, <3>2, ProgramsAssumption
         DEF EventsTypeInv, WellOrdered, WrittenByHand, Sources, KeepsOrder
  <2> QED BY <1>0, <1>3, <2>1, TailEvents DEF RaiseSource
<1>4. CASE RunCallback
  BY <1>0, <1>4, TailEvents DEF RunCallback
<1>5. CASE DispatchReturns
  BY <1>0, <1>5, TailEvents DEF DispatchReturns
<1>6. CASE Expect
  BY <1>0, <1>6, TailEvents DEF Expect
<1>7. CASE AwaitTick
  BY <1>0, <1>7, TailEvents DEF AwaitTick
<1> QED BY <1>1, <1>2, <1>3, <1>4, <1>5, <1>6, <1>7

\* The operations on the queue and on its overrun.
LEMMA QueueOperations ==
  EventsInv /\ (PrepareQueue \/ PostDirectly \/ ReportOverrun \/ ClearFlag) => EventsInv'
<1> SUFFICES ASSUME EventsInv PROVE
      (PrepareQueue \/ PostDirectly \/ ReportOverrun \/ ClearFlag) => EventsInv'
  OBVIOUS
<1> USE DEF At, Go, run, hardware, context, history
<1>0. /\ EventsTypeInv /\ IsSequence(records) /\ pending \subseteq Sources
      /\ queue \in {"stopped", "ready"} /\ overrun \in BOOLEAN /\ silent \in BOOLEAN
      /\ silent => overrun
      /\ outcome = "running" => /\ RunningInv
                                /\ queue = "stopped" => records = <<>> /\ ~silent
  BY DEF EventsInv, EventsTypeInv, RunningInv, QueueInv
<1>a. /\ code # <<>> => Head(code) = code[1]
      /\ program \in Programs /\ WellOrdered(program)
  BY <1>0, SequenceFacts, ProgramsAssumption DEF EventsTypeInv, KeepsOrder
<1>1. CASE PrepareQueue
  <2>1. IsSequence(<<>>)
    <3>1. <<>> \in Seq(Nat)
      OBVIOUS
    <3> QED BY <3>1, SeqIsSequence
  <2>2. ~silent
    <3>1. PICK n \in DOMAIN program.code : code[1] = program.code[n] /\ QueueInv(n)
      BY <1>0, <1>1, <1>a, HeadOperation DEF PrepareQueue
    <3>2. \A k \in 1..n-1 : program.code[k].op # "prepare"
      <4>1. DOMAIN program.code = 1..Len(program.code) /\ Len(program.code) \in Nat
        BY <1>a, ProgramsAssumption, SequenceFacts DEF KeepsOrder
      <4>2. program.code[n].op = "prepare"
        BY <1>1, <1>a, <3>1 DEF PrepareQueue
      <4>3. \A i, j \in DOMAIN program.code :
              program.code[i].op = "prepare" /\ program.code[j].op = "prepare" => i = j
        BY <1>a DEF WellOrdered, QueueIsFirst
      <4>4. \A k \in 1..n-1 : k \in DOMAIN program.code /\ k # n
        BY <4>1
      <4> QED BY <4>2, <4>3, <4>4
    <3> QED BY <1>0, <3>1, <3>2 DEF QueueInv
  <2> QED BY <1>0, <1>1, <2>1, <2>2, TailEvents DEF PrepareQueue
<1>2. CASE PostDirectly
  <2>1. PICK n \in DOMAIN program.code : code[1] = program.code[n] /\ QueueInv(n)
    BY <1>0, <1>2, <1>a, HeadOperation DEF PostDirectly
  <2>2. queue = "ready"
    <3>1. \E j \in 1..n-1 : program.code[j].op = "prepare"
      BY <1>2, <1>a, <2>1 DEF PostDirectly, WellOrdered, QueueIsFirst
    <3> QED BY <2>1, <3>1 DEF QueueInv
  <2>3. /\ IsSequence(records')
        /\ overrun' \in BOOLEAN /\ silent' \in BOOLEAN
        /\ silent' => overrun'
        /\ queue' = queue
    BY <1>0, <1>2, PostedFacts DEF PostDirectly
  <2> QED BY <1>0, <1>2, <2>2, <2>3, TailEvents DEF PostDirectly
<1>3. CASE ReportOverrun
  <2>1. overrun
    BY <1>0, <1>3, <1>a, HeadOperation DEF ReportOverrun
  <2> QED BY <1>0, <1>3, <2>1, TailEvents DEF ReportOverrun
<1>4. CASE ClearFlag
  <2>1. ~silent
    BY <1>0, <1>4, <1>a, HeadOperation DEF ClearFlag
  <2> QED BY <1>0, <1>4, <2>1, TailEvents DEF ClearFlag
<1> QED BY <1>1, <1>2, <1>3, <1>4

\* A dispatch and the test of the overrun put two operations ahead.
LEMMA TwoAhead ==
  ASSUME EventsInv, outcome = "running", outcome' = outcome,
         program' = program, code # <<>>,
         Head(code).op \in {"dispatch", "overrun"},
         NEW STATE x, NEW STATE y, code' = <<x, y>> \o Tail(code),
         \/ x.op = "callback" /\ y.op = "dispatch"
         \/ x.op = "report" /\ y.op = "clear" /\ overrun,
         flags' = flags, pending' = pending, queue' = queue, early' = early,
         overrun' = overrun, silent' = silent,
         records' = records \/ (records # <<>> /\ records' = Tail(records))
  PROVE  EventsInv'
<1>0. /\ EventsTypeInv /\ IsSequence(records) /\ IsSequence(code) /\ RunningInv
      /\ queue = "stopped" => records = <<>> /\ ~silent
  BY DEF EventsInv, EventsTypeInv, RunningInv, QueueInv
<1>1. IsSequence(records')
  BY <1>0, SequenceFacts
<1>2. /\ Head(code) = code[1] /\ IsSequence(Tail(code)) /\ Len(code) \in Nat
      /\ Len(Tail(code)) = Len(code) - 1
      /\ \A i \in 1..Len(code)-1 : Tail(code)[i] = code[i + 1]
  BY <1>0, SequenceFacts
<1>3. IsSequence(<<x, y>>) /\ Len(<<x, y>>) = 2
  <2>1. <<x, y>> \in Seq({x, y})
    OBVIOUS
  <2> QED BY <2>1, SeqIsSequence
<1>4. /\ IsSequence(code')
      /\ Len(code') = 2 + (Len(code) - 1)
      /\ code'[1] = x /\ code'[2] = y
      /\ \A i \in 1..2 + (Len(code) - 1) : i > 2 => code'[i] = Tail(code)[i - 2]
  <2>1. /\ \A i \in 1..2 : code'[i] = <<x, y>>[i]
        /\ IsSequence(code')
        /\ Len(code') = 2 + (Len(code) - 1)
        /\ \A i \in 1..2 + (Len(code) - 1) : i > 2 => code'[i] = Tail(code)[i - 2]
    <3>1. Len(<<x, y>>) + Len(Tail(code)) = 2 + (Len(code) - 1)
      BY <1>2, <1>3
    <3> QED BY <1>2, <1>3, <3>1, ConcatFacts
  <2> QED BY <2>1
<1>5. /\ Len(code') = Len(code) - 1 + 2
      /\ \A i \in 1..Len(code') : i > 2 => code'[i] = code[i - 2 + 1]
  <2>1. Len(code') = Len(code) - 1 + 2
    BY <1>2, <1>4
  <2>2. ASSUME NEW i \in 1..Len(code'), i > 2 PROVE code'[i] = code[i - 2 + 1]
    <3>1. i - 2 \in 1..Len(code)-1
      BY <1>2, <2>1, <2>2
    <3> QED BY <1>2, <1>4, <2>2, <3>1
  <2> QED BY <2>1, <2>2
<1>6. RunningInv'
  <2>1. \A i \in 1..2 :
           \/ code'[i].op \in {"dispatch", "overrun"}
           \/ code'[i].op = "callback" /\ i = 1
           \/ code'[i].op = "report" /\ i = 1 /\ 2 > 1 /\ code'[2].op = "clear" /\ overrun'
           \/ code'[i].op = "clear" /\ i = 2 /\ code'[1].op = "report"
    BY <1>4
  <2>2. code[1].op \notin {"report", "prepare", "loop"}
    BY <1>2
  <2>3. queue' = "stopped" => records' = <<>> /\ ~silent'
    BY <1>0
  <2>4. 1 \in {0, 1} /\ 2 \in Nat /\ 1 # 0
    OBVIOUS
  <2> QED BY <1>0, <1>4, <1>5, <2>1, <2>2, <2>3, <2>4, RunningStep
<1>7. EventsTypeInv'
  BY <1>0, <1>1, <1>4 DEF EventsTypeInv, Sources
<1> QED BY <1>6, <1>7 DEF EventsInv

LEMMA DispatchingOperations ==
  EventsInv /\ (DispatchOne \/ TestOverrun) => EventsInv'
<1> SUFFICES ASSUME EventsInv PROVE (DispatchOne \/ TestOverrun) => EventsInv'
  OBVIOUS
<1> USE DEF At, Go, run, hardware, context, history
<1>1. ASSUME DispatchOne PROVE EventsInv'
  <2> DEFINE call == Callback(Head(records))
             rest == [Head(code) EXCEPT !.left = @ - 1, !.done = @ + 1]
  <2>1. /\ outcome = "running" /\ outcome' = outcome /\ program' = program /\ code # <<>>
        /\ Head(code).op = "dispatch"
        /\ code' = <<call, rest>> \o Tail(code)
        /\ records # <<>> /\ records' = Tail(records)
        /\ flags' = flags /\ pending' = pending /\ queue' = queue /\ early' = early
        /\ overrun' = overrun /\ silent' = silent
    BY <1>1 DEF DispatchOne
  <2>2. call.op = "callback"
    BY DEF Callback
  <2>3. rest.op = "dispatch"
    BY <2>1
  <2> HIDE DEF call, rest
  <2> QED BY <2>1, <2>2, <2>3, TwoAhead
<1>2. ASSUME TestOverrun PROVE EventsInv'
  <2>0. /\ EventsTypeInv /\ IsSequence(records) /\ pending \subseteq Sources
        /\ queue \in {"stopped", "ready"} /\ overrun \in BOOLEAN /\ silent \in BOOLEAN
        /\ silent => overrun
        /\ outcome = "running" => /\ RunningInv
                                  /\ queue = "stopped" => records = <<>> /\ ~silent
    BY DEF EventsInv, EventsTypeInv, RunningInv, QueueInv
  <2>1. CASE ~overrun
    BY <1>2, <2>0, <2>1, TailEvents DEF TestOverrun
  <2>2. CASE overrun
    <3>1. Report.op = "report" /\ ClearOverrun.op = "clear"
      BY DEF Report, ClearOverrun
    <3>2. /\ outcome = "running" /\ outcome' = outcome /\ program' = program /\ code # <<>>
          /\ Head(code).op = "overrun"
          /\ code' = <<Report, ClearOverrun>> \o Tail(code)
          /\ records' = records
          /\ flags' = flags /\ pending' = pending /\ queue' = queue /\ early' = early
          /\ overrun' = overrun /\ silent' = silent
      BY <1>2, <2>2 DEF TestOverrun
    <3> QED BY <2>2, <3>1, <3>2, TwoAhead
  <2> QED BY <2>1, <2>2
<1> QED BY <1>1, <1>2

\* A loop puts its body ahead of itself.
LEMMA LoopEvents == EventsInv /\ Repeat => EventsInv'
<1> SUFFICES ASSUME EventsInv, Repeat PROVE EventsInv'
  OBVIOUS
<1>1. /\ outcome = "running" /\ outcome' = outcome /\ program' = program /\ code # <<>>
      /\ Head(code).op = "loop"
      /\ code' = Head(code).body \o code
      /\ UNCHANGED <<records, flags, pending, queue, early, overrun, silent>>
  BY DEF Repeat, At, Go, run, hardware, context, history
<1>2. /\ EventsTypeInv /\ IsSequence(code) /\ RunningInv
      /\ queue = "stopped" => records = <<>> /\ ~silent
      /\ program \in Programs
  BY <1>1 DEF EventsInv, EventsTypeInv, RunningInv, QueueInv
<1>3. Head(code) = code[1] /\ Len(code) \in Nat
  BY <1>1, <1>2, SequenceFacts
<1>4. /\ IsSequence(Head(code).body)
      /\ \A k \in DOMAIN Head(code).body : Head(code).body[k].op \in {"dispatch", "overrun"}
  <2>1. PICK n \in DOMAIN program.code : code[1] = program.code[n]
    BY <1>1, <1>2, <1>3, HeadOperation
  <2> QED BY <1>1, <1>2, <1>3, <2>1, ProgramsAssumption DEF WellOrdered, WrittenByHand, KeepsOrder
<1>5. PICK b \in Nat : b = Len(Head(code).body) /\ DOMAIN Head(code).body = 1..b
  BY <1>4, SequenceFacts
<1>6. /\ IsSequence(code')
      /\ Len(code') = b + Len(code)
      /\ \A i \in 1..b : code'[i] = Head(code).body[i]
      /\ \A i \in 1..b + Len(code) : i > b => code'[i] = code[i - b]
  BY <1>1, <1>2, <1>4, <1>5, ConcatFacts
<1>7. RunningInv'
  <2>1. Len(code') = Len(code) - 0 + b /\ \A i \in 1..Len(code') : i - b + 0 = i - b
    BY <1>3, <1>6
  <2>2. \A i \in 1..Len(code') : i > b => code'[i] = code[i - b + 0]
    BY <1>3, <1>6, <2>1
  <2>3. \A i \in 1..b : code'[i].op \in {"dispatch", "overrun"}
    BY <1>4, <1>5, <1>6
  <2>4. code[1].op = "loop" /\ 0 \in {0, 1}
    BY <1>1, <1>3
  <2>5. queue' = "stopped" => records' = <<>> /\ ~silent'
    BY <1>1, <1>2
  <2> QED BY <1>1, <1>2, <1>6, <2>1, <2>2, <2>3, <2>4, <2>5, RunningStep
<1>8. EventsTypeInv'
  BY <1>1, <1>2, <1>6 DEF EventsTypeInv, Sources
<1> QED BY <1>1, <1>7, <1>8 DEF EventsInv

\* A driver accepts and the start goes on, or it refuses and the clean-up is
\* left to do: no interrupt was enabled yet.
LEMMA TryEvents == EventsInv /\ TryHook => EventsInv'
<1> SUFFICES ASSUME EventsInv, TryHook PROVE EventsInv'
  OBVIOUS
<1> USE DEF At, Go, run, hardware, context, history
<1>0. /\ EventsTypeInv /\ IsSequence(records) /\ pending \subseteq Sources
      /\ queue \in {"stopped", "ready"} /\ overrun \in BOOLEAN /\ silent \in BOOLEAN
      /\ silent => overrun
      /\ RunningInv
      /\ queue = "stopped" => records = <<>> /\ ~silent
      /\ outcome = "running" /\ code # <<>>
      /\ Head(code).op = "try"
  BY DEF EventsInv, EventsTypeInv, RunningInv, QueueInv, TryHook
<1>1. CASE code' = Tail(code) /\ UNCHANGED <<program, outcome>>
           /\ flags' = IF Head(code).flag[1] = "clock" THEN flags \ {Head(code).flag}
                       ELSE flags \cup {Head(code).flag}
  <2>1. flags' \subseteq flags \/ flags' = flags \cup {Head(code).flag}
    BY <1>1
  <2>2. UNCHANGED <<pending, queue, records, overrun, silent, early>>
    BY DEF TryHook
  <2> QED BY <1>0, <1>1, <2>1, <2>2, TailEvents
<1>2. CASE code' = program.failure /\ outcome' = "rejected" /\ UNCHANGED <<program, flags>>
  <2>0. /\ UNCHANGED <<pending, queue, records, overrun, silent, early>>
        /\ program \in Programs /\ WellOrdered(program)
        /\ IsSequence(program.failure) /\ IsSequence(program.code)
        /\ Len(program.failure) \in Nat /\ DOMAIN program.failure = 1..Len(program.failure)
        /\ Len(program.code) \in Nat /\ DOMAIN program.code = 1..Len(program.code)
    <3>1. /\ UNCHANGED <<pending, queue, records, overrun, silent, early>>
          /\ program \in Programs /\ WellOrdered(program)
          /\ IsSequence(program.failure) /\ IsSequence(program.code)
      BY <1>0, ProgramsAssumption DEF TryHook, EventsTypeInv, KeepsOrder
    <3> QED BY <3>1, SequenceFacts
  <2>1. PICK n \in DOMAIN program.code :
          program.code[n].op = "try" /\ QueueInv(n) /\ FlagsInv(n)
    <3>1. Head(code) = code[1]
      BY <1>0, SequenceFacts DEF EventsTypeInv
    <3> QED BY <1>0, <3>1, HeadOperation
  <2>2. \A s \in Sources : <<"irq", s>> \notin flags
    <3> SUFFICES ASSUME NEW s \in Sources, <<"irq", s>> \in flags PROVE FALSE
      OBVIOUS
    <3>1. PICK k \in 1..n-1 : MayRaise(program.code[k], "irq", s)
      BY <2>1 DEF FlagsInv
    <3>2. k \in DOMAIN program.code /\ ~(n < k)
      BY <2>0, <2>1
    <3> QED BY <2>0, <2>1, <3>1, <3>2 DEF WellOrdered, EnablingIsLast, Sources
  <2>3. records # <<>> => Has(program.code, "prepare")
    <3>1. records # <<>> => \E k \in 1..n-1 : program.code[k].op = "prepare"
      BY <1>0, <2>1 DEF QueueInv
    <3>2. 1..n-1 \subseteq DOMAIN program.code
      BY <2>0, <2>1
    <3> QED BY <3>1, <3>2 DEF Has
  <2>4. \A s \in Sources, flag \in {"clock", "irq", "installed"} :
          <<flag, s>> \in flags => Raisable(program, flag, s)
    BY <2>1 DEF FlagsInv
  <2>5. CleanUpInv(1)'
    <3> DEFINE size == Len(program.failure)
    <3>1. 1 \in 1..size + 1 /\ size = size + 1 - 1 /\ 1..1-1 = {}
          /\ \A i \in 1..size : 1 + i - 1 = i
      <4>1. size \in Nat
        BY <2>0
      <4> HIDE DEF size
      <4> QED BY <4>1
    <3>2. DOMAIN code' = 1..size /\ Len(code') = size
      BY <1>2, <2>0
    <3>3. Sources' = Sources
      BY <1>2 DEF Sources
    <3> QED BY <1>2, <2>0, <2>3, <2>4, <3>1, <3>2, <3>3 DEF CleanUpInv
  <2>6. RejectedInv'
    <3>1. Has(program.code, "try")
      BY <2>1 DEF Has
    <3> QED BY <1>2, <2>2, <2>5, <3>1 DEF RejectedInv, Sources
  <2>7. EventsTypeInv'
    BY <1>0, <1>2, <2>0 DEF EventsTypeInv, Sources
  <2> QED BY <1>2, <2>0, <2>6, <2>7 DEF EventsInv
<1> QED BY <1>1, <1>2 DEF TryHook

\* An operation of the clean-up.
LEMMA CleanUpEvents == EventsInv /\ CleanUp => EventsInv'
<1> SUFFICES ASSUME EventsInv, CleanUp PROVE EventsInv'
  OBVIOUS
<1>0. /\ EventsTypeInv /\ IsSequence(code) /\ IsSequence(program.failure)
      /\ program \in Programs /\ pending \subseteq Sources
      /\ outcome = "rejected" /\ outcome' = outcome /\ program' = program /\ code # <<>>
      /\ code' = Tail(code)
      /\ UNCHANGED <<overrun, silent, early>>
      /\ RejectedInv
  BY ProgramsAssumption DEF EventsInv, EventsTypeInv, CleanUp, history, KeepsOrder
<1>1. PICK n \in Nat : CleanUpInv(n)
  BY <1>0 DEF RejectedInv
<1> DEFINE size == Len(program.failure)
<1>2. /\ Len(code) \in Nat /\ DOMAIN code = 1..Len(code) /\ Len(code) >= 1
      /\ Head(code) = code[1] /\ IsSequence(code') /\ DOMAIN code' = 1..Len(code')
      /\ Len(code') = Len(code) - 1
      /\ \A i \in 1..Len(code)-1 : code'[i] = code[i + 1]
      /\ size \in Nat /\ DOMAIN program.failure = 1..size
  BY <1>0, SequenceFacts
<1>3. /\ n \in 1..size + 1
      /\ Len(code) = size + 1 - n
      /\ \A i \in DOMAIN code : code[i] = program.failure[n + i - 1]
  BY <1>1 DEF CleanUpInv
<1>4. /\ n + 1 \in 1..size + 1
      /\ Len(code') = size + 1 - (n + 1)
      /\ 1..(n + 1) - 1 = 1..(n - 1) \cup {n}
  <2>1. size \in Nat
    BY <1>2
  <2> HIDE DEF size
  <2> QED BY <1>2, <1>3, <2>1
<1>5. Head(code) = program.failure[n]
  <2>1. n + 1 - 1 = n /\ 1 \in DOMAIN code
    BY <1>2
  <2> QED BY <1>2, <1>3, <2>1
<1>6. \A i \in DOMAIN code' : code'[i] = program.failure[(n + 1) + i - 1]
  <2> SUFFICES ASSUME NEW i \in 1..Len(code) - 1
               PROVE  code'[i] = program.failure[(n + 1) + i - 1]
    BY <1>2
  <2>1. n + (i + 1) - 1 = (n + 1) + i - 1 /\ i + 1 \in DOMAIN code
    BY <1>2
  <2> QED BY <1>2, <1>3, <2>1
<1> HIDE DEF size
<1>7. \A k \in 1..(n + 1) - 1 : program.failure[k].op # "loop"
  BY <1>1, <1>4, <1>5 DEF CleanUpInv, CleanUp
<1>8. flags' \subseteq flags
      /\ \A s \in Sources, flag \in {"clock", "irq", "installed"} : <<flag, s>> \in flags' =>
           /\ Raisable(program, flag, s)
           /\ \A k \in 1..(n + 1) - 1 : program.failure[k] # Down(flag, s)
  <2>1. flags' = IF Head(code).op = "down" THEN flags \ {Head(code).flag} ELSE flags
    BY DEF CleanUp
  <2>2. \A flag, s : Down(flag, s).op = "down" /\ Down(flag, s).flag = <<flag, s>>
    BY DEF Down
  <2>3. \A flag, s : <<flag, s>> \in flags' => program.failure[n] # Down(flag, s)
    BY <1>5, <2>1, <2>2
  <2> QED BY <1>1, <1>4, <2>1, <2>3 DEF CleanUpInv
<1>9. pending' \subseteq pending
      /\ \A s \in pending', k \in 1..(n + 1) - 1 :
           program.failure[k] = Forget(s) =>
             /\ Raisable(program, "clock", s)
             /\ \A j \in 1..k-1 : program.failure[j] # Down("clock", s)
  <2>1. pending' = IF Head(code).op = "forget" THEN pending \ {Head(code).source} ELSE pending
    BY DEF CleanUp
  <2>2. \A s : Forget(s).op = "forget" /\ Forget(s).source = s
    BY DEF Forget
  <2>3. \A s \in pending' : program.failure[n] # Forget(s)
    BY <1>5, <2>1, <2>2
  <2> QED BY <1>1, <1>4, <2>1, <2>3 DEF CleanUpInv
<1>10. records' # <<>> => /\ Has(program.code, "prepare")
                         /\ \A k \in 1..(n + 1) - 1 : program.failure[k].op # "stop"
  BY <1>1, <1>4, <1>5 DEF CleanUpInv, CleanUp
<1>11. EventsTypeInv'
  <2>1. IsSequence(records')
    <3>1. IsSequence(<<>>)
      <4>1. <<>> \in Seq(Nat)
        OBVIOUS
      <4> QED BY <4>1, SeqIsSequence
    <3> QED BY <1>0, <3>1 DEF CleanUp, EventsTypeInv
  <2>2. queue' \in {"stopped", "ready"}
    BY <1>0 DEF CleanUp, EventsTypeInv
  <2> QED BY <1>0, <1>2, <1>9, <2>1, <2>2 DEF EventsTypeInv, Sources
<1>12. RejectedInv'
  <2>1. Sources' = Sources
    BY <1>0 DEF Sources
  <2>2. CleanUpInv(n + 1)'
    BY <1>0, <1>4, <1>6, <1>7, <1>8, <1>9, <1>10, <2>1 DEF CleanUpInv, size
  <2> QED BY <1>0, <1>8, <2>1, <2>2 DEF RejectedInv
<1> QED BY <1>0, <1>11, <1>12 DEF EventsInv

\* A step of the hardware, or none: the code and the flags stay.
LEMMA StillEvents ==
  ASSUME EventsInv, UNCHANGED <<program, code, flags, queue>>, early' = FALSE,
         outcome' = outcome \/ (outcome # "rejected" /\ outcome' # "rejected"),
         IsSequence(records'), overrun' \in BOOLEAN, silent' \in BOOLEAN,
         silent' => overrun',
         overrun => overrun',
         overrun /\ ~silent => ~silent',
         queue = "stopped" => records' = records /\ silent' = silent,
         outcome = "rejected" => records' = records,
         \A s \in pending' : s \in pending \/ (s \in Sources /\ <<"clock", s>> \in flags)
  PROVE  EventsInv'
<1>1. EventsTypeInv
  BY DEF EventsInv
<1>2. EventsTypeInv'
  BY <1>1 DEF EventsTypeInv, Sources
<1>3. CASE outcome # "rejected"
  <2>1. RunningInv
    BY <1>3 DEF EventsInv
  <2>2. queue = "stopped" => records' = <<>> /\ ~silent'
    BY <2>1 DEF RunningInv, QueueInv
  <2>3. RunningInv'
    BY <2>1, <2>2, RunningStill
  <2>4. outcome' # "rejected"
    BY <1>3
  <2> QED BY <1>2, <2>3, <2>4 DEF EventsInv
<1>4. CASE outcome = "rejected"
  <2>1. RejectedInv
    BY <1>4 DEF EventsInv
  <2>2. PICK n \in Nat : CleanUpInv(n)
    BY <2>1 DEF RejectedInv
  <2>3. Sources' = Sources
    BY DEF Sources
  <2>4. \A s \in pending', k \in 1..n-1 :
          program.failure[k] = Forget(s) =>
            /\ Raisable(program, "clock", s)
            /\ \A j \in 1..k-1 : program.failure[j] # Down("clock", s)
    <3> SUFFICES ASSUME NEW s \in pending', NEW k \in 1..n-1, program.failure[k] = Forget(s)
                 PROVE  /\ Raisable(program, "clock", s)
                        /\ \A j \in 1..k-1 : program.failure[j] # Down("clock", s)
      OBVIOUS
    <3>1. CASE s \in pending
      BY <2>2, <3>1 DEF CleanUpInv
    <3>2. CASE s \in Sources /\ <<"clock", s>> \in flags
      <4>1. 1..k-1 \subseteq 1..n-1
        OBVIOUS
      <4> QED BY <2>2, <3>2, <4>1 DEF CleanUpInv
    <3> QED BY <3>1, <3>2
  <2>5. CleanUpInv(n)'
    BY <1>4, <2>2, <2>3, <2>4 DEF CleanUpInv
  <2>6. RejectedInv'
    BY <2>1, <2>3, <2>5 DEF RejectedInv
  <2> QED BY <1>2, <1>4, <2>6 DEF EventsInv
<1> QED BY <1>3, <1>4

\* An interrupt is enabled only when the queue is ready for what it posts.
LEMMA ServedWhenReady ==
  ASSUME EventsInv, NEW s \in Sources, Serviceable(s)
  PROVE  outcome # "rejected" /\ (Deferred(s) => queue = "ready")
<1>0. <<"irq", s>> \in flags /\ program \in Programs
  BY DEF Serviceable, EventsInv, EventsTypeInv
<1>1. outcome # "rejected"
  BY <1>0 DEF EventsInv, RejectedInv
<1>2. ASSUME Deferred(s) PROVE queue = "ready"
  <2>1. PICK n \in Nat : CodeInv(n) /\ QueueInv(n) /\ FlagsInv(n)
    BY <1>1 DEF EventsInv, RunningInv
  <2>2. PICK k \in 1..n-1 : MayRaise(program.code[k], "irq", s)
    BY <1>0, <2>1 DEF FlagsInv
  <2>3. Len(program.code) \in Nat /\ DOMAIN program.code = 1..Len(program.code)
    BY <1>0, ProgramsAssumption, SequenceFacts DEF KeepsOrder
  <2>4. n \in 1..Len(program.code) + 1
    BY <2>1 DEF CodeInv
  <2>5. k \in DOMAIN program.code /\ 1..k-1 \subseteq 1..n-1
    <3> DEFINE size == Len(program.code)
    <3>1. n \in 1..size + 1 /\ size \in Nat /\ DOMAIN program.code = 1..size
      BY <2>3, <2>4
    <3> HIDE DEF size
    <3> QED BY <3>1
  <2>6. s \in DeferredIn(program)
    BY <1>2 DEF Deferred, DeferredIn, Sources
  <2>7. \E j \in 1..k-1 : program.code[j].op = "prepare"
    BY <1>0, <2>2, <2>5, <2>6, ProgramsAssumption DEF WellOrdered, QueueIsFirst, KeepsOrder
  <2> QED BY <2>1, <2>5, <2>7 DEF QueueInv
<1> QED BY <1>1, <1>2

LEMMA HardwareEvents ==
  ASSUME EventsInv, NEW s \in Sources, Serve(s) \/ Overflow(s)
  PROVE  EventsInv'
<1> USE DEF run, hardware, context, history
<1>0. /\ EventsTypeInv /\ IsSequence(records) /\ pending \subseteq Sources
      /\ overrun \in BOOLEAN /\ silent \in BOOLEAN
      /\ silent => overrun
      /\ early = FALSE
  BY DEF EventsInv, EventsTypeInv
<1>1. CASE Overflow(s)
  BY <1>0, <1>1, StillEvents DEF Overflow
<1>2. CASE Serve(s)
  <2>1. outcome # "rejected" /\ (Deferred(s) => queue = "ready")
    BY <1>2, ServedWhenReady DEF Serve
  <2>2. CASE ~Deferred(s)
    <3>1. UNCHANGED <<program, code, flags, outcome, queue, records, overrun, silent, early>>
          /\ pending' \subseteq pending
      BY <1>2, <2>2 DEF Serve
    <3> QED BY <1>0, <3>1, StillEvents
  <2>3. CASE Deferred(s)
    <3>1. /\ Posted(s) /\ early' = early /\ queue = "ready"
          /\ UNCHANGED <<program, code, flags, outcome>>
          /\ pending' \subseteq pending
      BY <1>2, <2>1, <2>3 DEF Serve
    <3>2. /\ IsSequence(records')
          /\ overrun' \in BOOLEAN /\ silent' \in BOOLEAN
          /\ silent' => overrun'
          /\ overrun => overrun'
          /\ overrun /\ ~silent => ~silent'
          /\ queue' = queue
      BY <1>0, <3>1, PostedFacts
    <3> QED BY <1>0, <2>1, <3>1, <3>2, StillEvents
  <2> QED BY <2>2, <2>3
<1> QED BY <1>1, <1>2

\* The order of the operations is kept in every state of every program that
\* keeps the order the boards keep: the invariant the three properties of the
\* start and of the queue rest on.
THEOREM EventsInvariant == Spec => []EventsInv
<1>1. EventsInv /\ [Next]_vars => EventsInv'
  <2> SUFFICES ASSUME EventsInv, [Next]_vars PROVE EventsInv'
    OBVIOUS
  <2>0. /\ EventsTypeInv /\ IsSequence(records)
        /\ overrun \in BOOLEAN /\ silent \in BOOLEAN
        /\ silent => overrun
        /\ early = FALSE
    BY DEF EventsInv, EventsTypeInv
  <2>1. CASE Return
    BY <2>0, <2>1, StillEvents DEF Return, run, hardware, context, history
  <2>2. CASE UNCHANGED vars
    BY <2>0, <2>2, StillEvents DEF vars, run, hardware, context, history
  <2>3. ASSUME NEW s \in Sources, Serve(s) \/ Overflow(s) PROVE EventsInv'
    BY <2>3, HardwareEvents
  <2>4. CASE Step
    BY <2>1, <2>4, PlainOperations, QueueOperations, DispatchingOperations, LoopEvents,
       TryEvents, CleanUpEvents DEF Step
  <2> QED BY <2>2, <2>3, <2>4 DEF Next
<1> QED BY <1>1, InitEventsInv, PTL DEF Spec

\* No interrupt is taken before the queue is ready, and a start that a driver
\* refused leaves nothing running, enabled, bound, queued or pending
\* (Application::start() and the boards' hooks): for every program that makes
\* its queue ready first, enables last and takes back what it may have raised.
THEOREM StartIsSafe == Spec => []ReadyBeforeInterrupts
<1>1. EventsInv => ReadyBeforeInterrupts
  <2> SUFFICES ASSUME EventsInv PROVE ReadyBeforeInterrupts
    OBVIOUS
  <2>1. ASSUME outcome = "rejected", code = <<>>
        PROVE  /\ \A s \in Sources, flag \in {"clock", "irq", "installed"} : <<flag, s>> \notin flags
               /\ records = <<>> /\ pending = {}
    <3>1. PICK n \in Nat : CleanUpInv(n)
      BY <2>1 DEF EventsInv, RejectedInv
    <3>2. /\ program \in Programs /\ pending \subseteq Sources
          /\ CleansUp(program) /\ Has(program.code, "try")
          /\ IsSequence(program.failure)
          /\ Len(program.failure) \in Nat
          /\ DOMAIN program.failure = 1..Len(program.failure)
      <4>1. /\ program \in Programs /\ pending \subseteq Sources
            /\ CleansUp(program) /\ Has(program.code, "try")
            /\ IsSequence(program.failure)
        BY <2>1, ProgramsAssumption DEF EventsInv, EventsTypeInv, RejectedInv, WellOrdered, KeepsOrder
      <4> QED BY <4>1, SequenceFacts
    <3>3. DOMAIN program.failure = 1..n-1
      <4> DEFINE size == Len(program.failure)
      <4>1. size \in Nat /\ n \in 1..size + 1 /\ 0 = size + 1 - n /\ DOMAIN program.failure = 1..size
        BY <2>1, <3>1, <3>2 DEF CleanUpInv
      <4> HIDE DEF size
      <4>2. n - 1 = size
        BY <4>1
      <4> QED BY <4>1, <4>2
    <3>4. ~Has(program.failure, "loop")
      BY <3>1, <3>3 DEF CleanUpInv, Has
    <3>5. /\ \A s \in Sources, flag \in {"clock", "irq", "installed"} :
               Raisable(program, flag, s) => \E i \in DOMAIN program.failure :
                                               program.failure[i] = Down(flag, s)
          /\ \A s \in Sources : \E i \in DOMAIN program.failure :
               /\ program.failure[i] = Forget(s)
               /\ Raisable(program, "clock", s) =>
                    \E j \in 1..i-1 : program.failure[j] = Down("clock", s)
          /\ Has(program.code, "prepare") => Has(program.failure, "stop")
      BY <3>2, <3>4 DEF CleansUp, Sources
    <3>6. \A s \in Sources, flag \in {"clock", "irq", "installed"} : <<flag, s>> \notin flags
      BY <3>1, <3>3, <3>5 DEF CleanUpInv
    <3>7. records = <<>>
      BY <3>1, <3>3, <3>5 DEF CleanUpInv, Has
    <3>8. ASSUME NEW s \in pending PROVE FALSE
      <4>1. s \in Sources
        BY <3>2
      <4>2. PICK i \in 1..n-1 :
               /\ program.failure[i] = Forget(s)
               /\ Raisable(program, "clock", s) =>
                    \E j \in 1..i-1 : program.failure[j] = Down("clock", s)
        BY <3>3, <3>5, <4>1
      <4> QED BY <3>1, <4>2 DEF CleanUpInv
    <3> QED BY <3>6, <3>7, <3>8
  <2> QED BY <2>1 DEF ReadyBeforeInterrupts, EventsInv
<1> QED BY <1>1, EventsInvariant, PTL

\* An overrun that a drop raised is reported before it is cleared (the sketches'
\* loops): for every program whose reports come from the test of the overrun.
THEOREM DropsReported == Spec => []DropsAreReported
<1>1. EventsInv => DropsAreReported
  BY DEF EventsInv, DropsAreReported
<1> QED BY <1>1, EventsInvariant, PTL

\* A post keeps what is due in the records, or is no longer due.
LEMMA PostKeeps ==
  ASSUME IsSequence(records), NEW s, Posted(s), NEW r \in due',
         r = s \/ \E i \in DOMAIN records : records[i] = r
  PROVE  \E i \in DOMAIN records' : records'[i] = r
<1> DEFINE held == s \in {records[i] : i \in DOMAIN records}
           coalesced == program.delivery[s] = "elide" /\ held
           full == Len(records) >= program.capacity
<1>1. /\ records' = IF coalesced \/ full THEN records ELSE Append(records, s)
      /\ due' = IF full /\ ~held THEN due \ {s} ELSE due
  BY DEF Posted
<1>2. Len(records) \in Nat /\ DOMAIN records = 1..Len(records)
  BY SequenceFacts
<1>3. /\ DOMAIN Append(records, s) = 1..Len(records) + 1
      /\ \A i \in DOMAIN records : Append(records, s)[i] = records[i]
      /\ Append(records, s)[Len(records) + 1] = s
  <2>1. records \in Seq({records[i] : i \in DOMAIN records} \cup {s})
    <3>1. records \in Seq({records[i] : i \in DOMAIN records})
      BY DEF IsSequence
    <3> QED BY <1>2, <3>1
  <2> DEFINE S == {records[i] : i \in DOMAIN records} \cup {s}
  <2>2. s \in S
    OBVIOUS
  <2> HIDE DEF S
  <2> QED BY <1>2, <2>1, <2>2, AppendProperties DEF S
<1>4. CASE \E i \in DOMAIN records : records[i] = r
  BY <1>1, <1>2, <1>3, <1>4
<1>5. CASE r = s /\ ~held
  <2>1. ~coalesced /\ ~full
    BY <1>1, <1>5
  <2>2. Len(records) + 1 \in DOMAIN Append(records, s)
    BY <1>2, <1>3
  <2> HIDE DEF coalesced, full
  <2> QED BY <1>1, <1>3, <1>5, <2>1, <2>2
<1>6. CASE r = s /\ held
  BY <1>4, <1>6
<1> QED BY <1>4, <1>5, <1>6

\* No step loses an overflow that is due.
LEMMA HeldByStep == EventsInv /\ OverflowsAreHeld /\ Step => OverflowsAreHeld'
<1> SUFFICES ASSUME EventsInv, OverflowsAreHeld, Step PROVE OverflowsAreHeld'
  OBVIOUS
<1> USE DEF At, Go, run, hardware, context, history, OverflowsAreHeld
<1>0. /\ EventsTypeInv /\ IsSequence(records) /\ IsSequence(code)
      /\ program \in Programs /\ WellOrdered(program) /\ IsSequence(program.code)
      /\ code # <<>> => Head(code) = code[1]
      /\ outcome = "running" => RunningInv
  <2>1. /\ EventsTypeInv /\ IsSequence(records) /\ IsSequence(code)
        /\ program \in Programs /\ WellOrdered(program) /\ IsSequence(program.code)
        /\ outcome = "running" => RunningInv
    BY ProgramsAssumption DEF EventsInv, EventsTypeInv, KeepsOrder
  <2> QED BY <2>1, SequenceFacts
<1>1. ASSUME outcome = "running", code # <<>>, Head(code).op # "callback", NEW s \in due
      PROVE  s \in pending \/ \E i \in DOMAIN records : records[i] = s
  <2>1. Head(code) # Callback(s)
    BY <1>1 DEF Callback
  <2> QED BY <1>1, <2>1
<1>2. CASE Write
  BY <1>1, <1>2 DEF Write
<1>3. CASE TryHook
  BY <1>1, <1>3 DEF TryHook
<1>4. CASE CleanUp
  BY <1>4 DEF CleanUp
<1>5. CASE PrepareQueue
  <2>1. records = <<>>
    <3>1. PICK n \in DOMAIN program.code : code[1] = program.code[n] /\ QueueInv(n)
      BY <1>0, <1>5, HeadOperation DEF PrepareQueue
    <3>2. DOMAIN program.code = 1..Len(program.code) /\ Len(program.code) \in Nat
      BY <1>0, SequenceFacts
    <3>3. program.code[n].op = "prepare"
      BY <1>0, <1>5, <3>1 DEF PrepareQueue
    <3>4. \A k \in 1..n-1 : k \in DOMAIN program.code /\ k # n
      BY <3>2
    <3>5. \A k \in 1..n-1 : program.code[k].op # "prepare"
      BY <1>0, <3>3, <3>4 DEF WellOrdered, QueueIsFirst
    <3>6. queue = "stopped"
      BY <1>0, <3>1, <3>5 DEF QueueInv, EventsTypeInv
    <3> QED BY <3>1, <3>6 DEF QueueInv
  <2> QED BY <1>1, <1>5, <2>1 DEF PrepareQueue
<1>6. CASE ForgetPending
  BY <1>1, <1>6 DEF ForgetPending
<1>7. CASE RaiseSource
  BY <1>1, <1>7 DEF RaiseSource
<1>8. CASE PostDirectly
  <2>1. due' \subseteq due
    BY <1>8 DEF PostDirectly, Posted
  <2>2. /\ Posted(Head(code).source) /\ pending' = pending /\ outcome = "running"
        /\ code # <<>> /\ Head(code).op # "callback"
    BY <1>8 DEF PostDirectly
  <2>3. \A s \in due' : s \in pending' \/ \E i \in DOMAIN records' : records'[i] = s
    BY <1>0, <1>1, <2>1, <2>2, PostKeeps
  <2> QED BY <2>3
<1>9. CASE DispatchOne
  <2>1. /\ records # <<>> /\ records' = Tail(records) /\ UNCHANGED <<pending, due>>
        /\ outcome = "running" /\ code # <<>> /\ Head(code).op # "callback"
    BY <1>9 DEF DispatchOne
  <2>2. code' # <<>> /\ Head(code') = Callback(Head(records))
    <3> DEFINE call == Callback(Head(records))
               rest == [Head(code) EXCEPT !.left = @ - 1, !.done = @ + 1]
    <3>1. code' = <<call, rest>> \o Tail(code)
      BY <1>9 DEF DispatchOne
    <3> HIDE DEF call, rest
    <3>2. <<call, rest>> \in Seq({call, rest}) /\ Len(<<call, rest>>) = 2
          /\ <<call, rest>>[1] = call
      OBVIOUS
    <3>3. IsSequence(<<call, rest>>) /\ IsSequence(Tail(code)) /\ Len(Tail(code)) \in Nat
      BY <1>0, <2>1, <3>2, SeqIsSequence, SequenceFacts
    <3>4. IsSequence(code') /\ Len(code') = 2 + Len(Tail(code)) /\ code'[1] = call
      BY <3>1, <3>2, <3>3, ConcatFacts
    <3>5. code' # <<>> /\ Head(code') = code'[1]
      BY <3>3, <3>4, SequenceFacts
    <3> QED BY <3>4, <3>5 DEF call
  <2>3. /\ Head(records) = records[1] /\ Len(records) \in Nat /\ DOMAIN records = 1..Len(records)
        /\ DOMAIN records' = 1..Len(records) - 1
        /\ \A i \in 1..Len(records)-1 : records'[i] = records[i + 1]
    BY <1>0, <2>1, SequenceFacts
  <2>4. ASSUME NEW s \in due, NEW i \in DOMAIN records, records[i] = s
        PROVE  s = Head(records) \/ \E j \in DOMAIN records' : records'[j] = s
    <3>1. i = 1 \/ (i - 1 \in 1..Len(records)-1 /\ (i - 1) + 1 = i)
      BY <2>3
    <3> QED BY <2>3, <2>4, <3>1
  <2> QED BY <1>1, <2>1, <2>2, <2>4
<1>10. CASE RunCallback
  <2>1. ASSUME NEW s \in due' PROVE s \in due /\ Head(code) # Callback(s)
    <3>1. s \in due /\ s # Head(code).source
      BY <1>10, <2>1 DEF RunCallback, Called
    <3> QED BY <3>1 DEF Callback
  <2> QED BY <1>10, <2>1 DEF RunCallback
<1>11. CASE DispatchReturns
  BY <1>1, <1>11 DEF DispatchReturns
<1>12. CASE TestOverrun
  BY <1>1, <1>12 DEF TestOverrun
<1>13. CASE ReportOverrun
  BY <1>1, <1>13 DEF ReportOverrun
<1>14. CASE ClearFlag
  BY <1>1, <1>14 DEF ClearFlag
<1>15. CASE Expect
  BY <1>1, <1>15 DEF Expect
<1>16. CASE AwaitTick
  BY <1>1, <1>16 DEF AwaitTick
<1>17. CASE Repeat
  BY <1>1, <1>17 DEF Repeat
<1>18. CASE Return
  BY <1>18 DEF Return
<1> QED BY <1>2, <1>3, <1>4, <1>5, <1>6, <1>7, <1>8, <1>9, <1>10, <1>11, <1>12, <1>13,
       <1>14, <1>15, <1>16, <1>17, <1>18 DEF Step

\* Nor does an interrupt that is taken or an overflow that comes.
LEMMA HeldByHardware ==
  ASSUME EventsInv, OverflowsAreHeld, NEW s \in Sources, Serve(s) \/ Overflow(s)
  PROVE  OverflowsAreHeld'
<1> USE DEF run, hardware, context, history, OverflowsAreHeld
<1>0. IsSequence(records) /\ UNCHANGED <<code, outcome>>
  BY DEF EventsInv, EventsTypeInv, Serve, Overflow
<1>1. CASE Overflow(s)
  BY <1>1 DEF Overflow
<1>2. CASE Serve(s)
  <2>1. outcome # "rejected" /\ (Deferred(s) => queue = "ready") /\ pending' = pending \ {s}
    BY <1>2, ServedWhenReady DEF Serve
  <2>2. CASE ~Deferred(s)
    BY <1>0, <1>2, <2>1, <2>2 DEF Serve, Called
  <2>3. CASE Deferred(s)
    <3>1. Posted(s) /\ due' \subseteq due
      BY <1>2, <2>1, <2>3 DEF Serve, Posted
    <3>2. ASSUME NEW r \in due'
          PROVE  \/ r \in pending'
                 \/ \E i \in DOMAIN records' : records'[i] = r
                 \/ code' # <<>> /\ Head(code') = Callback(r)
      <4>1. r \in due /\ (r = s \/ r \in pending' \/ (\E i \in DOMAIN records : records[i] = r)
                          \/ (code' # <<>> /\ Head(code') = Callback(r)))
        BY <1>0, <2>1, <3>1, <3>2
      <4>2. r = s \/ (\E i \in DOMAIN records : records[i] = r)
              => \E i \in DOMAIN records' : records'[i] = r
        BY <1>0, <3>1, <3>2, PostKeeps
      <4> QED BY <4>1, <4>2
    <3> QED BY <3>2
  <2> QED BY <2>2, <2>3
<1> QED BY <1>1, <1>2

\* An overflow that a handler is declared for is held at its source, in the
\* queue or as the next callback until the handler is called (post_from_isr(),
\* dispatch() and the boards' hooks): for every program, capacity and number of
\* overflows.
THEOREM HeldOverflows == Spec => []OverflowsAreHeld
<1>1. Init => OverflowsAreHeld
  BY DEF Init, OverflowsAreHeld
<1>2. EventsInv /\ OverflowsAreHeld /\ [Next]_vars => OverflowsAreHeld'
  <2> SUFFICES ASSUME EventsInv, OverflowsAreHeld, [Next]_vars PROVE OverflowsAreHeld'
    OBVIOUS
  <2>1. CASE UNCHANGED vars
    BY <2>1 DEF vars, run, hardware, context, history, OverflowsAreHeld
  <2>2. ASSUME NEW s \in Sources, Serve(s) \/ Overflow(s) PROVE OverflowsAreHeld'
    BY <2>2, HeldByHardware
  <2> QED BY <2>1, <2>2, HeldByStep DEF Next
<1> QED BY <1>1, <1>2, EventsInvariant, PTL DEF Spec

----------------------------------------------------------------------------
\* The order of start()

\* What the hooks of a board must keep: no interrupt is enabled but by enable,
\* which cannot fail, and where a driver may refuse, cleanup takes back whatever
\* the hooks may have raised.
HookRaises(board, flag, s) ==
  \/ <<flag, s>> \in board.always
  \/ \E i \in DOMAIN board.configure : MayRaise(board.configure[i], flag, s)
  \/ \E i \in DOMAIN board.install : MayRaise(board.install[i], flag, s)
  \/ \E i \in DOMAIN board.enable : MayRaise(board.enable[i], flag, s)

\* configure() and install() enable no interrupt.
Prepares(operation, sources) ==
  /\ operation.op \in {"up", "down", "try"}
  /\ \A s \in sources : ~MayRaise(operation, "irq", s)

HooksKeepOrder(board, sources) ==
  /\ IsSequence(board.mask) /\ IsSequence(board.configure) /\ IsSequence(board.install)
  /\ IsSequence(board.enable) /\ IsSequence(board.cleanup)
  /\ \A s \in sources : <<"irq", s>> \notin board.always
  /\ \A i \in DOMAIN board.mask : board.mask[i].op = "down"
  /\ \A i \in DOMAIN board.configure : Prepares(board.configure[i], sources)
  /\ \A i \in DOMAIN board.install : Prepares(board.install[i], sources)
  /\ \A i \in DOMAIN board.enable : board.enable[i].op = "up"
  /\ (Has(board.configure, "try") \/ Has(board.install, "try")) =>
       /\ \A s \in sources, flag \in {"clock", "irq", "installed"} :
            HookRaises(board, flag, s) => \E i \in DOMAIN board.cleanup :
                                            board.cleanup[i] = Down(flag, s)
       /\ \A s \in sources : \E i \in DOMAIN board.cleanup :
            /\ board.cleanup[i] = Forget(s)
            /\ HookRaises(board, "clock", s) =>
                 \E j \in 1..i-1 : board.cleanup[j] = Down("clock", s)

\* What a main(), or a setup() and loop(), do after the start.
BodyKeepsOrder(body, sources, deferred) ==
  /\ IsSequence(body)
  /\ \A i \in DOMAIN body :
       /\ body[i].op \notin {"up", "try", "prepare", "callback", "report", "clear"}
       /\ body[i].op = "post" => deferred
       /\ body[i].op = "raise" => body[i].source \in sources
       /\ body[i].op = "loop" =>
            /\ IsSequence(body[i].body)
            /\ \A k \in DOMAIN body[i].body : body[i].body[k].op \in {"dispatch", "overrun"}

\* x is an operation of d.
In(x, d) == \E j \in DOMAIN d : x = d[j]

\* s is the one sequence behind the other.
Joined(s, c, d) == s = c \o d

\* Where the operations of two sequences, and of a whole start, come in their
\* concatenation.
LEMMA TwoParts ==
  ASSUME NEW c, NEW d, IsSequence(c), IsSequence(d),
         NEW s, Joined(s, c, d)
  PROVE  /\ IsSequence(s) /\ Len(c) \in Nat /\ Len(d) \in Nat
         /\ Len(s) = Len(c) + Len(d)
         /\ \A i \in 1..Len(c) : s[i] = c[i]
         /\ \A i \in 1..Len(c) + Len(d) : i > Len(c) => s[i] = d[i - Len(c)]
         /\ \A i \in 1..Len(c) + Len(d) : i > Len(c) => In(s[i], d)
<1>1. Len(c) \in Nat /\ Len(d) \in Nat /\ DOMAIN d = 1..Len(d)
  BY SequenceFacts
<1>2. /\ IsSequence(c \o d)
      /\ Len(c \o d) = Len(c) + Len(d)
      /\ \A i \in 1..Len(c) : (c \o d)[i] = c[i]
      /\ \A i \in 1..Len(c) + Len(d) : i > Len(c) => (c \o d)[i] = d[i - Len(c)]
  BY ConcatFacts
<1>3. ASSUME NEW i \in 1..Len(c) + Len(d), i > Len(c)
      PROVE  In((c \o d)[i], d)
  <2>1. i - Len(c) \in DOMAIN d /\ (c \o d)[i] = d[i - Len(c)]
    BY <1>1, <1>2, <1>3
  <2> QED BY <2>1 DEF In
<1> QED BY <1>1, <1>2, <1>3 DEF Joined

LEMMA SixParts ==
  ASSUME NEW M, NEW P, NEW C, NEW I, NEW E, NEW B,
         IsSequence(M), IsSequence(P), IsSequence(C),
         IsSequence(I), IsSequence(E), IsSequence(B),
         NEW s1, Joined(s1, M, P), NEW s2, Joined(s2, s1, C), NEW s3, Joined(s3, s2, I),
         NEW s4, Joined(s4, s3, E), NEW s5, Joined(s5, s4, B)
  PROVE  /\ IsSequence(s5)
         /\ Len(M) \in Nat /\ Len(P) \in Nat /\ Len(s3) \in Nat /\ Len(s4) \in Nat
         /\ Len(s3) >= Len(M) + Len(P) /\ Len(s4) >= Len(s3)
         /\ \A i \in 1..Len(s5) :
              \/ i <= Len(M) /\ In(s5[i], M)
              \/ i > Len(M) /\ i <= Len(M) + Len(P) /\ s5[i] = P[i - Len(M)]
              \/ /\ i > Len(M) + Len(P) /\ i <= Len(s3)
                 /\ (In(s5[i], C) \/ In(s5[i], I))
              \/ i > Len(s3) /\ i <= Len(s4) /\ In(s5[i], E)
              \/ i > Len(s4) /\ In(s5[i], B)
         /\ \A i \in 1..Len(P) :
              Len(M) + i \in 1..Len(s5) /\ s5[Len(M) + i] = P[i]
<1>2. /\ IsSequence(s1) /\ Len(M) \in Nat /\ Len(P) \in Nat
      /\ Len(s1) = Len(M) + Len(P)
      /\ \A i \in 1..Len(M) : s1[i] = M[i]
      /\ \A i \in 1..Len(M) + Len(P) : i > Len(M) => s1[i] = P[i - Len(M)]
  BY TwoParts
<1>3. /\ IsSequence(s2) /\ Len(C) \in Nat
      /\ Len(s2) = Len(s1) + Len(C)
      /\ \A i \in 1..Len(s1) : s2[i] = s1[i]
      /\ \A i \in 1..Len(s1) + Len(C) : i > Len(s1) => In(s2[i], C)
  <2>1. IsSequence(s1)
    BY <1>2
  <2> QED BY <2>1, TwoParts
<1>4. /\ IsSequence(s3) /\ Len(I) \in Nat
      /\ Len(s3) = Len(s2) + Len(I)
      /\ \A i \in 1..Len(s2) : s3[i] = s2[i]
      /\ \A i \in 1..Len(s2) + Len(I) : i > Len(s2) => In(s3[i], I)
  <2>1. IsSequence(s2)
    BY <1>3
  <2> QED BY <2>1, TwoParts
<1>5. /\ IsSequence(s4) /\ Len(E) \in Nat
      /\ Len(s4) = Len(s3) + Len(E)
      /\ \A i \in 1..Len(s3) : s4[i] = s3[i]
      /\ \A i \in 1..Len(s3) + Len(E) : i > Len(s3) => In(s4[i], E)
  <2>1. IsSequence(s3)
    BY <1>4
  <2> QED BY <2>1, TwoParts
<1>6. /\ IsSequence(s5) /\ Len(B) \in Nat
      /\ Len(s5) = Len(s4) + Len(B)
      /\ \A i \in 1..Len(s4) : s5[i] = s4[i]
      /\ \A i \in 1..Len(s4) + Len(B) : i > Len(s4) => In(s5[i], B)
  <2>1. IsSequence(s4)
    BY <1>5
  <2> QED BY <2>1, TwoParts
<1>7. DOMAIN M = 1..Len(M) /\ DOMAIN P = 1..Len(P)
  BY SequenceFacts
<1>8. Len(s3) \in Nat /\ Len(s4) \in Nat /\ Len(s3) >= Len(M) + Len(P) /\ Len(s4) >= Len(s3)
  BY <1>2, <1>3, <1>4, <1>5
<1>9. ASSUME NEW i \in 1..Len(s5)
      PROVE  \/ i <= Len(M) /\ In(s5[i], M)
             \/ i > Len(M) /\ i <= Len(M) + Len(P) /\ s5[i] = P[i - Len(M)]
             \/ /\ i > Len(M) + Len(P) /\ i <= Len(s3)
                /\ (In(s5[i], C) \/ In(s5[i], I))
             \/ i > Len(s3) /\ i <= Len(s4) /\ In(s5[i], E)
             \/ i > Len(s4) /\ In(s5[i], B)
  <2>1. CASE i > Len(s4)
    BY <1>6, <1>8, <2>1
  <2>2. CASE i <= Len(s4) /\ i > Len(s3)
    BY <1>5, <1>6, <1>8, <2>2
  <2>3. CASE i <= Len(s3) /\ i > Len(s2)
    <3>1. s5[i] = s3[i]
      BY <1>5, <1>6, <1>8, <2>3
    <3> QED BY <1>2, <1>3, <1>4, <2>3, <3>1
  <2>4. CASE i <= Len(s2) /\ i > Len(s1)
    <3>1. s5[i] = s2[i] /\ i <= Len(s3)
      BY <1>2, <1>3, <1>4, <1>5, <1>6, <2>4
    <3> QED BY <1>2, <1>3, <2>4, <3>1
  <2>5. CASE i <= Len(s1)
    <3>1. s5[i] = s1[i]
      BY <1>2, <1>3, <1>4, <1>5, <1>6, <2>5
    <3>2. i <= Len(M) => i \in DOMAIN M /\ s5[i] = M[i]
      BY <1>2, <1>7, <2>5, <3>1
    <3>3. ~(i <= Len(M)) => i > Len(M) /\ i <= Len(M) + Len(P) /\ s5[i] = P[i - Len(M)]
      BY <1>2, <2>5, <3>1
    <3> QED BY <3>2, <3>3 DEF In
  <2>6. \/ i > Len(s4)
        \/ i <= Len(s4) /\ i > Len(s3)
        \/ i <= Len(s3) /\ i > Len(s2)
        \/ i <= Len(s2) /\ i > Len(s1)
        \/ i <= Len(s1)
    BY <1>2, <1>3, <1>4, <1>8
  <2> QED BY <2>1, <2>2, <2>3, <2>4, <2>5, <2>6, Zenon
<1>10. ASSUME NEW i \in 1..Len(P)
       PROVE  Len(M) + i \in 1..Len(s5) /\ s5[Len(M) + i] = P[i]
  <2>1. /\ Len(M) + i \in 1..Len(s1) /\ Len(M) + i \in 1..Len(s2) /\ Len(M) + i \in 1..Len(s3)
        /\ Len(M) + i \in 1..Len(s4) /\ Len(M) + i \in 1..Len(s5)
        /\ Len(M) + i > Len(M) /\ (Len(M) + i) - Len(M) = i
    BY <1>2, <1>3, <1>4, <1>5, <1>6
  <2>2. s5[Len(M) + i] = s1[Len(M) + i]
    BY <1>3, <1>4, <1>5, <1>6, <2>1
  <2> QED BY <1>2, <2>1, <2>2
<1> QED BY <1>2, <1>6, <1>8, <1>9, <1>10

\* A program that starts a board whose hooks keep their order, and then does no
\* more than a main() may, keeps the order that ProgramsAssumption asks for:
\* start() prepares the queue behind the masking and enables last.
THEOREM StartKeepsOrder ==
  ASSUME NEW board, NEW sync, NEW delivery, NEW capacity, NEW body,
         HooksKeepOrder(board, DOMAIN delivery),
         BodyKeepsOrder(body, DOMAIN delivery,
                        \E s \in DOMAIN delivery : delivery[s] \in {"elide", "stream"})
  PROVE  KeepsOrder(Program(board, sync, delivery, capacity, body))
<1> DEFINE p == Program(board, sync, delivery, capacity, body)
           deferred == \E s \in DOMAIN delivery : delivery[s] \in {"elide", "stream"}
           M == board.mask
           P == IF deferred THEN <<Prepare>> ELSE <<>>
           C == board.configure
           I == board.install
           E == board.enable
           S == IF deferred THEN <<Stop>> ELSE <<>>
           F == board.cleanup
           s1 == M \o P
           s2 == s1 \o C
           s3 == s2 \o I
           s4 == s3 \o E
           s5 == s4 \o body
           f == S \o F
<1>1. /\ p.board = board /\ p.delivery = delivery
      /\ p.code = s5 /\ p.failure = f
  BY DEF Program, Start, Failed
<1>2. /\ Joined(s1, M, P) /\ Joined(s2, s1, C) /\ Joined(s3, s2, I) /\ Joined(s4, s3, E)
      /\ Joined(s5, s4, body) /\ Joined(f, S, F)
  BY DEF Joined
<1>3. /\ IsSequence(P) /\ IsSequence(S)
      /\ deferred => /\ Len(P) = 1 /\ P[1] = Prepare
                     /\ Len(S) = 1 /\ S[1] = Stop
      /\ ~deferred => Len(P) = 0 /\ Len(S) = 0
  <2>1. IsSequence(<<>>)
    <3>1. <<>> \in Seq({})
      OBVIOUS
    <3> QED BY <3>1, SeqIsSequence
  <2>2. IsSequence(<<Prepare>>) /\ IsSequence(<<Stop>>)
    <3>1. <<Prepare>> \in Seq({Prepare}) /\ <<Stop>> \in Seq({Stop})
      OBVIOUS
    <3> QED BY <3>1, SeqIsSequence
  <2> QED BY <2>1, <2>2
<1>4. /\ IsSequence(M) /\ IsSequence(C) /\ IsSequence(I) /\ IsSequence(E) /\ IsSequence(F)
      /\ IsSequence(body)
  BY DEF HooksKeepOrder, BodyKeepsOrder
<1>5. DOMAIN p.delivery = DOMAIN delivery /\ DeferredIn(p) = {s \in DOMAIN delivery : delivery[s] \in {"elide", "stream"}}
  BY <1>1 DEF DeferredIn
<1> HIDE DEF p, P, S, s1, s2, s3, s4, s5, f
<1>6. /\ IsSequence(s5)
      /\ Len(M) \in Nat /\ Len(P) \in Nat /\ Len(s3) \in Nat /\ Len(s4) \in Nat
      /\ Len(s3) >= Len(M) + Len(P) /\ Len(s4) >= Len(s3)
      /\ \A i \in 1..Len(s5) :
           \/ i <= Len(M) /\ In(s5[i], M)
           \/ i > Len(M) /\ i <= Len(M) + Len(P) /\ s5[i] = P[i - Len(M)]
           \/ i > Len(M) + Len(P) /\ i <= Len(s3) /\ (In(s5[i], C) \/ In(s5[i], I))
           \/ i > Len(s3) /\ i <= Len(s4) /\ In(s5[i], E)
           \/ i > Len(s4) /\ In(s5[i], body)
      /\ \A i \in 1..Len(P) :
           Len(M) + i \in 1..Len(s5) /\ s5[Len(M) + i] = P[i]
  <2>1. /\ Joined(s1, M, P) /\ Joined(s2, s1, C) /\ Joined(s3, s2, I) /\ Joined(s4, s3, E)
        /\ Joined(s5, s4, body)
        /\ IsSequence(M) /\ IsSequence(P) /\ IsSequence(C)
        /\ IsSequence(I) /\ IsSequence(E) /\ IsSequence(body)
    BY <1>2, <1>3, <1>4
  <2> HIDE DEF M, C, I, E, deferred
  <2> QED BY <2>1, SixParts, ZenonT(60)
<1>7. DOMAIN s5 = 1..Len(s5)
  BY <1>6, SequenceFacts
\* What each part may hold.
<1>8. \A i \in DOMAIN s5 :
        \/ i <= Len(M) /\ s5[i].op = "down"
        \/ deferred /\ i = Len(M) + 1 /\ s5[i] = Prepare
        \/ i > Len(M) + Len(P) /\ i <= Len(s3) /\ Prepares(s5[i], DOMAIN delivery)
           /\ (In(s5[i], C) \/ In(s5[i], I))
        \/ i > Len(s3) /\ i <= Len(s4) /\ s5[i].op = "up" /\ In(s5[i], E)
        \/ i > Len(s4) /\ In(s5[i], body)
  <2> TAKE i \in DOMAIN s5
  <2>1. In(s5[i], M) => s5[i].op = "down"
    BY DEF In, HooksKeepOrder
  <2>2. In(s5[i], C) \/ In(s5[i], I) => Prepares(s5[i], DOMAIN delivery)
    BY DEF In, HooksKeepOrder
  <2>3. In(s5[i], E) => s5[i].op = "up"
    BY DEF In, HooksKeepOrder
  <2>4. i > Len(M) /\ i <= Len(M) + Len(P) /\ s5[i] = P[i - Len(M)] =>
          deferred /\ i = Len(M) + 1 /\ s5[i] = Prepare
    BY <1>3, <1>6, <1>7
  <2>5. \/ i <= Len(M) /\ In(s5[i], M)
        \/ i > Len(M) /\ i <= Len(M) + Len(P) /\ s5[i] = P[i - Len(M)]
        \/ i > Len(M) + Len(P) /\ i <= Len(s3) /\ (In(s5[i], C) \/ In(s5[i], I))
        \/ i > Len(s3) /\ i <= Len(s4) /\ In(s5[i], E)
        \/ i > Len(s4) /\ In(s5[i], body)
    BY <1>6, <1>7
  <2> HIDE DEF M, C, I, E, deferred
  <2> QED BY <2>1, <2>2, <2>3, <2>4, <2>5
<1>9. \A i \in DOMAIN s5 : In(s5[i], body) =>
        /\ s5[i].op \notin {"up", "try", "prepare", "callback", "report", "clear"}
        /\ s5[i].op = "post" => deferred
        /\ s5[i].op = "raise" => s5[i].source \in DOMAIN delivery
        /\ s5[i].op = "loop" =>
             /\ IsSequence(s5[i].body)
             /\ \A k \in DOMAIN s5[i].body : s5[i].body[k].op \in {"dispatch", "overrun"}
  BY DEF In, BodyKeepsOrder
<1>10. deferred => /\ Len(M) + 1 \in DOMAIN s5 /\ s5[Len(M) + 1].op = "prepare"
                   /\ Len(s3) > Len(M)
  BY <1>3, <1>6, <1>7 DEF Prepare
\* An interrupt is enabled by enable only, and a driver refuses before it.
<1>11. \A i \in DOMAIN s5, s \in DOMAIN delivery : MayRaise(s5[i], "irq", s) => i > Len(s3)
  BY <1>8, <1>9 DEF MayRaise, Prepares, Prepare
<1>12. \A i \in DOMAIN s5 : s5[i].op = "try" => /\ i <= Len(s3)
                                               /\ (In(s5[i], C) \/ In(s5[i], I))
  BY <1>8, <1>9 DEF Prepares, Prepare
<1>13. \A i \in DOMAIN s5 : s5[i].op = "prepare" => i = Len(M) + 1 /\ deferred
  BY <1>8, <1>9 DEF Prepares
<1>14. \A i \in DOMAIN s5 : s5[i].op = "post" => i > Len(s4) /\ deferred
  BY <1>8, <1>9 DEF Prepares, Prepare
<1>a. QueueIsFirst(p)
  <2>1. ASSUME NEW i \in DOMAIN s5,
               s5[i].op = "post" \/ \E s \in DeferredIn(p) : MayRaise(s5[i], "irq", s)
        PROVE  \E j \in 1..i-1 : s5[j].op = "prepare"
    <3>1. deferred /\ i > Len(s3)
      BY <1>5, <1>6, <1>7, <1>11, <1>14, <2>1
    <3>2. Len(M) + 1 \in 1..i-1
      BY <1>6, <1>7, <1>10, <3>1
    <3> QED BY <1>10, <3>1, <3>2
  <2> QED BY <1>1, <1>13, <2>1 DEF QueueIsFirst
<1>b. EnablingIsLast(p)
  <2>1. \A s \in DOMAIN delivery : <<"irq", s>> \notin board.always
    BY DEF HooksKeepOrder
  <2>2. ASSUME NEW i \in DOMAIN s5, NEW j \in DOMAIN s5, NEW s \in DOMAIN delivery,
               s5[i].op = "try", MayRaise(s5[j], "irq", s)
        PROVE  i < j
    <3>1. i <= Len(s3)
      BY <1>12, <2>2
    <3>2. j > Len(s3)
      BY <1>11, <2>2
    <3>3. i \in Nat /\ j \in Nat /\ Len(s3) \in Nat
      BY <1>6, <1>7
    <3> QED BY <3>1, <3>2, <3>3
  <2> QED BY <1>1, <2>1, <2>2 DEF EnablingIsLast
<1>c. CleansUp(p)
  <2>1. /\ IsSequence(f) /\ Len(S) \in Nat /\ Len(F) \in Nat
        /\ Len(f) = Len(S) + Len(F)
        /\ \A i \in 1..Len(S) : f[i] = S[i]
        /\ \A i \in 1..Len(S) + Len(F) : i > Len(S) => f[i] = F[i - Len(S)]
    <3> HIDE DEF F
    <3> QED BY <1>2, <1>3, <1>4, TwoParts
  <2>2. DOMAIN f = 1..Len(f) /\ DOMAIN F = 1..Len(F)
    BY <1>4, <2>1, SequenceFacts
  <2>3. \A i \in DOMAIN F : i + Len(S) \in DOMAIN f /\ f[i + Len(S)] = F[i]
    BY <2>1, <2>2
  <2>4. \A i \in DOMAIN F : \A j \in 1..i-1 :
          j \in DOMAIN F /\ j + Len(S) \in 1..(i + Len(S))-1
    BY <2>1, <2>2
  <2> SUFFICES ASSUME Has(p.code, "try")
               PROVE  /\ \A s \in DOMAIN delivery, flag \in {"clock", "irq", "installed"} :
                           Raisable(p, flag, s) => \E i \in DOMAIN f : f[i] = Down(flag, s)
                      /\ \A s \in DOMAIN delivery : \E i \in DOMAIN f :
                           /\ f[i] = Forget(s)
                           /\ Raisable(p, "clock", s) =>
                                \E j \in 1..i-1 : f[j] = Down("clock", s)
                      /\ Has(p.code, "prepare") => Has(f, "stop")
    BY <1>1 DEF CleansUp
  <2>5. Has(C, "try") \/ Has(I, "try")
    BY <1>1, <1>12 DEF Has, In
  <2>6. ASSUME NEW s \in DOMAIN delivery, NEW flag, Raisable(p, flag, s)
        PROVE  HookRaises(board, flag, s)
    <3>1. CASE <<flag, s>> \in board.always
      BY <3>1 DEF HookRaises
    <3>2. ASSUME NEW i \in DOMAIN s5, MayRaise(s5[i], flag, s)
          PROVE  HookRaises(board, flag, s)
      <4>1. s5[i].op \in {"up", "try"}
        BY <3>2 DEF MayRaise
      <4>2. In(s5[i], C) \/ In(s5[i], I) \/ In(s5[i], E)
        BY <1>8, <1>9, <4>1 DEF Prepare
      <4> QED BY <3>2, <4>2 DEF In, HookRaises
    <3> QED BY <1>1, <2>6, <3>1, <3>2 DEF Raisable
  <2>7. /\ \A s \in DOMAIN delivery, flag \in {"clock", "irq", "installed"} :
             HookRaises(board, flag, s) => \E i \in DOMAIN F : F[i] = Down(flag, s)
        /\ \A s \in DOMAIN delivery : \E i \in DOMAIN F :
             /\ F[i] = Forget(s)
             /\ HookRaises(board, "clock", s) => \E j \in 1..i-1 : F[j] = Down("clock", s)
    BY <2>5 DEF HooksKeepOrder
  <2> HIDE DEF F
  <2>8. ASSUME NEW s \in DOMAIN delivery, NEW flag \in {"clock", "irq", "installed"},
               Raisable(p, flag, s)
        PROVE  \E i \in DOMAIN f : f[i] = Down(flag, s)
    <3>1. PICK i \in DOMAIN F : F[i] = Down(flag, s)
      BY <2>6, <2>7, <2>8
    <3> QED BY <2>3, <3>1
  <2>9. ASSUME NEW s \in DOMAIN delivery
        PROVE  \E i \in DOMAIN f :
                 /\ f[i] = Forget(s)
                 /\ Raisable(p, "clock", s) => \E j \in 1..i-1 : f[j] = Down("clock", s)
    <3>1. PICK i \in DOMAIN F :
            /\ F[i] = Forget(s)
            /\ HookRaises(board, "clock", s) => \E j \in 1..i-1 : F[j] = Down("clock", s)
      BY <2>7
    <3>2. i + Len(S) \in DOMAIN f /\ f[i + Len(S)] = Forget(s)
      BY <2>3, <3>1
    <3>3. Raisable(p, "clock", s) =>
            \E j \in 1..(i + Len(S))-1 : f[j] = Down("clock", s)
      <4> SUFFICES ASSUME Raisable(p, "clock", s)
                   PROVE  \E j \in 1..(i + Len(S))-1 : f[j] = Down("clock", s)
        OBVIOUS
      <4>1. PICK j \in 1..i-1 : F[j] = Down("clock", s)
        BY <2>6, <3>1
      <4>2. j + Len(S) \in 1..(i + Len(S))-1 /\ f[j + Len(S)] = F[j]
        BY <2>3, <2>4
      <4> QED BY <4>1, <4>2
    <3> QED BY <3>2, <3>3
  <2>10. Has(p.code, "prepare") => Has(f, "stop")
    <3>1. deferred => 1 \in DOMAIN f /\ f[1] = Stop
      BY <1>3, <2>1, <2>2
    <3> QED BY <1>1, <1>13, <3>1 DEF Has, Stop
  <2> QED BY <2>8, <2>9, <2>10
<1>d. WrittenByHand(p)
  <2>1. \A op \in {"callback", "report", "clear"} : ~Has(p.code, op)
    BY <1>1, <1>8, <1>9 DEF Has, Prepares, Prepare
  <2>2. \A i \in DOMAIN s5 : s5[i].op \in {"loop", "raise"} => In(s5[i], body)
    BY <1>8 DEF Prepares, Prepare
  <2> QED BY <1>1, <1>9, <2>1, <2>2 DEF WrittenByHand
<1>e. \A i \in DOMAIN s5 : s5[i].op = "loop" => IsSequence(s5[i].body)
  BY <1>8, <1>9 DEF Prepares, Prepare
<1>f. IsSequence(f)
  <2> HIDE DEF F
  <2> QED BY <1>2, <1>3, <1>4, TwoParts
<1>g. KeepsOrder(p)
  BY <1>1, <1>6, <1>a, <1>b, <1>c, <1>d, <1>e, <1>f DEF WellOrdered, KeepsOrder
<1> QED BY <1>g DEF p

LEMMA ShortSequences ==
  \A a, b, c, d : /\ IsSequence(<<>>) /\ IsSequence(<<a>>) /\ IsSequence(<<a, b>>)
                  /\ IsSequence(<<a, b, c>>) /\ IsSequence(<<a, b, c, d>>)
<1>1. \A a, b, c, d : /\ <<>> \in Seq({a}) /\ <<a>> \in Seq({a}) /\ <<a, b>> \in Seq({a, b})
                      /\ <<a, b, c>> \in Seq({a, b, c}) /\ <<a, b, c, d>> \in Seq({a, b, c, d})
  OBVIOUS
<1> QED BY <1>1, SeqIsSequence

LEMMA AvrKeepsOrder ==
  ASSUME NEW on \in BOOLEAN
  PROVE  HooksKeepOrder(DocsAvr(on), {"motor"})
<1> DEFINE board == DocsAvr(on)
<1>1. /\ IsSequence(board.mask) /\ IsSequence(board.configure) /\ IsSequence(board.install)
      /\ IsSequence(board.enable) /\ IsSequence(board.cleanup)
  BY ShortSequences DEF DocsAvr
<1>2. <<"irq", "motor">> \notin board.always
  BY DEF DocsAvr
<1>3. \A i \in DOMAIN board.mask : board.mask[i].op = "down"
  BY DEF DocsAvr, Down
<1>4. \A i \in DOMAIN board.configure : board.configure[i].op = "down"
  BY DEF DocsAvr, Down
<1>5. DOMAIN board.install = {}
  BY DEF DocsAvr
<1>6. \A i \in DOMAIN board.enable : board.enable[i].op = "up"
  BY DEF DocsAvr, Up, Sei
<1>7. HooksKeepOrder(board, {"motor"})
  <2> HIDE DEF board
  <2> QED BY <1>1, <1>2, <1>3, <1>4, <1>5, <1>6 DEF HooksKeepOrder, Prepares, MayRaise, Has
<1> QED BY <1>7

LEMMA EspKeepsOrder ==
  ASSUME NEW on \in BOOLEAN
  PROVE  HooksKeepOrder(DocsEsp(on), {"motor"})
<1> DEFINE board == DocsEsp(on)
<1>1. /\ IsSequence(board.mask) /\ IsSequence(board.configure) /\ IsSequence(board.install)
      /\ IsSequence(board.enable) /\ IsSequence(board.cleanup)
  BY ShortSequences DEF DocsEsp
<1>2. <<"irq", "motor">> \notin board.always
  BY DEF DocsEsp
<1>3. \A i \in DOMAIN board.mask : board.mask[i].op = "down"
  BY DEF DocsEsp, Down
<1>4. \A i \in DOMAIN board.configure :
        board.configure[i].op = "try" /\ board.configure[i].flag = <<"clock", "motor">>
  BY DEF DocsEsp, Down, Try
<1>5. \A i \in DOMAIN board.install :
        board.install[i].op = "try" /\ board.install[i].flag = <<"installed", "motor">>
  BY DEF DocsEsp, Up, Try
<1>6. \A i \in DOMAIN board.enable : board.enable[i].op = "up"
  BY DEF DocsEsp, Up
<1>7. /\ {1, 2, 3, 4} \subseteq DOMAIN board.cleanup
      /\ board.cleanup[1] = Down("irq", "motor") /\ board.cleanup[2] = Down("clock", "motor")
      /\ board.cleanup[3] = Down("installed", "motor") /\ board.cleanup[4] = Forget("motor")
  BY DEF DocsEsp
<1> HIDE DEF board
<1>8. \A flag \in {"clock", "irq", "installed"} :
        \E i \in DOMAIN board.cleanup : board.cleanup[i] = Down(flag, "motor")
  BY <1>7
<1>9. \E i \in DOMAIN board.cleanup :
        /\ board.cleanup[i] = Forget("motor")
        /\ \E j \in 1..i-1 : board.cleanup[j] = Down("clock", "motor")
  <2>1. 2 \in 1..4-1
    OBVIOUS
  <2> QED BY <1>7, <2>1
<1>10. /\ \A i \in DOMAIN board.configure : Prepares(board.configure[i], {"motor"})
       /\ \A i \in DOMAIN board.install : Prepares(board.install[i], {"motor"})
  BY <1>4, <1>5 DEF Prepares, MayRaise
<1>11. HooksKeepOrder(board, {"motor"})
  BY <1>1, <1>2, <1>3, <1>6, <1>8, <1>9, <1>10 DEF HooksKeepOrder
<1> QED BY <1>11 DEF board

LEMMA MockKeepsOrder ==
  ASSUME NEW on \in BOOLEAN, NEW board \in {DocsMock(on), GateMock(on)}
  PROVE  HooksKeepOrder(board, {"motor"})
<1>1. /\ IsSequence(board.mask) /\ IsSequence(board.configure) /\ IsSequence(board.install)
      /\ IsSequence(board.enable) /\ IsSequence(board.cleanup)
  <2>1. CASE board = DocsMock(on)
    BY <2>1, ShortSequences DEF DocsMock
  <2>2. CASE board = GateMock(on)
    <3>1. /\ board.configure = <<Check>>
          /\ board.mask = DocsMock(on).mask /\ board.install = DocsMock(on).install
          /\ board.enable = DocsMock(on).enable /\ board.cleanup = DocsMock(on).cleanup
      BY <2>2 DEF GateMock, DocsMock
    <3>2. /\ IsSequence(DocsMock(on).mask) /\ IsSequence(DocsMock(on).install)
          /\ IsSequence(DocsMock(on).enable) /\ IsSequence(DocsMock(on).cleanup)
      BY ShortSequences DEF DocsMock
    <3> QED BY <3>1, <3>2, ShortSequences
  <2> QED BY <2>1, <2>2
<1>2. <<"irq", "motor">> \notin board.always /\ <<"clock", "motor">> \notin board.always
  BY DEF DocsMock, GateMock
<1>3. \A i \in DOMAIN board.mask : board.mask[i].op = "down"
  BY DEF DocsMock, GateMock, Down
<1>4. \A i \in DOMAIN board.configure :
        board.configure[i].op = "try" /\ board.configure[i].flag = <<"checked", "cpu">>
  BY DEF DocsMock, GateMock, Check
<1>5. \A i \in DOMAIN board.install :
        board.install[i].op = "try" /\ board.install[i].flag = <<"installed", "motor">>
  BY DEF DocsMock, GateMock, Up, Try
<1>6. \A i \in DOMAIN board.enable :
        board.enable[i].op = "up" /\ board.enable[i].flag = <<"irq", "motor">>
  BY DEF DocsMock, GateMock, Up
<1>7. /\ {1, 2, 3} \subseteq DOMAIN board.cleanup
      /\ board.cleanup[1] = Down("irq", "motor") /\ board.cleanup[2] = Down("installed", "motor")
      /\ board.cleanup[3] = Forget("motor")
  BY DEF DocsMock, GateMock
<1>8. ~HookRaises(board, "clock", "motor")
  BY <1>2, <1>4, <1>5, <1>6 DEF HookRaises, MayRaise
<1>9. /\ \A flag \in {"irq", "installed"} :
           \E i \in DOMAIN board.cleanup : board.cleanup[i] = Down(flag, "motor")
      /\ \E i \in DOMAIN board.cleanup : board.cleanup[i] = Forget("motor")
  BY <1>7
<1>10. /\ \A i \in DOMAIN board.configure : Prepares(board.configure[i], {"motor"})
       /\ \A i \in DOMAIN board.install : Prepares(board.install[i], {"motor"})
  BY <1>4, <1>5 DEF Prepares, MayRaise
<1> QED BY <1>1, <1>2, <1>3, <1>6, <1>8, <1>9, <1>10 DEF HooksKeepOrder

LEMMA DeferredTwoKeepsOrder ==
  ASSUME NEW on \in BOOLEAN
  PROVE  HooksKeepOrder(DeferredTwo(on), {"a", "b"})
<1> DEFINE board == DeferredTwo(on)
           c == CleanupOf("a")
           d == CleanupOf("b")
           f == board.cleanup
<1>1. /\ IsSequence(board.mask) /\ IsSequence(board.configure) /\ IsSequence(board.install)
      /\ IsSequence(board.enable) /\ IsSequence(c) /\ IsSequence(d)
  BY ShortSequences DEF DeferredTwo, InstallBoth, CleanupOf
<1>2. \A s \in {"a", "b"} : <<"irq", s>> \notin board.always /\ <<"clock", s>> \notin board.always
  BY DEF DeferredTwo
<1>3. \A i \in DOMAIN board.mask : board.mask[i].op = "down"
  BY DEF DeferredTwo, Down
<1>4. DOMAIN board.configure = {}
  BY DEF DeferredTwo
<1>5. \A i \in DOMAIN board.install :
        /\ board.install[i].op = "try"
        /\ board.install[i].flag \in {<<"installed", "a">>, <<"installed", "b">>}
  BY DEF DeferredTwo, InstallBoth, Up, Try
<1>6. \A i \in DOMAIN board.enable :
        board.enable[i].op = "up" /\ board.enable[i].flag \in {<<"irq", "a">>, <<"irq", "b">>}
  BY DEF DeferredTwo, Up
<1>7. /\ Len(c) = 3 /\ c[1] = Down("irq", "a") /\ c[2] = Down("installed", "a") /\ c[3] = Forget("a")
      /\ Len(d) = 3 /\ d[1] = Down("irq", "b") /\ d[2] = Down("installed", "b") /\ d[3] = Forget("b")
  BY DEF CleanupOf
<1>8. Joined(f, c, d)
  BY DEF Joined, DeferredTwo
<1> HIDE DEF board, c, d, f
<1>9. /\ IsSequence(f) /\ Len(f) = Len(c) + Len(d)
      /\ \A i \in 1..Len(c) : f[i] = c[i]
      /\ \A i \in 1..Len(c) + Len(d) : i > Len(c) => f[i] = d[i - Len(c)]
  <2>1. IsSequence(c) /\ IsSequence(d)
    BY <1>1
  <2> QED BY <2>1, <1>8, TwoParts
<1>10. DOMAIN f = 1..6
  BY <1>7, <1>9, SequenceFacts
<1>11. /\ f[1] = Down("irq", "a") /\ f[2] = Down("installed", "a")
       /\ f[3] = Forget("a")
       /\ f[4] = Down("irq", "b") /\ f[5] = Down("installed", "b")
       /\ f[6] = Forget("b")
  BY <1>7, <1>9
<1>12. \A s \in {"a", "b"} : ~HookRaises(board, "clock", s)
  BY <1>2, <1>4, <1>5, <1>6 DEF HookRaises, MayRaise
<1>13. \A s \in {"a", "b"} :
         /\ \A flag \in {"irq", "installed"} :
              \E i \in DOMAIN f : f[i] = Down(flag, s)
         /\ \E i \in DOMAIN f : f[i] = Forget(s)
  BY <1>10, <1>11
<1>14. /\ \A i \in DOMAIN board.configure : Prepares(board.configure[i], {"a", "b"})
       /\ \A i \in DOMAIN board.install : Prepares(board.install[i], {"a", "b"})
  BY <1>4, <1>5 DEF Prepares, MayRaise
<1>15. HooksKeepOrder(board, {"a", "b"})
  BY <1>1, <1>2, <1>3, <1>6, <1>9, <1>12, <1>13, <1>14 DEF HooksKeepOrder, f
<1> QED BY <1>15 DEF board

\* The sketches of interrupt-avr.ino and interrupt-esp32.ino keep the order for
\* every capacity of the queue, every budget of a turn and both deliveries.
THEOREM SketchesKeepOrder ==
  ASSUME NEW capacity, NEW budget, NEW delivery \in {"elide", "stream"},
         NEW board \in {DocsAvr(TRUE), DocsEsp(TRUE)}
  PROVE  KeepsOrder(Program(board, FALSE, Motor(delivery), capacity,
                            <<Loop(<<Dispatch(budget), Overrun>>)>>))
<1> DEFINE turn == <<Dispatch(budget), Overrun>>
           body == <<Loop(turn)>>
<1>1. HooksKeepOrder(board, {"motor"})
  BY AvrKeepsOrder, EspKeepsOrder
<1>2. DOMAIN Motor(delivery) = {"motor"} /\ Motor(delivery)["motor"] = delivery
  BY DEF Motor
<1>3. IsSequence(turn) /\ IsSequence(body)
  BY ShortSequences
<1>4. \A k \in DOMAIN turn : turn[k].op \in {"dispatch", "overrun"}
  BY DEF Dispatch, Overrun
<1> HIDE DEF turn
<1>5. \A i \in DOMAIN body : body[i].op = "loop" /\ body[i].body = turn
  BY DEF Loop
<1> HIDE DEF body
<1>6. BodyKeepsOrder(body, {"motor"}, \E s \in DOMAIN Motor(delivery) :
                                        Motor(delivery)[s] \in {"elide", "stream"})
  BY <1>3, <1>4, <1>5 DEF BodyKeepsOrder
<1>7. KeepsOrder(Program(board, FALSE, Motor(delivery), capacity, body))
  BY <1>1, <1>2, <1>6, StartKeepsOrder
<1> QED BY <1>7 DEF body, turn

\* The hooks of every board keep their order, with and without a handler.
THEOREM BoardsKeepOrder ==
  ASSUME NEW on \in BOOLEAN
  PROVE  /\ \A board \in {DocsAvr(on), DocsEsp(on), DocsMock(on), GateMock(on)} :
              HooksKeepOrder(board, {"motor"})
         /\ HooksKeepOrder(DeferredTwo(on), {"a", "b"})
BY AvrKeepsOrder, EspKeepsOrder, MockKeepsOrder, DeferredTwoKeepsOrder
=============================================================================
