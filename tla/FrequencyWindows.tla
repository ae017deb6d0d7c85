-------------------------- MODULE FrequencyWindows --------------------------
(* Rates and the windows of rates a request allows, as frequency_checks.cpp   *)
(* and static_checks.cpp use them.  A rate is a ratio <<n, d>> of Hertz, a    *)
(* tolerance a ratio too (10'000 ppm is <<1, 100>>), and a window is the pair *)
(* of its bounds; Unset is the window of a request that names no rate.        *)
EXTENDS Integers

Ratios == Nat \X (Nat \ {0})

\* r[1] <= r[2] for ratios of any size, without a product that could overflow:
\* the whole parts decide, or else the reciprocals of the remainders.
Compared[r \in Ratios \X Ratios] ==
  LET p == r[1]
      q == r[2]
      whole(x) == x[1] \div x[2]
      rest(x) == x[1] % x[2]
  IN  \/ whole(p) < whole(q)
      \/ /\ whole(p) = whole(q)
         /\ \/ rest(p) = 0
            \/ /\ rest(q) # 0
               /\ Compared[<< <<q[2], rest(q)>>, <<p[2], rest(p)>> >>]

AtMost(p, q) == Compared[<<p, q>>]

Same(p, q) == AtMost(p, q) /\ AtMost(q, p)

Unset == <<>>

\* around(rate, tolerance).valid(): no check goes past its largest rate.
ValidWindow(rate, tol) == rate[1] > 0 /\ rate[2] > 0 /\ tol[1] <= tol[2]

\* The rates within the tolerance of a rate.
Around(rate, tol) ==
  << <<rate[1] * (tol[2] - tol[1]), rate[2] * tol[2]>>,
     <<rate[1] * (tol[2] + tol[1]), rate[2] * tol[2]>> >>

Intersect(v, w) ==
  IF v = Unset THEN w
  ELSE IF w = Unset THEN v
  ELSE << IF AtMost(v[1], w[1]) THEN w[1] ELSE v[1],
          IF AtMost(v[2], w[2]) THEN v[2] ELSE w[2] >>

EmptyWindow(w) == w # Unset /\ ~AtMost(w[1], w[2])

SameWindow(v, w) ==
  \/ v = Unset /\ w = Unset
  \/ v # Unset /\ w # Unset /\ Same(v[1], w[1]) /\ Same(v[2], w[2])

\* A candidate's rate must be positive and inside; an unset window has none.
InWindow(w, rate) ==
  w # Unset /\ rate[1] > 0 /\ AtMost(w[1], rate) /\ AtMost(rate, w[2])

\* Mutant: the error is taken relative to the rate that was produced.
WithinOfActual(actual, rate, tol) ==
  LET difference == actual[1] * rate[2] - rate[1] * actual[2]
      error == IF difference < 0 THEN -difference ELSE difference
  IN  AtMost(<<error, actual[1] * rate[2]>>, tol)

\* The relative error of a rate, without building the window.
Within(actual, rate, tol) ==
  LET difference == actual[1] * rate[2] - rate[1] * actual[2]
      error == IF difference < 0 THEN -difference ELSE difference
  IN  AtMost(<<error, rate[1] * actual[2]>>, tol)
=============================================================================
