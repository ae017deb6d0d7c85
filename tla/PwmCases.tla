------------------------------ MODULE PwmCases ------------------------------
(* The cases of static_checks.cpp, frequency_checks.cpp, compile_probe.cpp    *)
(* and oracle_checks.cpp: each problem with the answer the check asserts.     *)
EXTENDS PwmProblems

\* An expected answer; a part a check does not state is left open.
Status(s) == [status |-> s, plan |-> <<>>, visited |-> -1, about |-> <<>>]
Plan(candidates) == [Status("success") EXCEPT !.plan = candidates]
Visits(expected, n) == [expected EXCEPT !.visited = n]
Diagnostic(s, key, detail) == [Status(s) EXCEPT !.about = <<key, detail>>]

\* A problem with the answer expected of it.
Case(p, expected) == <<p, expected>>

Reversed(p) ==
  [p EXCEPT !.requests = Reverse(@), !.candidates = Reverse(@)]

----------------------------------------------------------------------------
\* static_checks.cpp

GreedyCases ==
  {Case(greedy, Visits(Plan(<<2, 3>>), 4)),
   Case([greedy EXCEPT !.budget = 3], Status("exhausted")),
   Case([greedy EXCEPT !.budget = 4], Plan(<<2, 3>>)),
   Case([greedy EXCEPT !.budget = 0], Status("exhausted"))}

PermutationCases ==
  {Case(Reversed(greedy), [Visits(Plan(<<2, 3>>), 4) EXCEPT !.about = <<0, 0>>])}

\* The same portable request on two targets, and one with an inactive section
\* that must not be looked at.
motor == 4
portable_candidates ==
  <<choice(1, motor, 1, 101), [choice(2, motor, 2, 102) EXCEPT !.source = "apb"]>>
On(target, options) ==
  Problem(<<InstanceOn(target, motor, options)>>, portable_candidates)
PortableCases ==
  {Case(On("atmega328p", Portable), Plan(<<1>>)),
   Case(On("esp32", Portable), Plan(<<2>>)),
   Case(On("avr", LazyOnEsp), Plan(<<1>>))}

\* The identity of a request is looked at before what it asks.
DuplicateCases ==
  LET erring == [greedy EXCEPT
        !.requests = <<[A EXCEPT !.config.error = "invalid_value"],
                       [B EXCEPT !.key = a, !.config.error = "unsupported_option"]>>]
      types == [greedy EXCEPT !.requests = <<A, Instance(a, <<Unknown>>, 0)>>]
  IN  {Case(p, Diagnostic("duplicate_identity", a, 2)) :
         p \in {erring, Reversed(erring), types}}

SharedCases == {Case(sharing, Plan(<<1, 1>>)), Case(domains, Plan(<<1, 3>>))}

\* Requests that share a timer: its outputs, its reservation, its rate.
OwnershipCases ==
  LET swapped == [sharing EXCEPT !.candidates[1].endpoints = Reverse(@),
                                 !.requests = Reverse(@)]
      coupled == [swapped EXCEPT !.candidates[1].independent = FALSE]
  IN  {Case(swapped, Status("success")),
       Case([swapped EXCEPT !.reserved = {11}], Diagnostic("reserved", a, 11)),
       Case(coupled, Status("no_candidate")),
       Case([sharing EXCEPT !.candidates[1].endpoints[2].channel = 11], Status("model_error")),
       Case([sharing EXCEPT !.candidates[1].endpoints[2].pin = 101], Status("model_error")),
       Case([sharing EXCEPT !.requests[2].config.window = Around(<<2000, 1>>, <<0, 1>>)],
             Status("no_candidate"))}

FailureCases ==
  {Case([greedy EXCEPT !.candidates[2].timer = 1,
                        !.candidates[2].endpoints[1].channel = 11], Status("conflict")),
   Case([greedy EXCEPT !.candidates[2].key = 1], Status("model_error")),
   Case([greedy EXCEPT !.resources = (@ \ {Resource(1, 0, "timer")})
                                      \cup {Resource(1, 11, "timer")}],
         Status("model_error")),
   Case([greedy EXCEPT !.requests[1].config.pin = 999], Status("model_error")),
   Case([domains EXCEPT !.candidates[3].setting = 64], Status("conflict")),
   Case([domains EXCEPT !.candidates[3].setting = 64, !.reserved = {201}],
         Status("reserved"))}

\* A reserved channel takes the whole timer; one pin on two timers; a
\* reservation within another.
BoundaryCases ==
  LET other == [greedy EXCEPT !.candidates[1].endpoints[1].channel = 12,
                              !.candidates[3].endpoints[1].channel = 12]
      onePin == [domains EXCEPT !.requests[2].config.pin = 101,
                                !.candidates[2].endpoints[1].pin = 101,
                                !.candidates[3].endpoints[1].pin = 101]
  IN  {Case([other EXCEPT !.reserved = {11}], Status("reserved")),
       Case(onePin, Status("conflict")),
       Case([other EXCEPT !.reserved = {1, 11}], Status("model_error"))}

EmptyCases == {Case([Problem(<<>>, <<>>) EXCEPT !.budget = 0], Status("success"))}

\* Eight requests, eight timers, no search.
EnvelopeCases ==
  LET n == 1..8
      p == [Problem([i \in n |-> Instance(i, Basic(100 + i), 0)],
                    [i \in n |-> choice(i, i, i, 100 + i)])
            EXCEPT !.resources = {Resource(i, 0, "timer") : i \in n}
                                 \cup {Resource(i * 10 + 1, i, "channel") : i \in n}
                                 \cup {Resource(100 + i, 0, "pin") : i \in n}]
  IN  {Case(p, Visits(Status("success"), 8))}

----------------------------------------------------------------------------
\* frequency_checks.cpp

\* One timer that runs at either of two rates.
candidates ==
  <<choice(1, a, 1, 101),
    [choice(2, a, 1, 101) EXCEPT !.configuration = 2, !.frequency = <<1005, 1>>]>>
AskedOn(target, options) == Problem(<<InstanceOn(target, a, options)>>, candidates)
RateCases ==
  {Case(AskedOn("avr", Combined), Plan(<<1>>)),
   Case(AskedOn("esp32", Combined), Plan(<<2>>)),
   Case(AskedOn("avr", Contradictory), Diagnostic("invalid_request", a, "conflict")),
   Case(AskedOn("avr", ContradictoryReversed), Diagnostic("invalid_request", a, "conflict"))}

\* A shared timer must suit every member; a window that no candidate meets is
\* not a contradiction.
AllocationBoundaries ==
  LET exactly(r) == Around(<<r, 1>>, <<0, 1>>)
      both(r) == [sharing EXCEPT
                    !.requests[1].config.window = Around(<<1000, 1>>, <<1, 100>>),
                    !.requests[2].config.window = exactly(r),
                    !.candidates[1].frequency = <<r, 1>>]
  IN  {Case(both(1005), Status("success")),
       Case(both(1020), Status("no_candidate")),
       Case([greedy EXCEPT !.requests[1].config.window = Around(<<1, 2>>, <<0, 1>>)],
             Status("no_candidate"))}

\* compile_probe.cpp: one case for every status.
ProbeCases ==
  {Case(greedy, Status("success")),
   Case([greedy EXCEPT !.requests[2].key = a], Status("duplicate_identity")),
   Case([greedy EXCEPT !.candidates[2].timer = 1,
                        !.candidates[2].endpoints[1].channel = 11], Status("conflict")),
   Case([greedy EXCEPT !.requests[1].config.window = Around(<<2000, 1>>, <<0, 1>>)],
         Status("no_candidate")),
   Case([greedy EXCEPT !.candidates[2].key = 1], Status("model_error")),
   Case([greedy EXCEPT !.budget = 1], Status("exhausted")),
   Case([greedy EXCEPT !.reserved = {1}], Status("reserved")),
   Case([greedy EXCEPT !.requests = <<Instance(a, Contradictory, 0), B>>],
         Diagnostic("invalid_request", a, "conflict"))}

----------------------------------------------------------------------------
\* oracle_checks.cpp: three requests, three timers, every graph of which timer
\* suits which request, every order of the input.

\* The assignment the three loops find first, if there is one.
OracleAnswer(edges) ==
  LET found == {f \in [1..3 -> 1..3] :
                  /\ \A r \in 1..3 : <<r, f[r]>> \in edges
                  /\ \A r, s \in 1..3 : r # s => f[r] # f[s]}
      place(f) == f[1] * 9 + f[2] * 3 + f[3]
      stranded == {r \in 1..3 : \A t \in 1..3 : <<r, t>> \notin edges}
      first == CHOOSE f \in found : \A g \in found : place(f) <= place(g)
  IN  IF found # {} THEN Plan([r \in 1..3 |-> (r - 1) * 3 + first[r]])
      ELSE IF stranded # {} THEN Diagnostic("no_candidate", Min(stranded), 0)
      ELSE Diagnostic("conflict", 0, 0)

\* A timer that does not suit a request runs at another rate.
OracleProblem(edges, order, backwards) ==
  LET offer(i) == LET r == ((i - 1) \div 3) + 1
                      t == ((i - 1) % 3) + 1
                      suited == choice(i, r, t, 100 + r)
                  IN  IF <<r, t>> \in edges THEN suited
                      ELSE [suited EXCEPT !.frequency = <<1001, 1>>, !.configuration = 2]
      indices == <<1, 2, 3, 4, 5, 6, 7, 8, 9>>
      all == <<A, B, C>>
  IN  Problem(FoldLeft(LAMBDA s, i : Append(s, all[order[i]]), <<>>, <<1, 2, 3>>),
              FoldLeft(LAMBDA s, i : Append(s, offer(i)), <<>>,
                       IF backwards THEN Reverse(indices) ELSE indices))

\* The requests in every order, the candidates forwards and backwards.
Inputs ==
  {g \in [1..3 -> 1..3] : \A i, j \in 1..3 : i # j => g[i] # g[j]} \X BOOLEAN

OracleCases(edges) ==
  LET answer == OracleAnswer(edges)
  IN  {Case(OracleProblem(edges, input[1], input[2]), answer) : input \in Inputs}

Graphs == SUBSET ((1..3) \X (1..3))
=============================================================================
