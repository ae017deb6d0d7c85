------------------------------ MODULE IrqCases ------------------------------
(* What the boards and the probes of the gates ask of the interrupt           *)
(* allocator, with and without a handler, and the plans that must not pass.   *)
EXTENDS IrqProblems

Status(s) == [status |-> s, plan |-> <<>>, visited |-> -1, about |-> <<>>]
Plan(configurations) == [Status("success") EXCEPT !.plan = configurations]

Unlimited == 1000

Asked(p, events, handled, expected) == Posed(p, events, handled, Unlimited, expected)

\* Each board with its handlers and without.  configure() of a board asserts
\* the configurations it can set up.
AvrCases ==
  UNION {{Asked(p[1], {motor}, handled, Plan(<<p[2]>>)) :
            p \in {<<AvrProblem(FALSE), "normal_period">>,
                   <<AvrProblem(TRUE), "fast_pwm8_period">>,
                   <<AvrGateProblem(FALSE), "normal_period">>,
                   <<AvrGateProblem(TRUE), "fast_pwm8_period">>,
                   <<AvrExampleProblem(FALSE), "normal_period">>,
                   <<AvrExampleProblem(TRUE), "fast_pwm8_period">>}} :
         handled \in {{}, {motor}}}

EspCases ==
  {Asked(p, {motor}, handled, Plan(<<"period_1ms_div80">>)) :
     p \in {EspProblem, EspGateProblem, EspExampleProblem}, handled \in {{}, {motor}}}

\* Without a handler the mock board of the gates takes the PWM-only mode.
MockCases ==
  {Asked(MockExampleProblem, {motor}, handled, Plan(<<"periodic">>)) :
     handled \in {{}, {motor}}}
  \cup {Asked(MockGateProblem(FALSE), {motor}, {motor}, Plan(<<"pwm_period">>)),
        Asked(MockGateProblem(TRUE), {motor}, {motor}, Plan(<<"pwm_period_alt">>)),
        Asked(MockGateProblem(FALSE), {motor}, {}, Plan(<<"pwm_only">>)),
        Asked(DeferredTwoProblem, {a, b}, {a, b}, Plan(<<"periodic", "periodic">>)),
        Asked(DeferredTwoProblem, {a, b}, {a}, Plan(<<"periodic", "periodic">>))}

ProbeCases ==
  {Asked(p, {a, b}, {a, b}, Plan(<<"pwm_period", "period">>)) :
     p \in {probe_problem(FALSE), probe_problem(TRUE)}}
  \cup {Posed(probe_problem(FALSE), {a, b}, {a, b}, 0, Status("exhausted")),
        Asked(conflict_problem, {a, b}, {a, b}, Status("conflict")),
        Asked(reserved_problem, {a, b}, {a, b}, Status("no_candidate")),
        Asked(separated_duplicate_problem, {a}, {a}, Status("duplicate_candidate"))}

\* A source two timers share binds one event, not two.
SharedSourceCases ==
  {Asked(shared_source_problem, {a, b}, {b}, Status("success")),
   Asked(shared_source_problem, {a, b}, {a, b}, Status("conflict"))}

BindingCases ==
  {Asked(one_binding, EventCatalog(modules), {motor}, Status("success")) :
     modules \in {<<Motor, Fan>>, <<Fan, Motor>>}}

Cases == AvrCases \cup EspCases \cup MockCases \cup ProbeCases
         \cup SharedSourceCases \cup BindingCases

----------------------------------------------------------------------------
\* Plans that were tampered with, each with the error validate() names or, where
\* it names none, the check that the plan is in the inventory

\* inventory_probe.cpp
foreign_owner(plan) == [plan EXCEPT ![1].owner = "foreign"]
unoffered_configuration(plan) == [plan EXCEPT ![1].configuration = "not_offered"]
unoffered_selector(plan) == [plan EXCEPT ![1].selector = "not_offered"]
foreign_request(p) == [p EXCEPT !.requests[1].event = 5]
foreign_candidate_owner(p) ==
  [p EXCEPT !.candidates[Len(p.candidates)].owner = "alien"]
shared(plan) == [plan EXCEPT ![1].shared = TRUE]

\* binding_probe.cpp
duplicate(plan) == Append(plan, plan[1])
wrong_event(plan) == [plan EXCEPT ![1].event = fan]
bad_source(plan) == [plan EXCEPT ![1].source = "timer.1"]

\* A plan the allocator made passes, and none of these does.
PlanIsSound(q, plan) ==
  /\ PlanError(q, plan) = "none"
  /\ InInventory(q, q.inventory, plan)
  /\ ~InInventory(q, foreign_request(q.inventory), plan)
  /\ ~InInventory(q, foreign_candidate_owner(q.inventory), plan)
  /\ plan # <<>> =>
       /\ ~InInventory(q, q.inventory, foreign_owner(plan))
       /\ ~InInventory(q, q.inventory, unoffered_configuration(plan))
       /\ ~InInventory(q, q.inventory, unoffered_selector(plan))
       /\ PlanError(q, shared(plan)) = "unsupported_shared_source"
       /\ PlanError(q, duplicate(plan)) = "count_mismatch"
       /\ PlanError(q, wrong_event(plan)) = "unknown_event"
       /\ PlanError(q, bad_source(plan)) = "invalid_source"
=============================================================================
