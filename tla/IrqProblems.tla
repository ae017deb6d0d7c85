----------------------------- MODULE IrqProblems -----------------------------
(* The interrupt allocation problems of the boards and of the gates: which    *)
(* candidate of a timer serves each event request, which of them bind an      *)
(* interrupt, and what makes a selected plan valid.  Events are numbers in    *)
(* the order of their keys, (alpha and a are 1, beta and b are 2); the        *)
(* snapshot, acknowledge and entry names are left out: they are copied        *)
(* together with the source.                                                  *)
EXTENDS Integers, Sequences, SequencesExt, FiniteSetsExt

a == 1
b == 2
fan == 3
motor == 4

\* The module a key starts with.
Owner(event) == <<"a", "b", "fan", "motor">>[event]

Request(event, pwm) == [event |-> event, pwm |-> pwm]

\* A candidate that gives period events, and one that only gives PWM.
Period(event, configuration, timer, source, selector) ==
  [request |-> event, configuration |-> configuration, timer |-> timer,
   owner |-> Owner(event), source |-> source, selector |-> selector,
   preference |-> 0, pwm |-> FALSE, period |-> TRUE, reserved |-> FALSE]
PwmOnly(event, configuration, timer) ==
  [Period(event, configuration, timer, "", "") EXCEPT !.pwm = TRUE, !.period = FALSE]

Problem(requests, candidates) == [requests |-> requests, candidates |-> candidates]

----------------------------------------------------------------------------
\* The boards.  The copies of a board in the gates have problems of their own.

\* Timer1 of the ATmega328P counts plainly, or drives an 8-bit PWM as well.
AvrProblem(pwmRequired) ==
  LET normal == Period(motor, "normal_period", "timer1", "timer1_ovf", "overflow")
      combined == [normal EXCEPT !.configuration = "fast_pwm8_period", !.pwm = TRUE,
                                 !.preference = 1]
  IN  Problem(<<Request(motor, pwmRequired)>>, <<normal, combined>>)
AvrGateProblem(pwmRequired) == AvrProblem(pwmRequired)
AvrExampleProblem(pwmRequired) == AvrProblem(pwmRequired)

EspProblem ==
  Problem(<<Request(motor, FALSE)>>,
          <<Period(motor, "period_1ms_div80", "tg0_t0", "tg0_t0_alarm", "alarm")>>)
EspGateProblem == EspProblem
EspExampleProblem == EspProblem

MockExampleProblem ==
  Problem(<<Request(motor, FALSE)>>,
          <<Period(motor, "periodic", "mock_timer", "mock_timer", "overflow")>>)

\* Mutant: the candidate belongs to the board.
MockGateProblemOfBoard(differentPlan) ==
  Problem(<<Request(motor, TRUE)>>,
    <<PwmOnly(motor, "pwm_only", "mock_timer0"),
      [Period(motor, IF differentPlan THEN "pwm_period_alt" ELSE "pwm_period",
              "mock_timer0", "mock_timer0", "overflow")
       EXCEPT !.preference = 1, !.pwm = TRUE, !.owner = "mock"]>>)

MockGateProblem(differentPlan) ==
  Problem(<<Request(motor, TRUE)>>,
    <<PwmOnly(motor, "pwm_only", "mock_timer0"),
      [Period(motor, IF differentPlan THEN "pwm_period_alt" ELSE "pwm_period",
              "mock_timer0", "mock_timer0", "overflow")
       EXCEPT !.preference = 1, !.pwm = TRUE]>>)

DeferredTwoProblem ==
  Problem(<<Request(a, FALSE), Request(b, FALSE)>>,
          <<Period(a, "periodic", "timer_a", "source_a", "overflow"),
            Period(b, "periodic", "timer_b", "source_b", "overflow")>>)

----------------------------------------------------------------------------
\* The probes

\* timer_allocator_probe.cpp
probe_problem(reverse) ==
  LET p == Problem(<<Request(a, TRUE), Request(b, FALSE)>>,
             <<PwmOnly(a, "pwm_only", "timer0"),
               [Period(a, "pwm_period", "timer0", "source0", "overflow")
                EXCEPT !.preference = 1, !.pwm = TRUE],
               Period(b, "period", "timer1", "source1", "overflow")>>)
  IN  IF reverse THEN Problem(Reverse(p.requests), Reverse(p.candidates)) ELSE p
conflict_problem == [probe_problem(FALSE) EXCEPT !.candidates[3].timer = "timer0"]
reserved_problem == [probe_problem(FALSE) EXCEPT !.candidates[2].reserved = TRUE]
separated_duplicate_problem ==
  LET first == probe_problem(FALSE).candidates[1]
  IN  Problem(<<Request(a, TRUE)>>,
              <<first, probe_problem(FALSE).candidates[2], [first EXCEPT !.preference = 2]>>)

\* undemanded_source_probe.cpp: two timers raise one interrupt source.
shared_source_problem ==
  Problem(<<Request(a, FALSE), Request(b, FALSE)>>,
          <<Period(a, "period", "timer_a", "shared_source", "overflow"),
            Period(b, "period", "timer_b", "shared_source", "overflow")>>)

\* binding_probe.cpp: what one_binding() binds.
one_binding ==
  Problem(<<Request(motor, FALSE)>>,
          <<Period(motor, "pwm_period", "timer1", "timer1_ovf", "overflow")>>)

\* catalog_probe.cpp: a module has requests, some of them with events, and the
\* catalog of an application holds the events of all its modules.
Motor == << {motor}, {} >>
Fan == << {fan} >>
EventCatalog(modules) == UNION UNION {ToSet(modules[i]) : i \in DOMAIN modules}

\* demand_probe.cpp: an event is demanded when it has a handler.
DemandSet(catalog, handled) == catalog \cap handled

----------------------------------------------------------------------------
\* Selection

Duplicate(p) ==
  \E i, j \in DOMAIN p.candidates :
     i # j /\ p.candidates[i] = [p.candidates[j] EXCEPT !.preference =
                                   p.candidates[i].preference]

\* A candidate serves a request; a demanded event needs its period event.
Eligible(x, request, demands) ==
  /\ x.request = request.event
  /\ request.pwm => x.pwm
  /\ request.event \in demands => x.period
  /\ ~x.reserved

Offers(p, request, demands) ==
  SortSeq(SelectSeq(p.candidates, LAMBDA x : Eligible(x, request, demands)),
          LAMBDA x, y : x.preference < y.preference)

\* Two requests cannot have one timer, and two demanded ones no one source.
Excludes(x, y, demands) ==
  \/ x.timer = y.timer
  \/ {x.request, y.request} \subseteq demands /\ x.source = y.source

\* The canonical form of the problem, in the fields CandidateSearch reads.
Posed(p, catalog, handled, budget, expected) ==
  LET demands == DemandSet(catalog, handled)
      requests == SortSeq(p.requests, LAMBDA r, s : r.event < s.event)
      offers == FoldLeft(LAMBDA os, r : Append(os, Offers(p, r, demands)), <<>>, requests)
      counts == [u \in DOMAIN requests |-> Len(offers[u])]
      refusal == IF Duplicate(p) THEN "duplicate_candidate"
                 ELSE IF 0 \in ToSet(counts) THEN "no_candidate" ELSE "none"
      units == {u \in (DOMAIN requests) \X (DOMAIN requests) : u[1] < u[2]}
      pairs(u) == {x \in (1..counts[u[1]]) \X (1..counts[u[2]]) :
                     Excludes(offers[u[1]][x[1]], offers[u[2]][x[2]], demands)}
  IN  [units |-> Len(requests), options |-> counts, most |-> Max(ToSet(counts)),
       clash |-> UNION {{<<u[1], x[1], u[2], x[2]>> : x \in pairs(u)} : u \in units},
       budget |-> budget, refusal |-> refusal, key |-> 0, detail |-> 0,
       requests |-> [u \in DOMAIN requests |-> 1],
       names |-> [u \in DOMAIN requests |->
                    [i \in DOMAIN offers[u] |-> offers[u][i].configuration]],
       expected |-> expected,
       catalog |-> catalog, demands |-> demands, offers |-> offers, inventory |-> p]

----------------------------------------------------------------------------
\* Plans

\* The bindings of the demanded requests, given the candidate of each.
Bindings(q, picked) ==
  LET units == SelectSeq([u \in 1..q.units |-> u],
                         LAMBDA u : q.offers[u][picked[u]].request \in q.demands)
      bind(x) == [event |-> x.request, owner |-> x.owner, source |-> x.source,
                  configuration |-> x.configuration, selector |-> x.selector,
                  shared |-> FALSE]
  IN  [i \in DOMAIN units |-> bind(q.offers[units[i]][picked[units[i]]])]

\* irq::validate(catalog, demands, plan)
PlanError(q, plan) ==
  LET has(P(_)) == \E i \in DOMAIN plan : P(plan[i])
      foreign(x) == x.event \notin q.demands
      misnamed(x) == x.source \notin {y.source : y \in ToSet(q.inventory.candidates)}
      shared(x) == x.shared
  IN  IF Len(plan) # Cardinality(q.demands) THEN "count_mismatch"
      ELSE IF has(foreign) THEN "unknown_event"
      ELSE IF has(misnamed) THEN "invalid_source"
      ELSE IF has(shared) THEN "unsupported_shared_source"
      ELSE "none"

\* irq::validate_inventory(catalog, problem, plan)
InInventory(q, inventory, plan) ==
  /\ \A r \in ToSet(inventory.requests) : r.event \in q.catalog
  /\ \A x \in ToSet(inventory.candidates) : x.owner = Owner(x.request)
  /\ \A i \in DOMAIN plan : \E x \in ToSet(inventory.candidates) :
        /\ x.request = plan[i].event /\ x.owner = plan[i].owner
        /\ x.configuration = plan[i].configuration
        /\ x.source = plan[i].source /\ x.selector = plan[i].selector
=============================================================================
