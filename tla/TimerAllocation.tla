--------------------------- MODULE TimerAllocation ---------------------------
(* The allocators asked what the checks, the boards and the gates ask them:   *)
(* the cases pose the problems, CandidateSearch solves their canonical forms. *)
EXTENDS CandidateSearch, Sequences, SequencesExt

Pwm == INSTANCE PwmCases
Irq == INSTANCE IrqCases

\* The candidate of each request, in the order of the units.
Answer ==
  FlattenSeq([u \in 1..problem.units |->
                [i \in 1..problem.requests[u] |-> problem.names[u][chosen[u]]]])

\* Every check gets the answer it asserts: the status, and where it states
\* them the candidates, the number of candidates tried and the diagnostic.
CasesAnswered ==
  status # "searching" =>
    /\ status = problem.expected.status
    /\ problem.expected.plan # <<>> => Answer = problem.expected.plan
    /\ problem.expected.visited # -1 => visited = problem.expected.visited
    /\ problem.expected.about # <<>> =>
         problem.expected.about = <<problem.key, problem.detail>>

\* The plan of an interrupt problem binds each demanded event to a candidate
\* that was offered for it, no two of them share a timer or a source, and a
\* plan that differs from it in any one of the ways the gates try is refused.
PlansAreSound ==
  (status = "success" /\ "inventory" \in DOMAIN problem) =>
    LET plan == Irq!Bindings(problem, chosen)
    IN  /\ Irq!PlanIsSound(problem, plan)
        /\ {plan[i].event : i \in DOMAIN plan} = problem.demands
        /\ \A i, j \in DOMAIN plan : i # j => plan[i].source # plan[j].source
=============================================================================
