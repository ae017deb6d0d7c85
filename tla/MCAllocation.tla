---------------------------- MODULE MCAllocation ----------------------------
(* The allocators as the checks use them: a run either folds the options of a *)
(* declaration or searches the candidates of a problem.                       *)
EXTENDS TimerAllocation, RequestOptions

VARIABLE part   \* "fold" or "search"

\* All the cases of the checks, the oracle's 512 graphs with the requests in
\* every order and the candidates forwards and backwards.
MCPwmCases ==
  Pwm!GreedyCases \cup Pwm!PermutationCases \cup Pwm!PortableCases
  \cup Pwm!DuplicateCases \cup Pwm!SharedCases \cup Pwm!OwnershipCases
  \cup Pwm!FailureCases \cup Pwm!BoundaryCases \cup Pwm!EmptyCases
  \cup Pwm!EnvelopeCases \cup Pwm!RateCases \cup Pwm!AllocationBoundaries
  \cup Pwm!ProbeCases

MCPosed(cases) == {Pwm!Posed(case[1], case[2]) : case \in cases}

MCProblems ==
  MCPosed(MCPwmCases) \cup UNION {MCPosed(Pwm!OracleCases(g)) : g \in Pwm!Graphs}
  \cup Irq!Cases

\* The rates and tolerances of main() of frequency_checks.cpp whose products
\* leave 32 bits are left out.
MCRates == {<<1, 1>>, <<1, 3>>, <<2, 3>>, <<999, 1>>, <<1000, 1>>, <<1001, 1>>,
            <<999, 1000>>, <<1000, 999>>}

MCTolerances == {<<0, 1>>, <<1, 1000>>, <<1, 100>>, <<1, 2>>, <<1, 1>>}

\* The declarations of the checks, and each two windows of a few rates.
MCDeclarations ==
  PortableDeclarations \cup SectionDeclarations \cup RateDeclarations
  \cup CombinedDeclarations \cup ContradictoryDeclarations
  \cup OverlapDeclarations \cup MaximumDeclarations \cup PermutedDeclarations
  \cup PairDeclarations(MCRates, MCTolerances)

NoProblem == [units |-> 0, most |-> 0, options |-> <<>>, budget |-> 0, refusal |-> "none"]
NoSearch ==
  /\ problem = NoProblem /\ depth = 0 /\ chosen = <<>> /\ next = 1
  /\ visited = 0 /\ status = "searching"

NoFold == declared = <<>> /\ left = {0} /\ config = Blank

PartInit ==
  \/ part = "fold" /\ FoldInit /\ NoSearch
  \/ part = "search" /\ SearchInit /\ NoFold

PartNext ==
  /\ UNCHANGED part
  /\ \/ part = "fold" /\ FoldNext /\ UNCHANGED searchvars
     \/ part = "search" /\ SearchNext /\ UNCHANGED foldvars

PartSpec == PartInit /\ [][PartNext]_<<part, searchvars, foldvars>>

\* What static_checks.cpp, frequency_checks.cpp, compile_probe.cpp, the boards
\* and the gates assert of an allocation and of a declaration holds of the
\* search and of the fold.
ChecksAreMet == CasesAnswered /\ DeclarationsMeanWhatTheyAssert
=============================================================================
