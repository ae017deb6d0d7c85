--------------------------- MODULE RequestOptions ---------------------------
(* The checks of the allocator spell the same request with its options in     *)
(* several orders and expect one configuration.  Here the active options of a *)
(* declaration are folded in every order.                                     *)
EXTENDS RequestConfig, FiniteSets

CONSTANTS
  Declarations,   \* what is declared: target, options, and what the checks
                  \* expect of it: error and window (Unset: not stated)
  Rates           \* the rates a window is asked about

\* Rates and tolerances are unsigned, the unit of a tolerance is not zero, and
\* what stands for an option that is not stated is none of its values.
IsOption(o, target) ==
  \/ o.kind = "rate" /\ o.rate \in Nat \X Nat /\ o.tol \in Nat \X (Nat \ {0})
  \/ o.kind \in {"pin", "waveform", "source"} /\ o.value # Blank[o.kind]
  \/ o.kind = "unknown" /\ ~Covers(o.family, target)

ASSUME OptionsAssumption ==
  /\ \A d \in Declarations : \A i \in DOMAIN d.options : IsOption(d.options[i], d.target)
  /\ Rates \subseteq (Nat \ {0}) \X (Nat \ {0})

VARIABLES
  declared,   \* the declaration
  left,       \* the positions of the active options not folded yet
  config      \* the configuration so far

foldvars == <<declared, left, config>>

\* The positions of the options that are active on the target.
Active == {i \in DOMAIN declared.options :
             Covers(declared.options[i].section, declared.target)}
Option(i) == declared.options[i]

FoldInit ==
  /\ declared \in Declarations
  /\ left = Active
  /\ config = Blank

Fold(i) ==
  /\ config' = Applied(config, Option(i), declared.target)
  /\ left' = left \ {i}
  /\ UNCHANGED declared

FoldNext == \E i \in left : Fold(i)

FoldSpec == FoldInit /\ [][FoldNext]_foldvars

----------------------------------------------------------------------------
\* The declarations of the checks

Declare(target, options, error, window) ==
  [target |-> target, options |-> options, error |-> error, window |-> window]

Only(n, d) == Around(<<n, d>>, <<0, 1>>)

\* static_checks.cpp: sections, targets and repeated rates
PortableDeclarations ==
  {Declare(t, Portable, "none", Only(1000, 1)) : t \in {"atmega328p", "esp32"}}
  \cup {Declare("avr", PoisonOnEsp, "none", Only(1000, 1)),
        Declare("avr", LazyOnEsp, "none", Only(1000, 1)),
        Declare("esp32", PoisonOnEsp, "some", Unset)}

SectionDeclarations ==
  {Declare("esp32", Misplaced, "unsupported_option", Unset),
   Declare("avr", Overlapping, "none", Unset),
   Declare("atmega328p", Overlapping, "conflict", Unset)}

RateDeclarations == {Declare("avr", MultipleRates, "none", Only(1000, 1))}

\* frequency_checks.cpp: a common rate refined per target, or contradicted
CombinedDeclarations ==
  {Declare("avr", o, "none", Only(1000, 1)) : o \in {Combined, CombinedReversed}}
  \cup {Declare("esp32", o, "none", Only(1005, 1)) : o \in {Combined, CombinedReversed}}

ContradictoryDeclarations ==
  {Declare("avr", o, "conflict", Unset) : o \in {Contradictory, ContradictoryReversed}}
  \cup {Declare("esp32", Contradictory, "none", Around(<<1000, 1>>, <<1, 100>>))}

\* Windows that only touch, and ones whose overlap is neither of the two.
OverlapDeclarations ==
  {Declare("avr", Fractional, "none", Only(1, 2)),
   Declare("avr", <<CommonRate, Rate(1005, 1, 5, 1000)>>, "none",
           << <<999975, 1000>>, <<1010, 1>> >>)}

\* The ends of what a window can hold.
MaximumDeclarations ==
  {Declare("avr", <<Rate(1000000, 1, 1, 1)>>, "none", << <<0, 1>>, <<2000000, 1>> >>),
   Declare("avr", <<Rate(1, 1000, 1, 1000)>>, "none",
           << <<999, 1000000>>, <<1001, 1000000>> >>),
   Declare("avr", <<Rate(2, 6, 1, 100)>>, "none", Around(<<1, 3>>, <<1, 100>>)),
   Declare("avr", <<Exact(1, 0)>>, "invalid_value", Unset),
   Declare("avr", <<Rate(1, 1, 1001, 1000)>>, "invalid_value", Unset),
   Declare("avr", <<Exact(0, 1)>>, "invalid_value", Unset)}

\* Three windows in each order, compatible and not.
PermutedDeclarations ==
  {Declare("avr", <<CommonRate, Rate(1005, 1, 5, 1000), Exact(1000, 1)>>,
           "none", Only(1000, 1)),
   Declare("avr", <<Exact(1000, 1), Exact(1001, 1), CommonRate>>, "conflict",
           << <<1001, 1>>, <<1000, 1>> >>)}

\* main(): every two rates with every two tolerances.
PairDeclarations(rates, tolerances) ==
  {[target |-> "avr", error |-> "any", window |-> Unset,
    options |-> <<Rate(l[1], l[2], lt[1], lt[2]), Rate(r[1], r[2], rt[1], rt[2])>>]
     : l \in rates, r \in rates, lt \in tolerances, rt \in tolerances}

----------------------------------------------------------------------------
\* Properties

RateOptions == {i \in Active : Option(i).kind = "rate"}

\* No two options of the same kind disagree, each is known to the target, and
\* each two of the rates have a rate in common.
Consistent ==
  /\ \A i \in Active : Covers(Option(i).family, declared.target)
  /\ \A i \in RateOptions : ValidWindow(Option(i).rate, Option(i).tol)
  /\ \A i, j \in RateOptions :
        AtMost(Around(Option(i).rate, Option(i).tol)[1],
               Around(Option(j).rate, Option(j).tol)[2])
  /\ \A i, j \in Active \ RateOptions :
        Option(i).kind = Option(j).kind => Option(i).value = Option(j).value

\* Whatever the order, a request is in error exactly when its active options
\* contradict each other or the target, and a rate is in its window exactly
\* when it is within the tolerance of each rate that was declared: the
\* comparison main() of frequency_checks.cpp makes.
OrderIsImmaterial ==
  left = {} =>
    /\ (config.error = "none") <=> Consistent
    /\ Consistent /\ RateOptions # {} =>
         \A r \in Rates : InWindow(config.window, r) <=>
           \A i \in RateOptions : Within(r, Option(i).rate, Option(i).tol)

\* Each declaration of the checks has the error and the window they assert.
DeclarationsMeanWhatTheyAssert ==
  left = {} =>
    /\ \/ declared.error = "any"
       \/ declared.error = "some" /\ config.error # "none"
       \/ declared.error = config.error
    /\ declared.window # Unset => SameWindow(config.window, declared.window)
=============================================================================
