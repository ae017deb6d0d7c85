----------------------------- MODULE MCGenerator -----------------------------
(***************************************************************************)
(* The three parts of dev-docs/avr_api_gen.py in one run of TLC: the macro *)
(* sets, the board options and the runs.  They share no state, so a        *)
(* behaviour is one of a single part and leaves the other two as they are. *)
(***************************************************************************)
EXTENDS MacroArchs, BoardOptions, MCApiRuns

\* The files that assign each path at most once, and those with a second line for
\* one path: another value, or the same line again.
Single == {{[path |-> p, value |-> chosen[p], copy |-> 1] :
              p \in {q \in Paths : chosen[q] # None}} :
             chosen \in [Paths -> Values \cup {None}]}
Second(single) == {line \in Lines : line.copy = 2 /\ \E l \in single : l.path = line.path}
MCOptionFiles ==
  Single \cup UNION {{single \cup {line} : line \in Second(single)} : single \in Single}

VARIABLE part

macrosIdle == dump = [a \in Names |-> {}] /\ MacroInit
boardsIdle == file = {} /\ BoardInit

GeneratorInit ==
  \/ part = "macros" /\ boardsIdle /\ MacroInit /\ Init
  \/ part = "boards" /\ BoardInit /\ macrosIdle /\ Init
  \/ part = "runs" /\ boardsIdle /\ macrosIdle /\ Init

GeneratorNext ==
  /\ UNCHANGED part
  /\ \/ part = "macros" /\ MacroNext /\ UNCHANGED <<boardvars, vars>>
     \/ part = "boards" /\ BoardNext /\ UNCHANGED <<macrovars, vars>>
     \/ part = "runs" /\ Next /\ UNCHANGED <<macrovars, boardvars>>

GeneratorSpec == GeneratorInit /\ [][GeneratorNext]_<<part, macrovars, boardvars, vars>>
=============================================================================
