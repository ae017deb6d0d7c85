------------------------------ MODULE ApiRuns ------------------------------
(***************************************************************************)
(* Runs of dev-docs/avr_api_gen.py, main: the macros of every board are    *)
(* dumped and read back, then headers are written for every architecture   *)
(* of the compiler, and the header that includes them all.  The files stay *)
(* between runs, a run can end anywhere with an exception or be killed,    *)
(* and somebody edits the headers that are meant to be edited.             *)
(*                                                                         *)
(* A file is the number of the run that wrote it and whether it is whole.  *)
(***************************************************************************)
EXTENDS Naturals

CONSTANTS
  Boards,     (* getBoards()                                               *)
  FileNames,  (* the names that getBoardName makes                         *)
  BoardName,  (* getBoardName of each board                                *)
  Archs,      (* architectures the compiler may have device specs for      *)
  NoBoard,    (* no board wrote the file; nothing is being written         *)
  MaxRuns     (* bound on the runs                                         *)

ASSUME RunsAssumption ==
  /\ BoardName \in [Boards -> FileNames]
  /\ NoBoard \notin Boards
  /\ MaxRuns \in Nat

VARIABLES
  run,      (* runs started                                                *)
  pc,       (* what the run does next; idle: it ended early                *)
  todo,     (* boards that process has not come to                         *)
  results,  (* the boards it reports as succeeded                          *)
  read,     (* what Archs.add read for them                                *)
  archs,    (* self.avr_archs                                              *)
  left,     (* those that run_dev_spec has not been called for             *)
  cur,      (* the architecture whose headers are written                  *)
  names,    (* the keys of self.arch_macro_names                           *)
  macros,   (* the files ardo_<board>_macros.h                             *)
  dev,      (* dev_<arch>.h                                                *)
  sup,      (* ardo_supplemental_<arch>.h                                  *)
  hand,     (* ardo_supplemental_<arch>_dev.h                              *)
  parent    (* ardo_sys_avr_mcu_defs.h                                     *)

boardWork == <<todo, results, read>>
specWork == <<archs, left, cur, names>>
files == <<macros, dev, sup, hand, parent>>
vars == <<run, pc, boardWork, specWork, files>>

Whole == [run |-> run, whole |-> TRUE]
Torn == [run |-> run, whole |-> FALSE]
NoFile == [run |-> 0, whole |-> FALSE]
Dump(b) == [run |-> run, whole |-> TRUE, board |-> b]
NoDump == [run |-> 0, whole |-> FALSE, board |-> NoBoard]

\* The braces of a template's namespaces, as written with and without format.
Braces(formatted) == IF formatted THEN "single" ELSE "doubled"

Init ==
  /\ run = 0 /\ pc = "idle"
  /\ todo = {} /\ results = {} /\ read = [b \in Boards |-> NoDump]
  /\ archs = {} /\ left = {} /\ cur = NoBoard /\ names = {}
  /\ macros = [n \in FileNames |-> NoDump]
  /\ dev = [a \in Archs |-> NoFile]
  /\ sup = [a \in Archs |-> NoFile]
  /\ hand = [a \in Archs |-> "absent"]
  /\ parent = [run |-> 0, whole |-> FALSE, names |-> {}, braces |-> "single"]

StartRun ==
  /\ pc \in {"idle", "done"} /\ run < MaxRuns
  /\ run' = run + 1 /\ pc' = "boards"
  /\ todo' = Boards /\ results' = {} /\ names' = {}
  /\ UNCHANGED <<read, archs, left, cur, files>>

-----------------------------------------------------------------------------
(* processAll, and main up to processDeviceSpecs.                          *)

\* Mutant: a board whose compiler failed is reported as well.
RunBoardAnyway(b) ==
  /\ pc = "boards" /\ b \in todo
  /\ todo' = todo \ {b}
  /\ results' = results \cup {b}
  /\ macros' \in {macros, [macros EXCEPT ![BoardName[b]] = Dump(b)]}
  /\ UNCHANGED <<run, pc, read, specWork, dev, sup, hand, parent>>

\* runPreprocIncludes: all three compiler runs succeed and the macros are
\* written, or one fails and the file stays as it is.
RunBoard(b) ==
  /\ pc = "boards" /\ b \in todo
  /\ todo' = todo \ {b}
  /\ \/ /\ macros' = [macros EXCEPT ![BoardName[b]] = Dump(b)]
        /\ results' = results \cup {b}
     \/ UNCHANGED <<macros, results>>
  /\ UNCHANGED <<run, pc, read, specWork, dev, sup, hand, parent>>

\* Archs.add for the results; then the device specs are listed.
ReadBoards ==
  /\ pc = "boards" /\ todo = {}
  /\ read' = [b \in Boards |-> IF b \in results THEN macros[BoardName[b]] ELSE read[b]]
  /\ archs' \in SUBSET Archs /\ left' = archs'
  /\ pc' = "specs"
  /\ UNCHANGED <<run, todo, results, cur, names, files>>

-----------------------------------------------------------------------------
(* processDeviceSpecs.                                                     *)

\* run_dev_spec: both compiler runs and both macro files.
CompileSpec(a) ==
  /\ pc = "specs" /\ a \in left
  /\ left' = left \ {a} /\ cur' = a
  /\ dev' = [dev EXCEPT ![a] = Whole]
  /\ pc' = "sup"
  /\ UNCHANGED <<run, boardWork, archs, names, macros, sup, hand, parent>>

\* DeviceSpecCompilerErrorException.
SpecFails ==
  /\ pc = "specs" /\ left # {}
  /\ pc' = "idle"
  /\ UNCHANGED <<run, boardWork, specWork, files>>

\* writeSupplementalOutput; the compiler may define no name for the architecture.
WriteSup ==
  /\ pc = "sup"
  /\ names' \in {names, names \cup {cur}}
  /\ sup' = [sup EXCEPT ![cur] = Whole]
  /\ pc' = "hand"
  /\ UNCHANGED <<run, boardWork, archs, left, cur, macros, dev, hand, parent>>

\* Mutant: the run goes on with the next architecture.
SupFailsQuietly ==
  /\ pc = "sup"
  /\ names' \in {names, names \cup {cur}}
  /\ sup' = [sup EXCEPT ![cur] = Torn]
  /\ pc' = "hand"
  /\ UNCHANGED <<run, boardWork, archs, left, cur, macros, dev, hand, parent>>

\* __SFR_OFFSET is looked up after the file has been opened.
SupFails ==
  /\ pc = "sup"
  /\ names' \in {names, names \cup {cur}}
  /\ sup' = [sup EXCEPT ![cur] = Torn]
  /\ pc' = "idle"
  /\ UNCHANGED <<run, boardWork, archs, left, cur, macros, dev, hand, parent>>

\* Mutant: it is written in every run.
WriteHandAlways ==
  /\ pc = "hand"
  /\ hand' = [hand EXCEPT ![cur] = "template"]
  /\ pc' = "specs"
  /\ UNCHANGED <<run, boardWork, specWork, macros, dev, sup, parent>>

\* The header for manual changes, if it does not exist.
WriteHand ==
  /\ pc = "hand"
  /\ hand' = IF hand[cur] = "absent" THEN [hand EXCEPT ![cur] = "template"] ELSE hand
  /\ pc' = "specs"
  /\ UNCHANGED <<run, boardWork, specWork, macros, dev, sup, parent>>

\* Mutant: it is written before the last architecture is done.
WriteParentEarly ==
  /\ pc = "specs"
  /\ parent' = [run |-> run, whole |-> TRUE, names |-> names \cup left, braces |-> Braces(FALSE)]
  /\ pc' = "accum"
  /\ UNCHANGED <<run, boardWork, specWork, macros, dev, sup, hand>>

\* writeSupplementalParentFile: its head and tail are not formatted.
WriteParent ==
  /\ pc = "specs" /\ left = {}
  /\ parent' = [run |-> run, whole |-> TRUE, names |-> names, braces |-> Braces(FALSE)]
  /\ pc' = "accum"
  /\ UNCHANGED <<run, boardWork, specWork, macros, dev, sup, hand>>

\* The second Archs reads dev_<arch>.h of all architectures.
ReadSpecs ==
  /\ pc = "accum"
  /\ pc' = "done"
  /\ UNCHANGED <<run, boardWork, specWork, files>>

-----------------------------------------------------------------------------
\* An exception not named above, or a kill: what is being written may be torn.
Die ==
  /\ pc \notin {"idle", "done"}
  /\ pc' = "idle"
  /\ \/ UNCHANGED files
     \/ \E b \in todo :
          /\ pc = "boards"
          /\ macros' = [macros EXCEPT ![BoardName[b]] = [Dump(b) EXCEPT !.whole = FALSE]]
          /\ UNCHANGED <<dev, sup, hand, parent>>
     \/ \E a \in left :
          /\ pc = "specs"
          /\ dev' = [dev EXCEPT ![a] = Torn]
          /\ UNCHANGED <<macros, sup, hand, parent>>
     \/ /\ pc = "sup"
        /\ sup' = [sup EXCEPT ![cur] = Torn]
        /\ UNCHANGED <<macros, dev, hand, parent>>
     \/ /\ pc = "hand" /\ hand[cur] = "absent"
        /\ hand' = [hand EXCEPT ![cur] = "empty"]
        /\ UNCHANGED <<macros, dev, sup, parent>>
     \/ /\ pc = "specs" /\ left = {}
        /\ parent' = [parent EXCEPT !.run = run, !.whole = FALSE]
        /\ UNCHANGED <<macros, dev, sup, hand>>
  /\ UNCHANGED <<run, boardWork, specWork>>

\* Somebody edits the header of an architecture, at any time.
Edit(a) ==
  /\ hand[a] # "absent"
  /\ hand' = [hand EXCEPT ![a] = "edited"]
  /\ UNCHANGED <<run, pc, boardWork, specWork, macros, dev, sup, parent>>

Next ==
  \/ StartRun
  \/ \E b \in Boards : RunBoard(b)
  \/ ReadBoards
  \/ \E a \in Archs : CompileSpec(a) \/ Edit(a)
  \/ SpecFails
  \/ WriteSup
  \/ SupFails
  \/ WriteHand
  \/ WriteParent
  \/ ReadSpecs
  \/ Die

Spec == Init /\ [][Next]_vars

-----------------------------------------------------------------------------
Specs == {"specs", "sup", "hand", "accum", "done"}

Files == [run : 0..MaxRuns, whole : BOOLEAN]
Dumps == [run : 0..MaxRuns, whole : BOOLEAN, board : Boards \cup {NoBoard}]

TypeOK ==
  /\ run \in 0..MaxRuns
  /\ pc \in Specs \cup {"idle", "boards"}
  /\ todo \subseteq Boards /\ results \subseteq Boards
  /\ left \subseteq archs /\ archs \subseteq Archs
  /\ cur \in Archs \cup {NoBoard}
  /\ names \subseteq Archs
  /\ macros \in [FileNames -> Dumps] /\ read \in [Boards -> Dumps]
  /\ dev \in [Archs -> Files] /\ sup \in [Archs -> Files]
  /\ hand \in [Archs -> {"absent", "empty", "template", "edited"}]
  /\ parent \in [run : 0..MaxRuns, whole : BOOLEAN, names : SUBSET Archs,
                 braces : {"single", "doubled"}]

\* What succeeded is accounted for with a whole dump of this run, made by a board
\* of its name that succeeded as well (getBoardName does not make names unique);
\* nothing is read that an earlier run, or a board that failed, has left.
ReadsOwnMacros ==
  pc \in Specs =>
    \A b \in results :
      /\ read[b].run = run /\ read[b].whole
      /\ read[b].board \in results /\ BoardName[read[b].board] = BoardName[b]

\* When a run is done, every architecture of the compiler has a whole header of
\* this run, and the header that includes them names none but these: no run goes
\* on after a header it could not write.
DoneMeansFresh ==
  pc = "done" =>
    /\ \A a \in archs : dev[a] = Whole /\ sup[a] = Whole
    /\ parent.whole /\ parent.run = run
    /\ parent.names \subseteq archs

\* The headers that a whole parent header includes exist, also after later runs
\* that ended early or had other architectures.
IncludesExist ==
  parent.whole => \A a \in parent.names : hand[a] # "absent" /\ sup[a].run # 0

\* A header for manual changes "will not be regenerated" (avr_api_gen.py:886-887):
\* once it exists only an edit changes it, whatever runs and dies in between.  One
\* that a killed run left empty is not completed by a later run either.
ManualChangesSurvive ==
  [][\A a \in Archs : hand[a] # "absent" => hand'[a] \in {hand[a], "edited"}]_vars

\* The inductive invariant.
BoardsInv ==
  /\ pc = "boards" =>
       \A b \in results :
         \E c \in results : BoardName[c] = BoardName[b] /\ macros[BoardName[b]] = Dump(c)
  /\ ReadsOwnMacros

SpecsInv ==
  /\ pc = "boards" => names = {}
  /\ pc \in {"sup", "hand"} => cur \in archs \ left
  /\ pc \in Specs =>
       /\ \A a \in archs \ left :
            /\ dev[a] = Whole
            /\ sup[a] = Whole \/ (pc = "sup" /\ a = cur)
            /\ hand[a] # "absent" \/ (pc \in {"sup", "hand"} /\ a = cur)
       /\ names \subseteq archs \ left
  /\ pc \in {"accum", "done"} =>
       left = {} /\ parent.whole /\ parent.run = run /\ parent.names = names

RunInv ==
  /\ TypeOK
  /\ pc # "idle" => run > 0
  /\ BoardsInv
  /\ SpecsInv
  /\ IncludesExist

\* The parent header says of itself that it makes the namespace of the
\* architecture ardo::sys::avr::mcu (avr_api_gen.py:923): its namespaces have to
\* open with one brace.
ParentAliasesNamespace == parent.whole => parent.braces = "single"
=============================================================================
