---------------------------- MODULE BoardOptions ----------------------------
(***************************************************************************)
(* boards.txt of the Arduino core, as dev-docs/avr_api_gen.py reads it:    *)
(* OptionsFile loads the lines into a tree and ArduinoBoards traverses the *)
(* tree and gives every board, and every variant of a board in its menu,   *)
(* the build options it finds.  A variant starts as a copy of its board.   *)
(***************************************************************************)
EXTENDS FiniteSets

CONSTANTS
  Tops,      (* the names of boards                                        *)
  Variants,  (* the entries of their menus                                 *)
  Base,      (* stands for no menu entry                                   *)
  Options,   (* the names of build options                                 *)
  Fields,    (* those of them that ArduinoBoardOptions has                 *)
  Values,
  None,      (* Python's None                                              *)
  Copies,    (* tell lines with one text apart                             *)
  OptionFiles (* the files to read, each the set of its lines              *)

\* The paths top.build.option and top.menu.m.variant.build.option.
Paths == [top : Tops, entry : Variants \cup {Base}, option : Options]
Keys == [top : Tops, entry : Variants \cup {Base}]
Lines == [path : Paths, value : Values, copy : Copies]

ASSUME BoardAssumption ==
  /\ Base \notin Variants
  /\ Fields \subseteq Options
  /\ None \notin Values
  /\ OptionFiles \subseteq SUBSET Lines

VARIABLES
  file,     (* the lines of boards.txt that assign a value                 *)
  unread,   (* those not yet read: the lines come in any order             *)
  tree,     (* OptionsNode.value of every path                             *)
  unvisited,(* the values that traverse has not come to                    *)
  boards,   (* ArduinoBoards.boards; made is FALSE for a key not in it     *)
  phase

boardvars == <<file, unread, tree, unvisited, boards, phase>>

Key(p) == [top |-> p.top, entry |-> p.entry]
BaseOf(k) == [top |-> k.top, entry |-> Base]

Absent == [made |-> FALSE, is_base |-> FALSE, has_base |-> FALSE,
           options |-> [f \in Fields |-> None]]

BoardInit ==
  /\ file \in OptionFiles
  /\ unread = file
  /\ tree = [p \in Paths |-> None]
  /\ unvisited = {}
  /\ boards = [k \in Keys |-> Absent]
  /\ phase = "load"

\* OptionsNode.add: it assigns first, and raises if there was a value.
Load(line) ==
  /\ phase = "load"
  /\ unread' = unread \ {line}
  /\ tree' = [tree EXCEPT ![line.path] = line.value]
  /\ phase' = IF tree[line.path] = None THEN phase ELSE "invalid"
  /\ UNCHANGED <<file, unvisited, boards>>

StartTraversal ==
  /\ phase = "load" /\ unread = {}
  /\ unvisited' = {p \in Paths : tree[p] # None}
  /\ phase' = "traverse"
  /\ UNCHANGED <<file, unread, tree, boards>>

\* Mutant: the branches are traversed in the order of the lines.
BeforeUnsorted(q, p) == FALSE

\* traverse visits the branches of a node by name: build before menu.
Before(q, p) == q.top = p.top /\ q.entry = Base /\ p.entry # Base

\* getBoard.
Made(k) ==
  IF boards[k].made THEN boards
  ELSE IF k.entry # Base /\ boards[BaseOf(k)].made
  THEN [boards EXCEPT ![BaseOf(k)].is_base = TRUE,
                      ![k] = [boards[BaseOf(k)] EXCEPT !.is_base = FALSE, !.has_base = TRUE]]
  ELSE [boards EXCEPT ![k].made = TRUE]

\* add_value: the board is made even for an option it has no field for.
Observe(p) ==
  /\ phase = "traverse"
  /\ \A q \in unvisited : ~Before(q, p)
  /\ unvisited' = unvisited \ {p}
  /\ boards' = IF p.option \in Fields
               THEN [Made(Key(p)) EXCEPT ![Key(p)].options[p.option] = tree[p]]
               ELSE Made(Key(p))
  /\ UNCHANGED <<file, unread, tree, phase>>

Finish ==
  /\ phase = "traverse" /\ unvisited = {}
  /\ phase' = "done"
  /\ UNCHANGED <<file, unread, tree, unvisited, boards>>

BoardNext ==
  \/ \E line \in unread : Load(line)
  \/ StartTraversal
  \/ \E p \in unvisited : Observe(p)
  \/ Finish

BoardSpec == BoardInit /\ [][BoardNext]_boardvars

getBoards == {k \in Keys : boards[k].made /\ ~boards[k].is_base}

-----------------------------------------------------------------------------
\* What a key has in the tree, and what its board should have for a field.
Assigned(k) == {p \in Paths : Key(p) = k /\ tree[p] # None}
At(k, f) == [top |-> k.top, entry |-> k.entry, option |-> f]

Inherited(k, f) ==
  IF tree[At(k, f)] # None THEN tree[At(k, f)] ELSE tree[At(BaseOf(k), f)]

\* After some of the values: a board is made of what was observed of it and, for
\* a variant, of all that its board has.
BoardOk(k) ==
  /\ boards[k].made <=> \E p \in Assigned(k) : p \notin unvisited
  /\ boards[k].is_base <=>
       /\ k.entry = Base /\ boards[k].made
       /\ \E v \in Variants : boards[[top |-> k.top, entry |-> v]].made
  /\ boards[k].made /\ k.entry # Base => \A p \in Assigned(BaseOf(k)) : p \notin unvisited
  /\ boards[k].has_base <=> k.entry # Base /\ boards[k].made /\ boards[BaseOf(k)].made
  /\ \A f \in Fields :
       boards[k].options[f] =
         IF ~boards[k].made THEN None
         ELSE IF tree[At(k, f)] # None /\ At(k, f) \notin unvisited THEN tree[At(k, f)]
         ELSE IF k.entry # Base THEN tree[At(BaseOf(k), f)] ELSE None

BoardTypeOK ==
  /\ file \subseteq Lines /\ unread \subseteq file
  /\ tree \in [Paths -> Values \cup {None}]
  /\ unvisited \subseteq {p \in Paths : tree[p] # None}
  /\ boards \in [Keys -> [made : BOOLEAN, is_base : BOOLEAN, has_base : BOOLEAN,
                          options : [Fields -> Values \cup {None}]]]
  /\ phase \in {"load", "invalid", "traverse", "done"}

\* The inductive invariant: the tree is what was read of the file, and the
\* boards are what was seen of the tree.
BoardInv ==
  /\ BoardTypeOK
  /\ phase # "invalid" =>
       /\ \A line \in file \ unread : tree[line.path] = line.value
       /\ \A p \in Paths : tree[p] # None =>
            \E line \in file \ unread : line.path = p /\ line.value = tree[p]
       /\ \A l, m \in file \ unread : l.path = m.path => l = m
  /\ phase = "load" => unvisited = {} /\ boards = [k \in Keys |-> Absent]
  /\ phase \in {"traverse", "done"} => unread = {} /\ \A k \in Keys : BoardOk(k)
  /\ phase = "done" => unvisited = {}

\* Every board ends up with the options that the file assigns to it, and a
\* variant with its board's for the others.
OptionsInherited ==
  phase = "done" =>
    \A k \in Keys : boards[k].made => \A f \in Fields : boards[k].options[f] = Inherited(k, f)

\* getBoards leaves out exactly the boards that have variants.
BasesAreDropped ==
  phase = "done" =>
    getBoards = {k \in Keys : /\ Assigned(k) # {}
                              /\ k.entry = Base => \A v \in Variants :
                                                     Assigned([top |-> k.top, entry |-> v]) = {}}

\* Whatever the order of the lines, the options of a board reach its variants,
\* and getBoards offers these and not the board they vary.
VariantsInherit == OptionsInherited /\ BasesAreDropped

\* Boards are made only of a file that has at most one line for a path, even if
\* two would say the same, and the tree is then the file.
NoneAssignedTwice ==
  phase = "done" =>
    /\ \A l, m \in file : l.path = m.path => l = m
    /\ \A p \in Paths, v \in Values : tree[p] = v <=> \E line \in file : line.path = p /\ line.value = v
=============================================================================
