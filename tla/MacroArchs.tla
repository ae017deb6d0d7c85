----------------------------- MODULE MacroArchs -----------------------------
(***************************************************************************)
(* Archs of dev-docs/avr_api_gen.py: the macro dumps of all architectures  *)
(* are read one after the other, the macro pairs (name, value) are grouped *)
(* by the architectures that define them, and process() folds the groups   *)
(* into id_maps and macro_table.  process sorts the groups; here they come *)
(* in any order, so that the results are shown not to depend on it.        *)
(***************************************************************************)
EXTENDS FiniteSets

CONSTANTS
  Names,  (* the architectures or boards                                   *)
  Pairs   (* macro pairs: a name with a value                              *)

VARIABLES
  dump,         (* the files: the pairs that each architecture defines     *)
  unadded,      (* the architectures not yet added                         *)
  macro_pairs,  (* MacroPair.mcu_archs of each pair                        *)
  grouped,      (* process has made the groups                             *)
  togo,         (* the groups its second loop has not come to              *)
  id_maps,      (* empty for a key that is absent                          *)
  macro_table

macrovars == <<dump, unadded, macro_pairs, grouped, togo, id_maps, macro_table>>

MacroInit ==
  /\ dump \in [Names -> SUBSET Pairs]
  /\ unadded = Names
  /\ macro_pairs = [p \in Pairs |-> {}]
  /\ grouped = FALSE
  /\ togo = {}
  /\ id_maps = [a \in Names |-> {}]
  /\ macro_table = [a \in Names |-> {}]

\* Archs.add: the dump is parsed line by line into macro_pairs.
Add(a) ==
  /\ a \in unadded
  /\ unadded' = unadded \ {a}
  /\ macro_pairs' =
       [p \in Pairs |-> IF p \in dump[a] THEN macro_pairs[p] \cup {a} ELSE macro_pairs[p]]
  /\ UNCHANGED <<dump, grouped, togo, id_maps, macro_table>>

\* The ArchSet of a pair: all pairs defined by the same architectures.
ArchSet(p) == [archs |-> macro_pairs[p],
               pairs |-> {q \in Pairs : macro_pairs[q] = macro_pairs[p]}]

\* process, its first loop.
Group ==
  /\ unadded = {}
  /\ ~grouped
  /\ grouped' = TRUE
  /\ togo' = {ArchSet(p) : p \in {q \in Pairs : macro_pairs[q] # {}}}
  /\ UNCHANGED <<dump, unadded, macro_pairs, id_maps, macro_table>>

\* Mutant: the first group decides.
IntersectFirst(a, archs) == IF id_maps[a] = {} THEN archs ELSE id_maps[a]

Intersect(a, archs) == IF id_maps[a] = {} THEN archs ELSE id_maps[a] \cap archs

TableEntry(a, set) == macro_table[a] \cup {set}

\* One turn of its second loop.
Process(set) ==
  /\ togo' = togo \ {set}
  /\ id_maps' =
       [a \in Names |-> IF a \in set.archs THEN Intersect(a, set.archs) ELSE id_maps[a]]
  /\ macro_table' =
       [a \in Names |-> IF a \in set.archs THEN TableEntry(a, set) ELSE macro_table[a]]
  /\ UNCHANGED <<dump, unadded, macro_pairs, grouped>>

MacroNext ==
  \/ \E a \in Names : Add(a)
  \/ Group
  \/ \E set \in togo : Process(set)

MacroSpec == MacroInit /\ [][MacroNext]_macrovars

-----------------------------------------------------------------------------
\* The inductive invariant: after some of the groups, id_maps has the
\* architectures that define everything the groups so far say of the key.
Seen(a) == UNION {set.pairs : set \in macro_table[a]}

FoldInv ==
  /\ dump \in [Names -> SUBSET Pairs]
  /\ macro_pairs = [p \in Pairs |-> {a \in Names \ unadded : p \in dump[a]}]
  /\ unadded \subseteq Names
  /\ id_maps \in [Names -> SUBSET Names]
  /\ ~grouped => togo = {} /\ \A a \in Names : id_maps[a] = {} /\ macro_table[a] = {}
  /\ grouped =>
       /\ unadded = {}
       /\ \A set \in togo : \E p \in Pairs : macro_pairs[p] # {} /\ set = ArchSet(p)
       /\ \A a \in Names :
            /\ Seen(a) = {p \in dump[a] : ArchSet(p) \notin togo}
            /\ \A set \in macro_table[a] : \E p \in dump[a] : set = ArchSet(p)
            /\ IF Seen(a) = {} THEN id_maps[a] = {}
                               ELSE id_maps[a] = {b \in Names : Seen(a) \subseteq dump[b]}

\* When process is done, id_maps[a] is the set of the architectures that define
\* everything a defines, in whatever order files and groups came.
MapsAreSupersets ==
  grouped /\ togo = {} =>
    \A a \in Names :
      id_maps[a] = IF dump[a] = {} THEN {} ELSE {b \in Names : dump[a] \subseteq dump[b]}

\* macro_table[a] has every pair of a exactly once.
TablePartitions ==
  grouped /\ togo = {} =>
    \A a \in Names :
      /\ Seen(a) = dump[a]
      /\ \A s, t \in macro_table[a] : s.pairs \cap t.pairs # {} => s = t
=============================================================================
