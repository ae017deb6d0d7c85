--------------------------- MODULE GeneratorProofs ---------------------------
(* Proofs about the AVR API generator: the macro sets of any dumps, in any   *)
(* order of files and groups; the boards of any options file; and what its   *)
(* runs leave behind, for any boards, architectures and number of runs.      *)
EXTENDS MacroArchs, BoardOptions, ApiRuns, TLAPS

\* Two pairs are in one group exactly if the same architectures define them.
LEMMA SameGroup ==
  ASSUME NEW p \in Pairs, NEW q \in Pairs
  PROVE  (ArchSet(p) = ArchSet(q)) <=> (macro_pairs[p] = macro_pairs[q])
BY DEF ArchSet

\* A turn of the second loop, for the architectures in the group.
LEMMA Folded ==
  ASSUME FoldInv, NEW p \in Pairs, ArchSet(p) \in togo, Process(ArchSet(p)),
         NEW a \in macro_pairs[p]
  PROVE  /\ a \in Names /\ p \in dump[a]
         /\ Seen(a)' = Seen(a) \cup ArchSet(p).pairs
         /\ Seen(a)' = {q \in dump[a] : ArchSet(q) \notin togo'}
         /\ id_maps'[a] = {b \in Names : Seen(a)' \subseteq dump[b]}
<1>1. grouped /\ unadded = {} /\ a \in Names /\ p \in dump[a] /\ dump[a] \subseteq Pairs
  BY DEF FoldInv
<1>2. \A q \in Pairs : macro_pairs[q] = {b \in Names : q \in dump[b]}
  BY <1>1 DEF FoldInv
<1>3. Seen(a)' = Seen(a) \cup ArchSet(p).pairs
  BY <1>1 DEF Process, Seen, TableEntry, ArchSet
<1>4. /\ Seen(a) = {q \in dump[a] : ArchSet(q) \notin togo}
      /\ IF Seen(a) = {} THEN id_maps[a] = {}
                         ELSE id_maps[a] = {b \in Names : Seen(a) \subseteq dump[b]}
  BY <1>1 DEF FoldInv
<1>5. ArchSet(p).pairs = {q \in Pairs : macro_pairs[q] = macro_pairs[p]}
  BY DEF ArchSet
<1>6. Seen(a)' = {q \in dump[a] : ArchSet(q) \notin togo'}
  <2>1. \A q \in Pairs : ArchSet(q) \notin togo' <=>
                           (ArchSet(q) \notin togo \/ macro_pairs[q] = macro_pairs[p])
    BY SameGroup DEF Process
  <2>2. \A q \in Pairs : macro_pairs[q] = macro_pairs[p] => q \in dump[a]
    BY <1>1, <1>2
  <2> QED
    BY <1>1, <1>3, <1>4, <1>5, <2>1, <2>2
<1>7. p \in ArchSet(p).pairs
  BY <1>5
<1>8. \A b \in Names : b \in macro_pairs[p] <=> ArchSet(p).pairs \subseteq dump[b]
  BY <1>2, <1>5, <1>7
<1>9. Seen(a) # {} => id_maps[a] # {}
  BY <1>1, <1>4
<1>10. id_maps'[a] = Intersect(a, macro_pairs[p])
  BY <1>1 DEF Process, ArchSet
<1>11. macro_pairs[p] \subseteq Names
  BY <1>2
<1>12. id_maps'[a] = {b \in Names : Seen(a)' \subseteq dump[b]}
  <2>1. CASE Seen(a) = {}
    BY <2>1, <1>3, <1>4, <1>8, <1>10, <1>11 DEF Intersect
  <2>2. CASE Seen(a) # {}
    BY <2>2, <1>3, <1>4, <1>8, <1>9, <1>10, <1>11 DEF Intersect
  <2> QED
    BY <2>1, <2>2
<1> QED
  BY <1>1, <1>3, <1>6, <1>12

\* The invariant of the fold.
THEOREM FoldInvariant == MacroSpec => []FoldInv
<1>1. MacroInit => FoldInv
  BY DEF MacroInit, FoldInv
<1>2. FoldInv /\ [MacroNext]_macrovars => FoldInv'
  <2> SUFFICES ASSUME FoldInv, [MacroNext]_macrovars PROVE FoldInv'
    OBVIOUS
  <2>1. CASE UNCHANGED macrovars
    <3>1. \A a \in Names : Seen(a)' = Seen(a)
      BY <2>1 DEF macrovars, Seen
    <3>2. \A p \in Pairs : ArchSet(p)' = ArchSet(p)
      BY <2>1 DEF macrovars, ArchSet
    <3>3. \A a \in Names : dump[a] \subseteq Pairs
      BY DEF FoldInv
    <3> QED
      BY <2>1, <3>1, <3>2, <3>3 DEF macrovars, FoldInv
  <2>2. ASSUME NEW a \in Names, Add(a) PROVE FoldInv'
    <3>1. macro_pairs' = [p \in Pairs |-> {b \in Names \ unadded' : p \in dump'[b]}]
      BY <2>2 DEF Add, FoldInv
    <3>2. ~grouped
      BY <2>2 DEF Add, FoldInv
    <3> QED
      BY <2>2, <3>1, <3>2 DEF Add, FoldInv
  <2>3. CASE Group
    <3>1. \A a \in Names : Seen(a)' = {}
      BY <2>3 DEF Group, FoldInv, Seen
    <3>2. \A a \in Names : dump[a] \subseteq Pairs /\ \A p \in dump[a] : a \in macro_pairs[p]
      BY <2>3 DEF Group, FoldInv
    <3>3. \A p \in Pairs : ArchSet(p)' = ArchSet(p)
      BY <2>3 DEF Group, ArchSet
    <3>4. \A a \in Names : {p \in dump[a] : ArchSet(p)' \notin togo'} = {}
      BY <2>3, <3>2, <3>3 DEF Group
    <3> QED
      BY <2>3, <3>1, <3>3, <3>4 DEF Group, FoldInv
  <2>4. ASSUME NEW set \in togo, Process(set) PROVE FoldInv'
    <3>1. grouped /\ unadded = {}
      BY <2>4 DEF FoldInv
    <3>2. PICK p \in Pairs : macro_pairs[p] # {} /\ set = ArchSet(p)
      BY <3>1 DEF FoldInv
    <3>3. \A q \in Pairs : ArchSet(q)' = ArchSet(q)
      BY <2>4 DEF Process, ArchSet
    <3>4. set.archs = macro_pairs[p]
      BY <3>2 DEF ArchSet
    <3>5. ASSUME NEW a \in Names
          PROVE  /\ Seen(a)' = {q \in dump[a] : ArchSet(q) \notin togo'}
                 /\ \A s \in macro_table'[a] : \E q \in dump[a] : s = ArchSet(q)
                 /\ IF Seen(a)' = {} THEN id_maps'[a] = {}
                                     ELSE id_maps'[a] = {b \in Names : Seen(a)' \subseteq dump[b]}
                 /\ id_maps'[a] \subseteq Names
      <4>1. CASE a \in macro_pairs[p]
        <5>1. /\ p \in dump[a] /\ Seen(a)' = Seen(a) \cup ArchSet(p).pairs
              /\ Seen(a)' = {q \in dump[a] : ArchSet(q) \notin togo'}
              /\ id_maps'[a] = {b \in Names : Seen(a)' \subseteq dump[b]}
          BY <2>4, <3>2, <4>1, Folded
        <5>2. p \in ArchSet(p).pairs
          BY DEF ArchSet
        <5>3. macro_table'[a] = macro_table[a] \cup {set}
          BY <2>4, <3>4, <4>1 DEF Process, TableEntry
        <5> QED
          BY <3>1, <3>2, <5>1, <5>2, <5>3 DEF FoldInv
      <4>2. CASE a \notin macro_pairs[p]
        <5>1. macro_table'[a] = macro_table[a] /\ id_maps'[a] = id_maps[a]
          BY <2>4, <3>4, <4>2 DEF Process
        <5>2. Seen(a)' = Seen(a)
          BY <5>1 DEF Seen
        <5>3. \A q \in dump[a] : q \in Pairs /\ a \in macro_pairs[q]
          BY <3>1 DEF FoldInv
        <5>4. \A q \in dump[a] : ArchSet(q) \notin togo' <=> ArchSet(q) \notin togo
          BY <2>4, <3>2, <4>2, <5>3, SameGroup DEF Process
        <5>5. /\ Seen(a) = {q \in dump[a] : ArchSet(q) \notin togo}
              /\ \A s \in macro_table[a] : \E q \in dump[a] : s = ArchSet(q)
              /\ IF Seen(a) = {} THEN id_maps[a] = {}
                                 ELSE id_maps[a] = {b \in Names : Seen(a) \subseteq dump[b]}
              /\ id_maps[a] \subseteq Names
          BY <3>1 DEF FoldInv
        <5> QED
          BY <5>1, <5>2, <5>4, <5>5
      <4> QED
        BY <4>1, <4>2
    <3>6. dump' = dump /\ macro_pairs' = macro_pairs /\ unadded' = unadded /\ grouped' = grouped
          /\ togo' \subseteq togo
      BY <2>4 DEF Process
    <3>7. \A a \in Names : dump[a] \subseteq Pairs
      BY DEF FoldInv
    <3>8. id_maps' \in [Names -> SUBSET Names]
      BY <2>4, <3>5 DEF Process
    <3> QED
      BY <3>1, <3>3, <3>5, <3>6, <3>7, <3>8 DEF FoldInv
  <2> QED
    BY <2>1, <2>2, <2>3, <2>4 DEF MacroNext
<1> QED
  BY <1>1, <1>2, PTL DEF MacroSpec

\* id_maps has the architectures that define everything its key defines.
THEOREM MapsHoldSupersets == MacroSpec => []MapsAreSupersets
<1>1. FoldInv => MapsAreSupersets
  BY DEF FoldInv, MapsAreSupersets
<1> QED
  BY <1>1, FoldInvariant, PTL

\* macro_table[a] has every pair of a exactly once.
THEOREM TablesPartition == MacroSpec => []TablePartitions
<1>1. FoldInv => TablePartitions
  <2> SUFFICES ASSUME FoldInv, grouped, togo = {}, NEW a \in Names
               PROVE  /\ Seen(a) = dump[a]
                      /\ \A s, t \in macro_table[a] : s.pairs \cap t.pairs # {} => s = t
    BY DEF TablePartitions
  <2>1. Seen(a) = dump[a] /\ dump[a] \subseteq Pairs
    BY DEF FoldInv
  <2>2. \A s \in macro_table[a] : \E q \in dump[a] : s = ArchSet(q)
    BY DEF FoldInv
  <2> QED
    BY <2>1, <2>2 DEF ArchSet
<1> QED
  BY <1>1, FoldInvariant, PTL

-----------------------------------------------------------------------------
LEMMA KeyFacts ==
  /\ \A p \in Paths : Key(p) \in Keys /\ p = At(Key(p), p.option) /\ p.option \in Options
  /\ \A k \in Keys : BaseOf(k) \in Keys /\ BaseOf(k).entry = Base /\ BaseOf(k).top = k.top
  /\ \A k \in Keys, f \in Fields : At(k, f) \in Paths /\ Key(At(k, f)) = k /\ At(k, f).option = f
  /\ \A k \in Keys : k.entry = Base => BaseOf(k) = k
  /\ \A k \in Keys, v \in Variants : [top |-> k.top, entry |-> v] \in Keys
  /\ \A k, m \in Keys : BaseOf(k) = BaseOf(m) <=> k.top = m.top
  /\ \A k \in Keys : k.entry # Base => k.entry \in Variants /\ k = [top |-> k.top, entry |-> k.entry]
  /\ \A k \in Keys : k.entry \in Variants => k.entry # Base
BY BoardAssumption DEF Paths, Keys, Key, BaseOf, At

Board == [made : BOOLEAN, is_base : BOOLEAN, has_base : BOOLEAN,
          options : [Fields -> Values \cup {None}]]

\* getBoard makes a copy if there is a base and the board is new.
Copied(k) == ~boards[k].made /\ k.entry # Base /\ boards[BaseOf(k)].made

LEMMA MadeStep ==
  ASSUME boards \in [Keys -> Board], NEW k0 \in Keys
  PROVE  /\ Made(k0) \in [Keys -> Board] /\ Made(k0)[k0].made
         /\ \A k \in Keys : k # k0 /\ k # BaseOf(k0) => Made(k0)[k] = boards[k]
         /\ ~Copied(k0) =>
              /\ \A k \in Keys : k # k0 => Made(k0)[k] = boards[k]
              /\ Made(k0)[k0].is_base = boards[k0].is_base
              /\ Made(k0)[k0].has_base = boards[k0].has_base
              /\ Made(k0)[k0].options = boards[k0].options
         /\ Copied(k0) =>
              /\ Made(k0)[BaseOf(k0)].made /\ Made(k0)[BaseOf(k0)].is_base
              /\ Made(k0)[BaseOf(k0)].has_base = boards[BaseOf(k0)].has_base
              /\ Made(k0)[BaseOf(k0)].options = boards[BaseOf(k0)].options
              /\ ~Made(k0)[k0].is_base /\ Made(k0)[k0].has_base
              /\ Made(k0)[k0].options = boards[BaseOf(k0)].options
<1>. DEFINE b0 == BaseOf(k0)
<1>1. b0 \in Keys
  BY KeyFacts
<1>2. CASE boards[k0].made
  <2>1. Made(k0) = boards /\ ~Copied(k0)
    BY <1>2 DEF Made, Copied
  <2> QED
    BY <1>2, <2>1
<1>3. CASE Copied(k0)
  <2>. DEFINE marked == [boards[b0] EXCEPT !.is_base = TRUE]
              copy == [boards[b0] EXCEPT !.is_base = FALSE, !.has_base = TRUE]
  <2>1. b0 # k0
    BY <1>3, KeyFacts DEF Copied
  <2>2. boards[b0] \in Board /\ boards[b0].made
    BY <1>1, <1>3 DEF Copied
  <2>3. /\ marked \in Board /\ marked.made /\ marked.is_base
        /\ marked.has_base = boards[b0].has_base /\ marked.options = boards[b0].options
        /\ copy \in Board /\ copy.made /\ ~copy.is_base /\ copy.has_base
        /\ copy.options = boards[b0].options
    BY <2>2 DEF Board
  <2>4. Made(k0) = [boards EXCEPT ![b0].is_base = TRUE, ![k0] = copy]
    BY <1>3 DEF Made, Copied
  <2>5. Made(k0) = [[boards EXCEPT ![b0] = marked] EXCEPT ![k0] = copy]
    BY <2>4
  <2>6. /\ Made(k0) \in [Keys -> Board] /\ Made(k0)[k0] = copy /\ Made(k0)[b0] = marked
        /\ \A k \in Keys : k # k0 /\ k # b0 => Made(k0)[k] = boards[k]
    BY <1>1, <2>1, <2>3, <2>5
  <2> QED
    BY <1>3, <2>3, <2>6
<1>4. CASE ~boards[k0].made /\ ~Copied(k0)
  <2>. DEFINE fresh == [boards[k0] EXCEPT !.made = TRUE]
  <2>1. boards[k0] \in Board
    OBVIOUS
  <2>2. /\ fresh \in Board /\ fresh.made
        /\ fresh.is_base = boards[k0].is_base /\ fresh.has_base = boards[k0].has_base
        /\ fresh.options = boards[k0].options
    BY <2>1 DEF Board
  <2>3. Made(k0) = [boards EXCEPT ![k0] = fresh]
    BY <1>4 DEF Made, Copied
  <2>4. /\ Made(k0) \in [Keys -> Board] /\ Made(k0)[k0] = fresh
        /\ \A k \in Keys : k # k0 => Made(k0)[k] = boards[k]
    BY <2>2, <2>3
  <2> QED
    BY <1>4, <2>2, <2>4
<1> QED
  BY <1>2, <1>3, <1>4

\* add_value then writes one field of one board.
LEMMA ObserveStep ==
  ASSUME BoardTypeOK, NEW p \in unvisited, Observe(p)
  PROVE  /\ p \in Paths /\ tree[p] # None
         /\ boards' \in [Keys -> Board] /\ boards'[Key(p)].made
         /\ \A k \in Keys : k # Key(p) => boards'[k] = Made(Key(p))[k]
         /\ boards'[Key(p)].is_base = Made(Key(p))[Key(p)].is_base
         /\ boards'[Key(p)].has_base = Made(Key(p))[Key(p)].has_base
         /\ \A f \in Fields : boards'[Key(p)].options[f] =
              IF f = p.option THEN tree[p] ELSE Made(Key(p))[Key(p)].options[f]
<1>. DEFINE k0 == Key(p)
            M == Made(k0)
<1>1. p \in Paths /\ k0 \in Keys /\ tree[p] # None /\ tree[p] \in Values \cup {None}
  BY KeyFacts DEF BoardTypeOK
<1>2. M \in [Keys -> Board] /\ M[k0].made
  BY <1>1, MadeStep DEF BoardTypeOK, Board
<1>3. CASE p.option \notin Fields
  BY <1>1, <1>2, <1>3 DEF Observe
<1>4. CASE p.option \in Fields
  <2>. DEFINE written == [M[k0] EXCEPT !.options = [M[k0].options EXCEPT ![p.option] = tree[p]]]
  <2>1. M[k0] \in Board
    BY <1>1, <1>2
  <2>2. M[k0].options \in [Fields -> Values \cup {None}]
    BY <2>1 DEF Board
  <2>3. /\ written \in Board /\ written.made
        /\ written.is_base = M[k0].is_base /\ written.has_base = M[k0].has_base
        /\ \A f \in Fields : written.options[f] = IF f = p.option THEN tree[p] ELSE M[k0].options[f]
    BY <1>1, <1>2, <1>4, <2>1, <2>2 DEF Board
  <2>4. boards' = [M EXCEPT ![k0] = written]
    BY <1>4 DEF Observe
  <2>5. boards' \in [Keys -> Board] /\ boards'[k0] = written
        /\ \A k \in Keys : k # k0 => boards'[k] = M[k]
    BY <1>1, <1>2, <2>3, <2>4
  <2> QED
    BY <1>1, <2>3, <2>5
<1> QED
  BY <1>3, <1>4

\* The boards other than the one observed, and its base, keep their part of the
\* invariant; those two gain what was observed.
LEMMA ObserveKeepsBoards ==
  ASSUME BoardInv, NEW p \in unvisited, Observe(p), NEW k \in Keys
  PROVE  BoardOk(k)'
<1>. DEFINE k0 == Key(p)
            b0 == BaseOf(k0)
<1>1. /\ p \in Paths /\ k0 \in Keys /\ b0 \in Keys /\ p = At(k0, p.option) /\ tree[p] # None
      /\ p \in Assigned(k0)
      /\ tree' = tree /\ unvisited' = unvisited \ {p} /\ phase = "traverse"
      /\ \A q \in unvisited : ~Before(q, p)
      /\ boards \in [Keys -> Board] /\ \A m \in Keys : BoardOk(m)
      /\ unvisited \subseteq Paths
  BY ObserveStep, KeyFacts DEF BoardInv, Observe, BoardTypeOK, Board, Assigned
<1>2. /\ boards' \in [Keys -> Board] /\ boards'[k0].made
      /\ \A m \in Keys : m # k0 => boards'[m] = Made(k0)[m]
      /\ boards'[k0].is_base = Made(k0)[k0].is_base
      /\ boards'[k0].has_base = Made(k0)[k0].has_base
      /\ \A f \in Fields : boards'[k0].options[f] =
           IF f = p.option THEN tree[p] ELSE Made(k0)[k0].options[f]
  BY ObserveStep DEF BoardInv
<1>3. \A m \in Keys : Assigned(m)' = Assigned(m)
  BY <1>1 DEF Assigned
<1>4. \A m \in Keys : m # k0 => boards'[m].made = boards[m].made
  <2>1. \A m \in Keys : boards[m].made \in BOOLEAN /\ Made(k0)[m].made \in BOOLEAN
    BY <1>1, MadeStep DEF Board
  <2>2. CASE Copied(k0)
    <3>1. Made(k0)[b0].made /\ boards[b0].made
      BY <2>2, <1>1, MadeStep DEF Copied
    <3>2. \A m \in Keys : m # k0 /\ m # b0 => Made(k0)[m] = boards[m]
      BY <1>1, MadeStep
    <3> QED
      BY <2>1, <3>1, <3>2, <1>1, <1>2
  <2>3. CASE ~Copied(k0)
    BY <2>3, <1>1, <1>2, MadeStep
  <2> QED
    BY <2>2, <2>3
<1>5. \A m \in Keys : \A q \in Assigned(m) : q = p => m = k0
  BY DEF Assigned
<1>6. boards'[k].made <=> \E q \in Assigned(k) : q \notin unvisited'
  <2>1. CASE k = k0
    BY <2>1, <1>1, <1>2
  <2>2. CASE k # k0
    <3>1. \A q \in Assigned(k) : q \notin unvisited' <=> q \notin unvisited
      BY <2>2, <1>1, <1>5
    <3> QED
      BY <2>2, <3>1, <1>1, <1>4 DEF BoardOk
  <2> QED
    BY <2>1, <2>2
<1>7. k0.entry # Base => \A q \in Assigned(b0) : q \notin unvisited
  <2>1. ASSUME k0.entry # Base, NEW q \in Assigned(b0), q \in unvisited PROVE FALSE
    <3>1. Key(q) = b0 /\ b0.entry = Base /\ b0.top = k0.top
      BY <1>1, KeyFacts DEF Assigned
    <3>2. q.entry = Base /\ q.top = p.top /\ p.entry # Base
      BY <2>1, <3>1 DEF Key
    <3> QED
      BY <1>1, <2>1, <3>2 DEF Before
  <2> QED
    BY <2>1
<1>8. boards'[k].made /\ k.entry # Base => \A q \in Assigned(BaseOf(k)) : q \notin unvisited'
  BY <1>1, <1>4, <1>7 DEF BoardOk
<1>9. k0.entry = Base => \A m \in Keys : m.entry # Base /\ m.top = k0.top => ~boards[m].made
  <2>1. ASSUME k0.entry = Base, NEW m \in Keys, m.entry # Base, m.top = k0.top, boards[m].made
        PROVE  FALSE
    <3>1. BaseOf(m) = k0
      BY <1>1, <2>1, KeyFacts
    <3> QED
      BY <1>1, <2>1, <3>1 DEF BoardOk
  <2> QED
    BY <2>1
<1>10. b0.entry = Base /\ b0.top = k0.top /\ (k0.entry = Base => b0 = k0)
       /\ (k0.entry # Base => b0 # k0)
  BY <1>1, KeyFacts
<1>11. Copied(k0) => /\ Made(k0)[b0].is_base /\ Made(k0)[b0].has_base = boards[b0].has_base
                     /\ Made(k0)[b0].options = boards[b0].options
                     /\ ~Made(k0)[k0].is_base /\ Made(k0)[k0].has_base
                     /\ Made(k0)[k0].options = boards[b0].options
  BY <1>1, MadeStep
<1>12. ~Copied(k0) => /\ Made(k0)[k0].is_base = boards[k0].is_base
                      /\ Made(k0)[k0].has_base = boards[k0].has_base
                      /\ Made(k0)[k0].options = boards[k0].options
                      /\ \A m \in Keys : m # k0 => boards'[m] = boards[m]
  BY <1>1, <1>2, MadeStep
<1>13. \A m \in Keys : m # k0 /\ m # b0 => boards'[m] = boards[m]
  BY <1>1, <1>2, MadeStep
<1>14. boards'[k].is_base <=> /\ k.entry = Base /\ boards'[k].made
                              /\ \E v \in Variants : boards'[[top |-> k.top, entry |-> v]].made
  <2>1. boards[k].is_base <=> /\ k.entry = Base /\ boards[k].made
                              /\ \E v \in Variants : boards[[top |-> k.top, entry |-> v]].made
    BY <1>1 DEF BoardOk
  <2>2. CASE k = k0 /\ k0.entry # Base
    BY <2>1, <2>2, <1>2, <1>11, <1>12
  <2>3. CASE k = k0 /\ k0.entry = Base
    <3>1. \A v \in Variants : ~boards'[[top |-> k.top, entry |-> v]].made
      BY <2>3, <1>1, <1>4, <1>9, KeyFacts, BoardAssumption
    <3>2. ~boards[k].is_base
      BY <2>1, <2>3, <1>9, KeyFacts, BoardAssumption
    <3> QED
      BY <2>3, <3>1, <3>2, <1>2, <1>12 DEF Copied
  <2>4. CASE k # k0 /\ k = b0 /\ Copied(k0)
    <3>1. k0 = [top |-> k.top, entry |-> k0.entry] /\ k0.entry \in Variants
      BY <2>4, <1>1, <1>10, KeyFacts
    <3> QED
      BY <2>4, <3>1, <1>1, <1>2, <1>4, <1>10, <1>11 DEF Copied
  <2>5. CASE k # k0 /\ k = b0 /\ ~Copied(k0)
    <3>1. boards'[k] = boards[k]
      BY <2>5, <1>12
    <3>2. CASE ~boards[k].made
      BY <3>1, <3>2, <2>1
    <3>3. CASE boards[k].made
      <4>1. boards[k0].made
        <5>1. k0.entry # Base /\ boards[b0].made
          BY <2>5, <3>3, <1>10
        <5> QED
          BY <2>5, <5>1 DEF Copied
      <4>2. \A m \in Keys : boards'[m].made = boards[m].made
        <5>1. boards[k0].made = TRUE /\ boards'[k0].made = TRUE
          BY <4>1, <1>1, <1>2 DEF Board
        <5> QED
          BY <5>1, <1>4
      <4> QED
        BY <4>2, <3>1, <2>1, KeyFacts
    <3> QED
      BY <3>2, <3>3
  <2>6. CASE k # k0 /\ k # b0
    <3>1. boards'[k] = boards[k]
      BY <2>6, <1>13
    <3>2. ASSUME k.entry = Base, NEW v \in Variants PROVE [top |-> k.top, entry |-> v] # k0
      BY <2>6, <3>2, <1>1, KeyFacts
    <3> QED
      BY <3>1, <3>2, <2>1, <1>4, KeyFacts
  <2> QED
    BY <2>2, <2>3, <2>4, <2>5, <2>6
<1>15. boards'[k].has_base <=> k.entry # Base /\ boards'[k].made /\ boards'[BaseOf(k)].made
  <2>1. boards[k].has_base <=> k.entry # Base /\ boards[k].made /\ boards[BaseOf(k)].made
    BY <1>1 DEF BoardOk
  <2>2. CASE k = k0 /\ Copied(k0)
    BY <2>2, <1>1, <1>2, <1>4, <1>10, <1>11 DEF Copied
  <2>3. CASE k = k0 /\ ~Copied(k0)
    BY <2>1, <2>3, <1>1, <1>2, <1>4, <1>10, <1>12 DEF Copied
  <2>4. CASE k # k0
    <3>1. boards'[k].has_base = boards[k].has_base /\ boards'[k].made = boards[k].made
      BY <2>4, <1>1, <1>2, <1>4, <1>11, <1>12, <1>13
    <3>2. CASE BaseOf(k) # k0
      BY <2>1, <3>1, <3>2, <1>4, KeyFacts
    <3>3. CASE BaseOf(k) = k0
      BY <2>1, <2>4, <3>1, <3>3, <1>9, KeyFacts
    <3> QED
      BY <3>2, <3>3
  <2> QED
    BY <2>2, <2>3, <2>4
<1>16. ASSUME NEW f \in Fields
       PROVE  boards'[k].options[f] =
                IF ~boards'[k].made THEN None
                ELSE IF tree[At(k, f)] # None /\ At(k, f) \notin unvisited' THEN tree[At(k, f)]
                ELSE IF k.entry # Base THEN tree[At(BaseOf(k), f)] ELSE None
  <2>1. \A m \in Keys : boards[m].options[f] =
          IF ~boards[m].made THEN None
          ELSE IF tree[At(m, f)] # None /\ At(m, f) \notin unvisited THEN tree[At(m, f)]
          ELSE IF m.entry # Base THEN tree[At(BaseOf(m), f)] ELSE None
    BY <1>1 DEF BoardOk
  <2>2. CASE k # k0
    <3>1. boards'[k].options[f] = boards[k].options[f] /\ boards'[k].made = boards[k].made
      BY <2>2, <1>1, <1>2, <1>4, <1>11, <1>12, <1>13
    <3>2. At(k, f) # p
      BY <2>2, KeyFacts
    <3> QED
      BY <2>1, <3>1, <3>2, <1>1
  <2>3. CASE k = k0 /\ f = p.option
    BY <2>3, <1>1, <1>2
  <2>4. CASE k = k0 /\ f # p.option
    <3>1. At(k, f) # p /\ boards'[k].made /\ At(k, f) \in Paths /\ At(b0, f) \in Paths
          /\ Key(At(k, f)) = k /\ Key(At(b0, f)) = b0
      BY <2>4, <1>1, <1>2, KeyFacts
    <3>2. boards'[k].options[f] = Made(k0)[k0].options[f]
      BY <2>4, <1>2
    <3>3. CASE boards[k0].made
      BY <2>1, <2>4, <3>1, <3>2, <3>3, <1>1, <1>12 DEF Copied
    <3>4. CASE ~boards[k0].made
      <4>1. tree[At(k, f)] # None => At(k, f) \in unvisited'
        BY <2>4, <3>1, <3>4, <1>1 DEF BoardOk, Assigned
      <4>2. k0.entry # Base /\ tree[At(b0, f)] # None => At(b0, f) \notin unvisited /\ boards[b0].made
        BY <3>1, <1>1, <1>7 DEF BoardOk, Assigned
      <4>3. CASE Copied(k0)
        <5>1. boards'[k].options[f] = boards[b0].options[f] /\ boards[b0].made /\ k0.entry # Base
          BY <4>3, <3>2, <1>11 DEF Copied
        <5>2. boards[b0].options[f] =
                IF tree[At(b0, f)] # None /\ At(b0, f) \notin unvisited THEN tree[At(b0, f)] ELSE None
          BY <2>1, <5>1, <1>1, <1>10
        <5> QED
          BY <2>4, <3>1, <4>1, <4>2, <5>1, <5>2
      <4>4. CASE ~Copied(k0)
        <5>1. boards'[k].options[f] = None
          BY <2>1, <3>2, <3>4, <4>4, <1>1, <1>12
        <5>2. k0.entry # Base => tree[At(b0, f)] = None
          BY <3>4, <4>2, <4>4 DEF Copied
        <5> QED
          BY <2>4, <3>1, <4>1, <5>1, <5>2
      <4> QED
        BY <4>3, <4>4
    <3> QED
      BY <3>3, <3>4
  <2> QED
    BY <2>2, <2>3, <2>4
<1>17. Assigned(k)' = Assigned(k) /\ Assigned(BaseOf(k))' = Assigned(BaseOf(k))
  BY <1>1 DEF Assigned
<1>18. \A f \in Fields : /\ tree'[At(k, f)] = tree[At(k, f)]
                         /\ tree'[At(BaseOf(k), f)] = tree[At(BaseOf(k), f)]
  BY <1>1
<1> QED
  BY <1>6, <1>8, <1>14, <1>15, <1>16, <1>17, <1>18 DEF BoardOk

\* A line is read: its value is at its path, unless the load fails.
LEMMA LoadStep ==
  ASSUME BoardInv, NEW line \in unread, Load(line)
  PROVE  BoardInv'
<1>1. /\ line \in Lines /\ line \in file /\ line.path \in Paths /\ line.value \in Values
      /\ tree \in [Paths -> Values \cup {None}] /\ phase = "load"
      /\ file \subseteq Lines /\ unread \subseteq file
  BY DEF BoardInv, BoardTypeOK, Load, Lines
<1>2. /\ tree' = [tree EXCEPT ![line.path] = line.value]
      /\ unread' = unread \ {line} /\ file' = file /\ unvisited' = unvisited /\ boards' = boards
      /\ phase' = IF tree[line.path] = None THEN "load" ELSE "invalid"
  BY <1>1 DEF Load
<1>3. /\ \A l \in file \ unread : tree[l.path] = l.value
      /\ \A p \in Paths : tree[p] # None =>
           \E l \in file \ unread : l.path = p /\ l.value = tree[p]
      /\ \A l, m \in file \ unread : l.path = m.path => l = m
      /\ unvisited = {} /\ boards = [k \in Keys |-> Absent]
  BY <1>1 DEF BoardInv
<1>4. BoardTypeOK'
  BY <1>1, <1>2, <1>3 DEF BoardInv, BoardTypeOK
<1>5. ASSUME phase' = "load"
      PROVE  /\ \A l \in file' \ unread' : tree'[l.path] = l.value
             /\ \A l, m \in file' \ unread' : l.path = m.path => l = m
  <2>1. tree[line.path] = None
    BY <1>2, <1>5
  <2>2. \A l \in file \ unread : l.path # line.path
    BY <2>1, <1>1, <1>3, BoardAssumption DEF Lines
  <2>3. \A l \in file : l.path \in Paths
    BY <1>1 DEF Lines
  <2> QED
    BY <2>2, <2>3, <1>1, <1>2, <1>3
<1>6. ASSUME NEW p \in Paths, tree'[p] # None
      PROVE  \E l \in file' \ unread' : l.path = p /\ l.value = tree'[p]
  <2>1. CASE p = line.path
    BY <2>1, <1>1, <1>2
  <2>2. CASE p # line.path
    BY <2>2, <1>1, <1>2, <1>3, <1>6
  <2> QED
    BY <2>1, <2>2
<1> QED
  BY <1>2, <1>3, <1>4, <1>5, <1>6 DEF BoardInv, Absent

\* The invariant of the load and of the traversal.
THEOREM BoardInvariant == BoardSpec => []BoardInv
<1>1. BoardInit => BoardInv
  BY BoardAssumption DEF BoardInit, BoardInv, BoardTypeOK, Absent
<1>2. BoardInv /\ [BoardNext]_boardvars => BoardInv'
  <2> SUFFICES ASSUME BoardInv, [BoardNext]_boardvars PROVE BoardInv'
    OBVIOUS
  <2>1. ASSUME NEW line \in unread, Load(line) PROVE BoardInv'
    BY <2>1, LoadStep
  <2>2. CASE StartTraversal
    <3>1. /\ unvisited' = {p \in Paths : tree[p] # None} /\ phase' = "traverse" /\ unread = {}
          /\ file' = file /\ unread' = unread /\ tree' = tree /\ boards' = boards
          /\ boards = [k \in Keys |-> Absent]
      BY <2>2 DEF StartTraversal, BoardInv
    <3>2. \A k \in Keys : Assigned(k)' = Assigned(k) /\ \A p \in Assigned(k) : p \in unvisited'
      BY <3>1 DEF Assigned
    <3>3. ASSUME NEW k \in Keys PROVE BoardOk(k)'
      <4>1. /\ boards'[k] = Absent /\ boards'[BaseOf(k)] = Absent
            /\ \A v \in Variants : boards'[[top |-> k.top, entry |-> v]] = Absent
        BY <3>1, KeyFacts
      <4> QED
        BY <3>2, <4>1 DEF BoardOk, Absent
    <3>4. BoardTypeOK'
      BY <3>1 DEF BoardInv, BoardTypeOK
    <3> QED
      BY <2>2, <3>1, <3>3, <3>4 DEF BoardInv, StartTraversal
  <2>3. ASSUME NEW p \in unvisited, Observe(p) PROVE BoardInv'
    <3>1. \A k \in Keys : BoardOk(k)'
      BY <2>3, ObserveKeepsBoards
    <3>2. boards' \in [Keys -> Board]
      BY <2>3, ObserveStep DEF BoardInv
    <3>3. /\ phase = "traverse" /\ phase' = phase /\ unvisited' = unvisited \ {p}
          /\ file' = file /\ unread' = unread /\ tree' = tree
      BY <2>3 DEF Observe
    <3>4. BoardTypeOK'
      BY <3>2, <3>3 DEF BoardInv, BoardTypeOK, Board
    <3> QED
      BY <3>1, <3>3, <3>4 DEF BoardInv
  <2>4. CASE Finish
    <3>1. /\ unvisited = {} /\ phase = "traverse" /\ phase' = "done"
          /\ UNCHANGED <<file, unread, tree, unvisited, boards>>
      BY <2>4 DEF Finish
    <3>2. \A k \in Keys : BoardOk(k)'
      <4>1. \A k \in Keys : BoardOk(k)
        BY <3>1 DEF BoardInv
      <4> QED
        BY ONLY <3>1, <4>1 DEF BoardOk, Assigned
    <3>3. BoardTypeOK'
      BY <3>1 DEF BoardInv, BoardTypeOK
    <3> QED
      BY <3>1, <3>2, <3>3 DEF BoardInv
  <2>5. CASE UNCHANGED boardvars
    <3>1. (\A k \in Keys : BoardOk(k)) => \A k \in Keys : BoardOk(k)'
      BY <2>5 DEF boardvars, BoardOk, Assigned
    <3>2. BoardTypeOK'
      BY <2>5 DEF boardvars, BoardInv, BoardTypeOK
    <3> QED
      BY <2>5, <3>1, <3>2 DEF boardvars, BoardInv
  <2> QED
    BY <2>1, <2>2, <2>3, <2>4, <2>5 DEF BoardNext
<1> QED
  BY <1>1, <1>2, PTL DEF BoardSpec

\* Every board has its own options and otherwise those of its base.
THEOREM BoardsHaveOptions == BoardSpec => []OptionsInherited
<1>1. BoardInv => OptionsInherited
  <2> SUFFICES ASSUME BoardInv, phase = "done", NEW k \in Keys, boards[k].made, NEW f \in Fields
               PROVE  boards[k].options[f] = Inherited(k, f)
    BY DEF OptionsInherited
  <2>1. BoardOk(k) /\ unvisited = {}
    BY DEF BoardInv
  <2>2. k.entry = Base => BaseOf(k) = k
    BY KeyFacts
  <2> QED
    BY <2>1, <2>2 DEF BoardOk, Inherited
<1> QED
  BY <1>1, BoardInvariant, PTL

\* getBoards has the boards that the file mentions, without the bases.
THEOREM BasesAreLeftOut == BoardSpec => []BasesAreDropped
<1>1. BoardInv => BasesAreDropped
  <2> SUFFICES ASSUME BoardInv, phase = "done", NEW k \in Keys
               PROVE  (boards[k].made /\ ~boards[k].is_base) <=>
                        /\ Assigned(k) # {}
                        /\ k.entry = Base => \A v \in Variants :
                                               Assigned([top |-> k.top, entry |-> v]) = {}
    BY DEF BasesAreDropped, getBoards
  <2>1. unvisited = {} /\ \A m \in Keys : BoardOk(m)
    BY DEF BoardInv
  <2>2. \A m \in Keys : boards[m].made <=> Assigned(m) # {}
    BY <2>1 DEF BoardOk
  <2>3. boards[k].is_base <=> /\ k.entry = Base /\ boards[k].made
                              /\ \E v \in Variants : boards[[top |-> k.top, entry |-> v]].made
    BY <2>1 DEF BoardOk
  <2> QED
    BY <2>2, <2>3, KeyFacts
<1> QED
  BY <1>1, BoardInvariant, PTL

\* Variants have the options of their board, which getBoards leaves out.
THEOREM BoardsInherit == BoardSpec => []VariantsInherit
<1>1. OptionsInherited /\ BasesAreDropped => VariantsInherit
  BY DEF VariantsInherit
<1> QED
  BY <1>1, BoardsHaveOptions, BasesAreLeftOut, PTL

\* A file with two lines for a path makes no boards, whatever they assign.
THEOREM TreeIsFile == BoardSpec => []NoneAssignedTwice
<1>1. BoardInv => NoneAssignedTwice
  <2> SUFFICES ASSUME BoardInv, phase = "done" PROVE NoneAssignedTwice
    BY DEF NoneAssignedTwice
  <2>1. /\ \A l \in file : tree[l.path] = l.value
        /\ \A p \in Paths : tree[p] # None =>
             \E l \in file : l.path = p /\ l.value = tree[p]
        /\ \A l, m \in file : l.path = m.path => l = m
        /\ file \subseteq Lines
    BY DEF BoardInv, BoardTypeOK
  <2>2. ASSUME NEW p \in Paths, NEW v \in Values
        PROVE  tree[p] = v <=> \E l \in file : l.path = p /\ l.value = v
    BY <2>1, <2>2, BoardAssumption
  <2> QED
    BY <2>1, <2>2 DEF NoneAssignedTwice
<1> QED
  BY <1>1, BoardInvariant, PTL

-----------------------------------------------------------------------------
\* The bookkeeping of a run stays in range.
LEMMA TypeStep == TypeOK /\ SpecsInv /\ [Next]_vars => TypeOK'
<1> SUFFICES ASSUME TypeOK, SpecsInv, [Next]_vars PROVE TypeOK'
  OBVIOUS
<1>0. /\ Whole \in Files /\ Torn \in Files
      /\ \A b \in Boards : /\ Dump(b) \in Dumps
                           /\ [Dump(b) EXCEPT !.whole = FALSE] \in Dumps
                           /\ BoardName[b] \in FileNames
  BY RunsAssumption DEF TypeOK, Files, Dumps, Whole, Torn, Dump
<1> USE <1>0 DEF TypeOK, Specs
<1>1. CASE StartRun
  <2>1. run + 1 \in 0..MaxRuns
    BY <1>1, RunsAssumption DEF StartRun
  <2>2. Dumps' = Dumps /\ Files' = Files
    BY DEF Dumps, Files
  <2> QED
    BY <1>1, <2>1, <2>2 DEF StartRun, files
<1>2. ASSUME NEW b \in Boards, RunBoard(b) PROVE TypeOK'
  <2>1. /\ macros' = macros \/ macros' = [macros EXCEPT ![BoardName[b]] = Dump(b)]
        /\ results' \subseteq Boards
    BY <1>2 DEF RunBoard
  <2>2. BoardName[b] \in FileNames /\ Dump(b) \in Dumps
    BY <1>0
  <2>3. macros' \in [FileNames -> Dumps]
    BY ONLY <2>1, <2>2, TypeOK DEF TypeOK
  <2> QED
    BY <1>2, <2>1, <2>3 DEF RunBoard, specWork
<1>3. CASE ReadBoards
  <2>1. read' \in [Boards -> Dumps]
    BY <1>3 DEF ReadBoards
  <2> QED
    BY <1>3, <2>1 DEF ReadBoards, files
<1>4. ASSUME NEW a \in Archs, CompileSpec(a) PROVE TypeOK'
  <2>1. dev' \in [Archs -> Files]
    BY <1>4 DEF CompileSpec
  <2> QED
    BY <1>4, <2>1 DEF CompileSpec, boardWork
<1>5. ASSUME NEW a \in Archs, Edit(a) PROVE TypeOK'
  BY <1>5 DEF Edit, boardWork, specWork
<1>6. CASE SpecFails
  BY <1>6 DEF SpecFails, boardWork, specWork, files
<1>7. CASE WriteSup \/ SupFails
  <2>1. cur \in Archs
    BY <1>7 DEF WriteSup, SupFails, SpecsInv
  <2>2. names' \subseteq Archs /\ sup' \in [Archs -> Files]
    BY <1>7, <2>1 DEF WriteSup, SupFails
  <2> QED
    BY <1>7, <2>2 DEF WriteSup, SupFails, boardWork
<1>9. CASE WriteHand
  BY <1>9 DEF WriteHand, boardWork, specWork
<1>10. CASE WriteParent
  <2>1. parent' \in [run : 0..MaxRuns, whole : BOOLEAN, names : SUBSET Archs,
                     braces : {"single", "doubled"}]
    BY <1>10 DEF WriteParent, Braces
  <2> QED
    BY <1>10, <2>1 DEF WriteParent, boardWork, specWork
<1>11. CASE ReadSpecs
  BY <1>11 DEF ReadSpecs, boardWork, specWork, files
<1>12. CASE Die
  <2>1. macros' \in [FileNames -> Dumps]
    <3>1. \/ macros' = macros
          \/ \E b \in Boards :
               macros' = [macros EXCEPT ![BoardName[b]] = [Dump(b) EXCEPT !.whole = FALSE]]
      BY <1>12 DEF Die, files
    <3>2. \A b \in Boards : /\ BoardName[b] \in FileNames
                            /\ [Dump(b) EXCEPT !.whole = FALSE] \in Dumps
      BY <1>0
    <3>3. CASE macros' = macros
      BY ONLY <3>3, TypeOK DEF TypeOK
    <3>4. ASSUME NEW b \in Boards,
                 macros' = [macros EXCEPT ![BoardName[b]] = [Dump(b) EXCEPT !.whole = FALSE]]
          PROVE macros' \in [FileNames -> Dumps]
      <4> DEFINE D == [Dump(b) EXCEPT !.whole = FALSE]
      <4>1. D \in Dumps /\ BoardName[b] \in FileNames
        BY <3>2
      <4>2. macros' = [macros EXCEPT ![BoardName[b]] = D]
        BY <3>4
      <4> HIDE DEF D
      <4> QED
        BY ONLY <4>1, <4>2, TypeOK DEF TypeOK
    <3> QED
      BY <3>1, <3>3, <3>4
  <2>2. dev' \in [Archs -> Files] /\ sup' \in [Archs -> Files]
    <3>1. /\ dev' = dev \/ \E a \in Archs : dev' = [dev EXCEPT ![a] = Torn]
          /\ sup' = sup \/ sup' = [sup EXCEPT ![cur] = Torn]
      BY <1>12 DEF Die, files
    <3> QED
      BY <3>1
  <2>3. hand' \in [Archs -> {"absent", "empty", "template", "edited"}]
    BY <1>12 DEF Die, files
  <2>4. parent' \in [run : 0..MaxRuns, whole : BOOLEAN, names : SUBSET Archs,
                     braces : {"single", "doubled"}]
    BY <1>12 DEF Die, files
  <2> QED
    BY <1>12, <2>1, <2>2, <2>3, <2>4 DEF Die, boardWork, specWork
<1>13. CASE UNCHANGED vars
  BY <1>13 DEF vars, boardWork, specWork, files
<1> QED
  BY <1>1, <1>2, <1>3, <1>4, <1>5, <1>6, <1>7, <1>9, <1>10, <1>11, <1>12, <1>13 DEF Next

\* What succeeded was dumped in this run, and is read before anything else runs.
LEMMA BoardsStep == RunInv /\ [Next]_vars => BoardsInv'
<1> USE RunsAssumption
<1> SUFFICES ASSUME RunInv, [Next]_vars PROVE BoardsInv'
  OBVIOUS
<1> USE DEF RunInv, BoardsInv, ReadsOwnMacros
<1>1. CASE StartRun
  BY <1>1 DEF StartRun, files, Specs
<1>2. ASSUME NEW b \in Boards, RunBoard(b) PROVE BoardsInv'
  <2>1. /\ pc = "boards" /\ pc' = "boards" /\ run' = run
        /\ \A c \in Boards : Dump(c)' = Dump(c)
    BY <1>2 DEF RunBoard, Dump
  <2>2. CASE macros' = [macros EXCEPT ![BoardName[b]] = Dump(b)] /\ results' = results \cup {b}
    <3>1. ASSUME NEW d \in results'
          PROVE \E c \in results' :
                  BoardName[c] = BoardName[d] /\ macros'[BoardName[d]] = Dump(c)
      <4>0. BoardName[b] \in DOMAIN macros /\ b \in results'
        BY <2>2 DEF TypeOK
      <4>1. CASE BoardName[d] = BoardName[b]
        BY <2>2, <4>0, <4>1
      <4>2. CASE BoardName[d] # BoardName[b]
        BY <2>1, <2>2, <3>1, <4>2
      <4> QED
        BY <4>1, <4>2
    <3> QED
      BY <2>1, <2>2, <3>1 DEF Specs, TypeOK
  <2>3. CASE UNCHANGED <<macros, results>>
    BY <2>1, <2>3 DEF Specs, TypeOK
  <2> QED
    BY <1>2, <2>2, <2>3 DEF RunBoard
<1>3. CASE ReadBoards
  <2>1. /\ pc = "boards" /\ pc' = "specs" /\ results' = results /\ run' = run
        /\ \A b \in results : read'[b] = macros[BoardName[b]]
    BY <1>3 DEF ReadBoards, TypeOK
  <2>2. \A b \in results :
          /\ read'[b].run = run /\ read'[b].whole
          /\ \E c \in results : BoardName[c] = BoardName[b] /\ read'[b].board = c
    <3> TAKE b \in results
    <3>1. PICK c \in results : BoardName[c] = BoardName[b] /\ macros[BoardName[b]] = Dump(c)
      BY <2>1
    <3> QED
      BY <2>1, <3>1 DEF Dump
  <2> QED
    BY <2>1, <2>2
<1>4. CASE pc' = "idle"
  BY <1>4 DEF Specs
<1>5. CASE pc # "boards" /\ UNCHANGED <<run, boardWork>> /\ pc' \in Specs /\ pc \in Specs
  BY <1>5 DEF boardWork, Specs
<1>6. CASE UNCHANGED <<run, pc, boardWork, macros>>
  BY <1>6 DEF boardWork, Dump
<1> QED
  BY <1>1, <1>2, <1>3, <1>4, <1>5, <1>6
     DEF Next, vars, files, CompileSpec, Edit, SpecFails, WriteSup, SupFails, WriteHand,
         WriteParent, ReadSpecs, Die, Specs

\* The headers of this run, one architecture after the other.
LEMMA SpecsStep == RunInv /\ [Next]_vars => SpecsInv'
<1> USE RunsAssumption
<1> SUFFICES ASSUME RunInv, [Next]_vars PROVE SpecsInv'
  OBVIOUS
<1> USE DEF RunInv, SpecsInv, TypeOK, Specs, Whole
<1>1. CASE StartRun
  BY <1>1 DEF StartRun
<1>2. ASSUME NEW b \in Boards, RunBoard(b) PROVE SpecsInv'
  BY <1>2 DEF RunBoard, specWork
<1>3. CASE ReadBoards
  <2>1. archs' \ left' = {} /\ names' = {} /\ pc' = "specs"
    BY <1>3 DEF ReadBoards
  <2> QED
    BY <2>1
<1>4. ASSUME NEW a \in Archs, CompileSpec(a) PROVE SpecsInv'
  BY <1>4 DEF CompileSpec
<1>5. ASSUME NEW a \in Archs, Edit(a) PROVE SpecsInv'
  BY <1>5 DEF Edit, specWork
<1>6. CASE pc' = "idle"
  BY <1>6
<1>7. CASE WriteSup
  BY <1>7 DEF WriteSup
<1>8. CASE WriteHand
  BY <1>8 DEF WriteHand, specWork
<1>9. CASE WriteParent
  BY <1>9 DEF WriteParent, specWork
<1>10. CASE ReadSpecs
  BY <1>10 DEF ReadSpecs, specWork, files
<1>11. CASE UNCHANGED vars
  BY <1>11 DEF vars, specWork, files
<1> QED
  BY <1>1, <1>2, <1>3, <1>4, <1>5, <1>6, <1>7, <1>8, <1>9, <1>10, <1>11
     DEF Next, SpecFails, SupFails, Die

\* What the parent header includes is never taken away.
LEMMA IncludesStep == RunInv /\ [Next]_vars => IncludesExist'
<1> USE RunsAssumption
<1> SUFFICES ASSUME RunInv, [Next]_vars PROVE IncludesExist'
  OBVIOUS
<1> USE DEF RunInv, IncludesExist
<1>1. ASSUME NEW a \in Archs
      PROVE /\ hand[a] # "absent" => hand'[a] # "absent"
            /\ sup[a].run # 0 => sup'[a].run # 0
  <2>1. CASE UNCHANGED <<hand, sup>>
    BY <2>1
  <2>0. run \in Nat /\ (pc # "idle" => run # 0)
    BY DEF TypeOK
  <2>2. CASE \E x \in Archs : Edit(x)
    BY <2>2 DEF Edit, TypeOK
  <2>3. CASE WriteSup \/ SupFails
    <3>1. /\ sup' = [sup EXCEPT ![cur] = Whole] \/ sup' = [sup EXCEPT ![cur] = Torn]
          /\ run # 0 /\ hand' = hand
      BY <2>0, <2>3 DEF WriteSup, SupFails
    <3> QED
      BY <3>1 DEF Whole, Torn, TypeOK
  <2>4. CASE WriteHand
    BY <2>4 DEF WriteHand, TypeOK
  <2>5. CASE Die
    <3>1. /\ sup' = sup \/ sup' = [sup EXCEPT ![cur] = Torn]
          /\ run # 0
          /\ hand' = hand \/ (hand[cur] = "absent" /\ hand' = [hand EXCEPT ![cur] = "empty"])
      BY <2>0, <2>5 DEF Die, files
    <3> QED
      BY <3>1 DEF Torn, TypeOK
  <2> QED
    BY <2>1, <2>2, <2>3, <2>4, <2>5
       DEF Next, vars, files, StartRun, RunBoard, ReadBoards, CompileSpec, SpecFails,
           WriteParent, ReadSpecs
<1>2. CASE WriteParent
  <2>1. \A a \in names : hand[a] # "absent" /\ sup[a].run # 0
    BY <1>2 DEF WriteParent, SpecsInv, Specs, Whole, TypeOK
  <2>2. parent'.names = names /\ names \subseteq Archs
    BY <1>2 DEF WriteParent, TypeOK
  <2> QED
    BY <1>1, <2>1, <2>2
<1>3. CASE parent'.whole => parent' = parent
  BY <1>1, <1>3 DEF TypeOK
<1> QED
  BY <1>2, <1>3
     DEF Next, vars, files, StartRun, RunBoard, ReadBoards, CompileSpec, SpecFails,
         WriteSup, SupFails, WriteHand, ReadSpecs, Die, Edit, TypeOK

\* The inductive invariant of the runs.
THEOREM RunInvariant == Spec => []RunInv
<1>1. Init => RunInv
  <2> SUFFICES ASSUME Init PROVE RunInv
    OBVIOUS
  <2>1. NoDump \in Dumps /\ NoFile \in Files
    BY RunsAssumption DEF NoDump, NoFile, Dumps, Files
  <2>2. TypeOK
    BY <2>1, RunsAssumption DEF Init, TypeOK, Specs
  <2> QED
    BY <2>2 DEF Init, RunInv, BoardsInv, ReadsOwnMacros, SpecsInv, IncludesExist, Specs
<1>2. RunInv /\ [Next]_vars => RunInv'
  <2> SUFFICES ASSUME RunInv, [Next]_vars PROVE RunInv'
    OBVIOUS
  <2>1. (pc # "idle" => run > 0)'
    <3>1. run \in Nat /\ (pc # "idle" => run > 0)
      BY RunsAssumption DEF RunInv, TypeOK
    <3>2. \/ run' = run + 1
          \/ run' = run /\ (pc' = pc \/ pc # "idle")
      BY DEF Next, vars, files, StartRun, RunBoard, ReadBoards, CompileSpec, SpecFails,
         WriteSup, SupFails, WriteHand, WriteParent, ReadSpecs, Die, Edit
    <3> QED
      BY <3>1, <3>2
  <2> QED
    BY <2>1, TypeStep, BoardsStep, SpecsStep, IncludesStep DEF RunInv
<1> QED
  BY <1>1, <1>2, PTL DEF Spec

\* No board is accounted for with the dump of an earlier run, nor with another
\* board's unless they share their name.
THEOREM BoardsReadTheirOwn == Spec => []ReadsOwnMacros
<1>1. RunInv => ReadsOwnMacros
  BY DEF RunInv, BoardsInv
<1> QED
  BY <1>1, RunInvariant, PTL

\* A run that is done leaves whole headers of its own.
THEOREM DoneIsFresh == Spec => []DoneMeansFresh
<1>1. RunInv => DoneMeansFresh
  BY DEF RunInv, SpecsInv, DoneMeansFresh, Specs, TypeOK
<1> QED
  BY <1>1, RunInvariant, PTL

\* A whole parent header includes only headers that exist.
THEOREM IncludesAreThere == Spec => []IncludesExist
<1>1. RunInv => IncludesExist
  BY DEF RunInv
<1> QED
  BY <1>1, RunInvariant, PTL

\* No run changes a header for manual changes that exists, edited or left empty.
THEOREM EditsSurvive == Spec => ManualChangesSurvive
<1>1. RunInv /\ [Next]_vars => [\A a \in Archs : hand[a] # "absent" => hand'[a] \in {hand[a], "edited"}]_vars
  BY DEF RunInv, TypeOK, Next, vars, files, StartRun, RunBoard, ReadBoards, CompileSpec,
     SpecFails, WriteSup, SupFails, WriteHand, WriteParent, ReadSpecs, Die, Edit
<1> QED
  BY <1>1, RunInvariant, PTL DEF Spec, ManualChangesSurvive
=============================================================================
