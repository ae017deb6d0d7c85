------------------------- MODULE RingStatementsProofs -------------------------
(***************************************************************************)
(* Theorems about MockBackend statement by statement, for every set of     *)
(* events, every capacity and every mask that keeps interrupts off between *)
(* the load and the store of count_.                                       *)
(***************************************************************************)
EXTENDS RingStatements, SequenceTheorems, TLAPS

(* Arithmetic of the ring.                                                 *)
LEMMA AdvanceInRange ==
  ASSUME NEW i \in 0..(Capacity - 1)
  PROVE  Advance(i) \in 0..(Capacity - 1)
BY RingAssumption DEF Advance

LEMMA OldestInRange ==
  ASSUME read \in 0..(Capacity - 1)
  PROVE  Oldest \in 0..(Capacity - 1)
BY RingAssumption DEF Oldest

\* Advancing read leaves the oldest counted record one behind it.
LEMMA OldestIsBehind ==
  ASSUME NEW i \in 0..(Capacity - 1)
  PROVE  (Advance(i) + Capacity - 1) % Capacity = i
<1>1. CASE i = Capacity - 1
  <2>1. Advance(i) = 0
    BY <1>1, RingAssumption DEF Advance
  <2> QED
    BY <1>1, <2>1, RingAssumption
<1>2. CASE i < Capacity - 1
  <2>1. Advance(i) = i + 1
    BY <1>2, RingAssumption DEF Advance
  <2> QED
    BY <1>2, <2>1, RingAssumption
<1> QED
  BY <1>1, <1>2, RingAssumption

\* The converse: the slot after the oldest is read when read is one ahead of it.
LEMMA ReadIsNext ==
  ASSUME NEW i \in 0..(Capacity - 1)
  PROVE  Advance((i + Capacity - 1) % Capacity) = i
<1>1. CASE i = 0
  <2>1. (i + Capacity - 1) % Capacity = Capacity - 1
    BY <1>1, RingAssumption
  <2> QED
    BY <1>1, <2>1, RingAssumption DEF Advance
<1>2. CASE i > 0
  <2>1. (i + Capacity - 1) % Capacity = i - 1
    BY <1>2, RingAssumption
  <2> QED
    BY <1>2, <2>1, RingAssumption DEF Advance
<1> QED
  BY <1>1, <1>2, RingAssumption

LEMMA AdvanceThenAdd ==
  ASSUME NEW i \in 0..(Capacity - 1), NEW k \in 0..(Capacity - 1)
  PROVE  (Advance(i) + k) % Capacity = (i + k + 1) % Capacity
<1>1. CASE i = Capacity - 1
  <2>1. Advance(i) + k = k /\ i + k + 1 = Capacity + k
    BY <1>1, RingAssumption DEF Advance
  <2>2. (Capacity + k) % Capacity = k /\ k % Capacity = k
    BY RingAssumption
  <2> QED
    BY <2>1, <2>2
<1>2. CASE i < Capacity - 1
  <2>1. Advance(i) = i + 1
    BY <1>2, RingAssumption DEF Advance
  <2>2. Advance(i) + k = i + k + 1
    BY <2>1, RingAssumption
  <2> QED
    BY <2>2
<1> QED
  BY <1>1, <1>2, RingAssumption

LEMMA SlotInRange ==
  ASSUME read \in 0..(Capacity - 1), NEW k \in 0..Capacity
  PROVE  Slot(k) \in 0..(Capacity - 1)
BY OldestInRange, RingAssumption DEF Slot

LEMMA SlotInjective ==
  ASSUME read \in 0..(Capacity - 1),
         NEW j \in 0..(Capacity - 1), NEW k \in 0..(Capacity - 1),
         Slot(j) = Slot(k)
  PROVE  j = k
BY OldestInRange, RingAssumption DEF Slot

LEMMA FirstSlot ==
  ASSUME read \in 0..(Capacity - 1)
  PROVE  Slot(0) = Oldest
BY OldestInRange, RingAssumption DEF Slot

\* The slot after the k-th is the next one.
LEMMA AdvanceSlot ==
  ASSUME read \in 0..(Capacity - 1), NEW k \in 0..(Capacity - 1)
  PROVE  Advance(Slot(k)) = Slot(k + 1)
BY OldestInRange, RingAssumption DEF Slot, Advance

\* Once the oldest record is not counted any more, every other one has moved
\* forward by one.
LEMMA SlotAfterStore ==
  ASSUME read \in 0..(Capacity - 1), pc = "store", pc' = "clear", read' = read,
         NEW k \in 0..(Capacity - 1)
  PROVE  Slot(k)' = Slot(k + 1)
<1>1. Oldest' = Advance(Oldest)
  BY ReadIsNext DEF Oldest
<1>2. (Advance(Oldest) + k) % Capacity = (Oldest + k + 1) % Capacity
  BY OldestInRange, AdvanceThenAdd
<1>3. Slot(k + 1) = (Oldest + k + 1) % Capacity
  BY OldestInRange, RingAssumption DEF Slot
<1> QED
  BY <1>1, <1>2, <1>3 DEF Slot

\* A step that leaves the oldest record where it is leaves every slot there.
LEMMA SlotsStay ==
  ASSUME Oldest' = Oldest
  PROVE  \A k : Slot(k)' = Slot(k)
BY DEF Slot

-----------------------------------------------------------------------------
LEMMA InitInv == Init => RingInv
<1> SUFFICES ASSUME Init PROVE RingInv
  OBVIOUS
<1> USE RingAssumption
<1>1. TypeOK
  BY DEF Init, TypeOK, Statements
<1>2. count = 0 /\ Slot(0) = 0 /\ write = 0
  BY DEF Init, Slot, Oldest
<1> QED
  BY <1>1, <1>2
     DEF Init, RingInv, WriteFollowsCounted, CountedIsMarked, DispatchPhase,
         OwedIsCountedOrInHand

\* A fire that is queued goes to the free slot behind the others.
LEMMA AcceptInv ==
  ASSUME RingInv, NEW e \in Deferred, ~pending[e], count # Capacity, pc # "store",
         records' = [records EXCEPT ![write] = e], write' = Advance(write),
         count' = count + 1, pending' = [pending EXCEPT ![e] = TRUE],
         owed' = owed \cup {e}, UNCHANGED <<read, pc, record, loaded>>
  PROVE  RingInv'
<1> USE RingAssumption
<1>1. /\ TypeOK /\ WriteFollowsCounted /\ CountedIsMarked /\ DispatchPhase
      /\ OwedIsCountedOrInHand
  BY DEF RingInv
<1>2. count \in 0..(Capacity - 1) /\ count' \in 0..Capacity
  BY <1>1 DEF TypeOK
<1>3. \A k \in 0..Capacity : Slot(k)' = Slot(k) /\ Slot(k) \in 0..(Capacity - 1)
  BY <1>1, SlotInRange DEF TypeOK, Slot, Oldest
<1>4. records'[Slot(count)] = e
  BY <1>1, <1>2, <1>3 DEF TypeOK, WriteFollowsCounted
<1>5. \A k \in 0..(count - 1) : records'[Slot(k)] = records[Slot(k)]
  BY <1>1, <1>2, <1>3, SlotInjective DEF TypeOK, WriteFollowsCounted
<1>6. \A k \in 0..(count - 1) : records[Slot(k)] # e
  BY <1>1 DEF CountedIsMarked
<1>7. Counted' = Counted \cup {e}
  <2>1. Counted' = {records'[Slot(k)] : k \in 0..count}
    BY <1>2, <1>3 DEF Counted
  <2>2. 0..count = (0..(count - 1)) \cup {count}
    BY <1>2
  <2> QED
    BY <2>1, <2>2, <1>4, <1>5 DEF Counted
<1>8. TypeOK'
  BY <1>1, <1>2, AdvanceInRange DEF TypeOK
<1>9. WriteFollowsCounted'
  BY <1>1, <1>2, <1>3, AdvanceSlot DEF WriteFollowsCounted, TypeOK
<1>10. CountedIsMarked'
  <2>1. ASSUME NEW k \in 0..(count' - 1)
        PROVE  records'[Slot(k)'] \in Deferred /\ pending'[records'[Slot(k)']]
    <3>1. CASE k = count
      BY <3>1, <1>1, <1>2, <1>3, <1>4 DEF TypeOK
    <3>2. CASE k \in 0..(count - 1)
      <4>1. records[Slot(k)] \in Deferred /\ pending[records[Slot(k)]]
        BY <3>2, <1>1 DEF CountedIsMarked
      <4> QED
        BY <3>2, <4>1, <1>1, <1>2, <1>3, <1>5 DEF TypeOK
    <3> QED
      BY <3>1, <3>2, <1>2
  <2>2. \A j, k \in 0..(count' - 1) : records'[Slot(j)'] = records'[Slot(k)'] => j = k
    BY <1>1, <1>2, <1>3, <1>4, <1>5, <1>6 DEF CountedIsMarked
  <2>3. ASSUME NEW f \in Deferred, pending'[f]
        PROVE  f \in Counted' \/ (pc' = "clear" /\ f = record')
    BY <2>3, <1>1, <1>7 DEF CountedIsMarked, TypeOK
  <2> QED
    BY <2>1, <2>2, <2>3 DEF CountedIsMarked
<1>11. DispatchPhase'
  <2>1. count > 0 => records'[Slot(0)'] = records[Slot(0)]
    BY <1>2, <1>3, <1>5
  <2>2. pc = "clear" => record \notin Counted'
    <3>1. pc = "clear" => record # e
      BY <1>1 DEF DispatchPhase
    <3> QED
      BY <3>1, <1>1, <1>7 DEF DispatchPhase
  <2>3. pc = "clear" => pending'[record]
    BY <1>1 DEF DispatchPhase, TypeOK
  <2> QED
    BY <2>1, <2>2, <2>3, <1>1, <1>2 DEF DispatchPhase
<1>12. OwedIsCountedOrInHand'
  BY <1>1, <1>7 DEF OwedIsCountedOrInHand
<1> QED
  BY <1>8, <1>9, <1>10, <1>11, <1>12 DEF RingInv

\* A step that leaves the ring alone keeps what the invariant says of it.
LEMMA RingStays ==
  ASSUME WriteFollowsCounted, UNCHANGED <<records, write, count>>, Oldest' = Oldest
  PROVE  /\ WriteFollowsCounted'
         /\ Counted' = Counted
         /\ \A k \in 0..(count - 1) : records'[Slot(k)'] = records[Slot(k)]
         /\ records'[Slot(0)'] = records[Slot(0)]
BY SlotsStay DEF WriteFollowsCounted, Counted

LEMMA DispatchInv ==
  ASSUME RingInv, DispatchOne
  PROVE  RingInv'
<1> USE RingAssumption
<1>1. /\ TypeOK /\ WriteFollowsCounted /\ CountedIsMarked /\ DispatchPhase
      /\ OwedIsCountedOrInHand
  BY DEF RingInv
<1>2. /\ read \in 0..(Capacity - 1) /\ count \in 0..Capacity
      /\ \A k \in 0..Capacity : Slot(k) \in 0..(Capacity - 1)
  BY <1>1, SlotInRange DEF TypeOK
<1>3. CASE UNCHANGED <<records, write, count, pending>> /\ Oldest' = Oldest
           /\ TypeOK' /\ DispatchPhase' /\ OwedIsCountedOrInHand' /\ pc # "clear"
  <2>1. WriteFollowsCounted' /\ Counted' = Counted
        /\ \A k \in 0..(count - 1) : records'[Slot(k)'] = records[Slot(k)]
    BY <1>1, <1>3, RingStays
  <2>2. CountedIsMarked'
    BY <1>1, <1>3, <2>1 DEF CountedIsMarked
  <2> QED
    BY <1>3, <2>1, <2>2 DEF RingInv
<1>4. CASE Test
  <2>1. Oldest' = Oldest /\ UNCHANGED <<records, write, count, pending>> /\ pc # "clear"
    BY <1>4 DEF Test, backend, Oldest
  <2>2. Counted' = Counted
    BY <1>1, <2>1, RingStays
  <2>3. TypeOK' /\ DispatchPhase' /\ OwedIsCountedOrInHand'
    BY <1>1, <1>2, <1>4, <2>2
       DEF Test, backend, TypeOK, Statements, DispatchPhase, OwedIsCountedOrInHand
  <2> QED
    BY <1>3, <2>1, <2>3
<1>5. CASE Copy
  <2>1. Oldest' = Oldest /\ UNCHANGED <<records, write, count, pending>> /\ pc # "clear"
    BY <1>5 DEF Copy, backend, Oldest
  <2>2. Counted' = Counted /\ records'[Slot(0)'] = records[Slot(0)]
    BY <1>1, <2>1, RingStays
  <2>3. record' = records[Slot(0)] /\ count > 0
    BY <1>1, <1>2, <1>5, FirstSlot DEF Copy, Oldest, DispatchPhase
  <2>4. TypeOK' /\ DispatchPhase' /\ OwedIsCountedOrInHand'
    BY <1>1, <1>2, <1>5, <2>2, <2>3
       DEF Copy, backend, TypeOK, Statements, DispatchPhase, OwedIsCountedOrInHand
  <2> QED
    BY <1>3, <2>1, <2>4
<1>6. CASE AdvanceRead
  <2>1. Oldest' = Oldest /\ UNCHANGED <<records, write, count, pending>> /\ pc # "clear"
    BY <1>2, <1>6, OldestIsBehind DEF AdvanceRead, Oldest
  <2>2. Counted' = Counted /\ records'[Slot(0)'] = records[Slot(0)]
    BY <1>1, <2>1, RingStays
  <2>3. read' \in 0..(Capacity - 1)
    BY <1>2, <1>6, AdvanceInRange DEF AdvanceRead
  <2>4. TypeOK' /\ DispatchPhase' /\ OwedIsCountedOrInHand'
    BY <1>1, <1>2, <1>6, <2>2, <2>3
       DEF AdvanceRead, TypeOK, Statements, DispatchPhase, OwedIsCountedOrInHand
  <2> QED
    BY <1>3, <2>1, <2>4
<1>7. CASE LoadCount
  <2>1. Oldest' = Oldest /\ UNCHANGED <<records, write, count, pending>> /\ pc # "clear"
    BY <1>7 DEF LoadCount, backend, Oldest
  <2>2. Counted' = Counted /\ records'[Slot(0)'] = records[Slot(0)]
    BY <1>1, <2>1, RingStays
  <2>3. TypeOK' /\ DispatchPhase' /\ OwedIsCountedOrInHand'
    BY <1>1, <1>2, <1>7, <2>2
       DEF LoadCount, backend, TypeOK, Statements, DispatchPhase, OwedIsCountedOrInHand
  <2> QED
    BY <1>3, <2>1, <2>3
<1>8. CASE StoreCount
  <2>1. /\ count > 0 /\ count' = count - 1 /\ record = records[Slot(0)]
        /\ pc' = "clear" /\ UNCHANGED <<records, read, write, pending, record, loaded, owed>>
    BY <1>1, <1>8 DEF StoreCount, DispatchPhase
  <2>2. \A k \in 0..(Capacity - 1) : Slot(k)' = Slot(k + 1)
    BY <1>2, <1>8, <2>1, SlotAfterStore DEF StoreCount
  <2>3. WriteFollowsCounted'
    BY <1>1, <1>2, <2>1, <2>2 DEF WriteFollowsCounted
  <2>4. record \in Deferred /\ pending[record]
    BY <1>1, <1>2, <2>1 DEF CountedIsMarked
  <2>5. Counted' = Counted \ {record}
    <3>1. ASSUME NEW e \in Counted' PROVE e \in Counted /\ e # record
      <4>1. PICK k \in 0..(count' - 1) : e = records'[Slot(k)']
        BY <3>1 DEF Counted
      <4>2. e = records[Slot(k + 1)] /\ k + 1 \in 0..(count - 1) /\ 0 \in 0..(count - 1)
        BY <1>2, <2>1, <2>2, <4>1
      <4> QED
        BY <1>1, <1>2, <2>1, <4>1, <4>2 DEF Counted, CountedIsMarked
    <3>2. ASSUME NEW e \in Counted, e # record PROVE e \in Counted'
      <4>1. PICK k \in 0..(count - 1) : e = records[Slot(k)]
        BY DEF Counted
      <4>2. k # 0
        BY <2>1, <3>2, <4>1
      <4>3. k - 1 \in 0..(count' - 1) /\ k - 1 \in 0..(Capacity - 1) /\ (k - 1) + 1 = k
        BY <1>2, <2>1, <4>1, <4>2
      <4>4. e = records'[Slot(k - 1)']
        BY <2>1, <2>2, <4>1, <4>3
      <4> QED
        BY <4>3, <4>4 DEF Counted
    <3> QED
      BY <3>1, <3>2
  <2>6. \A k \in 0..(count' - 1) : /\ records'[Slot(k)'] = records[Slot(k + 1)]
                                   /\ k + 1 \in 0..(count - 1)
    BY <1>2, <2>1, <2>2
  <2>7. CountedIsMarked'
    <3>1. \A k \in 0..(count' - 1) :
            records'[Slot(k)'] \in Deferred /\ pending'[records'[Slot(k)']]
      BY <1>1, <2>1, <2>6 DEF CountedIsMarked
    <3>2. \A j, k \in 0..(count' - 1) : records'[Slot(j)'] = records'[Slot(k)'] => j = k
      <4> SUFFICES ASSUME NEW j \in 0..(count' - 1), NEW k \in 0..(count' - 1),
                          records'[Slot(j)'] = records'[Slot(k)']
                   PROVE  j = k
        OBVIOUS
      <4>1. j + 1 = k + 1
        BY <1>1, <2>6 DEF CountedIsMarked
      <4> QED
        BY <1>2, <2>1, <4>1
    <3>3. \A e \in Deferred : pending'[e] => e \in Counted' \/ (pc' = "clear" /\ e = record')
      BY <1>1, <1>8, <2>1, <2>5 DEF CountedIsMarked, StoreCount
    <3> QED
      BY <3>1, <3>2, <3>3 DEF CountedIsMarked
  <2>8. TypeOK' /\ DispatchPhase' /\ OwedIsCountedOrInHand'
    BY <1>1, <1>2, <1>8, <2>1, <2>4, <2>5
       DEF TypeOK, Statements, DispatchPhase, OwedIsCountedOrInHand
  <2> QED
    BY <2>3, <2>7, <2>8 DEF RingInv
<1>9. CASE ClearMark
  <2>1. Oldest' = Oldest /\ UNCHANGED <<records, write, count>>
    BY <1>9 DEF ClearMark, Oldest
  <2>2. /\ WriteFollowsCounted' /\ Counted' = Counted
        /\ \A k \in 0..(count - 1) : records'[Slot(k)'] = records[Slot(k)]
    BY <1>1, <2>1, RingStays
  <2>3. /\ record \in Deferred /\ record \notin Counted
        /\ pending' = [pending EXCEPT ![record] = FALSE] /\ pc = "clear" /\ pc' = "invoke"
        /\ UNCHANGED <<read, record, owed>>
    BY <1>1, <1>9 DEF ClearMark, DispatchPhase
  <2>4. CountedIsMarked'
    BY <1>1, <2>1, <2>2, <2>3 DEF CountedIsMarked, Counted, TypeOK
  <2>5. TypeOK' /\ DispatchPhase' /\ OwedIsCountedOrInHand'
    BY <1>1, <2>1, <2>2, <2>3
       DEF TypeOK, Statements, DispatchPhase, OwedIsCountedOrInHand
  <2> QED
    BY <2>2, <2>4, <2>5 DEF RingInv
<1>10. CASE Invoke
  <2>1. Oldest' = Oldest /\ UNCHANGED <<records, write, count, pending>> /\ pc # "clear"
    BY <1>10 DEF Invoke, backend, Oldest
  <2>2. Counted' = Counted
    BY <1>1, <2>1, RingStays
  <2>3. TypeOK' /\ DispatchPhase' /\ OwedIsCountedOrInHand'
    BY <1>1, <1>10, <2>2
       DEF Invoke, backend, TypeOK, Statements, DispatchPhase, OwedIsCountedOrInHand
  <2> QED
    BY <1>3, <2>1, <2>3
<1>11. CASE Return
  <2>1. Oldest' = Oldest /\ UNCHANGED <<records, write, count, pending>> /\ pc # "clear"
    BY <1>11 DEF Return, backend, Oldest
  <2>2. Counted' = Counted
    BY <1>1, <2>1, RingStays
  <2>3. TypeOK' /\ DispatchPhase' /\ OwedIsCountedOrInHand'
    BY <1>1, <1>11, <2>2
       DEF Return, backend, TypeOK, Statements, DispatchPhase, OwedIsCountedOrInHand
  <2> QED
    BY <1>3, <2>1, <2>3
<1> QED
  BY <1>4, <1>5, <1>6, <1>7, <1>8, <1>9, <1>10, <1>11 DEF DispatchOne

\* A fire whose mark is set, or that finds no free slot, leaves the ring alone.
LEMMA PostInv ==
  ASSUME RingInv, "store" \in Masked, NEW e \in Deferred, Post(e)
  PROVE  RingInv'
<1>1. /\ TypeOK /\ WriteFollowsCounted /\ CountedIsMarked /\ DispatchPhase
      /\ OwedIsCountedOrInHand
  BY DEF RingInv
<1>2. pc # "store" /\ UNCHANGED <<pc, record, loaded>>
  BY DEF Post, InterruptsOn
<1>3. CASE UNCHANGED backend /\ (owed' = owed \/ (pending[e] /\ owed' = owed \cup {e}))
  <2>1. Oldest' = Oldest /\ UNCHANGED <<records, read, write, count, pending>>
    BY <1>2, <1>3 DEF backend, Oldest
  <2>2. /\ WriteFollowsCounted' /\ Counted' = Counted
        /\ \A k \in 0..(count - 1) : records'[Slot(k)'] = records[Slot(k)]
        /\ records'[Slot(0)'] = records[Slot(0)]
    BY <1>1, <2>1, RingStays
  <2>3. TypeOK' /\ CountedIsMarked' /\ DispatchPhase'
    BY <1>1, <1>2, <1>3, <2>1, <2>2 DEF TypeOK, CountedIsMarked, DispatchPhase
  <2>4. OwedIsCountedOrInHand'
    BY <1>1, <1>2, <1>3, <2>2 DEF OwedIsCountedOrInHand, CountedIsMarked
  <2> QED
    BY <2>2, <2>3, <2>4 DEF RingInv
<1>4. CASE /\ ~pending[e]
           /\ count # Capacity
           /\ records' = [records EXCEPT ![write] = e]
           /\ write' = Advance(write)
           /\ count' = count + 1
           /\ pending' = [pending EXCEPT ![e] = TRUE]
           /\ owed' = owed \cup {e}
           /\ UNCHANGED read
  BY <1>2, <1>4, AcceptInv
<1> QED
  BY <1>3, <1>4 DEF Post

LEMMA StepInv ==
  ASSUME RingInv, "store" \in Masked, [Next]_vars
  PROVE  RingInv'
<1>1. CASE UNCHANGED vars
  BY <1>1 DEF vars, backend, RingInv, TypeOK, WriteFollowsCounted, CountedIsMarked,
     DispatchPhase, OwedIsCountedOrInHand, Counted, Slot, Oldest
<1> QED
  BY <1>1, PostInv, DispatchInv DEF Next

\* If interrupts are off between the load and the store of count_, the ring, the
\* marks and the record in hand agree after every statement.
THEOREM RingInvariant == "store" \in Masked => (Spec => []RingInv)
<1> SUFFICES ASSUME "store" \in Masked PROVE Spec => []RingInv
  OBVIOUS
<1>1. Init => RingInv
  BY InitInv
<1>2. RingInv /\ [Next]_vars => RingInv'
  BY StepInv
<1> QED
  BY <1>1, <1>2, PTL DEF Spec

\* Nothing that was fired and not dropped is without a record or a handler about
\* to start: no statement but that store has to be serialized with the posts.
THEOREM NothingStranded == "store" \in Masked => (Spec => []FireNeverStranded)
<1> SUFFICES ASSUME "store" \in Masked PROVE Spec => []FireNeverStranded
  OBVIOUS
<1>1. RingInv => FireNeverStranded
  <2> SUFFICES ASSUME RingInv, NEW e \in owed PROVE e \in InRing \cup InHand
    BY DEF FireNeverStranded
  <2>1. TypeOK /\ DispatchPhase
    BY DEF RingInv
  <2>2. CASE pc \in {"clear", "invoke"} /\ e = record
    BY <2>2 DEF InHand
  <2>3. CASE e \in Counted
    <3>1. PICK k \in 0..(count - 1) : e = records[Slot(k)]
      BY <2>3 DEF Counted
    <3>2. CASE pc \notin {"load", "store"}
      <4>1. count - 1 - 0 = count - 1
        BY <2>1, RingAssumption DEF TypeOK
      <4> QED
        BY <3>1, <3>2, <4>1 DEF InRing, Slot, Oldest
    <3>3. CASE pc \in {"load", "store"}
      <4>1. CASE k = 0
        BY <2>1, <3>1, <3>3, <4>1 DEF DispatchPhase, InHand
      <4>2. CASE k # 0
        <5>1. k - 1 \in 0..(count - 1 - 1) /\ k - 1 \in 0..(Capacity - 1)
              /\ read \in 0..(Capacity - 1)
          BY <2>1, <3>1, <4>2, RingAssumption DEF TypeOK
        <5>2. Advance(Oldest) = read
          BY <3>3, <5>1, ReadIsNext DEF Oldest
        <5>3. (Oldest + k) % Capacity = (read + (k - 1)) % Capacity
          <6>1. (Advance(Oldest) + (k - 1)) % Capacity = (Oldest + (k - 1) + 1) % Capacity
            BY <5>1, OldestInRange, AdvanceThenAdd
          <6>2. Oldest + (k - 1) + 1 = Oldest + k
            BY <5>1, OldestInRange, RingAssumption
          <6> QED
            BY <5>2, <6>1, <6>2
        <5> QED
          BY <3>1, <3>3, <5>1, <5>3 DEF InRing, Slot
      <4> QED
        BY <4>1, <4>2
    <3> QED
      BY <3>2, <3>3
  <2> QED
    BY <2>2, <2>3 DEF RingInv, OwedIsCountedOrInHand
<1> QED
  BY <1>1, RingInvariant, PTL

-----------------------------------------------------------------------------
(* The refinement.                                                         *)
CountedFacts ==
  /\ CountedInOrder \in Seq(Deferred)
  /\ Len(CountedInOrder) = count
  /\ \A k \in 1..count : CountedInOrder[k] = records[Slot(k - 1)]

LEMMA CountedIsSeq == RingInv => CountedFacts
<1> SUFFICES ASSUME RingInv PROVE CountedFacts
  OBVIOUS
<1>1. count \in Nat
  BY RingAssumption DEF RingInv, TypeOK
<1>2. \A k \in 1..count : k - 1 \in 0..(count - 1)
  BY <1>1
<1>3. CountedInOrder \in [1..count -> Deferred]
  BY <1>2 DEF CountedInOrder, RingInv, CountedIsMarked
<1> QED
  BY <1>1, <1>3 DEF CountedInOrder, CountedFacts

\* A step that leaves the ring and what it counts alone does not show in the queue.
LEMMA CountedStays ==
  ASSUME UNCHANGED <<records, count>>, Oldest' = Oldest
  PROVE  UNCHANGED CountedInOrder
BY SlotsStay DEF CountedInOrder

\* A fire that is queued is accepted by the abstract queue.
LEMMA AcceptRefines ==
  ASSUME RingInv, RingInv', NEW e \in Deferred, ~pending[e], count # Capacity,
         records' = [records EXCEPT ![write] = e], count' = count + 1,
         UNCHANGED <<read, pc, record>>
  PROVE  Queue!Accept(e)
<1> USE RingAssumption
<1> DEFINE q == CountedInOrder
<1>1. /\ count \in 0..(Capacity - 1) /\ read \in 0..(Capacity - 1)
      /\ write = Slot(count) /\ write \in 0..(Capacity - 1)
      /\ records \in [0..(Capacity - 1) -> Deferred \cup {NoEvent}]
  BY DEF RingInv, TypeOK, WriteFollowsCounted
<1>2. q \in Seq(Deferred) /\ Len(q) = count /\ \A k \in 1..count : q[k] = records[Slot(k - 1)]
  BY CountedIsSeq DEF CountedFacts
<1>3. /\ q' \in Seq(Deferred) /\ Len(q') = count'
      /\ \A k \in 1..count' : q'[k] = records'[Slot(k - 1)']
  <2>1. CountedFacts'
    BY CountedIsSeq, PTL
  <2> QED
    BY <2>1 DEF CountedFacts
<1>4. \A k \in 0..count : Slot(k)' = Slot(k) /\ Slot(k) \in 0..(Capacity - 1)
  BY <1>1, SlotInRange DEF Slot, Oldest
<1>5. \A k \in 1..count : q'[k] = q[k]
  <2> SUFFICES ASSUME NEW k \in 1..count PROVE q'[k] = q[k]
    OBVIOUS
  <2>1. Slot(k - 1) # Slot(count)
    BY <1>1, SlotInjective
  <2> QED
    BY <2>1, <1>1, <1>2, <1>3, <1>4
<1>6. q'[count + 1] = e
  BY <1>1, <1>3, <1>4
<1>7. q' = Append(q, e)
  <2> HIDE DEF q
  <2>1. /\ Append(q, e) \in Seq(Deferred) /\ Len(Append(q, e)) = count + 1
        /\ \A k \in 1..count : Append(q, e)[k] = q[k]
        /\ Append(q, e)[count + 1] = e
    BY <1>1, <1>2
  <2>2. \A k \in 1..Len(q') : q'[k] = Append(q, e)[k]
    BY <2>1, <1>1, <1>3, <1>5, <1>6
  <2> QED
    BY <2>1, <2>2, <1>1, <1>3, SeqEqual
<1>8. ASSUME NEW k \in 1..count PROVE q[k] # e
  <2>1. k - 1 \in 0..(count - 1)
    BY <1>1
  <2>2. pending[records[Slot(k - 1)]] /\ ~pending[e]
    BY <2>1 DEF RingInv, CountedIsMarked
  <2> QED
    BY <2>2, <1>2
<1>9. e \notin Queue!Waiting
  BY <1>2, <1>8 DEF Queue!Waiting
<1>10. UNCHANGED <<LoopPhase, Running>>
  BY DEF LoopPhase, Running
<1> QED
  BY <1>1, <1>2, <1>7, <1>9, <1>10 DEF Queue!Accept

\* The store of count_ takes the oldest event off the abstract queue.
LEMMA StoreRefines ==
  ASSUME RingInv, RingInv', StoreCount
  PROVE  Queue!Take
<1> USE RingAssumption
<1> DEFINE q == CountedInOrder
<1>1. /\ count \in 1..Capacity /\ count' = count - 1
      /\ read \in 0..(Capacity - 1) /\ read' = read
      /\ records' = records /\ record = records[Slot(0)] /\ record' = record
      /\ pc = "store" /\ pc' = "clear"
  BY DEF RingInv, TypeOK, DispatchPhase, StoreCount
<1>2. q \in Seq(Deferred) /\ Len(q) = count /\ \A k \in 1..count : q[k] = records[Slot(k - 1)]
  BY CountedIsSeq DEF CountedFacts
<1>3. /\ q' \in Seq(Deferred) /\ Len(q') = count'
      /\ \A k \in 1..count' : q'[k] = records'[Slot(k - 1)']
  <2>1. CountedFacts'
    BY CountedIsSeq, PTL
  <2> QED
    BY <2>1 DEF CountedFacts
<1>4. q # <<>> /\ q[1] = record
  BY <1>1, <1>2
<1>5. Head(q) = record
  <2> HIDE DEF q
  <2> QED
    BY <1>2, <1>4
<1>6. \A k \in 1..count' : q'[k] = q[k + 1]
  <2> SUFFICES ASSUME NEW k \in 1..count' PROVE q'[k] = q[k + 1]
    OBVIOUS
  <2>1. k - 1 \in 0..(Capacity - 1) /\ k + 1 \in 1..count
    BY <1>1
  <2>2. Slot(k - 1)' = Slot((k - 1) + 1) /\ (k - 1) + 1 = (k + 1) - 1
    BY <2>1, <1>1, SlotAfterStore
  <2>3. q'[k] = records[Slot((k + 1) - 1)]
    BY <2>2, <1>1, <1>3
  <2>4. q[k + 1] = records[Slot((k + 1) - 1)]
    BY <2>1, <1>2
  <2> QED
    BY <2>3, <2>4
<1>7. q' = Tail(q)
  <2> HIDE DEF q
  <2>1. /\ Tail(q) \in Seq(Deferred) /\ Len(Tail(q)) = count'
        /\ \A k \in 1..count' : Tail(q)[k] = q[k + 1]
    BY <1>1, <1>2, <1>4, HeadTailProperties
  <2>2. \A k \in 1..Len(q') : q'[k] = Tail(q)[k]
    BY <2>1, <1>3, <1>6
  <2> QED
    BY <2>1, <2>2, <1>3, SeqEqual
<1>8. /\ LoopPhase = "idle" /\ LoopPhase' = "claimed"
      /\ Running' = record
  BY <1>1 DEF LoopPhase, Running
<1> QED
  BY <1>4, <1>5, <1>7, <1>8 DEF Queue!Take

\* The statements implement the abstract queue: interrupts between them do not
\* show, whatever else than the store of count_ is serialized or not.
THEOREM StatementsImplementQueue == "store" \in Masked => (Spec => ImplementsQueue)
<1> SUFFICES ASSUME "store" \in Masked PROVE Spec => Queue!Spec
  BY DEF ImplementsQueue
<1>1. Init => Queue!Init
  BY DEF Init, Queue!Init, CountedInOrder, LoopPhase, Running
<1>2. RingInv /\ RingInv' /\ [Next]_vars => [Queue!Next]_(Queue!vars)
  <2> SUFFICES ASSUME RingInv, RingInv', [Next]_vars PROVE [Queue!Next]_(Queue!vars)
    OBVIOUS
  <2>1. ASSUME NEW e \in Deferred, Post(e) PROVE [Queue!Next]_(Queue!vars)
    <3>1. CASE UNCHANGED <<backend, pc, record>>
      <4>1. UNCHANGED <<records, count, LoopPhase, Running>> /\ Oldest' = Oldest
        BY <3>1 DEF backend, LoopPhase, Running, Oldest
      <4> QED
        BY <4>1, CountedStays DEF Queue!vars
    <3>2. CASE Queue!Accept(e)
      BY <3>2 DEF Queue!Next
    <3> QED
      BY <2>1, <3>1, <3>2, AcceptRefines DEF Post
  <2>2. CASE Test \/ Copy \/ LoadCount \/ ClearMark
    <3>1. UNCHANGED <<records, count, LoopPhase, Running>> /\ Oldest' = Oldest
      BY <2>2 DEF Test, Copy, LoadCount, ClearMark, backend, LoopPhase, Running, Oldest
    <3> QED
      BY <3>1, CountedStays DEF Queue!vars
  <2>3. CASE AdvanceRead
    <3>1. UNCHANGED <<records, count, LoopPhase, Running>> /\ Oldest' = Oldest
      BY <2>3, OldestIsBehind DEF AdvanceRead, LoopPhase, Running, Oldest, RingInv, TypeOK
    <3> QED
      BY <3>1, CountedStays DEF Queue!vars
  <2>4. CASE StoreCount
    BY <2>4, StoreRefines DEF Queue!Next
  <2>5. CASE Invoke
    <3>1. UNCHANGED <<records, count, Running>> /\ Oldest' = Oldest
          /\ LoopPhase = "claimed" /\ LoopPhase' = "handler"
      BY <2>5 DEF Invoke, backend, LoopPhase, Running, Oldest
    <3> QED
      BY <3>1, CountedStays DEF Queue!Next, Queue!Start
  <2>6. CASE Return
    <3>1. UNCHANGED <<records, count>> /\ Oldest' = Oldest
          /\ LoopPhase = "handler" /\ LoopPhase' = "idle" /\ Running' = NoEvent
      BY <2>6 DEF Return, backend, LoopPhase, Running, Oldest
    <3> QED
      BY <3>1, CountedStays DEF Queue!Next, Queue!Finish
  <2>7. CASE UNCHANGED vars
    <3>1. UNCHANGED <<records, count, LoopPhase, Running>> /\ Oldest' = Oldest
      BY <2>7 DEF vars, backend, LoopPhase, Running, Oldest
    <3> QED
      BY <3>1, CountedStays DEF Queue!vars
  <2> QED
    BY <2>1, <2>2, <2>3, <2>4, <2>5, <2>6, <2>7 DEF Next, DispatchOne
<1> QED
  BY <1>1, <1>2, RingInvariant, PTL DEF Spec, Queue!Spec
=============================================================================
