------------------------- MODULE EventBridgeProofs -------------------------
(***************************************************************************)
(* Theorems about the event bridge for every set of events and every       *)
(* capacity.  All of them rest on BridgeInv, which ties the ring, the      *)
(* marks, the dispatch in progress and the history variables together.     *)
(***************************************************************************)
EXTENDS EventBridge, FiniteSetTheorems, SequenceTheorems, TLAPS

(* Arithmetic of the ring.                                                 *)
LEMMA SlotInRange ==
  ASSUME read \in 0..(Capacity - 1), NEW k \in 0..Capacity
  PROVE  Slot(k) \in 0..(Capacity - 1)
BY BridgeAssumption DEF Slot

LEMMA SlotInjective ==
  ASSUME read \in 0..(Capacity - 1),
         NEW j \in 0..(Capacity - 1), NEW k \in 0..(Capacity - 1),
         Slot(j) = Slot(k)
  PROVE  j = k
BY BridgeAssumption DEF Slot

LEMMA AdvanceInRange ==
  ASSUME NEW i \in 0..(Capacity - 1)
  PROVE  Advance(i) \in 0..(Capacity - 1)
BY BridgeAssumption DEF Advance

\* The slot after the k-th is the next one; the slot of a full ring is read.
LEMMA AdvanceSlot ==
  ASSUME read \in 0..(Capacity - 1), NEW k \in 0..(Capacity - 1)
  PROVE  Advance(Slot(k)) = Slot(k + 1)
BY BridgeAssumption DEF Slot, Advance

\* Taking the oldest record moves every other one forward by one.
LEMMA SlotAfterRead ==
  ASSUME read \in 0..(Capacity - 1), read' = Advance(read),
         NEW k \in 0..(Capacity - 1)
  PROVE  Slot(k)' = Slot(k + 1)
BY BridgeAssumption DEF Slot, Advance

LEMMA DeferredEvents == Deferred \subseteq Events /\ NoEvent \notin Deferred
BY BridgeAssumption DEF Deferred

-----------------------------------------------------------------------------
LEMMA InitInv == Init => BridgeInv
  <1> SUFFICES ASSUME Init PROVE BridgeInv
    OBVIOUS
  <1> USE BridgeAssumption
  <1>1. TypeOK
    BY DEF Init, TypeOK
  <1>2. WriteFollowsQueue
    BY DEF Init, WriteFollowsQueue, Slot
  <1>3. QueueIsMarked
    BY DEF Init, QueueIsMarked
  <1>4. DispatchPhase /\ OwedIsMarkedOrTaken
    BY DEF Init, DispatchPhase, OwedIsMarkedOrTaken
  <1>5. LagLeavesRoom
    BY DEF Init, LagLeavesRoom
  <1>6. QED
    BY <1>1, <1>2, <1>3, <1>4, <1>5 DEF BridgeInv

\* Queueing an event in the free slot behind the others.
LEMMA AcceptInv ==
  ASSUME BridgeInv, NEW e \in Deferred, Accept(e),
         UNCHANGED <<phase, running, isr>>
  PROVE  BridgeInv'
  <1> USE BridgeAssumption
  <1>1. TypeOK /\ WriteFollowsQueue /\ QueueIsMarked /\ DispatchPhase
          /\ OwedIsMarkedOrTaken /\ LagLeavesRoom
    BY DEF BridgeInv
  <1>2. /\ count \in 0..(Capacity - 1)
        /\ read \in 0..(Capacity - 1) /\ write \in 0..(Capacity - 1)
        /\ count' = count + 1 /\ write' = Advance(write) /\ read' = read
        /\ records' = [records EXCEPT ![write] = e]
        /\ pending' = [pending EXCEPT ![e] = TRUE]
        /\ lag' = [lag EXCEPT ![e] = 0]
        /\ owed' = owed \cup {e}
    BY <1>1 DEF TypeOK, Accept
  <1>3. \A k \in 0..Capacity : Slot(k)' = Slot(k) /\ Slot(k) \in 0..(Capacity - 1)
    BY <1>2, SlotInRange DEF Slot
  <1>4. records'[Slot(count)] = e
    BY <1>1, <1>2, <1>3 DEF TypeOK, WriteFollowsQueue
  <1>5. \A k \in 0..(count - 1) : records'[Slot(k)] = records[Slot(k)]
    BY <1>1, <1>2, <1>3, SlotInjective DEF TypeOK, WriteFollowsQueue
  <1>6. \A k \in 0..(count - 1) : records[Slot(k)] # e
    BY <1>1 DEF QueueIsMarked, Accept
  <1>7. TypeOK'
    BY <1>1, <1>2, AdvanceInRange DEF TypeOK
  <1>8. WriteFollowsQueue'
    BY <1>1, <1>2, <1>3, AdvanceSlot DEF WriteFollowsQueue
  <1>9. QueueIsMarked'
    <2>1. ASSUME NEW k \in 0..(count' - 1)
          PROVE  records'[Slot(k)'] \in Deferred /\ pending'[records'[Slot(k)']]
      <3>1. CASE k = count
        BY <3>1, <1>1, <1>2, <1>3, <1>4 DEF TypeOK
      <3>2. CASE k \in 0..(count - 1)
        <4>1. records'[Slot(k)'] = records[Slot(k)]
          BY <3>2, <1>2, <1>3, <1>5
        <4>2. records[Slot(k)] \in Deferred /\ pending[records[Slot(k)]]
          BY <3>2, <1>1 DEF QueueIsMarked
        <4>3. QED
          BY <4>1, <4>2, <1>1, <1>2 DEF TypeOK
      <3>3. QED
        BY <3>1, <3>2, <1>2
    <2>2. \A j, k \in 0..(count' - 1) :
            records'[Slot(j)'] = records'[Slot(k)'] => j = k
      BY <1>1, <1>2, <1>3, <1>4, <1>5, <1>6 DEF QueueIsMarked
    <2>3. ASSUME NEW f \in Deferred, pending'[f]
          PROVE  \E k \in 0..(count' - 1) : records'[Slot(k)'] = f
      <3>1. CASE f = e
        BY <3>1, <1>2, <1>3, <1>4
      <3>2. CASE f # e
        <4>1. PICK k \in 0..(count - 1) : records[Slot(k)] = f
          BY <2>3, <3>2, <1>1, <1>2 DEF QueueIsMarked, TypeOK
        <4>2. k \in 0..(count' - 1) /\ records'[Slot(k)'] = f
          BY <4>1, <1>2, <1>3, <1>5
        <4>3. QED
          BY <4>2
      <3>3. QED
        BY <3>1, <3>2
    <2>4. QED
      BY <2>1, <2>2, <2>3 DEF QueueIsMarked
  <1>10. DispatchPhase' /\ OwedIsMarkedOrTaken'
    BY <1>1, <1>2 DEF DispatchPhase, OwedIsMarkedOrTaken, TypeOK
  <1>11. LagLeavesRoom'
    <2> SUFFICES ASSUME NEW k \in 0..(count' - 1)
                 PROVE  lag'[records'[Slot(k)']] + k
                          + (IF phase' = "claimed" THEN 1 ELSE 0) <= Capacity
      BY DEF LagLeavesRoom
    <2>1. CASE k = count
      <3>1. lag'[records'[Slot(k)']] = 0
        BY <2>1, <1>1, <1>2, <1>3, <1>4 DEF TypeOK
      <3>2. QED
        BY <2>1, <3>1, <1>2
    <2>2. CASE k \in 0..(count - 1)
      <3>1. /\ records'[Slot(k)'] = records[Slot(k)]
            /\ records[Slot(k)] \in Deferred /\ records[Slot(k)] # e
        BY <2>2, <1>1, <1>2, <1>3, <1>5, <1>6 DEF QueueIsMarked
      <3>2. lag'[records'[Slot(k)']] = lag[records[Slot(k)]]
        BY <3>1, <1>1, <1>2 DEF TypeOK
      <3>3. QED
        BY <2>2, <3>2, <1>1 DEF LagLeavesRoom
    <2>3. QED
      BY <2>1, <2>2, <1>2
  <1>12. QED
    BY <1>7, <1>8, <1>9, <1>10, <1>11 DEF BridgeInv

\* Taking the oldest record and clearing its mark.
LEMMA DequeueInv ==
  ASSUME BridgeInv, Dequeue
  PROVE  BridgeInv'
  <1> USE BridgeAssumption
  <1>1. TypeOK /\ WriteFollowsQueue /\ QueueIsMarked /\ DispatchPhase
          /\ OwedIsMarkedOrTaken /\ LagLeavesRoom
    BY DEF BridgeInv
  <1> DEFINE first == records[read]
  <1>2. /\ count \in 1..Capacity /\ count' = count - 1
        /\ read \in 0..(Capacity - 1) /\ read' = Advance(read)
        /\ write' = write /\ records' = records /\ owed' = owed /\ lag' = lag
        /\ pending' = [pending EXCEPT ![first] = FALSE]
        /\ phase = "idle" /\ phase' = "claimed" /\ running' = first
        /\ isr' = isr
    BY <1>1 DEF TypeOK, Dequeue
  <1>3. \A k \in 0..(Capacity - 1) : Slot(k)' = Slot(k + 1)
    BY <1>2, SlotAfterRead
  <1>4. first = records[Slot(0)] /\ first \in Deferred /\ pending[first]
    BY <1>1, <1>2 DEF QueueIsMarked, Slot
  <1>5. \A k \in 0..(count' - 1) :
          /\ k + 1 \in 0..(count - 1)
          /\ records'[Slot(k)'] = records[Slot(k + 1)]
          /\ records[Slot(k + 1)] \in Deferred /\ pending[records[Slot(k + 1)]]
          /\ records[Slot(k + 1)] # first
    BY <1>1, <1>2, <1>3, <1>4 DEF QueueIsMarked
  <1>6. TypeOK'
    BY <1>1, <1>2, <1>4, AdvanceInRange DEF TypeOK
  <1>7. WriteFollowsQueue'
    BY <1>1, <1>2 DEF WriteFollowsQueue, Slot, Advance, TypeOK
  <1>8. QueueIsMarked'
    <2>1. ASSUME NEW k \in 0..(count' - 1)
          PROVE  records'[Slot(k)'] \in Deferred /\ pending'[records'[Slot(k)']]
      BY <1>1, <1>2, <1>5 DEF TypeOK
    <2>2. ASSUME NEW j \in 0..(count' - 1), NEW k \in 0..(count' - 1),
                 records'[Slot(j)'] = records'[Slot(k)']
          PROVE  j = k
      <3>1. j + 1 = k + 1
        BY <2>2, <1>1, <1>5 DEF QueueIsMarked
      <3>2. QED
        BY <3>1
    <2>3. ASSUME NEW f \in Deferred, pending'[f]
          PROVE  \E k \in 0..(count' - 1) : records'[Slot(k)'] = f
      <3>1. pending[f] /\ f # first
        BY <2>3, <1>1, <1>2, <1>4 DEF TypeOK
      <3>2. PICK i \in 0..(count - 1) : records[Slot(i)] = f
        BY <3>1, <1>1 DEF QueueIsMarked
      <3>3. i # 0 /\ i - 1 \in 0..(count' - 1)
        BY <3>1, <3>2, <1>2, <1>4
      <3>4. records'[Slot(i - 1)'] = records[Slot((i - 1) + 1)]
        BY <3>3, <1>5
      <3>5. QED
        BY <3>2, <3>3, <3>4
    <2>4. QED
      BY <2>1, <2>2, <2>3 DEF QueueIsMarked
  <1>9. DispatchPhase' /\ OwedIsMarkedOrTaken'
    BY <1>1, <1>2, <1>4 DEF DispatchPhase, OwedIsMarkedOrTaken, TypeOK
  <1>10. LagLeavesRoom'
    <2> SUFFICES ASSUME NEW k \in 0..(count' - 1)
                 PROVE  lag'[records'[Slot(k)']] + k
                          + (IF phase' = "claimed" THEN 1 ELSE 0) <= Capacity
      BY DEF LagLeavesRoom
    <2>1. lag[records[Slot(k + 1)]] + (k + 1) + 0 <= Capacity
      BY <1>1, <1>2, <1>5 DEF LagLeavesRoom
    <2>2. lag[records[Slot(k + 1)]] \in Nat
      BY <1>1, <1>5 DEF TypeOK
    <2>3. QED
      BY <2>1, <2>2, <1>2, <1>5
  <1>11. QED
    BY <1>6, <1>7, <1>8, <1>9, <1>10 DEF BridgeInv

\* Starting a handler answers every earlier fire of its event, and every event
\* in the ring has waited for one start more.
LEMMA InvokeInv ==
  ASSUME BridgeInv, Invoke
  PROVE  BridgeInv'
  <1> USE BridgeAssumption
  <1>1. TypeOK /\ WriteFollowsQueue /\ QueueIsMarked /\ DispatchPhase
          /\ OwedIsMarkedOrTaken /\ LagLeavesRoom
    BY DEF BridgeInv
  <1>2. /\ UNCHANGED <<records, read, write, count, pending, running, isr>>
        /\ phase = "claimed" /\ phase' = "handler"
        /\ owed' = owed \ {running}
        /\ lag' = [e \in Deferred |-> IF pending[e] THEN lag[e] + 1 ELSE lag[e]]
    BY DEF Invoke, ring
  <1>3. TypeOK'
    BY <1>1, <1>2 DEF TypeOK
  <1>4. WriteFollowsQueue' /\ QueueIsMarked' /\ DispatchPhase'
    BY <1>1, <1>2 DEF WriteFollowsQueue, QueueIsMarked, DispatchPhase, Slot
  <1>5. OwedIsMarkedOrTaken'
    BY <1>1, <1>2 DEF OwedIsMarkedOrTaken
  <1>6. LagLeavesRoom'
    <2> SUFFICES ASSUME NEW k \in 0..(count' - 1)
                 PROVE  lag'[records'[Slot(k)']] + k
                          + (IF phase' = "claimed" THEN 1 ELSE 0) <= Capacity
      BY DEF LagLeavesRoom
    <2>1. records'[Slot(k)'] = records[Slot(k)] /\ records[Slot(k)] \in Deferred
      BY <1>1, <1>2 DEF QueueIsMarked, Slot
    <2>2. lag[records[Slot(k)]] + k + 1 <= Capacity
      BY <1>1, <1>2 DEF LagLeavesRoom
    <2>3. lag[records[Slot(k)]] \in Nat
      BY <2>1, <1>1 DEF TypeOK
    <2>4. lag'[records[Slot(k)]] <= lag[records[Slot(k)]] + 1
      BY <2>1, <2>3, <1>2
    <2>5. lag'[records[Slot(k)]] \in Nat
      BY <2>1, <1>3 DEF TypeOK
    <2>6. QED
      BY <2>1, <2>2, <2>3, <2>4, <2>5, <1>2, <1>1 DEF TypeOK
  <1>7. QED
    BY <1>3, <1>4, <1>5, <1>6 DEF BridgeInv

\* The steps that leave the ring, the marks and the history alone.
LEMMA QuietInv ==
  ASSUME BridgeInv,
         UNCHANGED <<records, read, write, count, pending, lag>>,
         owed' \subseteq owed \cup {e \in Deferred : pending[e]},
         TypeOK', DispatchPhase', phase' = "claimed" => UNCHANGED <<phase, running>>,
         phase = "claimed" => UNCHANGED <<phase, running>>
  PROVE  BridgeInv'
  <1>1. WriteFollowsQueue' /\ QueueIsMarked'
    BY DEF BridgeInv, WriteFollowsQueue, QueueIsMarked, Slot
  <1>2. OwedIsMarkedOrTaken'
    BY DEF BridgeInv, OwedIsMarkedOrTaken
  <1>3. LagLeavesRoom'
    BY DEF BridgeInv, LagLeavesRoom, Slot
  <1>4. QED
    BY <1>1, <1>2, <1>3 DEF BridgeInv

LEMMA NextInv == BridgeInv /\ [Next]_vars => BridgeInv'
  <1> SUFFICES ASSUME BridgeInv, [Next]_vars PROVE BridgeInv'
    OBVIOUS
  <1> USE BridgeAssumption
  <1>0. TypeOK /\ DispatchPhase
    BY DEF BridgeInv
  <1>1. ASSUME NEW e \in Events, FireDeferred(e) PROVE BridgeInv'
    <2>1. e \in Deferred /\ UNCHANGED <<phase, running, isr>>
      BY <1>1 DEF FireDeferred
    <2>2. CASE Elide(e) \/ Drop(e)
      <3>1. /\ UNCHANGED <<records, read, write, count, pending, lag>>
            /\ owed' \subseteq owed \cup {f \in Deferred : pending[f]}
        BY <2>1, <2>2 DEF Elide, Drop, ring
      <3>2. TypeOK' /\ DispatchPhase'
        BY <2>1, <3>1, <1>0 DEF TypeOK, DispatchPhase
      <3>3. QED
        BY <2>1, <3>1, <3>2, QuietInv
    <2>3. CASE Accept(e)
      BY <2>1, <2>3, AcceptInv
    <2>4. QED
      BY <1>1, <2>2, <2>3 DEF FireDeferred
  <1>2. ASSUME NEW e \in Events, FireInIsr(e) PROVE BridgeInv'
    <2>1. TypeOK' /\ DispatchPhase'
      BY <1>2, <1>0 DEF FireInIsr, ring, TypeOK, DispatchPhase
    <2>2. QED
      BY <1>2, <2>1, QuietInv DEF FireInIsr, ring
  <1>3. CASE ReturnFromIsr
    <2>1. TypeOK' /\ DispatchPhase'
      BY <1>3, <1>0 DEF ReturnFromIsr, ring, TypeOK, DispatchPhase
    <2>2. QED
      BY <1>3, <2>1, QuietInv DEF ReturnFromIsr, ring
  <1>4. CASE Dequeue
    BY <1>4, DequeueInv
  <1>5. CASE Invoke
    BY <1>5, InvokeInv
  <1>6. CASE Return
    <2>1. TypeOK' /\ DispatchPhase'
      BY <1>6, <1>0 DEF Return, ring, TypeOK, DispatchPhase
    <2>2. QED
      BY <1>6, <2>1, QuietInv DEF Return, ring
  <1>7. CASE UNCHANGED vars
    <2>1. TypeOK' /\ DispatchPhase'
      BY <1>7, <1>0 DEF vars, TypeOK, DispatchPhase
    <2>2. QED
      BY <1>7, <2>1, QuietInv DEF vars
  <1>8. QED
    BY <1>1, <1>2, <1>3, <1>4, <1>5, <1>6, <1>7 DEF Next

-----------------------------------------------------------------------------
\* The invariant that ties ring, marks, dispatch and history holds in every
\* reachable state of MockBackend, whatever the events and the capacity.
THEOREM InductiveInvariant == Spec => []BridgeInv
  <1>1. QED
    BY InitInv, NextInv, PTL DEF Spec

\* Type correctness: the indices of the ring stay in range and every slot a
\* dispatch reads holds a callback that was stored there.
THEOREM TypeCorrect == Spec => []TypeOK
  <1>1. BridgeInv => TypeOK
    BY DEF BridgeInv
  <1>2. QED
    BY <1>1, InductiveInvariant, PTL

\* The marks are exactly the events in the ring, each there once.
THEOREM MarksAgree == Spec => []MarksMatchQueue
  <1>1. BridgeInv => MarksMatchQueue
    BY DEF BridgeInv, QueueIsMarked, MarksMatchQueue, Queued
  <1>2. QED
    BY <1>1, InductiveInvariant, PTL

\* A fire that was accepted or elided stays owed to a handler start to come.
THEOREM FiresAreNotLost == Spec => []NoLostFire
  <1>1. BridgeInv => NoLostFire
    BY DEF BridgeInv, TypeOK, QueueIsMarked, OwedIsMarkedOrTaken, NoLostFire, Queued
  <1>2. QED
    BY <1>1, InductiveInvariant, PTL

\* No queued event waits for more than Capacity handler starts.
THEOREM WaitIsBounded == Spec => []BoundedWait
  <1>1. BridgeInv => BoundedWait
    <2> SUFFICES ASSUME BridgeInv, NEW e \in Deferred, pending[e]
                 PROVE  lag[e] <= Capacity
      BY DEF BoundedWait
    <2> USE BridgeAssumption
    <2>1. PICK k \in 0..(count - 1) : records[Slot(k)] = e
      BY DEF BridgeInv, QueueIsMarked
    <2>2. lag[e] + k + (IF phase = "claimed" THEN 1 ELSE 0) <= Capacity
      BY <2>1 DEF BridgeInv, LagLeavesRoom
    <2>3. lag[e] \in Nat /\ count \in Nat
      BY DEF BridgeInv, TypeOK
    <2>4. QED
      BY <2>1, <2>2, <2>3
  <1>2. QED
    BY <1>1, InductiveInvariant, PTL

\* The events of a full ring are Capacity distinct ones, all marked, so none of
\* them is e.
THEOREM DropsNeedFullRing == Spec => []DropsOnlyWhenFull
  <1>1. BridgeInv => DropsOnlyWhenFull
    <2> SUFFICES ASSUME BridgeInv, NEW e \in Deferred, ~pending[e], count = Capacity
                 PROVE  Cardinality({d \in Deferred \ {e} : pending[d]}) >= Capacity
      BY DEF DropsOnlyWhenFull
    <2> USE BridgeAssumption
    <2> DEFINE slots == 0..(Capacity - 1)
               others == {d \in Deferred \ {e} : pending[d]}
               f == [k \in slots |-> records[Slot(k)]]
    <2>1. IsFiniteSet(others) /\ Cardinality(others) \in Nat
      <3>1. others \in SUBSET Events
        BY DEF Deferred
      <3>2. QED
        BY <3>1, FS_Subset, FS_CardinalityType
    <2>2. IsFiniteSet(slots) /\ Cardinality(slots) = Capacity
      BY FS_Interval
    <2>3. f \in [slots -> others]
      BY DEF BridgeInv, QueueIsMarked
    <2>4. \A j, k \in slots : f[j] = f[k] => j = k
      BY DEF BridgeInv, QueueIsMarked
    <2>5. ~(Cardinality(others) < Cardinality(slots))
      <3> HIDE DEF slots, others, f
      <3>1. QED
        BY <2>1, <2>2, <2>3, <2>4, FS_PigeonHole
    <2>6. QED
      BY <2>1, <2>2, <2>5
  <1>2. QED
    BY <1>1, InductiveInvariant, PTL

\* A ring with a slot per deferred event never drops a fire: Capacity other
\* events do not fit into the deferred events without e.
THEOREM SizedRingNeverDrops == Spec => []NoDropWhenSized
  <1>1. BridgeInv /\ DropsOnlyWhenFull => NoDropWhenSized
    <2> SUFFICES ASSUME BridgeInv, DropsOnlyWhenFull, Cardinality(Deferred) <= Capacity,
                        NEW e \in Deferred, ~pending[e], ~(count < Capacity)
                 PROVE  FALSE
      BY DEF NoDropWhenSized
    <2> USE BridgeAssumption
    <2> DEFINE others == {d \in Deferred \ {e} : pending[d]}
    <2>1. count = Capacity
      BY DEF BridgeInv, TypeOK
    <2>2. IsFiniteSet(Deferred) /\ Cardinality(Deferred) \in Nat
      <3>1. Deferred \in SUBSET Events
        BY DEF Deferred
      <3>2. QED
        BY <3>1, FS_Subset, FS_CardinalityType
    <2>3. IsFiniteSet(Deferred \ {e}) /\ Cardinality(Deferred \ {e}) = Cardinality(Deferred) - 1
      BY <2>2, FS_RemoveElement
    <2>4. Cardinality(others) \in Nat /\ Cardinality(others) <= Cardinality(Deferred \ {e})
      <3>1. others \in SUBSET (Deferred \ {e})
        OBVIOUS
      <3>2. QED
        BY <2>3, <3>1, FS_Subset, FS_CardinalityType
    <2>5. Cardinality(others) >= Capacity
      BY <2>1 DEF DropsOnlyWhenFull
    <2>6. QED
      BY <2>2, <2>3, <2>4, <2>5
  <1>2. QED
    BY <1>1, InductiveInvariant, DropsNeedFullRing, PTL

-----------------------------------------------------------------------------
(* The ring implements the abstract queue.                                 *)

RingAsSeqFacts ==
  /\ RingAsSeq \in Seq(Deferred)
  /\ Len(RingAsSeq) = count
  /\ \A i \in 1..count : RingAsSeq[i] = records[Slot(i - 1)]

LEMMA RingAsSeqProperties == BridgeInv => RingAsSeqFacts
  <1> SUFFICES ASSUME BridgeInv PROVE RingAsSeqFacts
    OBVIOUS
  <1>1. count \in Nat
    BY BridgeAssumption DEF BridgeInv, TypeOK
  <1>2. \A i \in 1..count : i - 1 \in 0..(count - 1)
    BY <1>1
  <1>3. RingAsSeq \in [1..count -> Deferred]
    BY <1>2 DEF BridgeInv, QueueIsMarked, RingAsSeq
  <1>4. QED
    BY <1>1, <1>3 DEF RingAsSeq, RingAsSeqFacts

LEMMA AcceptRefines ==
  ASSUME BridgeInv, BridgeInv', NEW e \in Deferred, Accept(e),
         UNCHANGED <<phase, running>>
  PROVE  Contract!Accept(e)
  <1> USE BridgeAssumption
  <1> DEFINE q == RingAsSeq
  <1>1. /\ count \in 0..(Capacity - 1) /\ count' = count + 1
        /\ read \in 0..(Capacity - 1) /\ read' = read
        /\ write = Slot(count) /\ write \in 0..(Capacity - 1)
        /\ records \in [0..(Capacity - 1) -> Deferred \cup {NoEvent}]
        /\ records' = [records EXCEPT ![write] = e]
    BY DEF BridgeInv, TypeOK, WriteFollowsQueue, Accept
  <1>2. /\ q \in Seq(Deferred) /\ Len(q) = count
        /\ \A i \in 1..count : q[i] = records[Slot(i - 1)]
    BY RingAsSeqProperties DEF RingAsSeqFacts
  <1>3. /\ q' \in Seq(Deferred) /\ Len(q') = count'
        /\ \A i \in 1..count' : q'[i] = records'[Slot(i - 1)']
    <2>1. RingAsSeqFacts'
      BY RingAsSeqProperties, PTL
    <2>2. QED
      BY <2>1 DEF RingAsSeqFacts
  <1>4. \A k \in 0..count : Slot(k)' = Slot(k) /\ Slot(k) \in 0..(Capacity - 1)
    BY <1>1, SlotInRange DEF Slot
  <1>5. \A i \in 1..count : q'[i] = q[i]
    <2> SUFFICES ASSUME NEW i \in 1..count PROVE q'[i] = q[i]
      OBVIOUS
    <2>1. Slot(i - 1) # Slot(count)
      BY <1>1, SlotInjective
    <2>2. QED
      BY <2>1, <1>1, <1>2, <1>3, <1>4
  <1>6. q'[count + 1] = e
    BY <1>1, <1>3, <1>4
  <1>7. q' = Append(q, e)
    <2> HIDE DEF q
    <2>1. /\ Append(q, e) \in Seq(Deferred)
          /\ Len(Append(q, e)) = count + 1
          /\ \A i \in 1..count : Append(q, e)[i] = q[i]
          /\ Append(q, e)[count + 1] = e
      BY <1>1, <1>2
    <2>2. \A i \in 1..Len(q') : q'[i] = Append(q, e)[i]
      BY <2>1, <1>1, <1>3, <1>5, <1>6
    <2>3. QED
      BY <2>1, <2>2, <1>1, <1>3, SeqEqual
  <1>8. ASSUME NEW i \in 1..count PROVE q[i] # e
    <2>1. i - 1 \in 0..(count - 1)
      BY <1>1
    <2>2. pending[records[Slot(i - 1)]] /\ ~pending[e]
      BY <2>1 DEF BridgeInv, QueueIsMarked, Accept
    <2>3. QED
      BY <2>2, <1>2
  <1>9. QED
    <2>1. e \notin Contract!Waiting
      BY <1>2, <1>8 DEF Contract!Waiting
    <2>2. Len(q) < Capacity
      BY <1>1, <1>2
    <2>3. QED
      BY <2>1, <2>2, <1>7 DEF Contract!Accept

LEMMA DequeueRefines ==
  ASSUME BridgeInv, BridgeInv', Dequeue
  PROVE  Contract!Take
  <1> USE BridgeAssumption
  <1> DEFINE q == RingAsSeq
  <1>1. /\ count \in 1..Capacity /\ count' = count - 1
        /\ read \in 0..(Capacity - 1) /\ read' = Advance(read)
        /\ records' = records /\ running' = records[read]
        /\ phase = "idle" /\ phase' = "claimed"
    BY DEF BridgeInv, TypeOK, Dequeue
  <1>2. /\ q \in Seq(Deferred) /\ Len(q) = count
        /\ \A i \in 1..count : q[i] = records[Slot(i - 1)]
    BY RingAsSeqProperties DEF RingAsSeqFacts
  <1>3. /\ q' \in Seq(Deferred) /\ Len(q') = count'
        /\ \A i \in 1..count' : q'[i] = records'[Slot(i - 1)']
    <2>1. RingAsSeqFacts'
      BY RingAsSeqProperties, PTL
    <2>2. QED
      BY <2>1 DEF RingAsSeqFacts
  <1>4. q # <<>>
    BY <1>1, <1>2
  <1>5. Head(q) = records[read]
    <2>1. q[1] = records[Slot(0)] /\ Slot(0) = read
      BY <1>1, <1>2 DEF Slot
    <2> HIDE DEF q
    <2>2. QED
      BY <2>1, <1>2, <1>4
  <1>6. \A i \in 1..count' : q'[i] = q[i + 1]
    <2> SUFFICES ASSUME NEW i \in 1..count' PROVE q'[i] = q[i + 1]
      OBVIOUS
    <2>1. i - 1 \in 0..(Capacity - 1) /\ i + 1 \in 1..count
      BY <1>1
    <2>2. Slot(i - 1)' = Slot((i - 1) + 1)
      BY <2>1, <1>1, SlotAfterRead
    <2>3. QED
      BY <2>1, <2>2, <1>1, <1>2, <1>3
  <1>7. q' = Tail(q)
    <2> HIDE DEF q
    <2>1. /\ Tail(q) \in Seq(Deferred) /\ Len(Tail(q)) = count'
          /\ \A i \in 1..count' : Tail(q)[i] = q[i + 1]
      BY <1>1, <1>2, <1>4, HeadTailProperties
    <2>2. \A i \in 1..Len(q') : q'[i] = Tail(q)[i]
      BY <2>1, <1>3, <1>6
    <2>3. QED
      BY <2>1, <2>2, <1>3, SeqEqual
  <1>8. QED
    BY <1>1, <1>4, <1>5, <1>7 DEF Contract!Take

\* The other steps leave the queue, seen as a sequence, alone.
LEMMA RingAsSeqUnchanged ==
  ASSUME UNCHANGED <<records, read, write, count>>
  PROVE  UNCHANGED RingAsSeq
BY DEF RingAsSeq, Slot

\* MockBackend implements the abstract queue: every reachable step of the ring
\* is a step of a FIFO queue of distinct events, or is invisible in it.
THEOREM RingImplementsQueue == Spec => Contract!Spec
  <1>1. Init => Contract!Init
    BY DEF Init, Contract!Init, RingAsSeq
  <1>2. BridgeInv /\ BridgeInv' /\ [Next]_vars => [Contract!Next]_(Contract!vars)
    <2> SUFFICES ASSUME BridgeInv, BridgeInv', [Next]_vars
                 PROVE  [Contract!Next]_(Contract!vars)
      OBVIOUS
    <2>1. ASSUME NEW e \in Events, FireDeferred(e)
          PROVE  [Contract!Next]_(Contract!vars)
      <3>1. CASE Accept(e)
        BY <2>1, <3>1, AcceptRefines DEF FireDeferred, Contract!Next
      <3>2. CASE Elide(e) \/ Drop(e)
        BY <2>1, <3>2, RingAsSeqUnchanged
           DEF FireDeferred, Elide, Drop, ring, Contract!vars
      <3>3. QED
        BY <2>1, <3>1, <3>2 DEF FireDeferred
    <2>2. ASSUME NEW e \in Events, FireInIsr(e)
          PROVE  [Contract!Next]_(Contract!vars)
      BY <2>2, RingAsSeqUnchanged DEF FireInIsr, ring, Contract!vars
    <2>3. CASE ReturnFromIsr
      BY <2>3, RingAsSeqUnchanged DEF ReturnFromIsr, ring, Contract!vars
    <2>4. CASE Dequeue
      BY <2>4, DequeueRefines DEF Contract!Next
    <2>5. CASE Invoke
      BY <2>5, RingAsSeqUnchanged DEF Invoke, ring, Contract!Next, Contract!Start
    <2>6. CASE Return
      BY <2>6, RingAsSeqUnchanged DEF Return, ring, Contract!Next, Contract!Finish
    <2>7. CASE UNCHANGED vars
      BY <2>7, RingAsSeqUnchanged DEF vars, Contract!vars
    <2>8. QED
      BY <2>1, <2>2, <2>3, <2>4, <2>5, <2>6, <2>7 DEF Next
  <1>3. QED
    BY <1>1, <1>2, InductiveInvariant, PTL DEF Spec, Contract!Spec
=============================================================================
