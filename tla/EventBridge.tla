----------------------------- MODULE EventBridge -----------------------------
(***************************************************************************)
(* The event dispatch bridge (scratch/event-dispatch-bridge): an interrupt *)
(* source fires an event; the dispatcher finds the one handler the         *)
(* application specialized and runs it in the interrupt, or asks the       *)
(* backend to queue a record for the main loop.  The backend is a ring of  *)
(* Capacity records, with one pending mark per event that elides a fire    *)
(* whose event is already queued.                                          *)
(*                                                                         *)
(* Posts and dequeues exclude each other, as mock_backend.hpp:16 demands   *)
(* of a target; the module RingStatements weakens that.  The handler runs  *)
(* outside the exclusion: an interrupt can fire between the dequeue and    *)
(* the call, and while the handler runs.                                   *)
(***************************************************************************)
EXTENDS Integers, FiniteSets

CONSTANTS
  Events,       (* the event types of the application                 *)
  OnInterrupt,  (* events with an on_interrupt specialization         *)
  OnEvent,      (* events with an on_event specialization             *)
  Route,        (* Event::Route::ContextType, where the event has one *)
  Capacity,     (* MockBackend::capacity                              *)
  NoEvent       (* a null record: no callback                         *)

HasRawInterruptHandler(e) == e \in OnInterrupt

HasEventHandler(e) == e \in DOMAIN Route /\ e \in OnEvent

\* The static_assert of dispatch_bound_interrupt: other programs do not compile.
ExactlyOneHandler ==
  \A e \in Events : HasRawInterruptHandler(e) # HasEventHandler(e)

Deferred == {e \in Events : HasEventHandler(e) /\ Route[e] = "MainLoop"}

ASSUME BridgeAssumption ==
  /\ Capacity \in Nat \ {0}
  /\ IsFiniteSet(Events)
  /\ NoEvent \notin Events
  /\ DOMAIN Route \subseteq Events
  /\ \A e \in DOMAIN Route : Route[e] \in {"IsrLevel", "MainLoop"}
  /\ ExactlyOneHandler

VARIABLES
  records,  (* records_: the event whose callback and mark each slot holds *)
  read,     (* read_                                                       *)
  write,    (* write_                                                      *)
  count,    (* count_                                                      *)
  pending,  (* MockEventState<Event>::pending                              *)
  phase,    (* dispatch_one: not called, record taken, inside record.invoke*)
  running,  (* the local `record` of dispatch_one                          *)
  isr,      (* the event whose handler runs inside the interrupt           *)
  owed,     (* history: deferred events with a fire that no handler start  *)
            (* has followed yet                                            *)
  lag       (* history: handler starts since the event was queued          *)

ring == <<records, read, write, count>>
vars == <<records, read, write, count, pending, phase, running, isr, owed, lag>>

Advance(i) == IF i + 1 = Capacity THEN 0 ELSE i + 1

\* The k-th record of the queue, k = 0 the oldest.
Slot(k) == IF read + k < Capacity THEN read + k ELSE read + k - Capacity

Queued == {records[Slot(k)] : k \in 0..(count - 1)}

Init ==
  /\ records = [i \in 0..(Capacity - 1) |-> NoEvent]
  /\ read = 0
  /\ write = 0
  /\ count = 0
  /\ pending = [e \in Deferred |-> FALSE]
  /\ phase = "idle"
  /\ running = NoEvent
  /\ isr = NoEvent
  /\ owed = {}
  /\ lag = [e \in Deferred |-> 0]

-----------------------------------------------------------------------------
(* The interrupt side: MockInterruptSource<Event>::fire.                   *)

\* post_from_isr finds the mark set: the queued record stands for this fire too.
Elide(e) ==
  /\ pending[e]
  /\ owed' = owed \cup {e}
  /\ UNCHANGED <<ring, pending, lag>>

\* The ring is full and the bool that says so is ignored by the caller.
Drop(e) ==
  /\ ~pending[e]
  /\ count = Capacity
  /\ UNCHANGED <<ring, pending, owed, lag>>

\* Mutant: the test of count_ is off by one.
AcceptWhenFull(e) ==
  /\ ~pending[e]
  /\ count # Capacity + 1
  /\ records' = [records EXCEPT ![write] = e]
  /\ write' = Advance(write)
  /\ count' = count + 1
  /\ pending' = [pending EXCEPT ![e] = TRUE]
  /\ owed' = owed \cup {e}
  /\ lag' = [lag EXCEPT ![e] = 0]
  /\ UNCHANGED read

Accept(e) ==
  /\ ~pending[e]
  /\ count # Capacity
  /\ records' = [records EXCEPT ![write] = e]
  /\ write' = Advance(write)
  /\ count' = count + 1
  /\ pending' = [pending EXCEPT ![e] = TRUE]
  /\ owed' = owed \cup {e}
  /\ lag' = [lag EXCEPT ![e] = 0]
  /\ UNCHANGED read

\* OnEventBridge<Event, Backend, MainLoop>::from_isr.
FireDeferred(e) ==
  /\ isr = NoEvent
  /\ e \in Deferred
  /\ Elide(e) \/ Drop(e) \/ Accept(e)
  /\ UNCHANGED <<phase, running, isr>>

\* on_interrupt, or on_event of an IsrLevel route: the handler runs here.
FireInIsr(e) ==
  /\ isr = NoEvent
  /\ e \in Events \ Deferred
  /\ isr' = e
  /\ UNCHANGED <<ring, pending, phase, running, owed, lag>>

ReturnFromIsr ==
  /\ isr # NoEvent
  /\ isr' = NoEvent
  /\ UNCHANGED <<ring, pending, phase, running, owed, lag>>

-----------------------------------------------------------------------------
(* The main loop: MockBackend::dispatch_one.                               *)

\* What a dispatch that leaves the ring and the mark as given does.
Claim(enough, countNext, pendingNext) ==
  /\ isr = NoEvent
  /\ phase = "idle"
  /\ enough
  /\ running' = records[read]
  /\ read' = Advance(read)
  /\ count' = countNext
  /\ pending' = pendingNext
  /\ phase' = "claimed"
  /\ UNCHANGED <<records, write, isr, owed, lag>>

Unmarked == [pending EXCEPT ![records[read]] = FALSE]

\* Mutants: the mark is never cleared; the last record is never taken; count_
\* is not decremented.
DequeueKeepsMark == Claim(count # 0, count - 1, pending)
DequeueNotLast == Claim(count > 1, count - 1, Unmarked)
DequeueKeepsCount == Claim(count # 0, count, Unmarked)

Dequeue ==
  /\ isr = NoEvent
  /\ phase = "idle"
  /\ count # 0
  /\ running' = records[read]
  /\ read' = Advance(read)
  /\ count' = count - 1
  /\ pending' = [pending EXCEPT ![records[read]] = FALSE]
  /\ phase' = "claimed"
  /\ UNCHANGED <<records, write, isr, owed, lag>>

Invoke ==
  /\ isr = NoEvent
  /\ phase = "claimed"
  /\ phase' = "handler"
  /\ owed' = owed \ {running}
  /\ lag' = [e \in Deferred |-> IF pending[e] THEN lag[e] + 1 ELSE lag[e]]
  /\ UNCHANGED <<ring, pending, running, isr>>

Return ==
  /\ isr = NoEvent
  /\ phase = "handler"
  /\ phase' = "idle"
  /\ running' = NoEvent
  /\ UNCHANGED <<ring, pending, isr, owed, lag>>

Next ==
  \/ \E e \in Events : FireDeferred(e) \/ FireInIsr(e)
  \/ ReturnFromIsr
  \/ Dequeue
  \/ Invoke
  \/ Return

Spec == Init /\ [][Next]_vars

\* The main loop calls dispatch_one again and again and its handlers return;
\* an interrupt returns, and between two interrupts the interrupted code
\* advances (an AVR executes one instruction after every reti), hence strong
\* fairness for the steps an interrupt can hold back.
Fairness ==
  /\ WF_vars(ReturnFromIsr)
  /\ SF_vars(Dequeue)
  /\ SF_vars(Invoke)
  /\ SF_vars(Return)

FairSpec == Spec /\ Fairness

-----------------------------------------------------------------------------
TypeOK ==
  /\ records \in [0..(Capacity - 1) -> Deferred \cup {NoEvent}]
  /\ read \in 0..(Capacity - 1)
  /\ write \in 0..(Capacity - 1)
  /\ count \in 0..Capacity
  /\ pending \in [Deferred -> BOOLEAN]
  /\ phase \in {"idle", "claimed", "handler"}
  /\ running \in Deferred \cup {NoEvent}
  /\ isr \in (Events \ Deferred) \cup {NoEvent}
  /\ owed \subseteq Deferred
  /\ lag \in [Deferred -> Nat]

\* The marks and the ring agree at every interrupt boundary: the events with a
\* mark are exactly those with a live record, and no event has two.  A mark
\* without a record would elide every later fire of its event for good.
MarksMatchQueue ==
  /\ Queued = {e \in Deferred : pending[e]}
  /\ \A j, k \in 0..(count - 1) :
       records[Slot(j)] = records[Slot(k)] => j = k

\* A fire that was not dropped is followed by a start of its handler: until
\* then its event is queued or has just been taken.  dispatch_one therefore
\* clears the mark before the call, not after it.
NoLostFire ==
  owed \subseteq Queued \cup (IF phase = "claimed" THEN {running} ELSE {})

\* A fire is dropped only while Capacity other events are marked, each of which
\* has a record: no slot is lost to an event that is queued twice or not at all.
DropsOnlyWhenFull ==
  \A e \in Deferred : ~pending[e] /\ count = Capacity =>
    Cardinality({d \in Deferred \ {e} : pending[d]}) >= Capacity

\* It follows that a ring with a slot for each deferred event never drops a
\* fire, however the fires interleave with the dispatch.
NoDropWhenSized ==
  Cardinality(Deferred) <= Capacity =>
    \A e \in Deferred : ~pending[e] => count < Capacity

\* A queued event waits for at most Capacity handler starts, whatever is fired
\* meanwhile: Capacity - 1 records ahead of it and one already taken.
BoundedWait == \A e \in Deferred : pending[e] => lag[e] <= Capacity

\* The inductive strengthening of the four properties above.
WriteFollowsQueue == write = Slot(count)

QueueIsMarked ==
  /\ \A k \in 0..(count - 1) :
       records[Slot(k)] \in Deferred /\ pending[records[Slot(k)]]
  /\ \A j, k \in 0..(count - 1) :
       records[Slot(j)] = records[Slot(k)] => j = k
  /\ \A e \in Deferred :
       pending[e] => \E k \in 0..(count - 1) : records[Slot(k)] = e

DispatchPhase ==
  /\ phase = "idle" => running = NoEvent
  /\ phase # "idle" => running \in Deferred

OwedIsMarkedOrTaken ==
  \A e \in Deferred :
    e \in owed => pending[e] \/ (phase = "claimed" /\ running = e)

LagLeavesRoom ==
  \A k \in 0..(count - 1) :
    lag[records[Slot(k)]] + k + (IF phase = "claimed" THEN 1 ELSE 0) <= Capacity

BridgeInv ==
  /\ TypeOK
  /\ WriteFollowsQueue
  /\ QueueIsMarked
  /\ DispatchPhase
  /\ OwedIsMarkedOrTaken
  /\ LagLeavesRoom

\* Every event with an unanswered fire gets its handler started.
EventuallyServed == \A e \in Deferred : e \in owed ~> e \notin owed

\* The ring, its indices and its marks implement a FIFO queue of distinct events.
RingAsSeq == [i \in 1..count |-> records[Slot(i - 1)]]

Contract == INSTANCE EventQueue WITH queue <- RingAsSeq

RefinesQueue == Contract!FairSpec
=============================================================================
