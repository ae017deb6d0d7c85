--------------------------- MODULE RingStatements ---------------------------
(***************************************************************************)
(* MockBackend on a target whose interrupts can fire between any two       *)
(* statements of dispatch_one.  mock_backend.hpp:16 says that such a target *)
(* must serialize each post with dequeue; this module asks how much of the *)
(* dequeue that has to cover.  Interrupts are off while the main loop is   *)
(* at a statement of Masked; post_from_isr runs to its end, since one      *)
(* interrupt does not interrupt another.  --count_ is a load and a store,  *)
(* as on a target without an atomic decrement.                             *)
(***************************************************************************)
EXTENDS Integers, FiniteSets

CONSTANTS
  Deferred,  (* the events that are posted                               *)
  Capacity,  (* MockBackend::capacity                                    *)
  Masked,    (* the statements with interrupts off                       *)
  NoEvent    (* a null record                                            *)

Statements == {"test", "copy", "advance", "load", "store", "clear", "invoke", "return"}

ASSUME RingAssumption ==
  /\ Capacity \in Nat \ {0}
  /\ NoEvent \notin Deferred
  /\ Masked \subseteq Statements

VARIABLES
  records, read, write, count, pending,
  pc,      (* the statement dispatch_one executes next                     *)
  record,  (* its local copy                                               *)
  loaded,  (* the value of count_ in the register                          *)
  owed     (* history: fires not dropped and not yet followed by a handler *)

backend == <<records, read, write, count, pending>>
vars == <<backend, pc, record, loaded, owed>>

Advance(i) == (i + 1) % Capacity

Init ==
  /\ records = [i \in 0..(Capacity - 1) |-> NoEvent]
  /\ read = 0 /\ write = 0 /\ count = 0
  /\ pending = [e \in Deferred |-> FALSE]
  /\ pc = "test"
  /\ record = NoEvent
  /\ loaded = 0
  /\ owed = {}

\* Mutant: nothing is serialized.
InterruptsNeverOff == TRUE

InterruptsOn == pc \notin Masked

\* MockInterruptSource::fire, down to post_from_isr and its three results.
Post(e) ==
  /\ InterruptsOn
  /\ \/ /\ pending[e]
        /\ owed' = owed \cup {e}
        /\ UNCHANGED backend
     \/ /\ ~pending[e]
        /\ count = Capacity
        /\ UNCHANGED <<backend, owed>>
     \/ /\ ~pending[e]
        /\ count # Capacity
        /\ records' = [records EXCEPT ![write] = e]
        /\ write' = Advance(write)
        /\ count' = count + 1
        /\ pending' = [pending EXCEPT ![e] = TRUE]
        /\ owed' = owed \cup {e}
        /\ UNCHANGED read
  /\ UNCHANGED <<pc, record, loaded>>

\* if (count_ == 0) return false;
Test ==
  /\ pc = "test"
  /\ count # 0
  /\ pc' = "copy"
  /\ UNCHANGED <<backend, record, loaded, owed>>

\* const DispatchRecord record = records_[read_];
Copy ==
  /\ pc = "copy"
  /\ record' = records[read]
  /\ pc' = "advance"
  /\ UNCHANGED <<backend, loaded, owed>>

\* read_ = (read_ + 1) % capacity;
AdvanceRead ==
  /\ pc = "advance"
  /\ read' = Advance(read)
  /\ pc' = "load"
  /\ UNCHANGED <<records, write, count, pending, record, loaded, owed>>

\* --count_;
LoadCount ==
  /\ pc = "load"
  /\ loaded' = count
  /\ pc' = "store"
  /\ UNCHANGED <<backend, record, owed>>

StoreCount ==
  /\ pc = "store"
  /\ count' = loaded - 1
  /\ pc' = "clear"
  /\ UNCHANGED <<records, read, write, pending, record, loaded, owed>>

\* static_cast<PendingMark*>(record.argument)->value = false;
ClearMark ==
  /\ pc = "clear"
  /\ pending' = [pending EXCEPT ![record] = FALSE]
  /\ pc' = "invoke"
  /\ UNCHANGED <<records, read, write, count, record, loaded, owed>>

\* record.invoke(record.argument): the handler starts.
Invoke ==
  /\ pc = "invoke"
  /\ owed' = owed \ {record}
  /\ pc' = "return"
  /\ UNCHANGED <<backend, record, loaded>>

\* The handler ends, and with it dispatch_one.
Return ==
  /\ pc = "return"
  /\ pc' = "test"
  /\ UNCHANGED <<backend, record, loaded, owed>>

DispatchOne ==
  \/ Test \/ Copy \/ AdvanceRead \/ LoadCount \/ StoreCount
  \/ ClearMark \/ Invoke \/ Return

Next == (\E e \in Deferred : Post(e)) \/ DispatchOne

\* The main loop advances between interrupts.
Spec == Init /\ [][Next]_vars /\ WF_vars(DispatchOne)

-----------------------------------------------------------------------------
\* The records a later dispatch will take.
InRing ==
  LET taken == IF pc \in {"load", "store"} THEN 1 ELSE 0
  IN  {records[(read + k) % Capacity] : k \in 0..(count - 1 - taken)}

InHand == IF pc \in {"advance", "load", "store", "clear", "invoke"} THEN {record} ELSE {}

\* A fire that was not dropped finds its event in the ring or in the hand of the
\* dispatch, whose handler has yet to start: an interrupt between the statements
\* loses nothing as long as none falls between load and store of count_.
FireNeverStranded == owed \subseteq InRing \cup InHand

\* Every fire that is not dropped is answered.
EveryFireAnswered == \A e \in Deferred : e \in owed ~> e \notin owed

-----------------------------------------------------------------------------
\* The inductive invariant.  count_ counts the record in hand until it is
\* stored: between AdvanceRead and StoreCount the oldest record it counts is
\* one behind read_.
Oldest == IF pc \in {"load", "store"} THEN (read + Capacity - 1) % Capacity ELSE read

Slot(k) == (Oldest + k) % Capacity

Counted == {records[Slot(k)] : k \in 0..(count - 1)}

TypeOK ==
  /\ records \in [0..(Capacity - 1) -> Deferred \cup {NoEvent}]
  /\ read \in 0..(Capacity - 1)
  /\ write \in 0..(Capacity - 1)
  /\ count \in 0..Capacity
  /\ pending \in [Deferred -> BOOLEAN]
  /\ pc \in Statements
  /\ record \in Deferred \cup {NoEvent}
  /\ owed \subseteq Deferred

WriteFollowsCounted == write = Slot(count)

\* Nothing is counted twice, and what is marked is counted or about to be cleared.
CountedIsMarked ==
  /\ \A k \in 0..(count - 1) : records[Slot(k)] \in Deferred /\ pending[records[Slot(k)]]
  /\ \A j, k \in 0..(count - 1) : records[Slot(j)] = records[Slot(k)] => j = k
  /\ \A e \in Deferred : pending[e] => e \in Counted \/ (pc = "clear" /\ e = record)

DispatchPhase ==
  /\ pc \in {"copy", "advance", "load", "store"} => count > 0
  /\ pc \in {"advance", "load", "store"} => record = records[Slot(0)]
  /\ pc = "store" => loaded = count
  /\ pc \in {"clear", "invoke", "return"} => record \in Deferred
  /\ pc = "clear" => pending[record] /\ record \notin Counted

OwedIsCountedOrInHand ==
  \A e \in owed : e \in Counted \/ (pc \in {"clear", "invoke"} /\ e = record)

RingInv ==
  /\ TypeOK
  /\ WriteFollowsCounted
  /\ CountedIsMarked
  /\ DispatchPhase
  /\ OwedIsCountedOrInHand

\* The queue that the statements implement: an event leaves it when count_ is
\* stored, and a fire that finds the mark set, or no free slot, changes nothing.
CountedInOrder == [k \in 1..count |-> records[Slot(k - 1)]]

LoopPhase == CASE pc \in {"clear", "invoke"} -> "claimed"
               [] pc = "return" -> "handler"
               [] OTHER -> "idle"

Running == IF pc \in {"clear", "invoke", "return"} THEN record ELSE NoEvent

Queue == INSTANCE EventQueue WITH
  queue <- CountedInOrder, phase <- LoopPhase, running <- Running

\* Interrupts between its statements do not show: dispatch_one is the main loop
\* of the queue, one event at a time, in the order of the fires.
ImplementsQueue == Queue!Spec
=============================================================================
