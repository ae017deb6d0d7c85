----------------------------- MODULE EventQueue -----------------------------
(***************************************************************************)
(* What the deferred half of the event bridge promises, without its ring   *)
(* buffer and without its pending marks: a FIFO queue that holds each      *)
(* deferred event at most once, and a main loop that takes the oldest      *)
(* event and runs its handler to the end before it takes the next one.     *)
(* A fire that finds its event queued, or the queue full, changes nothing. *)
(***************************************************************************)
EXTENDS Naturals, Sequences

CONSTANTS
  Deferred,  (* the events whose handler runs in the main loop  *)
  Capacity,  (* how many events the queue can hold              *)
  NoEvent    (* "no handler has been taken"                     *)

VARIABLES
  queue,     (* the events waiting, oldest first                *)
  phase,     (* where the main loop is in one dispatch          *)
  running    (* the event it took                               *)

vars == <<queue, phase, running>>

Waiting == {queue[i] : i \in 1..Len(queue)}

Init ==
  /\ queue = <<>>
  /\ phase = "idle"
  /\ running = NoEvent

Accept(e) ==
  /\ e \notin Waiting
  /\ Len(queue) < Capacity
  /\ queue' = Append(queue, e)
  /\ UNCHANGED <<phase, running>>

Take ==
  /\ phase = "idle"
  /\ queue # <<>>
  /\ queue' = Tail(queue)
  /\ running' = Head(queue)
  /\ phase' = "claimed"

Start ==
  /\ phase = "claimed"
  /\ phase' = "handler"
  /\ UNCHANGED <<queue, running>>

Finish ==
  /\ phase = "handler"
  /\ phase' = "idle"
  /\ running' = NoEvent
  /\ UNCHANGED queue

Next ==
  \/ \E e \in Deferred : Accept(e)
  \/ Take
  \/ Start
  \/ Finish

Spec == Init /\ [][Next]_vars

FairSpec == Spec /\ WF_vars(Take) /\ WF_vars(Start) /\ WF_vars(Finish)
=============================================================================
