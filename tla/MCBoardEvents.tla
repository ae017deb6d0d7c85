--------------------------- MODULE MCBoardEvents ---------------------------
(* Every program of the examples and gates.  The sketches run with the       *)
(* capacity and the budget of the boards and, to reach a full queue, with a   *)
(* stream over a queue of one.                                                *)
EXTENDS BoardEvents

MCPrograms ==
  {AvrSketch(4, 4), EspSketch(4, 4), MockExample, AvrExample, EspExample, AvrMain,
   EspGateSketch, MockMain, MockEventMain, MockZeroMain, DeferredTwoMain(FALSE),
   DeferredTwoMain(TRUE), StreamQueueProbe}
  \cup ZeroHandlers
  \cup {[sketch EXCEPT !.delivery = Motor("stream")] :
          sketch \in {AvrSketch(1, 1), AvrSketch(2, 1), EspSketch(2, 2)}}
=============================================================================
