--------------------------- MODULE MCEventBridge ---------------------------
(* A small application: one raw interrupt, one event handled in the         *)
(* interrupt and three deferred ones.                                       *)
EXTENDS EventBridge

CONSTANTS RawTick, DirectTick, d1, d2, d3

MCEvents == {RawTick, DirectTick, d1, d2, d3}
MCOnInterrupt == {RawTick}
MCOnEvent == {DirectTick, d1, d2, d3}
MCRoute ==
  [e \in MCOnEvent |-> IF e = DirectTick THEN "IsrLevel" ELSE "MainLoop"]
=============================================================================
