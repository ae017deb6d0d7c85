--------------------------- MODULE MCPwmRegisters ---------------------------
(* The programs of the checks by themselves, and the motor with its handler   *)
(* for every two duties of the left output, with interrupts on and off.       *)
EXTENDS PwmRegisters

MCPrograms ==
  {Checks(main) : main \in {PwmHost, HandlerAllocation, AtmegaApp, AtmegaFull, AtmegaAlternate}}
  \cup {Motor(before, after, on) : before \in Duties, after \in Duties, on \in BOOLEAN}
=============================================================================
