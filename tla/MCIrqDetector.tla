--------------------------- MODULE MCIrqDetector ---------------------------
(* Two event types with their own ids and a third that copies the id of the *)
(* second; catalogs with right, swapped, clashing and repeated ids; plans   *)
(* that share a vector or a source, or bind too little.                     *)
EXTENDS IrqDetector

CONSTANTS A, B, C

MCTypes == {A, B, C}
MCTypeId == [t \in MCTypes |-> IF t = A THEN 1 ELSE 2]

Entry(i, t) == [event_id |-> i, cpp_type |-> t]
Binding(i, t, s, v) ==
  [event_id |-> i, binding_id |-> 10 + i, cpp_type |-> t, source |-> s, vector |-> v]

MCCatalogFiles ==
  { {Entry(1, A), Entry(2, B)},
    {Entry(1, B), Entry(2, A)},
    {Entry(1, A), Entry(1, B)},
    {Entry(1, A), Entry(2, B), Entry(3, C)} }

MCPlanFiles ==
  { {Binding(1, A, "timer1", "ovf1")},
    {Binding(1, A, "timer1", "ovf1"), Binding(2, B, "timer0", "ovf0")},
    {Binding(1, A, "timer1", "ovf1"), Binding(2, B, "timer0", "ovf1")},
    {Binding(1, A, "timer1", "ovf1"), Binding(2, B, "timer1", "ovf0")},
    {Binding(1, B, "timer1", "ovf1"), Binding(2, A, "timer0", "ovf0")} }
=============================================================================
