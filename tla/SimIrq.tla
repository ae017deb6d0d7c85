------------------------------- MODULE SimIrq -------------------------------
(***************************************************************************)
(* The interrupt probe: the firmware avr-probe/sim/irq.cpp under simavr    *)
(* and cmd_irq of avr-probe/sim/host.cpp, which looks at the machine       *)
(* before and after every instruction and reports the cycles at which the  *)
(* overflow was pending, its vector fetched, its handler entered and left. *)
(***************************************************************************)
EXTENDS Naturals

CONSTANT Cycles   \* the bound of the loop of cmd_irq, small for its 20000

ASSUME CyclesAssumption == Cycles \in Nat

VARIABLES
  isr_first,     (* the linker put the handler before main                 *)
  notifies,      (* avr_get_interrupt_irq found the vector                 *)
  pc,            (* the instruction to be run next                         *)
  tov,           (* the overflow flag in TIFR0                             *)
  served,        (* interrupts taken                                       *)
  count, ready,  (* probe_result.v[0] and probe_result.ready               *)
  cycle,
  notify_cycle, tifr_cycle, vector_cycle, isr_cycle, reti_cycle, (* or 0   *)
  verdict        (* what cmd_irq says                                      *)

machine == <<isr_first, notifies, pc, tov, served, count, ready>>
trace == <<notify_cycle, tifr_cycle, vector_cycle, isr_cycle, reti_cycle>>
vars == <<machine, cycle, trace, verdict>>

MainCode == {"setup", "sei", "spin"}
IsrCode == {"entry", "count", "ready", "reti"}

\* Mutant: the range of the handler starts at its vector.
InIsrFromVector(at) == at = "vector" \/ (isr_first /\ at \in IsrCode)

\* The code that the two address ranges of cmd_irq hold.
InIsr(at) == isr_first /\ at \in IsrCode

PastMain(at) == at \in MainCode \/ (~isr_first /\ at \in IsrCode)

Init ==
  /\ isr_first \in BOOLEAN /\ notifies \in BOOLEAN
  /\ pc = "setup" /\ tov = 0 /\ served = 0 /\ count = 0 /\ ready = 0
  /\ cycle = 0
  /\ notify_cycle = 0 /\ tifr_cycle = 0 /\ vector_cycle = 0
  /\ isr_cycle = 0 /\ reti_cycle = 0
  /\ verdict = "running"

\* main: the timer is set up with its flag clear, then interrupts come on.
RunMain ==
  /\ pc \in MainCode
  /\ pc' \in IF pc = "setup" THEN {"setup", "sei"} ELSE {"spin"}
  /\ UNCHANGED <<isr_first, notifies, tov, served, count, ready, notify_cycle>>

\* The I flag of SREG, with TOIE0: on from sei to the vector and from RETI on.
InterruptsOn == pc = "spin"

\* The timer, 256 cycles later: only the loop is still running by then.  The
\* simulator takes the interrupt at once or after another instruction.
Overflow ==
  /\ InterruptsOn /\ served = 0 /\ tov = 0
  /\ notify_cycle' = IF notifies THEN cycle' ELSE notify_cycle
  /\ \/ tov' = 1 /\ UNCHANGED <<pc, served>>
     \/ tov' = 0 /\ pc' = "vector" /\ served' = served + 1
  /\ UNCHANGED <<isr_first, notifies, count, ready>>

Serve ==
  /\ InterruptsOn /\ tov = 1
  /\ tov' = 0 /\ pc' = "vector" /\ served' = served + 1
  /\ UNCHANGED <<isr_first, notifies, count, ready, notify_cycle>>

\* The handler, from its vector to RETI.
RunIsr ==
  /\ \/ pc = "vector" /\ pc' = "entry" /\ UNCHANGED <<count, ready>>
     \/ pc = "entry" /\ pc' = "count" /\ UNCHANGED <<count, ready>>
     \/ pc = "count" /\ pc' = "ready" /\ count' = count + 1 /\ UNCHANGED ready
     \/ pc = "ready" /\ pc' = "reti" /\ ready' = (IF count = 1 THEN 1 ELSE ready) /\ UNCHANGED count
     \/ pc = "reti" /\ pc' = "spin" /\ UNCHANGED <<count, ready>>
  /\ UNCHANGED <<isr_first, notifies, tov, served, notify_cycle>>

avr_run == RunMain \/ Overflow \/ Serve \/ RunIsr

-----------------------------------------------------------------------------
First(old, now, seen) == IF old = 0 /\ seen THEN now ELSE old

Pending == IF tifr_cycle # 0 THEN tifr_cycle ELSE notify_cycle

\* Mutant: only what was seen in TIFR0 counts as pending.
JudgementByFlag ==
  IF tifr_cycle = 0 \/ vector_cycle = 0 \/ isr_cycle = 0 \/ count = 0 \/ reti_cycle <= isr_cycle
  THEN "fail" ELSE "pass"

Judgement ==
  IF Pending = 0 \/ vector_cycle = 0 \/ isr_cycle = 0 \/ count = 0 \/ reti_cycle <= isr_cycle
  THEN "fail" ELSE "pass"

\* The condition on which the loop of cmd_irq ends.
Answered(left) ==
  /\ ready' # 0 /\ isr_cycle' # 0
  /\ reti_cycle # 0 \/ left \/ count' >= 1

\* What the loop sees before and after an instruction, and its verdict.
Observe ==
  LET inside == vector_cycle' # 0 /\ InIsr(pc')
      left == ~inside /\ isr_cycle # 0 /\ PastMain(pc')
  IN  /\ tifr_cycle' = First(First(tifr_cycle, cycle, tov = 1 /\ InterruptsOn), cycle', tov' = 1)
      /\ vector_cycle' = First(vector_cycle, cycle', pc' = "vector")
      /\ isr_cycle' = First(isr_cycle, cycle', inside)
      /\ reti_cycle' = First(reti_cycle, cycle', left \/ Answered(left))
      /\ verdict' = IF Answered(left) THEN Judgement' ELSE verdict

Turn ==
  /\ verdict = "running" /\ cycle < Cycles
  /\ cycle' = cycle + 1
  /\ avr_run
  /\ Observe

Crash ==
  /\ verdict = "running" /\ cycle < Cycles
  /\ verdict' = "crashed"
  /\ UNCHANGED <<machine, cycle, trace>>

Timeout ==
  /\ verdict = "running" /\ cycle >= Cycles
  /\ verdict' = "timeout"
  /\ UNCHANGED <<machine, cycle, trace>>

Next == Turn \/ Crash \/ Timeout

Spec == Init /\ [][Next]_vars

-----------------------------------------------------------------------------
TypeOK ==
  /\ isr_first \in BOOLEAN /\ notifies \in BOOLEAN
  /\ pc \in MainCode \cup IsrCode \cup {"vector"}
  /\ tov \in {0, 1} /\ served \in {0, 1} /\ count \in {0, 1} /\ ready \in {0, 1}
  /\ cycle \in 0..Cycles
  /\ notify_cycle \in 0..cycle /\ tifr_cycle \in 0..cycle
  /\ vector_cycle \in 0..cycle /\ isr_cycle \in 0..cycle /\ reti_cycle \in 0..cycle
  /\ verdict \in {"running", "pass", "fail", "crashed", "timeout"}

\* One interrupt at most is taken, and the trace follows it step by step; this
\* is inductive.
ProbeInv ==
  /\ TypeOK
  /\ pc \notin MainCode => served = 1
  /\ tov = 1 => served = 0 /\ tifr_cycle # 0
  /\ count = 1 <=> served = 1 /\ pc \notin {"vector", "entry", "count"}
  /\ ready = 1 <=> served = 1 /\ pc \notin {"vector", "entry", "count", "ready"}
  /\ vector_cycle # 0 <=> served = 1
  /\ isr_cycle # 0 <=> served = 1 /\ isr_first /\ pc # "vector"
  /\ served = 1 => tifr_cycle <= vector_cycle /\ notify_cycle <= vector_cycle
  /\ isr_cycle # 0 => vector_cycle < isr_cycle
  /\ verdict \notin {"pass", "fail"} => reti_cycle = 0 /\ (ready = 1 => ~isr_first)
  /\ verdict = "pass" => Judgement = "pass" /\ ready = 1
  /\ verdict = "fail" => Pending = 0
  /\ notifies /\ (tov = 1 \/ served = 1) => notify_cycle # 0

\* PASS is printed only for an overflow that was taken once and whose handler
\* counted it and stored its result, and its cycles are those of one interrupt,
\* in the order it happens.
PassMeansHandled ==
  verdict = "pass" =>
    /\ served = 1 /\ count = 1 /\ ready = 1
    /\ 0 < Pending /\ Pending <= vector_cycle
    /\ vector_cycle < isr_cycle /\ isr_cycle < reti_cycle

\* With the handler before main, its answer ends the probe in the turn in which
\* it is stored; FAIL is then left to an overflow that was neither seen in TIFR0
\* nor notified.
AnswerIsReported ==
  ready = 1 /\ isr_first =>
    verdict \in {"pass", "fail"} /\ (verdict = "fail" => Pending = 0 /\ ~notifies)

\* The probe reports pending, vector, ISR, RETI (host.cpp:363, irq.cpp:7): the
\* handler has returned when PASS is printed.
PassMeansReti == verdict = "pass" => served = 1 /\ pc \in MainCode
=============================================================================
