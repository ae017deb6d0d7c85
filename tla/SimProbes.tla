------------------------------ MODULE SimProbes ------------------------------
(* The commands of avr-probe/sim/host.cpp.  main() picks one, load_elf() and  *)
(* symbol_addr() prepare it, and it runs the firmware of its image under      *)
(* simavr, instruction by instruction, until what it sees in the memory of    *)
(* the machine settles its answer.  The irq command is SimIrq; the others run *)
(* here: an access to memory or to a register is one step, in which a running *)
(* timer counts on.  The limits on cycles are left open: a command may run    *)
(* out of them after any step.                                                *)
EXTENDS SimIrq, Sequences

CONSTANT MaxTicks   \* how far Timer1 counts at most between two accesses

\* The margin of ocr.cpp: two accesses after the end of its window the timer has
\* not yet come to the new match.  A count takes eight cycles (clk8).
ASSUME TicksAssumption == MaxTicks \in Nat /\ 100 + 2 * MaxTicks < 120

VARIABLES
  command,   \* argv[1]
  image,     \* the image: "absent", "stripped" of its symbols, or "whole"
  hardware,  \* how the machine behaves: see Machines
  code,      \* what the firmware still has to do
  mem,       \* the memory of the firmware, and its locals
  timer,     \* Timer1 of ocr.cpp: tcnt, ocr, buffer, tov, ocf, clock
  latch,     \* Timer1 of latch.cpp: ICR1 and TCNT1 as <<high, low>>, temp
  exit       \* "start", "running", or how the command ended

probe == <<command, image, hardware>>
board == <<code, mem, timer, latch>>
irqvars == <<machine, cycle, trace, verdict>>
hostvars == <<probe, board, exit, irqvars>>

----------------------------------------------------------------------------
\* Firmware

Set(cell, v) == [do |-> "set", cell |-> cell, value |-> v]
Copy(cell, reg) == [do |-> "copy", cell |-> cell, reg |-> reg]
High(reg, byte) == [do |-> "high", reg |-> reg, byte |-> byte]
Low(reg, byte) == [do |-> "low", reg |-> reg, byte |-> byte]
Ocr(v) == [do |-> "ocr", value |-> v]
Clear(flag) == [do |-> "clear", flag |-> flag]
Await(flag) == [do |-> "await", flag |-> flag]
Op(name) == [do |-> name]

Top == 200   \* ICR1

\* firmware.cpp
SmokeCode == <<Set("portb", 1)>>

\* Mutant: the answer is announced before it is there.
OcrCodeReadyFirst ==
  <<Set("magic", 1), Set("ready", 0), Ocr(40), Op("clock"),
    Clear("tov"), Await("tov"), Clear("tov"), Clear("ocf"), Op("window"),
    Clear("ocf"), Ocr(120), Copy("v1", "tcnt"), Copy("v2", "buffer"),
    Clear("tov"), Await("tov"), Copy("v3", "ocf"), Set("ready", 1), Op("flags")>>

\* Mutant: it does not wait for BOTTOM.
OcrCodeHasty ==
  <<Set("magic", 1), Set("ready", 0), Ocr(40), Op("clock"),
    Clear("tov"), Await("tov"), Clear("tov"), Clear("ocf"), Op("window"),
    Clear("ocf"), Ocr(120), Copy("v1", "tcnt"), Copy("v2", "buffer"),
    Clear("tov"), Copy("v3", "ocf"), Op("flags"), Set("ready", 1)>>

\* ocr.cpp: OCR1A is written between the old match and the new one.
OcrCode ==
  <<Set("magic", 1), Set("ready", 0), Ocr(40), Op("clock"),
    Clear("tov"), Await("tov"), Clear("tov"), Clear("ocf"), Op("window"),
    Clear("ocf"), Ocr(120), Copy("v1", "tcnt"), Copy("v2", "buffer"),
    Clear("tov"), Await("tov"), Copy("v3", "ocf"), Op("flags"), Set("ready", 1)>>

\* latch.cpp: both registers in the right order and in the wrong one.  Its
\* flags are only printed.
Word == <<"A5", "C3">>
LatchCode ==
  <<Set("magic", 1),
    High("ICR1", "A5"), Low("ICR1", "C3"), Copy("v0", "ICR1"),
    Low("ICR1", "34"), High("ICR1", "12"), Copy("v1", "ICR1"),
    High("TCNT1", "A5"), Low("TCNT1", "C3"), Copy("v2", "TCNT1"),
    Low("TCNT1", "34"), High("TCNT1", "12"), Copy("v3", "TCNT1"), Set("ready", 1)>>

\* packet.cpp: nine bytes in frames of eight.
PacketCode == <<Op("frame"), Op("frame"), Op("result")>>

\* The loop of the packaged pulse sketch (docs/examples/pulse-io-avr.md).
PulseCode == <<Op("send"), Op("receive")>>

Code(c) == CASE c = "smoke" -> SmokeCode [] c = "ocr" -> OcrCode
             [] c = "latch" -> LatchCode [] c = "packet" -> PacketCode
             [] c = "pulse-io" -> PulseCode [] OTHER -> <<>>

Memory(c) ==
  CASE c = "smoke" -> [portb |-> 0]
    [] c = "ocr" -> [magic |-> 0, ready |-> 0, flags |-> 0, v0 |-> 0, v1 |-> 0,
                     v2 |-> 0, v3 |-> 0]
    [] c = "latch" -> [magic |-> 0, ready |-> 0, v0 |-> <<"00", "00">>,
                       v1 |-> <<"00", "00">>, v2 |-> <<"00", "00">>, v3 |-> <<"00", "00">>]
    [] c = "packet" -> [result |-> 0, frames |-> 0, deliveries |-> 0,
                        sent |-> TRUE, matched |-> FALSE]
    [] c = "pulse-io" -> [last |-> 0, next |-> 0, edges |-> 0, wire |-> 0]
    [] OTHER -> <<>>

\* How a machine may behave: compare registers double-buffered or not; the TEMP
\* latch of the silicon, simavr's lack of one, or one that works the other way
\* round; fragments delivered once, wrongly, twice, never, or not sent; a line
\* that carries pulses or none.
Machines(c) ==
  CASE c = "ocr" -> {"buffered", "immediate"}
    [] c = "latch" -> {"silicon", "simavr", "reversed"}
    [] c = "packet" -> {"whole", "corrupt", "double", "deaf", "refused"}
    [] c = "pulse-io" -> {"wired", "shorted"}
    [] OTHER -> {"any"}
Sound == {"buffered", "silicon", "simavr", "whole", "wired", "any"}

Commands == {"smoke", "ocr", "latch", "irq", "pulse-io", "packet", "other"}

HostInit ==
  /\ Init
  /\ command \in Commands
  /\ command # "irq" => ~isr_first /\ ~notifies   \* not looked at
  /\ image \in {"absent", "stripped", "whole"}
  /\ hardware \in Machines(command)
  /\ code = Code(command) /\ mem = Memory(command)
  /\ timer = [tcnt |-> 0, ocr |-> 0, buffer |-> 0, tov |-> 0, ocf |-> 0, clock |-> FALSE]
  /\ latch = [ICR1 |-> <<"00", "00">>, TCNT1 |-> <<"00", "00">>, temp |-> "00"]
  /\ exit = "start"

----------------------------------------------------------------------------
\* The machine

\* n more ticks: OCR1A is loaded from its buffer at BOTTOM.
Advance(t, n) ==
  LET ahead == t.tcnt + n
      wraps == ahead > Top
      now == ahead % (Top + 1)
      matched == (t.tcnt < t.ocr /\ t.ocr <= ahead) \/ (wraps /\ t.buffer <= now)
  IN  [t EXCEPT !.tcnt = now, !.tov = IF wraps THEN 1 ELSE @,
                !.ocf = IF matched THEN 1 ELSE @, !.ocr = IF wraps THEN t.buffer ELSE @]

Ticked == IF timer.clock THEN {Advance(timer, n) : n \in 1..MaxTicks} ELSE {timer}

\* A flag is cleared by writing a one to it.
TimerStep(op) ==
  /\ \E t \in Ticked :
       \/ /\ op.do = "ocr"
          /\ timer' = [t EXCEPT !.buffer = op.value,
                                !.ocr = IF hardware = "immediate" THEN op.value ELSE @]
          /\ code' = Tail(code) /\ UNCHANGED mem
       \/ /\ op.do = "clock" /\ timer' = [t EXCEPT !.clock = TRUE]
          /\ code' = Tail(code) /\ UNCHANGED mem
       \/ /\ op.do = "clear" /\ timer' = [t EXCEPT ![op.flag] = 0]
          /\ code' = Tail(code) /\ UNCHANGED mem
       \/ /\ op.do = "await" /\ timer' = t /\ UNCHANGED mem
          /\ code' = IF t[op.flag] = 1 THEN Tail(code) ELSE code
       \/ /\ op.do = "copy" /\ op.reg \in DOMAIN timer
          /\ timer' = t /\ mem' = [mem EXCEPT ![op.cell] = t[op.reg]]
          /\ code' = Tail(code)
       \/ /\ op.do = "set" /\ timer' = t
          /\ mem' = [mem EXCEPT ![op.cell] = op.value]
          /\ code' = Tail(code)
       \/ /\ op.do = "flags" /\ timer' = t
          /\ mem' = [mem EXCEPT !.flags = 1 - mem.v3]
          /\ code' = Tail(code)
  /\ UNCHANGED latch

\* Mutant: the old match is not waited for.
InWindowEarly(tcnt) == tcnt <= 100

InWindow(tcnt) == tcnt >= 70 /\ tcnt <= 100

AwaitWindow(op) ==
  /\ op.do = "window"
  /\ \E t \in Ticked :
       /\ timer' = t
       /\ IF InWindow(t.tcnt) THEN mem' = [mem EXCEPT !.v0 = t.tcnt] /\ code' = Tail(code)
          ELSE UNCHANGED <<mem, code>>
  /\ UNCHANGED latch

\* One byte of a 16-bit register.
LatchWrite(op) ==
  /\ \/ /\ op.do = "high"
        /\ latch' = CASE hardware = "silicon" -> [latch EXCEPT !.temp = op.byte]
                      [] hardware = "simavr" -> [latch EXCEPT ![op.reg][1] = op.byte]
                      [] OTHER -> [latch EXCEPT ![op.reg] = <<op.byte, latch.temp>>]
     \/ /\ op.do = "low"
        /\ latch' = CASE hardware = "silicon" -> [latch EXCEPT ![op.reg] = <<latch.temp, op.byte>>]
                      [] hardware = "simavr" -> [latch EXCEPT ![op.reg][2] = op.byte]
                      [] OTHER -> [latch EXCEPT !.temp = op.byte]
  /\ code' = Tail(code) /\ UNCHANGED <<mem, timer>>

\* Read<>() reads the low byte and then the high one, which came to TEMP with
\* it; simavr makes up the count of a stopped timer.
LatchRead(op) ==
  /\ op.do = "copy" /\ op.reg \in {"ICR1", "TCNT1"}
  /\ mem' = [mem EXCEPT ![op.cell] =
               IF hardware = "simavr" /\ op.reg = "TCNT1" THEN <<"00", "00">> ELSE latch[op.reg]]
  /\ latch' = IF hardware = "silicon" THEN [latch EXCEPT !.temp = latch[op.reg][1]] ELSE latch
  /\ code' = Tail(code) /\ UNCHANGED timer

\* A frame is counted, and the receiver delivers the payload after the last.
SendFrame(op) ==
  LET n == mem.frames + 1
      delivers == CASE hardware = "double" -> TRUE
                    [] hardware = "deaf" -> FALSE
                    [] OTHER -> n = 2
  IN  /\ op.do = "frame"
      /\ IF hardware = "refused" /\ n = 2
         THEN mem' = [mem EXCEPT !.sent = FALSE]
         ELSE mem' = [mem EXCEPT !.frames = n,
                        !.deliveries = IF delivers THEN @ + 1 ELSE @,
                        !.matched = IF delivers THEN hardware # "corrupt" ELSE @]
      /\ code' = Tail(code) /\ UNCHANGED <<timer, latch>>

PacketResult(op) ==
  /\ op.do = "result"
  /\ mem' = [mem EXCEPT !.result =
               IF mem.sent /\ mem.matched /\ mem.frames = 2 /\ mem.deliveries = 1
               THEN 165 ELSE 90]
  /\ code' = Tail(code) /\ UNCHANGED <<timer, latch>>

MaxSends == 3   \* frames of the pulse sketch

\* A turn of the pulse sketch: a frame of eight bits goes out if the line is
\* idle, the pin changes at least once for each bit, and the receiver has the
\* value when all are through.  A shorted line never brings one.
PulseTurn(op) ==
  /\ \/ /\ op.do = "send"
        /\ mem' = IF mem.wire = 0 THEN [mem EXCEPT !.wire = 8, !.next = @ + 1] ELSE mem
     \/ /\ op.do = "receive"
        /\ mem' = [mem EXCEPT !.wire = @ - 1, !.edges = @ + 1,
                              !.last = IF mem.wire = 1 /\ hardware = "wired" THEN mem.next - 1 ELSE @]
  /\ mem.next < MaxSends
  /\ code' = Append(Tail(code), op) /\ UNCHANGED <<timer, latch>>

Instruction ==
  \/ code = <<>> /\ UNCHANGED board
  \/ /\ code # <<>>
     /\ LET op == Head(code)
        IN  \/ command \in {"smoke", "ocr"} /\ (TimerStep(op) \/ AwaitWindow(op))
            \/ command = "latch" /\ op.do = "set" /\ mem' = [mem EXCEPT ![op.cell] = op.value]
               /\ code' = Tail(code) /\ UNCHANGED <<timer, latch>>
            \/ LatchWrite(op) \/ (command = "latch" /\ LatchRead(op))
            \/ SendFrame(op) \/ PacketResult(op) \/ PulseTurn(op)

----------------------------------------------------------------------------
\* The host

\* main(), load_elf() and the symbols a command needs.
Start ==
  /\ exit = "start"
  /\ exit' = IF command = "other" THEN "usage"
             ELSE IF image = "absent" \/ (image = "stripped" /\ command # "smoke")
             THEN "failed setup" ELSE "running"
  /\ UNCHANGED <<probe, board, irqvars>>

\* What wait_ready() and the loops of the other commands end on.
Settled ==
  CASE command \in {"ocr", "latch"} -> mem'.ready = 1 /\ mem'.magic = 1
    [] command = "packet" -> mem'.result # 0
    [] command = "pulse-io" -> mem'.last = 1 /\ mem'.next >= 2
    [] OTHER -> FALSE

Accepted ==
  CASE command = "ocr" -> mem'.flags = 1 /\ mem'.v2 = 120
    [] command = "latch" -> mem'.v0 = Word
    [] command = "packet" -> mem'.result = 165 /\ mem'.frames = 2 /\ mem'.deliveries = 1
    [] command = "pulse-io" -> mem'.edges >= 16
    [] OTHER -> mem'.portb = 1

Answer == IF Accepted THEN "pass" ELSE "fail"

Look ==
  /\ exit = "running" /\ command # "irq"
  /\ Instruction
  /\ exit' = IF Settled THEN Answer ELSE exit
  /\ UNCHANGED <<probe, irqvars>>

\* The processor crashes, or the cycles run out: then run_until() of the smoke
\* probe returns and PORTB is looked at, and the others have failed.
Stop ==
  /\ exit = "running" /\ command # "irq"
  /\ UNCHANGED <<probe, board, irqvars>>
  /\ \/ exit' = "crashed"
     \/ exit' = IF command = "smoke" THEN Answer ELSE "timeout"

Irq ==
  /\ exit = "running" /\ command = "irq"
  /\ Next
  /\ UNCHANGED <<probe, board, exit>>

HostNext == Start \/ Look \/ Stop \/ Irq

HostSpec == HostInit /\ [][HostNext]_hostvars

----------------------------------------------------------------------------
\* Properties

\* A PASS is evidence of what the probe is for: compare registers that are
\* buffered until BOTTOM, a 16-bit register written high byte first, one whole
\* payload from two frames, a second frame decoded, the bit in PORTB.  A write
\* that missed the time between the matches would prove nothing of the buffer.
PassIsEvidence ==
  exit = "pass" =>
    /\ hardware \in Sound
    /\ command = "ocr" => mem.v0 >= 40 /\ mem.v0 < 120
    /\ command = "smoke" => mem.portb = 1
    /\ command = "pulse-io" => mem.last = 1 /\ mem.edges >= 2 * 8

\* A sound machine is never failed by an answer read half-written or by a race
\* of the firmware with its timer; the smoke probe may be cut short.
FailIsDeserved ==
  exit = "fail" => hardware \notin Sound \/ (command = "smoke" /\ mem.portb = 0)
=============================================================================
