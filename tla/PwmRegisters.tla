---------------------------- MODULE PwmRegisters ----------------------------
(* Duty writes on the ATmega328P while a handler makes duty writes of its     *)
(* own, access by access.  A 16-bit register is written high byte first       *)
(* through the TEMP latch that all registers of Timer1 share (latch.cpp), the *)
(* two outputs of a timer share a control register that is read, modified and *)
(* written, and every such access is under the IrqBarrier of avr_bindings.hpp *)
(* The register layer and the PWM handles are libraries outside src/, taken   *)
(* as the checks use them.                                                    *)
EXTENDS Integers, Sequences

CONSTANT Programs   \* what main() does, what the handler does: see Program

VARIABLES
  program,   \* the program that runs
  code,      \* per context, "main" and "isr", the accesses it has left
  in_isr,    \* the handler runs
  iflag,     \* the I bit of SREG
  saved,     \* per context, the I bit its barrier saved
  local,     \* per context, the byte or control register it loaded
  temp,      \* the TEMP latch
  reg,       \* the 16-bit and compare registers
  com,       \* per timer, the outputs connected to their pins
  level,     \* per output, the level of the port behind it
  failed,    \* a check of main() failed
  latest     \* history: the handler ran after main's last access to its output

vars == <<program, code, in_isr, iflag, saved, local, temp, reg, com, level, failed, latest>>

----------------------------------------------------------------------------
\* Outputs and accesses.  The period of an output is in timer ticks.

Output(name, timer, register, period) ==
  [name |-> name, timer |-> timer, register |-> register, period |-> period]

Wide == {"ICR1", "OCR1A", "OCR1B"}
Registers == Wide \cup {"OCR0A", "OCR0B", "OCR2A", "OCR2B"}

zero == Output("zero", 0, "OCR0A", 256)
zero_b == Output("zero_b", 0, "OCR0B", 256)
one == Output("one", 1, "OCR1A", 16000)
one_b == Output("one_b", 1, "OCR1B", 16000)
two == Output("two", 2, "OCR2B", 250)
full == [one EXCEPT !.period = 65536]
zero_alternate == [zero_b EXCEPT !.name = "zero", !.period = 125]
two_alternate == [two EXCEPT !.register = "OCR2A", !.period = 256]
Names == {"zero", "zero_b", "one", "one_b", "two"}

Access(kind, r, v) == [do |-> kind, reg |-> r, value |-> v]

\* IrqBarrier: save SREG, cli, and put SREG back.
Barrier(accesses) ==
  <<[do |-> "save"], [do |-> "cli"]>> \o accesses \o <<[do |-> "restore"]>>

\* ReadModifyWrite of a whole register.
Put(r, v) ==
  IF r \in Wide
  THEN Barrier(<<Access("high", r, v \div 256), Access("low", r, v % 256)>>)
  ELSE <<Access("byte", r, v)>>

\* ReadModifyWrite of the mode bits of one output.
Connect(o, on) ==
  Barrier(<<[do |-> "load", timer |-> o.timer],
            [do |-> "store", timer |-> o.timer, output |-> o.name, on |-> on]>>)
Drive(o, high) == <<[do |-> "pin", output |-> o.name, high |-> high]>>

\* Read<>() and a check of the value; a check of the pin.
Check(r, v) ==
  IF r \in Wide
  THEN Barrier(<<Access("readlow", r, v), Access("readhigh", r, v)>>)
  ELSE <<Access("readbyte", r, v)>>
CheckPin(o, on, high) ==
  <<[do |-> "checkpin", output |-> o, on |-> on, high |-> high]>>

\* writeTicks(): an output that is never or always on is taken off its timer
\* and driven; one that is out of range is refused.
writeTicks(o, ticks) ==
  IF ticks > o.period THEN <<>>
  ELSE IF ticks \in {0, o.period} THEN Connect(o, FALSE) \o Drive(o, ticks # 0)
  ELSE Put(o.register, ticks - 1) \o Connect(o, TRUE)

\* floor(n * period / d), in steps that stay within 32 bits.
Scaled(n, d, period) ==
  LET whole == period \div d
      rest == period % d
  IN  n * whole + ((n \div 8) * rest * 8 + (n % 8) * rest) \div d

write(o, n, d) ==
  IF d = 0 \/ n > d THEN <<>>
  ELSE writeTicks(o, IF n = d THEN o.period ELSE Scaled(n, d, o.period))

----------------------------------------------------------------------------
\* Programs

\* "ticks" is what the last calls of main() ask of the outputs of Timer1.
Program(main, handler, on, ticks) ==
  [main |-> main, handler |-> handler, on |-> on, ticks |-> ticks]

\* pwm-host.cpp: both outputs of the motor.
PwmHost ==
  Put("ICR1", 15999) \o write(one, 1, 4) \o write(one_b, 3, 4)
  \o Check("ICR1", 15999) \o Check("OCR1A", 3999) \o Check("OCR1B", 11999)

\* MotorInstance::tick() of handler_allocation.cpp.
tick == write(one, 1, 2)

\* main() of handler_allocation.cpp calls the handler itself.
HandlerAllocation == Put("ICR1", 15999) \o tick \o Check("OCR1A", 7999)

\* main() of atmega328p_checks.cpp, for each of its three programs.
AtmegaApp ==
  Put("ICR1", 15999) \o Put("OCR2A", 249) \o Check("ICR1", 15999)
  \o write(zero, 1, 2) \o Check("OCR0A", 127)
  \o write(one, 1, 4) \o Check("OCR1A", 3999)
  \o write(one_b, 3, 4) \o Check("OCR1B", 11999) \o Check("OCR1A", 3999)
  \o write(two, 1, 2) \o Check("OCR2B", 124) \o Check("OCR2A", 249)
  \o write(two, 1, 250) \o Check("OCR2B", 0) \o CheckPin(two, TRUE, FALSE)
  \o write(two, 0, 1) \o CheckPin(two, FALSE, FALSE)
  \o write(two, 1, 1) \o CheckPin(two, FALSE, TRUE)
  \o write(one, 1, 0) \o write(one, 2, 1) \o Check("OCR1A", 3999)
AtmegaFull ==
  Put("ICR1", 65535) \o writeTicks(full, 65535) \o Check("OCR1A", 65534)
  \o write(full, 65534, 65535) \o Check("OCR1A", 65533)
  \o writeTicks(full, 65536) \o CheckPin(full, FALSE, TRUE)
  \o writeTicks(full, 65537) \o CheckPin(full, FALSE, TRUE)
AtmegaAlternate ==
  Put("OCR0A", 124) \o writeTicks(zero_alternate, 1) \o Check("OCR0B", 0)
  \o CheckPin(zero_alternate, TRUE, FALSE)
  \o write(two_alternate, 1, 2) \o Check("OCR2A", 127)
  \o CheckPin(two_alternate, TRUE, FALSE)

\* The motor of pwm-host.cpp on the device with the handler bound: main()
\* writes a duty of the left output before and after that of the right one.
Duties == {<<1, 4>>, <<0, 1>>, <<1, 1>>, <<1, 16000>>}
Motor(before, after, on) ==
  Program(Put("ICR1", 15999) \o write(one, before[1], before[2]) \o write(one_b, 3, 4)
          \o write(one, after[1], after[2]) \o write(one_b, 1, 2)
          \o Check("ICR1", 15999) \o Check("OCR1B", 7999),
          tick, on, <<IF after[2] = 1 THEN after[1] * 16000 ELSE 16000 \div after[2], 8000>>)
Checks(main) == Program(main, <<>>, TRUE, <<>>)

Contexts == {"main", "isr"}

Init ==
  /\ program \in Programs
  /\ code = [c \in Contexts |-> IF c = "main" THEN program.main ELSE <<>>]
  /\ in_isr = FALSE /\ iflag = program.on
  /\ saved = [c \in Contexts |-> FALSE]
  /\ local = [c \in Contexts |-> 0]
  /\ temp = 0
  /\ reg = [r \in Registers |-> 0]
  /\ com = [t \in 0..2 |-> {}]
  /\ level = [o \in Names |-> FALSE]
  /\ failed = FALSE /\ latest = FALSE

----------------------------------------------------------------------------
\* Steps

Context == IF in_isr THEN "isr" ELSE "main"
Now == Head(code[Context])
Doing(kind) == code[Context] # <<>> /\ Now.do = kind
Done == code' = [code EXCEPT ![Context] = Tail(@)]

\* The hardware clears I when it takes the interrupt, and RETI sets it.
Interrupt ==
  /\ ~in_isr /\ iflag /\ program.handler # <<>>
  /\ in_isr' = TRUE /\ iflag' = FALSE
  /\ code' = [code EXCEPT !.isr = program.handler]
  /\ UNCHANGED <<program, saved, local, temp, reg, com, level, failed, latest>>

\* An access of main() to the output that the handler sets.
OfHandler(access) ==
  \/ access.do \in {"high", "low"} /\ access.reg = one.register
  \/ access.do \in {"store", "pin"} /\ access.output = one.name

Reti ==
  /\ in_isr /\ code.isr = <<>>
  /\ latest' = \A i \in DOMAIN code.main : ~OfHandler(code.main[i])
  /\ in_isr' = FALSE /\ iflag' = TRUE
  /\ saved' = [saved EXCEPT !.isr = FALSE]
  /\ local' = [local EXCEPT !.isr = 0]
  /\ UNCHANGED <<program, code, temp, reg, com, level, failed>>

SaveFlag ==
  /\ Doing("save") /\ Done
  /\ saved' = [saved EXCEPT ![Context] = iflag]
  /\ UNCHANGED <<program, in_isr, iflag, local, temp, reg, com, level, failed, latest>>

\* Mutant: cli() is missing.
CliMissing ==
  /\ Doing("cli") /\ Done
  /\ UNCHANGED <<program, in_isr, iflag, saved, local, temp, reg, com, level, failed, latest>>

Cli ==
  /\ Doing("cli") /\ Done
  /\ iflag' = FALSE
  /\ UNCHANGED <<program, in_isr, saved, local, temp, reg, com, level, failed, latest>>

\* Mutant: the barrier ends in sei().
RestoreEnables ==
  /\ Doing("restore") /\ Done
  /\ iflag' = TRUE
  /\ UNCHANGED <<program, in_isr, saved, local, temp, reg, com, level, failed, latest>>

Restore ==
  /\ Doing("restore") /\ Done
  /\ iflag' = saved[Context]
  /\ UNCHANGED <<program, in_isr, saved, local, temp, reg, com, level, failed, latest>>

\* The high byte waits in TEMP for the low one.
WriteHigh ==
  /\ Doing("high") /\ Done
  /\ temp' = Now.value
  /\ UNCHANGED <<program, in_isr, iflag, saved, local, reg, com, level, failed, latest>>

WriteLow ==
  /\ Doing("low") /\ Done
  /\ reg' = [reg EXCEPT ![Now.reg] = temp * 256 + Now.value]
  /\ UNCHANGED <<program, in_isr, iflag, saved, local, temp, com, level, failed, latest>>

WriteByte ==
  /\ Doing("byte") /\ Done
  /\ reg' = [reg EXCEPT ![Now.reg] = Now.value]
  /\ UNCHANGED <<program, in_isr, iflag, saved, local, temp, com, level, failed, latest>>

\* ICR1 and TCNT1 are read through TEMP, the compare registers at once.
ReadLow ==
  /\ Doing("readlow") /\ Done
  /\ local' = [local EXCEPT ![Context] = reg[Now.reg] % 256]
  /\ temp' = IF Now.reg = "ICR1" THEN reg[Now.reg] \div 256 ELSE temp
  /\ UNCHANGED <<program, in_isr, iflag, saved, reg, com, level, failed, latest>>

ReadHigh ==
  /\ Doing("readhigh") /\ Done
  /\ LET high == IF Now.reg = "ICR1" THEN temp ELSE reg[Now.reg] \div 256
     IN  failed' = (failed \/ high * 256 + local[Context] # Now.value)
  /\ UNCHANGED <<program, in_isr, iflag, saved, local, temp, reg, com, level, latest>>

ReadByte ==
  /\ Doing("readbyte") /\ Done
  /\ failed' = (failed \/ reg[Now.reg] # Now.value)
  /\ UNCHANGED <<program, in_isr, iflag, saved, local, temp, reg, com, level, latest>>

Load ==
  /\ Doing("load") /\ Done
  /\ local' = [local EXCEPT ![Context] = com[Now.timer]]
  /\ UNCHANGED <<program, in_isr, iflag, saved, temp, reg, com, level, failed, latest>>

Store ==
  /\ Doing("store") /\ Done
  /\ com' = [com EXCEPT ![Now.timer] = IF Now.on THEN local[Context] \cup {Now.output}
                                       ELSE local[Context] \ {Now.output}]
  /\ local' = [local EXCEPT ![Context] = 0]
  /\ UNCHANGED <<program, in_isr, iflag, saved, temp, reg, level, failed, latest>>

Pin ==
  /\ Doing("pin") /\ Done
  /\ level' = [level EXCEPT ![Now.output] = Now.high]
  /\ UNCHANGED <<program, in_isr, iflag, saved, local, temp, reg, com, failed, latest>>

CheckThePin ==
  /\ Doing("checkpin") /\ Done
  /\ LET o == Now.output
     IN  failed' = (failed \/ (o.name \in com[o.timer]) # Now.on
                           \/ (~Now.on /\ level[o.name] # Now.high))
  /\ UNCHANGED <<program, in_isr, iflag, saved, local, temp, reg, com, level, latest>>

Next ==
  \/ Interrupt \/ Reti \/ SaveFlag \/ Cli \/ Restore \/ WriteHigh \/ WriteLow
  \/ WriteByte \/ ReadLow \/ ReadHigh \/ ReadByte \/ Load \/ Store \/ Pin \/ CheckThePin

Spec == Init /\ [][Next]_vars

----------------------------------------------------------------------------
\* Properties

\* The words that a sequence of accesses writes to r.
Words(accesses, r) ==
  {accesses[i].value * 256 + accesses[i + 1].value :
     i \in {j \in DOMAIN accesses : accesses[j].do = "high" /\ accesses[j].reg = r}}

\* A 16-bit register never holds the halves of two words, whichever of main()
\* and the handler writes or reads which register of the timer, and every check
\* of main() finds what was written.
WritesAreWhole ==
  /\ ~failed
  /\ \A r \in Wide : reg[r] \in {0} \cup Words(program.main, r) \cup Words(program.handler, r)

\* A barrier leaves the interrupt flag as it found it, in main() and within the
\* handler, which runs with interrupts off to its end.
InterruptsRestored ==
  /\ in_isr => ~iflag
  /\ ~in_isr /\ (code.main = <<>> \/ Head(code.main).do \in {"save", "pin", "byte"}) =>
       iflag = program.on

Shows(o, ticks) ==
  IF ticks \in {0, o.period}
  THEN o.name \notin com[o.timer] /\ level[o.name] = (ticks # 0)
  ELSE o.name \in com[o.timer] /\ reg[o.register] = ticks - 1

\* An output shows what one call asked of it and not a mix of two: the right
\* one what main() asked last, though both share a control register, and the
\* left one what the handler asked if it came last.
OutputsFollowACall ==
  ~in_isr /\ program.handler # <<>> =>
    /\ latest => Shows(one, 8000)
    /\ code.main = <<>> =>
         /\ Shows(one_b, program.ticks[2])
         /\ Shows(one, program.ticks[1]) \/ Shows(one, 8000)

----------------------------------------------------------------------------
\* What the proofs need of a program, and the inductive invariant.

TimerOf == [zero |-> 0, zero_b |-> 0, one |-> 1, one_b |-> 1, two |-> 2]

Accesses ==
  [do : {"save", "cli", "restore"}]
  \cup [do : {"high", "low", "readlow", "readhigh"}, reg : Wide, value : Nat]
  \cup [do : {"byte", "readbyte"}, reg : Registers \ Wide, value : Nat]
  \cup {[do |-> "load", timer |-> t] : t \in 0..2}
  \cup {[do |-> "store", timer |-> TimerOf[n], output |-> n, on |-> b] :
          n \in Names, b \in BOOLEAN}
  \cup [do : {"pin"}, output : Names, high : BOOLEAN]
  \cup [do : {"checkpin"}, on : BOOLEAN, high : BOOLEAN,
        output : {o \in [name : Names, timer : 0..2, register : Registers, period : Nat] :
                    o.timer = TimerOf[o.name]}]

Outside == {"byte", "readbyte", "pin", "checkpin"}
Inside == {"high", "low", "readlow", "readhigh", "load", "store", "restore"}

\* Under a barrier there is one access to a word or one read-modify-write.
Follows(a, b) ==
  /\ a.do = "save" => b.do = "cli"
  /\ a.do = "cli" => b.do \in {"high", "readlow", "load"}
  /\ a.do = "high" => b.do = "low" /\ b.reg = a.reg
  /\ a.do = "readlow" => b.do = "readhigh" /\ b.reg = a.reg
  /\ a.do = "load" => b.do = "store" /\ b.timer = a.timer
  /\ a.do \in {"low", "readhigh", "store"} => b.do = "restore"
  /\ a.do \in Outside \cup {"restore"} => b.do \in Outside \cup {"save"}

Chained(s) ==
  /\ \A i \in 1..(Len(s) - 1) : Follows(s[i], s[i + 1])
  /\ s # <<>> => s[Len(s)].do \in Outside \cup {"restore"}

Serialized(s) ==
  /\ s \in Seq(Accesses) /\ Chained(s)
  /\ s # <<>> => Head(s).do \in Outside \cup {"save"}

\* The cell that an access sets: a register, the mode or the pin of an output.
Cell(kind, of) == [kind |-> kind, of |-> of]
Target(a) ==
  CASE a.do \in {"high", "byte"} -> Cell("reg", a.reg)
    [] a.do = "store" -> Cell("mode", a.output)
    [] a.do = "pin" -> Cell("pin", a.output)
    [] OTHER -> Cell("none", "none")

Bit(b) == IF b THEN 1 ELSE 0

Value(s, j) ==
  CASE s[j].do = "high" -> s[j].value * 256 + s[j + 1].value
    [] s[j].do = "byte" -> s[j].value
    [] s[j].do = "store" -> Bit(s[j].on)
    [] OTHER -> Bit(s[j].high)

Targets(s) == {Target(s[k]) : k \in DOMAIN s}
Keeps(s, i, x) == \A k \in 1..(i - 1) : Target(s[k]) # x
\* The accesses before the i-th leave v in the cell x.
Leaves(s, i, x, v) ==
  \E j \in 1..(i - 1) :
    Target(s[j]) = x /\ Value(s, j) = v /\ \A k \in (j + 1)..(i - 1) : Target(s[k]) # x

Is(x, v) == [cell |-> x, value |-> v]

\* What a check asks for.
Demands(a) ==
  CASE a.do \in {"readhigh", "readbyte"} -> {Is(Cell("reg", a.reg), a.value)}
    [] a.do = "checkpin" ->
         {Is(Cell("mode", a.output.name), Bit(a.on))}
         \cup (IF a.on THEN {} ELSE {Is(Cell("pin", a.output.name), Bit(a.high))})
    [] OTHER -> {}

Showing(o, ticks) ==
  IF ticks \in {0, o.period}
  THEN {Is(Cell("mode", o.name), 0), Is(Cell("pin", o.name), Bit(ticks # 0))}
  ELSE {Is(Cell("mode", o.name), 1), Is(Cell("reg", o.register), ticks - 1)}

\* The compare register of an output is written before its mode.
Connects(s, o) ==
  \A i \in DOMAIN s : Target(s[i]) = Cell("reg", o.register) =>
    \E j \in (i + 1)..Len(s) : Target(s[j]) = Cell("mode", o.name)

\* The handler asks one duty of the left output, and main() leaves both outputs
\* with those of its last calls.
Handled(p) ==
  /\ \A x \in Targets(p.handler) :
       x.kind = "none" \/ \E d \in Showing(one, 8000) : d.cell = x
  /\ \A d \in Showing(one, 8000) :
       /\ Leaves(p.handler, Len(p.handler) + 1, d.cell, d.value)
       /\ \A k \in DOMAIN p.handler : Target(p.handler[k]) = d.cell => Value(p.handler, k) = d.value
  /\ \A k \in DOMAIN p.handler : Target(p.handler[k]) = Cell("mode", "one") =>
       Leaves(p.handler, k, Cell("reg", "OCR1A"), 7999)
  /\ \A d \in Showing(one, p.ticks[1]) \cup Showing(one_b, p.ticks[2]) :
       Leaves(p.main, Len(p.main) + 1, d.cell, d.value)
  /\ Connects(p.main, one)

ASSUME ProgramsAssumption ==
  \A p \in Programs :
    /\ Serialized(p.main) /\ Serialized(p.handler) /\ p.on \in BOOLEAN
    /\ \A k \in DOMAIN p.handler : Demands(p.handler[k]) = {}
    /\ \A i \in DOMAIN p.main : \A d \in Demands(p.main[i]) :
         Leaves(p.main, i, d.cell, d.value) /\ d.cell \notin Targets(p.handler)
    /\ p.handler # <<>> => Handled(p)

-----------------------------------------------------------------------------
TypeOK ==
  /\ program \in Programs
  /\ code \in [Contexts -> Seq(Accesses)]
  /\ in_isr \in BOOLEAN /\ iflag \in BOOLEAN /\ failed \in BOOLEAN /\ latest \in BOOLEAN
  /\ saved \in [Contexts -> BOOLEAN] /\ DOMAIN local = Contexts
  /\ temp \in Nat
  /\ reg \in [Registers -> Nat]
  /\ com \in [0..2 -> SUBSET Names]
  /\ level \in [Names -> BOOLEAN]

At(c, dos) == code[c] # <<>> /\ Head(code[c]).do \in dos

\* Interrupts are off exactly under a barrier and in the handler.
BarrierInv ==
  /\ Chained(code.main) /\ Chained(code.isr)
  /\ in_isr => ~iflag /\ program.on /\ program.handler # <<>> /\ ~At("main", Inside)
  /\ ~in_isr => code.isr = <<>> /\ (iflag <=> program.on /\ ~At("main", Inside))
  /\ At("main", Inside \cup {"cli"}) => saved.main = program.on
  /\ At("isr", Inside \cup {"cli"}) => saved.isr = FALSE

\* Under a barrier the latch and what was loaded are those of its context.
LatchInv ==
  \A c \in Contexts :
    /\ At(c, {"low"}) =>
         temp * 256 + Head(code[c]).value
           \in Words(IF c = "main" THEN program.main ELSE program.handler, Head(code[c]).reg)
    /\ At(c, {"store"}) => local[c] = com[Head(code[c]).timer]
    /\ At(c, {"readhigh"}) =>
         /\ local[c] = reg[Head(code[c]).reg] % 256
         /\ Head(code[c]).reg = "ICR1" => temp = reg["ICR1"] \div 256

WordsInv ==
  \A r \in Wide :
    /\ Words(code.main, r) \subseteq Words(program.main, r)
    /\ Words(code.isr, r) \subseteq Words(program.handler, r)
    /\ reg[r] \in {0} \cup Words(program.main, r) \cup Words(program.handler, r)

\* The value of a cell, once a word whose high byte is in the latch is written.
Holds(x) ==
  CASE x.kind = "reg" -> IF Doing("low") /\ Now.reg = x.of THEN temp * 256 + Now.value
                         ELSE reg[x.of]
    [] x.kind = "mode" -> Bit(x.of \in com[TimerOf[x.of]])
    [] OTHER -> Bit(level[x.of])

\* What will be in the cell before the i-th access that c has left.
Will(c, i, x, v) == Leaves(code[c], i, x, v) \/ (Keeps(code[c], i, x) /\ Holds(x) = v)
End(c) == Len(code[c]) + 1

ChecksInv ==
  /\ ~failed
  /\ \A k \in DOMAIN code.isr : Demands(code.isr[k]) = {}
  /\ Targets(code.isr) \subseteq Targets(program.handler)
  /\ \A i \in DOMAIN code.main : \A d \in Demands(code.main[i]) :
       Will("main", i, d.cell, d.value) /\ d.cell \notin Targets(program.handler)

Mode == Cell("mode", "one")
Compare == Cell("reg", "OCR1A")

HandlerInv ==
  /\ \A d \in Showing(one, 8000) :
       \A k \in DOMAIN code.isr : Target(code.isr[k]) = d.cell => Value(code.isr, k) = d.value
  /\ in_isr => \A d \in Showing(one, 8000) : Will("isr", End("isr"), d.cell, d.value)
  /\ \A k \in DOMAIN code.isr : Target(code.isr[k]) = Mode => Will("isr", k, Compare, 7999)
  /\ latest => \A i \in DOMAIN code.main : ~OfHandler(code.main[i])
  /\ latest /\ ~in_isr => \A d \in Showing(one, 8000) : Holds(d.cell) = d.value

\* Each output will show its last call in main(), the left one unless the handler
\* came after or between its accesses.
MainInv ==
  /\ Connects(code.main, one)
  /\ \A d \in Showing(one_b, program.ticks[2]) : Will("main", End("main"), d.cell, d.value)
  /\ IF program.ticks[1] \in {0, one.period}
     THEN /\ Will("main", End("main"), Cell("pin", "one"), Bit(program.ticks[1] # 0))
          /\ \/ Will("main", End("main"), Mode, 0)
             \/ /\ Keeps(code.main, End("main"), Mode) /\ Keeps(code.main, End("main"), Compare)
                /\ Holds(Mode) = 1 /\ Holds(Compare) = 7999
     ELSE /\ Will("main", End("main"), Mode, 1)
          /\ \/ Will("main", End("main"), Compare, program.ticks[1] - 1)
             \/ Will("main", End("main"), Compare, 7999)

PwmInv ==
  /\ TypeOK /\ BarrierInv /\ LatchInv /\ WordsInv /\ ChecksInv
  /\ program.handler # <<>> => HandlerInv /\ MainInv
=============================================================================
