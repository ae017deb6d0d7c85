------------------------------ MODULE SimProofs ------------------------------
(* Proofs about the probes: of SimIrq for any number of cycles, and of the   *)
(* host with its other commands for any pace of Timer1 within the margin of  *)
(* ocr.cpp.  The invariant of a command says what its firmware has done by   *)
(* each access; what is left of its code tells the access.                   *)
EXTENDS SimProbes, SequenceTheorems, TLAPS

\* The machine takes one interrupt at most, whatever the loop sees of it.
LEMMA MachineStep ==
  ASSUME ProbeInv, avr_run, cycle' = cycle + 1
  PROVE  /\ isr_first' = isr_first /\ notifies' = notifies
         /\ pc' \in MainCode \cup IsrCode \cup {"vector"}
         /\ tov' \in {0, 1} /\ served' \in {0, 1} /\ count' \in {0, 1} /\ ready' \in {0, 1}
         /\ notify_cycle' \in 0..cycle'
         /\ pc' \notin MainCode => served' = 1
         /\ tov' = 1 => served' = 0
         /\ count' = 1 <=> served' = 1 /\ pc' \notin {"vector", "entry", "count"}
         /\ ready' = 1 <=> served' = 1 /\ pc' \notin {"vector", "entry", "count", "ready"}
         /\ pc' = "vector" => served = 0 /\ served' = 1
         /\ served = 1 => served' = 1 /\ notify_cycle' = notify_cycle
         /\ served = 0 /\ served' = 1 => pc' = "vector"
         /\ notifies /\ (tov' = 1 \/ served' = 1) => notify_cycle' # 0
<1>1. cycle \in Nat /\ cycle' \in Nat /\ notify_cycle \in 0..cycle
  BY DEF ProbeInv, TypeOK
<1>2. CASE RunMain
  BY <1>1, <1>2 DEF RunMain, ProbeInv, TypeOK, MainCode, IsrCode
<1>3. CASE Overflow
  BY <1>1, <1>3 DEF Overflow, InterruptsOn, ProbeInv, TypeOK, MainCode, IsrCode
<1>4. CASE Serve
  BY <1>1, <1>4 DEF Serve, InterruptsOn, ProbeInv, TypeOK, MainCode, IsrCode
<1>5. CASE RunIsr
  BY <1>1, <1>5 DEF RunIsr, ProbeInv, TypeOK, MainCode, IsrCode
<1> QED
  BY <1>2, <1>3, <1>4, <1>5 DEF avr_run

\* The cycles written in a turn are those of the turn.
LEMMA TraceStep ==
  ASSUME ProbeInv, Turn
  PROVE  /\ tifr_cycle' \in 0..cycle' /\ vector_cycle' \in 0..cycle'
         /\ isr_cycle' \in 0..cycle' /\ reti_cycle' \in 0..cycle'
         /\ tov' = 1 => tifr_cycle' # 0
         /\ vector_cycle' # 0 <=> served' = 1
         /\ isr_cycle' # 0 <=> served' = 1 /\ isr_first /\ pc' # "vector"
         /\ served' = 1 => tifr_cycle' <= vector_cycle' /\ notify_cycle' <= vector_cycle'
         /\ isr_cycle' # 0 => vector_cycle' < isr_cycle'
<1>0. /\ cycle' = cycle + 1 /\ avr_run /\ Observe
      /\ cycle \in Nat /\ cycle' \in Nat /\ cycle' # 0 /\ verdict = "running"
      /\ tifr_cycle \in 0..cycle /\ vector_cycle \in 0..cycle /\ isr_cycle \in 0..cycle
      /\ reti_cycle \in 0..cycle
  BY DEF Turn, ProbeInv, TypeOK
<1>1. /\ notify_cycle' \in 0..cycle'
      /\ tov' = 1 => served' = 0
      /\ pc' \notin MainCode => served' = 1
      /\ pc' = "vector" => served = 0 /\ served' = 1
      /\ served = 1 => served' = 1 /\ notify_cycle' = notify_cycle
      /\ served = 0 /\ served' = 1 => pc' = "vector"
      /\ served' \in {0, 1} /\ served \in {0, 1}
  BY <1>0, MachineStep DEF ProbeInv, TypeOK
<1>2. /\ vector_cycle # 0 <=> served = 1
      /\ isr_cycle # 0 <=> served = 1 /\ isr_first /\ pc # "vector"
      /\ served = 1 => tifr_cycle <= vector_cycle /\ notify_cycle <= vector_cycle
      /\ isr_cycle # 0 => vector_cycle < isr_cycle
      /\ tov = 1 => served = 0
  BY DEF ProbeInv
<1>3. /\ vector_cycle' = (IF vector_cycle = 0 /\ pc' = "vector" THEN cycle' ELSE vector_cycle)
      /\ reti_cycle' \in {reti_cycle, cycle'} /\ tifr_cycle' \in {tifr_cycle, cycle, cycle'}
      /\ tov' = 1 => tifr_cycle' # 0
      /\ isr_cycle' = (IF isr_cycle = 0 /\ vector_cycle' # 0 /\ InIsr(pc') THEN cycle' ELSE isr_cycle)
  BY <1>0 DEF Observe, First
<1>4. vector_cycle' \in 0..cycle' /\ (vector_cycle' # 0 <=> served' = 1)
  BY <1>0, <1>1, <1>2, <1>3
<1>5. tifr_cycle' \in 0..cycle' /\ isr_cycle' \in 0..cycle' /\ reti_cycle' \in 0..cycle'
  BY <1>0, <1>3
<1>6. pc = "vector" => pc' = "entry"
  BY <1>0, <1>1 DEF avr_run, RunMain, Overflow, Serve, RunIsr, InterruptsOn, MainCode
<1>7. isr_cycle' # 0 <=> served' = 1 /\ isr_first /\ pc' # "vector"
  <2>1. InIsr(pc') <=> (isr_first /\ pc' \in IsrCode)
    BY <1>0, MachineStep DEF InIsr
  <2>2. CASE served = 0
    BY <2>1, <2>2, <1>1, <1>2, <1>3, <1>4 DEF IsrCode, MainCode
  <2>3. CASE served = 1 /\ pc = "vector"
    BY <2>1, <2>3, <1>0, <1>1, <1>2, <1>3, <1>4, <1>6 DEF IsrCode
  <2>4. CASE served = 1 /\ pc # "vector"
    BY <2>1, <2>4, <1>0, <1>1, <1>2, <1>3
  <2> QED
    BY <1>1, <2>2, <2>3, <2>4
<1>8. served' = 1 => tifr_cycle' <= vector_cycle' /\ notify_cycle' <= vector_cycle'
  <2>1. CASE served = 1
    <3>1. tifr_cycle' = tifr_cycle
      BY <1>0, <1>1, <1>2, <2>1 DEF Observe, First
    <3> QED
      BY <3>1, <1>1, <1>2, <1>3, <2>1
  <2>2. CASE served = 0
    BY <2>2, <1>0, <1>1, <1>2, <1>3, <1>5
  <2> QED
    BY <1>1, <2>1, <2>2
<1>9. isr_cycle' # 0 => vector_cycle' < isr_cycle'
  <2>1. CASE served = 1
    BY <2>1, <1>0, <1>1, <1>2, <1>3
  <2>2. CASE served = 0
    BY <2>2, <1>1, <1>2, <1>7
  <2> QED
    BY <1>1, <2>1, <2>2
<1> QED
  BY <1>3, <1>4, <1>5, <1>7, <1>8, <1>9

\* A turn ends the probe exactly if an answer is seen, and judges it.
LEMMA VerdictStep ==
  ASSUME ProbeInv, Turn
  PROVE  /\ verdict' \in {"running", "pass", "fail"}
         /\ verdict' = "running" => reti_cycle' = 0 /\ (ready' = 1 => ~isr_first)
         /\ verdict' = "pass" => Judgement' = "pass" /\ ready' = 1
         /\ verdict' = "fail" => Pending' = 0
<1>. DEFINE inside == vector_cycle' # 0 /\ InIsr(pc')
            left == ~inside /\ isr_cycle # 0 /\ PastMain(pc')
<1>0. /\ cycle' = cycle + 1 /\ avr_run /\ Observe /\ cycle \in Nat /\ verdict = "running"
      /\ isr_cycle \in 0..cycle /\ isr_first \in BOOLEAN /\ reti_cycle = 0
      /\ isr_cycle # 0 <=> served = 1 /\ isr_first /\ pc # "vector"
      /\ served \in {0, 1} /\ (ready = 1 => ~isr_first)
      /\ ready = 1 <=> served = 1 /\ pc \notin {"vector", "entry", "count", "ready"}
      /\ ready \in {0, 1}
  BY DEF Turn, ProbeInv, TypeOK
<1>1. /\ ready' \in {0, 1} /\ count' \in {0, 1} /\ served' \in {0, 1} /\ isr_first' = isr_first
      /\ pc' \in MainCode \cup IsrCode \cup {"vector"}
      /\ count' = 1 <=> served' = 1 /\ pc' \notin {"vector", "entry", "count"}
      /\ ready' = 1 <=> served' = 1 /\ pc' \notin {"vector", "entry", "count", "ready"}
      /\ served = 1 => served' = 1
      /\ vector_cycle' # 0 <=> served' = 1
      /\ isr_cycle' # 0 <=> served' = 1 /\ isr_first /\ pc' # "vector"
  BY <1>0, MachineStep, TraceStep
<1>2. /\ reti_cycle' = (IF left \/ Answered(left) THEN cycle' ELSE 0)
      /\ verdict' = (IF Answered(left) THEN Judgement' ELSE "running")
      /\ isr_cycle' = (IF isr_cycle = 0 /\ inside THEN cycle' ELSE isr_cycle)
  BY <1>0 DEF Observe, First
<1>3. Answered(left) <=> ready' = 1 /\ isr_first
  <2>1. ready' = 1 => count' = 1 /\ served' = 1 /\ pc' # "vector"
    BY <1>1
  <2>2. Answered(left) <=> ready' # 0 /\ isr_cycle' # 0 /\ (reti_cycle # 0 \/ left \/ count' >= 1)
    BY DEF Answered
  <2> QED
    BY <1>1, <2>1, <2>2
<1>4. left => Answered(left)
  <2>1. ASSUME left PROVE ready' = 1 /\ isr_first
    <3>1. served' = 1 /\ isr_first /\ pc' \in MainCode
      BY <1>0, <1>1, <2>1 DEF PastMain
    <3> QED
      BY <1>1, <3>1 DEF MainCode
  <2> QED
    BY <2>1, <1>3
<1>5. ASSUME Answered(left)
      PROVE  reti_cycle' > isr_cycle' /\ isr_cycle' # 0 /\ count' = 1 /\ vector_cycle' # 0
  <2>1. ready' = 1 /\ isr_first /\ served' = 1 /\ count' = 1
        /\ pc' \notin {"vector", "entry", "count", "ready"}
    BY <1>1, <1>3, <1>5
  <2>2. pc \notin {"vector"} /\ served = 1
    BY <1>0, <2>1, <1>1 DEF avr_run, RunMain, Overflow, Serve, RunIsr, InterruptsOn, MainCode
  <2>3. isr_cycle # 0
    BY <1>0, <2>1, <2>2
  <2>4. isr_cycle' = isr_cycle /\ reti_cycle' = cycle'
    BY <1>2, <1>5, <2>3
  <2> QED
    BY <1>0, <1>1, <2>1, <2>3, <2>4
<1>6. ASSUME Answered(left)
      PROVE  Judgement' = (IF Pending' = 0 THEN "fail" ELSE "pass")
  <2>1. reti_cycle' \in Nat /\ isr_cycle' \in Nat /\ reti_cycle' > isr_cycle'
    BY <1>0, <1>2, <1>5, <1>6
  <2>2. ~(reti_cycle' <= isr_cycle')
    BY <2>1
  <2> QED
    BY <1>5, <1>6, <2>2 DEF Judgement
<1> QED
  BY <1>1, <1>2, <1>3, <1>4, <1>6

\* The invariant of the probe.
THEOREM ProbeInvariant == Spec => []ProbeInv
<1>1. Init => ProbeInv
  BY CyclesAssumption DEF Init, ProbeInv, TypeOK, MainCode
<1>2. ProbeInv /\ [Next]_vars => ProbeInv'
  <2> SUFFICES ASSUME ProbeInv, [Next]_vars PROVE ProbeInv'
    OBVIOUS
  <2>1. CASE Turn
    <3>1. cycle' = cycle + 1 /\ avr_run /\ cycle < Cycles /\ cycle \in 0..Cycles
      BY <2>1 DEF Turn, ProbeInv, TypeOK
    <3>2. cycle' \in 0..Cycles
      BY <3>1, CyclesAssumption
    <3>3. isr_first \in BOOLEAN /\ notifies \in BOOLEAN
      BY DEF ProbeInv, TypeOK
    <3>4. /\ isr_first' = isr_first /\ notifies' = notifies
          /\ pc' \in MainCode \cup IsrCode \cup {"vector"}
          /\ tov' \in {0, 1} /\ served' \in {0, 1} /\ count' \in {0, 1} /\ ready' \in {0, 1}
          /\ notify_cycle' \in 0..cycle'
          /\ pc' \notin MainCode => served' = 1
          /\ tov' = 1 => served' = 0
          /\ count' = 1 <=> served' = 1 /\ pc' \notin {"vector", "entry", "count"}
          /\ ready' = 1 <=> served' = 1 /\ pc' \notin {"vector", "entry", "count", "ready"}
          /\ notifies /\ (tov' = 1 \/ served' = 1) => notify_cycle' # 0
      BY <3>1, MachineStep
    <3>5. TypeOK'
      BY <2>1, <3>2, <3>3, <3>4, TraceStep, VerdictStep DEF TypeOK, MainCode, IsrCode
    <3> QED
      BY <2>1, <3>4, <3>5, TraceStep, VerdictStep DEF ProbeInv, MainCode
  <2>2. CASE Crash
    BY <2>2 DEF Crash, machine, trace, ProbeInv, TypeOK, Pending, Judgement, MainCode, IsrCode
  <2>3. CASE Timeout
    BY <2>3 DEF Timeout, machine, trace, ProbeInv, TypeOK, Pending, Judgement, MainCode, IsrCode
  <2>4. CASE UNCHANGED vars
    BY <2>4 DEF vars, machine, trace, ProbeInv, TypeOK, Pending, Judgement, MainCode, IsrCode
  <2> QED
    BY <2>1, <2>2, <2>3, <2>4 DEF Next
<1> QED
  BY <1>1, <1>2, PTL DEF Spec

\* PASS is about one interrupt that was taken, counted and stored, and its cycles
\* are in the order in which that happened.
THEOREM PassIsHandled == Spec => []PassMeansHandled
<1>1. ProbeInv => PassMeansHandled
  <2> SUFFICES ASSUME ProbeInv, verdict = "pass" PROVE PassMeansHandled
    BY DEF PassMeansHandled
  <2>1. /\ Pending # 0 /\ vector_cycle # 0 /\ isr_cycle # 0 /\ ~(reti_cycle <= isr_cycle)
        /\ vector_cycle \in Nat /\ isr_cycle \in Nat /\ reti_cycle \in Nat
        /\ tifr_cycle \in Nat /\ notify_cycle \in Nat
        /\ vector_cycle < isr_cycle
        /\ tifr_cycle <= vector_cycle /\ notify_cycle <= vector_cycle
    BY DEF ProbeInv, TypeOK, Judgement
  <2>2. served = 1 /\ count = 1 /\ ready = 1
    BY DEF ProbeInv, TypeOK
  <2> QED
    BY <2>1, <2>2 DEF PassMeansHandled, Pending
<1> QED
  BY <1>1, ProbeInvariant, PTL

\* An answer in memory is a verdict.
THEOREM AnswersAreReported == Spec => []AnswerIsReported
<1>1. ProbeInv => AnswerIsReported
  <2> SUFFICES ASSUME ProbeInv, ready = 1, isr_first
               PROVE  verdict \in {"pass", "fail"} /\ (verdict = "fail" => Pending = 0 /\ ~notifies)
    BY DEF AnswerIsReported
  <2>1. verdict \in {"pass", "fail"} /\ served = 1 /\ (notifies => notify_cycle # 0)
    BY DEF ProbeInv, TypeOK
  <2> QED
    BY <2>1 DEF ProbeInv, TypeOK, Pending
<1> QED
  BY <1>1, ProbeInvariant, PTL

------------------------------------------------------------------------------
\* What is left of a program before its k-th access.
Left(program, k) == SubSeq(program, k, Len(program))

\* The pin is a bit.
SmokeInv == DOMAIN mem = {"portb"} /\ mem.portb \in {0, 1} /\ code \in {SmokeCode, <<>>}

\* What has been sent and delivered before the k-th access of packet.cpp.
PacketAt(k) ==
  /\ code = Left(PacketCode, k)
  /\ DOMAIN mem = {"result", "frames", "deliveries", "sent", "matched"}
  /\ k <= 3 => mem.result = 0
  /\ k = 1 => mem.frames = 0 /\ mem.deliveries = 0 /\ mem.sent = TRUE /\ mem.matched = FALSE
  /\ k = 2 => /\ mem.frames = 1 /\ mem.sent = TRUE
              /\ mem.deliveries = IF hardware = "double" THEN 1 ELSE 0
              /\ hardware # "double" => mem.matched = FALSE
  /\ k >= 3 => /\ hardware \in {"whole", "corrupt"} => mem.deliveries = 1 /\ mem.frames = 2
               /\ hardware = "whole" => mem.sent = TRUE /\ mem.matched = TRUE
               /\ hardware = "corrupt" => mem.matched = FALSE
               /\ hardware = "double" => mem.deliveries = 2
               /\ hardware = "deaf" => mem.deliveries = 0
               /\ hardware = "refused" => mem.sent = FALSE
  /\ k = 4 => mem.result = IF hardware = "whole" THEN 165 ELSE 90

PacketInv == \E k \in 1..4 : PacketAt(k)

\* Timer1 and the result before the k-th access of ocr.cpp.  After the window
\* (10) the timer is past the old match and short of the new one; after BOTTOM
\* (16) it is short of both again, so that the flag tells the machines apart.
OcrAt(k) ==
  /\ code = Left(OcrCode, k)
  /\ DOMAIN mem = {"magic", "ready", "flags", "v0", "v1", "v2", "v3"}
  /\ DOMAIN timer = {"tcnt", "ocr", "buffer", "tov", "ocf", "clock"}
  /\ timer.tcnt \in 0..Top /\ timer.ocr \in Nat /\ timer.buffer \in Nat
  /\ timer.tov \in {0, 1} /\ timer.ocf \in {0, 1}
  /\ k <= 4 => timer.clock = FALSE
  /\ k <= 18 => mem.ready = 0
  /\ k <= 4 => timer.tov = 0
  /\ k \in 4..11 => timer.buffer = 40
  /\ k \in 5..6 => timer.tov = 0 \/ timer.ocr = 40
  /\ k \in 7..11 => timer.ocr = 40
  /\ k >= 12 => timer.buffer = 120
  /\ k \in 10..15 => timer.tcnt >= 70
  /\ k \in 10..14 => timer.tcnt <= 100 + 9 * (k - 10)
  /\ k = 15 => timer.tov = 0
  /\ k >= 10 => mem.v0 \in 70..100
  /\ k >= 14 => mem.v2 = 120
  /\ hardware = "buffered" =>
       /\ k \in 11..16 => timer.ocf = 0
       /\ k \in 12..15 => timer.ocr = 40
       /\ k = 16 => timer.tcnt <= 8 /\ timer.ocr = 120
       /\ k >= 17 => mem.v3 = 0
       /\ k >= 18 => mem.flags = 1
  /\ hardware = "immediate" =>
       /\ k \in 12..15 => timer.ocr = 120 /\ (timer.ocf = 1 \/ timer.tcnt < 120)
       /\ k = 16 => timer.ocf = 1
       /\ k >= 17 => mem.v3 = 1
       /\ k >= 18 => mem.flags = 0

OcrInv == \E k \in 1..19 : OcrAt(k)

\* What up to nine ticks do to Timer1, with and without a wrap.
Clocked(t, u) ==
  /\ DOMAIN u = DOMAIN t /\ u.buffer = t.buffer /\ u.clock = t.clock /\ u.tcnt \in 0..Top
  /\ \/ /\ u.tcnt > t.tcnt /\ u.tcnt <= t.tcnt + 9
        /\ u.tov = t.tov /\ u.ocr = t.ocr
        /\ u.ocf = IF t.tcnt < t.ocr /\ t.ocr <= u.tcnt THEN 1 ELSE t.ocf
     \/ /\ u.tcnt <= 8 /\ t.tcnt + 9 > Top
        /\ u.tov = 1 /\ u.ocr = t.buffer
        /\ t.tcnt < t.ocr /\ t.ocr <= Top => u.ocf = 1
        /\ t.ocr <= t.tcnt /\ u.tcnt < t.buffer => u.ocf = t.ocf
        /\ u.ocf \in {t.ocf, 1}

\* What an access of ocr.cpp does, when t is what Timer1 has come to.
OcrEffect(op, t) ==
  /\ op.do = "ocr" =>
       /\ timer' = [t EXCEPT !.buffer = op.value,
                             !.ocr = IF hardware = "immediate" THEN op.value ELSE @]
       /\ mem' = mem /\ code' = Tail(code)
  /\ op.do = "clock" => timer' = [t EXCEPT !.clock = TRUE] /\ mem' = mem /\ code' = Tail(code)
  /\ op.do = "clear" => timer' = [t EXCEPT ![op.flag] = 0] /\ mem' = mem /\ code' = Tail(code)
  /\ op.do = "await" =>
       timer' = t /\ mem' = mem /\ code' = IF t[op.flag] = 1 THEN Tail(code) ELSE code
  /\ op.do = "copy" =>
       timer' = t /\ mem' = [mem EXCEPT ![op.cell] = t[op.reg]] /\ code' = Tail(code)
  /\ op.do = "set" =>
       timer' = t /\ mem' = [mem EXCEPT ![op.cell] = op.value] /\ code' = Tail(code)
  /\ op.do = "flags" => timer' = t /\ mem' = [mem EXCEPT !.flags = 1 - mem.v3] /\ code' = Tail(code)
  /\ op.do = "window" =>
       /\ timer' = t
       /\ IF InWindow(t.tcnt) THEN mem' = [mem EXCEPT !.v0 = t.tcnt] /\ code' = Tail(code)
          ELSE mem' = mem /\ code' = code

\* The latch and the result before the k-th access of latch.cpp: what ICR1 holds
\* when it is read (4), and v0 from then on.
LatchAt(k) ==
  /\ code = Left(LatchCode, k)
  /\ DOMAIN mem = {"magic", "ready", "v0", "v1", "v2", "v3"}
  /\ k <= 14 => mem.ready = 0
  /\ k <= 2 => latch = [ICR1 |-> <<"00", "00">>, TCNT1 |-> <<"00", "00">>, temp |-> "00"]
  /\ k <= 4 => DOMAIN latch = {"ICR1", "TCNT1", "temp"}
  /\ k = 3 => IF hardware = "silicon" THEN latch.temp = "A5" ELSE latch.ICR1 = <<"A5", "00">>
  /\ k = 4 => latch.ICR1 = IF hardware = "reversed" THEN <<"A5", "00">> ELSE Word
  /\ k >= 5 => (mem.v0 = Word <=> hardware # "reversed")

LatchInv == \E k \in 1..15 : LatchAt(k)

\* Each frame brings eight edges, so the second one is received after sixteen.
PulseInv ==
  /\ DOMAIN mem = {"last", "next", "edges", "wire"}
  /\ mem.last \in Nat /\ mem.next \in 0..MaxSends /\ mem.edges \in Nat /\ mem.wire \in 0..8
  /\ \/ code = PulseCode /\ mem.wire < 8
     \/ code = <<Op("receive"), Op("send")>> /\ mem.wire > 0
  /\ mem.edges + mem.wire = 8 * mem.next
  /\ mem.last # 0 => hardware = "wired"
  /\ mem.last = 1 => mem.edges >= 16

\* The next access of a program, and what is left after it.
LEMMA LeftStep ==
  ASSUME NEW S, NEW program \in Seq(S), NEW k \in 1..Len(program)
  PROVE  /\ Left(program, k) # <<>>
         /\ Head(Left(program, k)) = program[k]
         /\ Tail(Left(program, k)) = Left(program, k + 1)
<1>1. Len(program) \in Nat /\ k \in Int /\ k <= Len(program)
      /\ \A i \in k..Len(program) : program[i] \in S
  OBVIOUS
<1>2. Len(Left(program, k)) = Len(program) - k + 1
  BY <1>1, SubSeqProperties DEF Left
<1>3. Left(program, k) # <<>>
  BY <1>1, <1>2
<1> QED
  BY <1>3, <1>1, HeadTailOfSubSeq DEF Left

\* All of a program is left before its first access, nothing after its last.
LEMMA LeftEnds ==
  ASSUME NEW S, NEW program \in Seq(S)
  PROVE  Left(program, 1) = program /\ Left(program, Len(program) + 1) = <<>>
<1>1. Len(program) \in Nat
  OBVIOUS
<1>2. Left(program, 1) = program
  BY DEF Left
<1>3. Left(program, Len(program) + 1) = <<>>
  BY <1>1, SubSeqEmpty DEF Left
<1> QED
  BY <1>2, <1>3

\* The other access of the pulse sketch goes to the end.
LEMMA Turned == \A a, b : Append(<<b>>, a) = <<b, a>>
<1> TAKE a, b
<1> DEFINE s == Append(<<b>>, a)
<1>1. s \in Seq({a, b}) /\ Len(s) = 2 /\ s[1] = b /\ s[2] = a
  OBVIOUS
<1>2. <<b, a>> \in Seq({a, b}) /\ Len(<<b, a>>) = 2
  OBVIOUS
<1> HIDE DEF s
<1>3. s = <<b, a>>
  BY <1>1, <1>2
<1> QED
  BY <1>3 DEF s

\* PORTB is written once.
LEMMA SmokeStep ==
  ASSUME command = "smoke", SmokeInv, Instruction
  PROVE  SmokeInv'
<1>1. CASE code = <<>>
  BY <1>1 DEF SmokeInv, Instruction, board
<1>2. CASE code = SmokeCode
  <2>1. code # <<>> /\ Head(code) = Set("portb", 1) /\ Tail(code) = <<>>
    BY <1>2 DEF SmokeCode
  <2>2. TimerStep(Set("portb", 1))
    BY <2>1 DEF Instruction, AwaitWindow, LatchWrite, SendFrame, PacketResult, PulseTurn, Set
  <2>3. mem' = [mem EXCEPT !["portb"] = 1] /\ code' = <<>>
    BY <2>1, <2>2 DEF TimerStep, Set
  <2> QED
    BY <2>3 DEF SmokeInv
<1> QED
  BY <1>1, <1>2 DEF SmokeInv

\* The accesses of the packet probe, by what is left of them.
LEMMA PacketProgram ==
  /\ Left(PacketCode, 1) = PacketCode /\ Left(PacketCode, 4) = <<>>
  /\ \A k \in 1..3 : /\ Left(PacketCode, k) # <<>>
                     /\ Head(Left(PacketCode, k)) = Op(IF k = 3 THEN "result" ELSE "frame")
                     /\ Tail(Left(PacketCode, k)) = Left(PacketCode, k + 1)
<1>. DEFINE ops == {Op("frame"), Op("result")}
<1>1. /\ PacketCode \in Seq(ops) /\ Len(PacketCode) = 3
      /\ PacketCode[1] = Op("frame") /\ PacketCode[2] = Op("frame") /\ PacketCode[3] = Op("result")
  BY DEF PacketCode
<1>. HIDE DEF ops
<1>2. Left(PacketCode, 1) = PacketCode /\ Left(PacketCode, Len(PacketCode) + 1) = <<>>
  BY <1>1, LeftEnds
<1>3. Left(PacketCode, 4) = <<>>
  BY <1>1, <1>2
<1>4. ASSUME NEW k \in 1..3
      PROVE  /\ Left(PacketCode, k) # <<>>
             /\ Head(Left(PacketCode, k)) = PacketCode[k]
             /\ Tail(Left(PacketCode, k)) = Left(PacketCode, k + 1)
  BY <1>1, LeftStep
<1> QED
  BY <1>1, <1>2, <1>3, <1>4

\* Frame by frame, the receiver of each machine delivers what it delivers.
LEMMA PacketStep ==
  ASSUME command = "packet", hardware \in Machines("packet"), PacketInv, Instruction,
         UNCHANGED probe
  PROVE  PacketInv'
<1>0. hardware \in {"whole", "corrupt", "double", "deaf", "refused"} /\ hardware' = hardware
  BY DEF Machines, probe
<1>1. PICK k \in 1..4 : PacketAt(k)
  BY DEF PacketInv
<1>2. CASE k = 4
  <2>1. code = <<>>
    BY <1>1, <1>2, PacketProgram DEF PacketAt
  <2>2. mem' = mem /\ code' = code
    BY <2>1 DEF Instruction, board
  <2> QED
    BY <1>0, <1>1, <2>2 DEF PacketInv, PacketAt
<1>3. CASE k = 3
  <2>1. code # <<>> /\ Head(code) = Op("result") /\ Tail(code) = Left(PacketCode, 4)
    BY <1>1, <1>3, PacketProgram DEF PacketAt
  <2>2. PacketResult(Op("result"))
    BY <2>1 DEF Instruction, LatchWrite, SendFrame, PulseTurn, Op
  <2>3. /\ mem' = [mem EXCEPT !.result =
                    IF mem.sent /\ mem.matched /\ mem.frames = 2 /\ mem.deliveries = 1
                    THEN 165 ELSE 90]
        /\ code' = Left(PacketCode, 4)
    BY <2>1, <2>2 DEF PacketResult
  <2>4. PacketAt(4)'
    BY <1>0, <1>1, <1>3, <2>3 DEF PacketAt
  <2> QED
    BY <2>4 DEF PacketInv
<1>4. CASE k \in 1..2
  <2>1. code # <<>> /\ Head(code) = Op("frame") /\ Tail(code) = Left(PacketCode, k + 1)
    BY <1>1, <1>4, PacketProgram DEF PacketAt
  <2>2. SendFrame(Op("frame"))
    BY <2>1 DEF Instruction, LatchWrite, PacketResult, PulseTurn, Op
  <2>3. code' = Left(PacketCode, k + 1) /\ mem.frames + 1 = k
    BY <1>1, <1>4, <2>1, <2>2 DEF SendFrame, PacketAt
  <2>4. CASE hardware = "refused" /\ k = 2
    <3>1. mem' = [mem EXCEPT !.sent = FALSE]
      BY <2>2, <2>3, <2>4 DEF SendFrame
    <3>2. PacketAt(3)'
      BY <1>0, <1>1, <2>3, <2>4, <3>1 DEF PacketAt
    <3> QED
      BY <3>2 DEF PacketInv
  <2>5. CASE ~(hardware = "refused" /\ k = 2)
    <3>. DEFINE delivers == hardware = "double" \/ (hardware # "deaf" /\ k = 2)
    <3>1. mem' = [mem EXCEPT !.frames = k,
                    !.deliveries = IF delivers THEN @ + 1 ELSE @,
                    !.matched = IF delivers THEN hardware # "corrupt" ELSE @]
      BY <1>0, <2>2, <2>3, <2>5 DEF SendFrame
    <3>2. PacketAt(k + 1)'
      <4>1. CASE k = 1
        BY <1>0, <1>1, <2>3, <2>5, <3>1, <4>1 DEF PacketAt
      <4>2. CASE k = 2
        <5>1. DOMAIN mem' = DOMAIN mem /\ mem'.frames = 2 /\ mem'.result = 0 /\ mem'.sent = TRUE
          BY <1>1, <3>1, <4>2 DEF PacketAt
        <5>2. mem'.deliveries = mem.deliveries + IF delivers THEN 1 ELSE 0
          BY <1>1, <3>1, <4>2 DEF PacketAt
        <5>3. mem'.matched = IF delivers THEN hardware # "corrupt" ELSE mem.matched
          BY <1>1, <3>1, <4>2 DEF PacketAt
        <5>4. hardware = "whole" => mem'.matched = TRUE
          BY <4>2, <5>3
        <5>5. hardware = "corrupt" => mem'.matched = FALSE
          BY <4>2, <5>3
        <5> QED
          BY <1>0, <1>1, <2>3, <2>5, <4>2, <5>1, <5>2, <5>4, <5>5 DEF PacketAt
      <4> QED
        BY <1>4, <4>1, <4>2
    <3> QED
      BY <1>4, <3>2 DEF PacketInv
  <2> QED
    BY <2>4, <2>5
<1> QED
  BY <1>2, <1>3, <1>4

\* Every bit of a frame is an edge at least.
LEMMA PulseStep ==
  ASSUME command = "pulse-io", PulseInv, Instruction, UNCHANGED probe
  PROVE  PulseInv'
<1>0. hardware' = hardware
  BY DEF probe
<1>1. CASE code = PulseCode
  <2>1. code # <<>> /\ Head(code) = Op("send") /\ Append(Tail(code), Op("send")) = <<Op("receive"), Op("send")>>
    BY <1>1, Turned DEF PulseCode
  <2>2. PulseTurn(Op("send"))
    BY <2>1 DEF Instruction, LatchWrite, SendFrame, PacketResult, Op
  <2>3. /\ mem' = IF mem.wire = 0 THEN [mem EXCEPT !.wire = 8, !.next = @ + 1] ELSE mem
        /\ mem.next < MaxSends /\ code' = <<Op("receive"), Op("send")>>
    BY <2>1, <2>2 DEF PulseTurn, Op
  <2> QED
    BY <1>0, <2>3 DEF PulseInv, MaxSends
<1>2. CASE code = <<Op("receive"), Op("send")>> /\ mem.wire > 0
  <2>1. code # <<>> /\ Head(code) = Op("receive") /\ Append(Tail(code), Op("receive")) = PulseCode
    BY <1>2, Turned DEF PulseCode
  <2>2. PulseTurn(Op("receive"))
    BY <2>1 DEF Instruction, LatchWrite, SendFrame, PacketResult, Op
  <2>3. /\ mem' = [mem EXCEPT !.wire = @ - 1, !.edges = @ + 1,
                     !.last = IF mem.wire = 1 /\ hardware = "wired" THEN mem.next - 1 ELSE @]
        /\ mem.next < MaxSends /\ code' = PulseCode
    BY <2>1, <2>2 DEF PulseTurn, Op
  <2>4. mem.next >= 1
    BY <1>2 DEF PulseInv, MaxSends
  <2> QED
    BY <1>0, <1>2, <2>3, <2>4 DEF PulseInv, MaxSends
<1> QED
  BY <1>1, <1>2 DEF PulseInv

\* The accesses of the latch probe, by what is left of them.
LEMMA LatchProgram ==
  /\ Left(LatchCode, 1) = LatchCode /\ Left(LatchCode, 15) = <<>>
  /\ \A k \in 1..14 : /\ Left(LatchCode, k) # <<>>
                      /\ Head(Left(LatchCode, k)) = LatchCode[k]
                      /\ Tail(Left(LatchCode, k)) = Left(LatchCode, k + 1)
<1>. DEFINE ops == {LatchCode[k] : k \in 1..14}
<1>1. LatchCode \in Seq(ops) /\ Len(LatchCode) = 14
  BY DEF LatchCode
<1>. HIDE DEF ops
<1>2. Left(LatchCode, 1) = LatchCode /\ Left(LatchCode, Len(LatchCode) + 1) = <<>>
  BY <1>1, LeftEnds
<1>3. Left(LatchCode, 15) = <<>>
  BY <1>1, <1>2
<1>4. ASSUME NEW k \in 1..14
      PROVE  /\ Left(LatchCode, k) # <<>>
             /\ Head(Left(LatchCode, k)) = LatchCode[k]
             /\ Tail(Left(LatchCode, k)) = Left(LatchCode, k + 1)
  BY <1>1, LeftStep
<1> QED
  BY <1>1, <1>2, <1>3, <1>4

\* ICR1 is written before anything is read, and only v0 is judged.
LEMMA LatchAccesses ==
  /\ LatchCode[1] = Set("magic", 1) /\ LatchCode[2] = High("ICR1", "A5")
  /\ LatchCode[3] = Low("ICR1", "C3") /\ LatchCode[4] = Copy("v0", "ICR1")
  /\ \A k \in 5..13 : \/ LatchCode[k].do \in {"high", "low"}
                      \/ /\ LatchCode[k].do = "copy" /\ LatchCode[k].reg \in {"ICR1", "TCNT1"}
                         /\ LatchCode[k].cell \in {"v1", "v2", "v3"}
  /\ LatchCode[14] = Set("ready", 1)
<1>1. /\ LatchCode[1] = Set("magic", 1) /\ LatchCode[2] = High("ICR1", "A5")
      /\ LatchCode[3] = Low("ICR1", "C3") /\ LatchCode[4] = Copy("v0", "ICR1")
      /\ LatchCode[5] = Low("ICR1", "34") /\ LatchCode[6] = High("ICR1", "12")
      /\ LatchCode[7] = Copy("v1", "ICR1")
      /\ LatchCode[8] = High("TCNT1", "A5") /\ LatchCode[9] = Low("TCNT1", "C3")
      /\ LatchCode[10] = Copy("v2", "TCNT1")
      /\ LatchCode[11] = Low("TCNT1", "34") /\ LatchCode[12] = High("TCNT1", "12")
      /\ LatchCode[13] = Copy("v3", "TCNT1") /\ LatchCode[14] = Set("ready", 1)
  BY DEF LatchCode
<1>2. \A k \in 5..13 : k \in {5, 6, 7, 8, 9, 10, 11, 12, 13}
  OBVIOUS
<1> QED
  BY <1>1, <1>2 DEF High, Low, Copy

\* An access of the latch probe does what its kind says.
LEMMA LatchInstruction ==
  ASSUME command = "latch", Instruction, code # <<>>, NEW op, op = Head(code)
  PROVE  /\ op.do = "set" => mem' = [mem EXCEPT ![op.cell] = op.value] /\ code' = Tail(code)
                             /\ UNCHANGED latch
         /\ op.do \in {"high", "low"} => LatchWrite(op)
         /\ op.do = "copy" => LatchRead(op)
BY DEF Instruction, LatchWrite, LatchRead, SendFrame, PacketResult, PulseTurn

\* v0 is the word unless the latch works the other way round.
LEMMA LatchStep ==
  ASSUME command = "latch", hardware \in Machines("latch"), LatchInv, Instruction,
         UNCHANGED probe
  PROVE  LatchInv'
<1>0. hardware \in {"silicon", "simavr", "reversed"} /\ hardware' = hardware
  BY DEF Machines, probe
<1>1. PICK k \in 1..15 : LatchAt(k)
  BY DEF LatchInv
<1>2. CASE k = 15
  <2>1. code = <<>>
    BY <1>1, <1>2, LatchProgram DEF LatchAt
  <2>2. mem' = mem /\ code' = code
    BY <2>1 DEF Instruction, board
  <2>3. LatchAt(15)'
    BY <1>0, <1>1, <1>2, <2>2 DEF LatchAt
  <2> QED
    BY <2>3 DEF LatchInv
<1>3. CASE k \in 1..14
  <2>1. code # <<>> /\ Head(code) = LatchCode[k] /\ Tail(code) = Left(LatchCode, k + 1)
    BY <1>1, <1>3, LatchProgram DEF LatchAt
  <2> SUFFICES LatchAt(k + 1)'
    BY <1>3 DEF LatchInv
  <2>2. CASE k = 1
    <3>0. Head(code) = [do |-> "set", cell |-> "magic", value |-> 1]
      BY <2>1, <2>2, LatchAccesses DEF Set
    <3>1. mem' = [mem EXCEPT !["magic"] = 1] /\ code' = Left(LatchCode, 2) /\ latch' = latch
      BY <2>1, <2>2, <3>0, LatchInstruction
    <3> QED
      BY <1>0, <1>1, <2>2, <3>1 DEF LatchAt
  <2>3. CASE k = 2
    <3>1. LatchWrite(High("ICR1", "A5"))
      BY <2>1, <2>3, LatchAccesses, LatchInstruction DEF High
    <3>2. mem' = mem /\ code' = Left(LatchCode, 3)
          /\ latch' = CASE hardware = "silicon" -> [latch EXCEPT !.temp = "A5"]
                        [] hardware = "simavr" -> [latch EXCEPT !["ICR1"][1] = "A5"]
                        [] OTHER -> [latch EXCEPT !["ICR1"] = <<"A5", latch.temp>>]
      BY <2>1, <2>3, <3>1 DEF LatchWrite, High
    <3>3. latch = [ICR1 |-> <<"00", "00">>, TCNT1 |-> <<"00", "00">>, temp |-> "00"]
      BY <1>1, <2>3 DEF LatchAt
    <3>4. [<<"00", "00">> EXCEPT ![1] = "A5"] = <<"A5", "00">>
      OBVIOUS
    <3>5. DOMAIN latch' = {"ICR1", "TCNT1", "temp"}
          /\ IF hardware = "silicon" THEN latch'.temp = "A5" ELSE latch'.ICR1 = <<"A5", "00">>
      BY <1>0, <3>2, <3>3, <3>4
    <3> QED
      BY <1>0, <1>1, <2>3, <3>2, <3>5 DEF LatchAt
  <2>4. CASE k = 3
    <3>1. LatchWrite(Low("ICR1", "C3"))
      BY <2>1, <2>4, LatchAccesses, LatchInstruction DEF Low
    <3>2. mem' = mem /\ code' = Left(LatchCode, 4)
          /\ latch' = CASE hardware = "silicon" -> [latch EXCEPT !["ICR1"] = <<latch.temp, "C3">>]
                        [] hardware = "simavr" -> [latch EXCEPT !["ICR1"][2] = "C3"]
                        [] OTHER -> [latch EXCEPT !.temp = "C3"]
      BY <2>1, <2>4, <3>1 DEF LatchWrite, Low
    <3>3. DOMAIN latch = {"ICR1", "TCNT1", "temp"}
          /\ IF hardware = "silicon" THEN latch.temp = "A5" ELSE latch.ICR1 = <<"A5", "00">>
      BY <1>1, <2>4 DEF LatchAt
    <3>4. [<<"A5", "00">> EXCEPT ![2] = "C3"] = <<"A5", "C3">>
      OBVIOUS
    <3>5. DOMAIN latch' = {"ICR1", "TCNT1", "temp"}
          /\ latch'.ICR1 = IF hardware = "reversed" THEN <<"A5", "00">> ELSE <<"A5", "C3">>
      BY <1>0, <3>2, <3>3, <3>4
    <3> QED
      BY <1>0, <1>1, <2>4, <3>2, <3>5 DEF LatchAt, Word
  <2>5. CASE k = 4
    <3>1. LatchRead(Copy("v0", "ICR1"))
      BY <2>1, <2>5, LatchAccesses, LatchInstruction DEF Copy
    <3>2. mem' = [mem EXCEPT !["v0"] = latch.ICR1] /\ code' = Left(LatchCode, 5)
      BY <2>1, <2>5, <3>1 DEF LatchRead, Copy
    <3>3. latch.ICR1 = (IF hardware = "reversed" THEN <<"A5", "00">> ELSE Word)
          /\ <<"A5", "00">> # Word
      BY <1>1, <2>5 DEF LatchAt, Word
    <3>4. mem'.v0 = Word <=> hardware # "reversed"
      BY <1>1, <3>2, <3>3 DEF LatchAt
    <3> QED
      BY <1>0, <1>1, <2>5, <3>2, <3>4 DEF LatchAt
  <2>6. CASE k \in 5..13
    <3>1. CASE LatchCode[k].do \in {"high", "low"}
      <4>1. mem' = mem /\ code' = Left(LatchCode, k + 1)
        BY <2>1, <3>1, LatchInstruction DEF LatchWrite
      <4> QED
        BY <1>0, <1>1, <2>6, <4>1 DEF LatchAt
    <3>2. CASE /\ LatchCode[k].do = "copy" /\ LatchCode[k].reg \in {"ICR1", "TCNT1"}
               /\ LatchCode[k].cell \in {"v1", "v2", "v3"}
      <4>0. LatchRead(LatchCode[k])
        BY <2>1, <3>2, LatchInstruction
      <4>1. PICK v : mem' = [mem EXCEPT ![LatchCode[k].cell] = v]
        BY <4>0 DEF LatchRead
      <4>2. code' = Left(LatchCode, k + 1)
        BY <2>1, <4>0 DEF LatchRead
      <4>3. DOMAIN mem' = DOMAIN mem /\ mem'.v0 = mem.v0 /\ mem'.ready = mem.ready
        BY <1>1, <3>2, <4>1 DEF LatchAt
      <4> QED
        BY <1>0, <1>1, <2>6, <4>2, <4>3 DEF LatchAt
    <3> QED
      BY <2>6, <3>1, <3>2, LatchAccesses
  <2>7. CASE k = 14
    <3>0. Head(code) = [do |-> "set", cell |-> "ready", value |-> 1]
      BY <2>1, <2>7, LatchAccesses DEF Set
    <3>1. mem' = [mem EXCEPT !["ready"] = 1] /\ code' = Left(LatchCode, 15)
      BY <2>1, <2>7, <3>0, LatchInstruction
    <3> QED
      BY <1>0, <1>1, <2>7, <3>1 DEF LatchAt
  <2> QED
    BY <1>3, <2>2, <2>3, <2>4, <2>5, <2>6, <2>7
<1> QED
  BY <1>2, <1>3

\* Nine ticks at most come between two accesses.
LEMMA Ticking ==
  ASSUME DOMAIN timer = {"tcnt", "ocr", "buffer", "tov", "ocf", "clock"},
         timer.tcnt \in 0..Top, timer.ocr \in Nat, timer.buffer \in Nat,
         timer.tov \in {0, 1}, timer.ocf \in {0, 1},
         NEW t \in Ticked
  PROVE  t = timer \/ Clocked(timer, t)
<1>0. CASE ~timer.clock
  BY <1>0 DEF Ticked
<1>. SUFFICES ASSUME timer.clock PROVE Clocked(timer, t)
  BY <1>0
<1>1. PICK n \in 1..MaxTicks : t = Advance(timer, n)
  BY DEF Ticked
<1>2. n \in 1..9
  BY TicksAssumption
<1>. DEFINE ahead == timer.tcnt + n
            now == ahead % (Top + 1)
<1>3. /\ ahead <= Top => now = ahead
      /\ ahead > Top => now = ahead - 201 /\ now \in 0..8
      /\ now \in 0..Top
  BY <1>2 DEF Top
<1>4. /\ DOMAIN t = DOMAIN timer /\ t.buffer = timer.buffer /\ t.clock = timer.clock
      /\ t.tcnt = now
      /\ t.tov = IF ahead > Top THEN 1 ELSE timer.tov
      /\ t.ocr = IF ahead > Top THEN timer.buffer ELSE timer.ocr
      /\ t.ocf = IF (timer.tcnt < timer.ocr /\ timer.ocr <= ahead)
                      \/ (ahead > Top /\ timer.buffer <= now) THEN 1 ELSE timer.ocf
  BY <1>1 DEF Advance
<1>. HIDE DEF now
<1>5. CASE ahead <= Top
  BY <1>2, <1>3, <1>4, <1>5 DEF Clocked
<1>6. CASE ahead > Top
  BY <1>2, <1>3, <1>4, <1>6 DEF Clocked, Top
<1> QED
  BY <1>2, <1>5, <1>6 DEF Top

\* An access of ocr.cpp does what its kind says, after some ticks.
LEMMA OcrInstruction ==
  ASSUME command = "ocr", Instruction, code # <<>>,
         Head(code).do \in {"ocr", "clock", "clear", "await", "copy", "set", "flags", "window"}
  PROVE  \E t \in Ticked : OcrEffect(Head(code), t)
<1>. DEFINE op == Head(code)
<1>1. TimerStep(op) \/ AwaitWindow(op) \/ LatchWrite(op) \/ SendFrame(op) \/ PacketResult(op) \/ PulseTurn(op)
  BY DEF Instruction
<1>2. TimerStep(op) \/ AwaitWindow(op)
  BY <1>1 DEF LatchWrite, SendFrame, PacketResult, PulseTurn
<1>. HIDE DEF op
<1>3. CASE TimerStep(op)
  <2>1. PICK t \in Ticked :
          \/ /\ op.do = "ocr"
             /\ timer' = [t EXCEPT !.buffer = op.value,
                                   !.ocr = IF hardware = "immediate" THEN op.value ELSE @]
             /\ mem' = mem /\ code' = Tail(code)
          \/ op.do = "clock" /\ timer' = [t EXCEPT !.clock = TRUE] /\ mem' = mem /\ code' = Tail(code)
          \/ op.do = "clear" /\ timer' = [t EXCEPT ![op.flag] = 0] /\ mem' = mem /\ code' = Tail(code)
          \/ /\ op.do = "await" /\ timer' = t /\ mem' = mem
             /\ code' = IF t[op.flag] = 1 THEN Tail(code) ELSE code
          \/ /\ op.do = "copy" /\ timer' = t /\ mem' = [mem EXCEPT ![op.cell] = t[op.reg]]
             /\ code' = Tail(code)
          \/ /\ op.do = "set" /\ timer' = t /\ mem' = [mem EXCEPT ![op.cell] = op.value]
             /\ code' = Tail(code)
          \/ /\ op.do = "flags" /\ timer' = t /\ mem' = [mem EXCEPT !.flags = 1 - mem.v3]
             /\ code' = Tail(code)
    BY <1>3 DEF TimerStep
  <2>2. OcrEffect(op, t)
    BY <2>1 DEF OcrEffect
  <2> QED
    BY <2>2 DEF op
<1>4. CASE AwaitWindow(op)
  <2>1. PICK t \in Ticked :
          /\ op.do = "window" /\ timer' = t
          /\ IF InWindow(t.tcnt) THEN mem' = [mem EXCEPT !.v0 = t.tcnt] /\ code' = Tail(code)
             ELSE mem' = mem /\ code' = code
    BY <1>4 DEF AwaitWindow
  <2>2. OcrEffect(op, t)
    BY <2>1 DEF OcrEffect
  <2> QED
    BY <2>2 DEF op
<1> QED
  BY <1>2, <1>3, <1>4 DEF op

\* The accesses of ocr.cpp, by what is left of them.
LEMMA OcrProgram ==
  /\ Left(OcrCode, 1) = OcrCode /\ Left(OcrCode, 19) = <<>>
  /\ \A k \in 1..18 : /\ Left(OcrCode, k) # <<>>
                      /\ Head(Left(OcrCode, k)) = OcrCode[k]
                      /\ Tail(Left(OcrCode, k)) = Left(OcrCode, k + 1)
<1>. DEFINE ops == {OcrCode[k] : k \in 1..18}
<1>1. OcrCode \in Seq(ops) /\ Len(OcrCode) = 18
  BY DEF OcrCode
<1>. HIDE DEF ops
<1>2. Left(OcrCode, 1) = OcrCode /\ Left(OcrCode, Len(OcrCode) + 1) = <<>>
  BY <1>1, LeftEnds
<1>3. Left(OcrCode, 19) = <<>>
  BY <1>1, <1>2
<1>4. ASSUME NEW k \in 1..18
      PROVE  /\ Left(OcrCode, k) # <<>>
             /\ Head(Left(OcrCode, k)) = OcrCode[k]
             /\ Tail(Left(OcrCode, k)) = Left(OcrCode, k + 1)
  BY <1>1, LeftStep
<1> QED
  BY <1>1, <1>2, <1>3, <1>4

\* The accesses of ocr.cpp.
LEMMA OcrAccesses ==
  /\ OcrCode[1] = Set("magic", 1)
  /\ OcrCode[2] = Set("ready", 0)
  /\ OcrCode[3] = Ocr(40)
  /\ OcrCode[4] = Op("clock")
  /\ OcrCode[5] = Clear("tov")
  /\ OcrCode[6] = Await("tov")
  /\ OcrCode[7] = Clear("tov")
  /\ OcrCode[8] = Clear("ocf")
  /\ OcrCode[9] = Op("window")
  /\ OcrCode[10] = Clear("ocf")
  /\ OcrCode[11] = Ocr(120)
  /\ OcrCode[12] = Copy("v1", "tcnt")
  /\ OcrCode[13] = Copy("v2", "buffer")
  /\ OcrCode[14] = Clear("tov")
  /\ OcrCode[15] = Await("tov")
  /\ OcrCode[16] = Copy("v3", "ocf")
  /\ OcrCode[17] = Op("flags")
  /\ OcrCode[18] = Set("ready", 1)
BY DEF OcrCode

\* OCR1A is written between the two matches, and the flag is looked at after
\* BOTTOM and before the new one: it is set by then exactly if the new value
\* came into force at once.
LEMMA OcrStep ==
  ASSUME command = "ocr", hardware \in Machines("ocr"), OcrInv, Instruction,
         UNCHANGED probe
  PROVE  OcrInv'
<1>0. hardware \in {"buffered", "immediate"} /\ hardware' = hardware
  BY DEF Machines, probe
<1>1. PICK k \in 1..19 : OcrAt(k)
  BY DEF OcrInv
<1>2. CASE k = 19
  <2>1. code = <<>>
    BY <1>1, <1>2, OcrProgram DEF OcrAt
  <2>2. mem' = mem /\ code' = code /\ timer' = timer
    BY <2>1 DEF Instruction, board
  <2>3. OcrAt(19)'
    BY <1>0, <1>1, <1>2, <2>2 DEF OcrAt
  <2> QED
    BY <2>3 DEF OcrInv
<1>3. CASE k \in 1..18
  <2>0. /\ DOMAIN timer = {"tcnt", "ocr", "buffer", "tov", "ocf", "clock"}
        /\ timer.tcnt \in 0..Top /\ timer.ocr \in Nat /\ timer.buffer \in Nat
        /\ timer.tov \in {0, 1} /\ timer.ocf \in {0, 1}
    BY <1>1 DEF OcrAt
  <2>1. code # <<>> /\ Head(code) = OcrCode[k] /\ Tail(code) = Left(OcrCode, k + 1)
    BY <1>1, <1>3, OcrProgram DEF OcrAt
  <2>2. CASE k = 1
    <3>1. Head(code) = Set("magic", 1) /\ Tail(code) = Left(OcrCode, 2)
      BY <2>1, <2>2, OcrAccesses
    <3>2. PICK t \in Ticked : OcrEffect(Set("magic", 1), t)
      BY <2>1, <3>1, OcrInstruction DEF Set
    <3>3. timer' = t /\ mem' = [mem EXCEPT !["magic"] = 1] /\ code' = Left(OcrCode, 2)
      BY <1>1, <2>2, <3>1, <3>2 DEF OcrEffect, Set, OcrAt
    <3>4. t = timer
      BY <1>1, <2>2, <3>2 DEF OcrAt, Ticked
    <3>5. OcrAt(2)'
      BY <1>0, <1>1, <2>0, <2>2, <3>3, <3>4 DEF OcrAt
    <3> QED
      BY <3>5 DEF OcrInv
  <2>3. CASE k = 2
    <3>1. Head(code) = Set("ready", 0) /\ Tail(code) = Left(OcrCode, 3)
      BY <2>1, <2>3, OcrAccesses
    <3>2. PICK t \in Ticked : OcrEffect(Set("ready", 0), t)
      BY <2>1, <3>1, OcrInstruction DEF Set
    <3>3. timer' = t /\ mem' = [mem EXCEPT !["ready"] = 0] /\ code' = Left(OcrCode, 3)
      BY <1>1, <2>3, <3>1, <3>2 DEF OcrEffect, Set, OcrAt
    <3>4. t = timer
      BY <1>1, <2>3, <3>2 DEF OcrAt, Ticked
    <3>5. OcrAt(3)'
      BY <1>0, <1>1, <2>0, <2>3, <3>3, <3>4 DEF OcrAt
    <3> QED
      BY <3>5 DEF OcrInv
  <2>4. CASE k = 3
    <3>1. Head(code) = Ocr(40) /\ Tail(code) = Left(OcrCode, 4)
      BY <2>1, <2>4, OcrAccesses
    <3>2. PICK t \in Ticked : OcrEffect(Ocr(40), t)
      BY <2>1, <3>1, OcrInstruction DEF Ocr
    <3>3. mem' = mem /\ code' = Left(OcrCode, 4)
          /\ timer' = [t EXCEPT !.buffer = 40,
                                !.ocr = IF hardware = "immediate" THEN 40 ELSE @]
      BY <1>1, <2>4, <3>1, <3>2 DEF OcrEffect, Ocr, OcrAt
    <3>4. t = timer
      BY <1>1, <2>4, <3>2 DEF OcrAt, Ticked
    <3>5. OcrAt(4)'
      BY <1>0, <1>1, <2>0, <2>4, <3>3, <3>4 DEF OcrAt
    <3> QED
      BY <3>5 DEF OcrInv
  <2>5. CASE k = 4
    <3>1. Head(code) = Op("clock") /\ Tail(code) = Left(OcrCode, 5)
      BY <2>1, <2>5, OcrAccesses
    <3>2. PICK t \in Ticked : OcrEffect(Op("clock"), t)
      BY <2>1, <3>1, OcrInstruction DEF Op
    <3>3. timer' = [t EXCEPT !.clock = TRUE] /\ mem' = mem /\ code' = Left(OcrCode, 5)
      BY <1>1, <2>5, <3>1, <3>2 DEF OcrEffect, Op, OcrAt
    <3>4. t = timer
      BY <1>1, <2>5, <3>2 DEF OcrAt, Ticked
    <3>5. OcrAt(5)'
      BY <1>0, <1>1, <2>0, <2>5, <3>3, <3>4 DEF OcrAt
    <3> QED
      BY <3>5 DEF OcrInv
  <2>6. CASE k = 5
    <3>1. Head(code) = Clear("tov") /\ Tail(code) = Left(OcrCode, 6)
      BY <2>1, <2>6, OcrAccesses
    <3>2. PICK t \in Ticked : OcrEffect(Clear("tov"), t)
      BY <2>1, <3>1, OcrInstruction DEF Clear
    <3>3. timer' = [t EXCEPT !["tov"] = 0] /\ mem' = mem /\ code' = Left(OcrCode, 6)
      BY <1>1, <2>6, <3>1, <3>2 DEF OcrEffect, Clear, OcrAt
    <3>4. t = timer \/ Clocked(timer, t)
      BY <2>0, <3>2, Ticking
    <3>5. OcrAt(6)'
      BY <1>0, <1>1, <2>0, <2>6, <3>3, <3>4 DEF OcrAt, Clocked, Top
    <3> QED
      BY <3>5 DEF OcrInv
  <2>7. CASE k = 6
    <3>1. Head(code) = Await("tov") /\ Tail(code) = Left(OcrCode, 7)
      BY <2>1, <2>7, OcrAccesses
    <3>2. PICK t \in Ticked : OcrEffect(Await("tov"), t)
      BY <2>1, <3>1, OcrInstruction DEF Await
    <3>3. timer' = t /\ mem' = mem
          /\ code' = IF t.tov = 1 THEN Left(OcrCode, 7) ELSE code
      BY <1>1, <2>7, <3>1, <3>2 DEF OcrEffect, Await, OcrAt
    <3>4. t = timer \/ Clocked(timer, t)
      BY <2>0, <3>2, Ticking
    <3>5. CASE t.tov = 1
      <4>1. OcrAt(7)'
        BY <1>0, <1>1, <2>0, <2>7, <3>3, <3>4, <3>5 DEF OcrAt, Clocked, Top
      <4> QED
        BY <4>1 DEF OcrInv
    <3>6. CASE ~(t.tov = 1)
      <4>1. OcrAt(6)'
        BY <1>0, <1>1, <2>0, <2>7, <3>3, <3>4, <3>6 DEF OcrAt, Clocked, Top
      <4> QED
        BY <4>1 DEF OcrInv
    <3> QED
      BY <3>5, <3>6
  <2>8. CASE k = 7
    <3>1. Head(code) = Clear("tov") /\ Tail(code) = Left(OcrCode, 8)
      BY <2>1, <2>8, OcrAccesses
    <3>2. PICK t \in Ticked : OcrEffect(Clear("tov"), t)
      BY <2>1, <3>1, OcrInstruction DEF Clear
    <3>3. timer' = [t EXCEPT !["tov"] = 0] /\ mem' = mem /\ code' = Left(OcrCode, 8)
      BY <1>1, <2>8, <3>1, <3>2 DEF OcrEffect, Clear, OcrAt
    <3>4. t = timer \/ Clocked(timer, t)
      BY <2>0, <3>2, Ticking
    <3>5. OcrAt(8)'
      BY <1>0, <1>1, <2>0, <2>8, <3>3, <3>4 DEF OcrAt, Clocked, Top
    <3> QED
      BY <3>5 DEF OcrInv
  <2>9. CASE k = 8
    <3>1. Head(code) = Clear("ocf") /\ Tail(code) = Left(OcrCode, 9)
      BY <2>1, <2>9, OcrAccesses
    <3>2. PICK t \in Ticked : OcrEffect(Clear("ocf"), t)
      BY <2>1, <3>1, OcrInstruction DEF Clear
    <3>3. timer' = [t EXCEPT !["ocf"] = 0] /\ mem' = mem /\ code' = Left(OcrCode, 9)
      BY <1>1, <2>9, <3>1, <3>2 DEF OcrEffect, Clear, OcrAt
    <3>4. t = timer \/ Clocked(timer, t)
      BY <2>0, <3>2, Ticking
    <3>5. OcrAt(9)'
      BY <1>0, <1>1, <2>0, <2>9, <3>3, <3>4 DEF OcrAt, Clocked, Top
    <3> QED
      BY <3>5 DEF OcrInv
  <2>10. CASE k = 9
    <3>1. Head(code) = Op("window") /\ Tail(code) = Left(OcrCode, 10)
      BY <2>1, <2>10, OcrAccesses
    <3>2. PICK t \in Ticked : OcrEffect(Op("window"), t)
      BY <2>1, <3>1, OcrInstruction DEF Op
    <3>3. timer' = t
          /\ IF InWindow(t.tcnt) THEN mem' = [mem EXCEPT !.v0 = t.tcnt] /\ code' = Left(OcrCode, 10)
             ELSE mem' = mem /\ code' = code
      BY <1>1, <2>10, <3>1, <3>2 DEF OcrEffect, Op, OcrAt
    <3>4. t = timer \/ Clocked(timer, t)
      BY <2>0, <3>2, Ticking
    <3>5. CASE InWindow(t.tcnt)
      <4>1. OcrAt(10)'
        BY <1>0, <1>1, <2>0, <2>10, <3>3, <3>4, <3>5 DEF OcrAt, Clocked, Top, InWindow
      <4> QED
        BY <4>1 DEF OcrInv
    <3>6. CASE ~(InWindow(t.tcnt))
      <4>1. OcrAt(9)'
        BY <1>0, <1>1, <2>0, <2>10, <3>3, <3>4, <3>6 DEF OcrAt, Clocked, Top, InWindow
      <4> QED
        BY <4>1 DEF OcrInv
    <3> QED
      BY <3>5, <3>6
  <2>11. CASE k = 10
    <3>1. Head(code) = Clear("ocf") /\ Tail(code) = Left(OcrCode, 11)
      BY <2>1, <2>11, OcrAccesses
    <3>2. PICK t \in Ticked : OcrEffect(Clear("ocf"), t)
      BY <2>1, <3>1, OcrInstruction DEF Clear
    <3>3. timer' = [t EXCEPT !["ocf"] = 0] /\ mem' = mem /\ code' = Left(OcrCode, 11)
      BY <1>1, <2>11, <3>1, <3>2 DEF OcrEffect, Clear, OcrAt
    <3>4. t = timer \/ Clocked(timer, t)
      BY <2>0, <3>2, Ticking
    <3>5. OcrAt(11)'
      BY <1>0, <1>1, <2>0, <2>11, <3>3, <3>4 DEF OcrAt, Clocked, Top
    <3> QED
      BY <3>5 DEF OcrInv
  <2>12. CASE k = 11
    <3>1. Head(code) = Ocr(120) /\ Tail(code) = Left(OcrCode, 12)
      BY <2>1, <2>12, OcrAccesses
    <3>2. PICK t \in Ticked : OcrEffect(Ocr(120), t)
      BY <2>1, <3>1, OcrInstruction DEF Ocr
    <3>3. mem' = mem /\ code' = Left(OcrCode, 12)
          /\ timer' = [t EXCEPT !.buffer = 120,
                                !.ocr = IF hardware = "immediate" THEN 120 ELSE @]
      BY <1>1, <2>12, <3>1, <3>2 DEF OcrEffect, Ocr, OcrAt
    <3>4. t = timer \/ Clocked(timer, t)
      BY <2>0, <3>2, Ticking
    <3>5. OcrAt(12)'
      BY <1>0, <1>1, <2>0, <2>12, <3>3, <3>4 DEF OcrAt, Clocked, Top
    <3> QED
      BY <3>5 DEF OcrInv
  <2>13. CASE k = 12
    <3>1. Head(code) = Copy("v1", "tcnt") /\ Tail(code) = Left(OcrCode, 13)
      BY <2>1, <2>13, OcrAccesses
    <3>2. PICK t \in Ticked : OcrEffect(Copy("v1", "tcnt"), t)
      BY <2>1, <3>1, OcrInstruction DEF Copy
    <3>3. timer' = t /\ mem' = [mem EXCEPT !["v1"] = t.tcnt] /\ code' = Left(OcrCode, 13)
      BY <1>1, <2>13, <3>1, <3>2 DEF OcrEffect, Copy, OcrAt
    <3>4. t = timer \/ Clocked(timer, t)
      BY <2>0, <3>2, Ticking
    <3>5. OcrAt(13)'
      BY <1>0, <1>1, <2>0, <2>13, <3>3, <3>4 DEF OcrAt, Clocked, Top
    <3> QED
      BY <3>5 DEF OcrInv
  <2>14. CASE k = 13
    <3>1. Head(code) = Copy("v2", "buffer") /\ Tail(code) = Left(OcrCode, 14)
      BY <2>1, <2>14, OcrAccesses
    <3>2. PICK t \in Ticked : OcrEffect(Copy("v2", "buffer"), t)
      BY <2>1, <3>1, OcrInstruction DEF Copy
    <3>3. timer' = t /\ mem' = [mem EXCEPT !["v2"] = t.buffer] /\ code' = Left(OcrCode, 14)
      BY <1>1, <2>14, <3>1, <3>2 DEF OcrEffect, Copy, OcrAt
    <3>4. t = timer \/ Clocked(timer, t)
      BY <2>0, <3>2, Ticking
    <3>5. OcrAt(14)'
      BY <1>0, <1>1, <2>0, <2>14, <3>3, <3>4 DEF OcrAt, Clocked, Top
    <3> QED
      BY <3>5 DEF OcrInv
  <2>15. CASE k = 14
    <3>1. Head(code) = Clear("tov") /\ Tail(code) = Left(OcrCode, 15)
      BY <2>1, <2>15, OcrAccesses
    <3>2. PICK t \in Ticked : OcrEffect(Clear("tov"), t)
      BY <2>1, <3>1, OcrInstruction DEF Clear
    <3>3. timer' = [t EXCEPT !["tov"] = 0] /\ mem' = mem /\ code' = Left(OcrCode, 15)
      BY <1>1, <2>15, <3>1, <3>2 DEF OcrEffect, Clear, OcrAt
    <3>4. t = timer \/ Clocked(timer, t)
      BY <2>0, <3>2, Ticking
    <3>5. OcrAt(15)'
      BY <1>0, <1>1, <2>0, <2>15, <3>3, <3>4 DEF OcrAt, Clocked, Top
    <3> QED
      BY <3>5 DEF OcrInv
  <2>16. CASE k = 15
    <3>1. Head(code) = Await("tov") /\ Tail(code) = Left(OcrCode, 16)
      BY <2>1, <2>16, OcrAccesses
    <3>2. PICK t \in Ticked : OcrEffect(Await("tov"), t)
      BY <2>1, <3>1, OcrInstruction DEF Await
    <3>3. timer' = t /\ mem' = mem
          /\ code' = IF t.tov = 1 THEN Left(OcrCode, 16) ELSE code
      BY <1>1, <2>16, <3>1, <3>2 DEF OcrEffect, Await, OcrAt
    <3>4. t = timer \/ Clocked(timer, t)
      BY <2>0, <3>2, Ticking
    <3>5. CASE t.tov = 1
      <4>1. OcrAt(16)'
        BY <1>0, <1>1, <2>0, <2>16, <3>3, <3>4, <3>5 DEF OcrAt, Clocked, Top
      <4> QED
        BY <4>1 DEF OcrInv
    <3>6. CASE ~(t.tov = 1)
      <4>1. OcrAt(15)'
        BY <1>0, <1>1, <2>0, <2>16, <3>3, <3>4, <3>6 DEF OcrAt, Clocked, Top
      <4> QED
        BY <4>1 DEF OcrInv
    <3> QED
      BY <3>5, <3>6
  <2>17. CASE k = 16
    <3>1. Head(code) = Copy("v3", "ocf") /\ Tail(code) = Left(OcrCode, 17)
      BY <2>1, <2>17, OcrAccesses
    <3>2. PICK t \in Ticked : OcrEffect(Copy("v3", "ocf"), t)
      BY <2>1, <3>1, OcrInstruction DEF Copy
    <3>3. timer' = t /\ mem' = [mem EXCEPT !["v3"] = t.ocf] /\ code' = Left(OcrCode, 17)
      BY <1>1, <2>17, <3>1, <3>2 DEF OcrEffect, Copy, OcrAt
    <3>4. t = timer \/ Clocked(timer, t)
      BY <2>0, <3>2, Ticking
    <3>5. OcrAt(17)'
      BY <1>0, <1>1, <2>0, <2>17, <3>3, <3>4 DEF OcrAt, Clocked, Top
    <3> QED
      BY <3>5 DEF OcrInv
  <2>18. CASE k = 17
    <3>1. Head(code) = Op("flags") /\ Tail(code) = Left(OcrCode, 18)
      BY <2>1, <2>18, OcrAccesses
    <3>2. PICK t \in Ticked : OcrEffect(Op("flags"), t)
      BY <2>1, <3>1, OcrInstruction DEF Op
    <3>3. timer' = t /\ mem' = [mem EXCEPT !.flags = 1 - mem.v3] /\ code' = Left(OcrCode, 18)
      BY <1>1, <2>18, <3>1, <3>2 DEF OcrEffect, Op, OcrAt
    <3>4. t = timer \/ Clocked(timer, t)
      BY <2>0, <3>2, Ticking
    <3>5. OcrAt(18)'
      BY <1>0, <1>1, <2>0, <2>18, <3>3, <3>4 DEF OcrAt, Clocked, Top
    <3> QED
      BY <3>5 DEF OcrInv
  <2>19. CASE k = 18
    <3>1. Head(code) = Set("ready", 1) /\ Tail(code) = Left(OcrCode, 19)
      BY <2>1, <2>19, OcrAccesses
    <3>2. PICK t \in Ticked : OcrEffect(Set("ready", 1), t)
      BY <2>1, <3>1, OcrInstruction DEF Set
    <3>3. timer' = t /\ mem' = [mem EXCEPT !["ready"] = 1] /\ code' = Left(OcrCode, 19)
      BY <1>1, <2>19, <3>1, <3>2 DEF OcrEffect, Set, OcrAt
    <3>4. t = timer \/ Clocked(timer, t)
      BY <2>0, <3>2, Ticking
    <3>5. OcrAt(19)'
      BY <1>0, <1>1, <2>0, <2>19, <3>3, <3>4 DEF OcrAt, Clocked, Top
    <3> QED
      BY <3>5 DEF OcrInv
  <2> QED
    BY <1>3, <2>2, <2>3, <2>4, <2>5, <2>6, <2>7, <2>8, <2>9, <2>10, <2>11, <2>12, <2>13, <2>14, <2>15, <2>16, <2>17, <2>18, <2>19
<1> QED
  BY <1>2, <1>3

\* What holds of the firmware of a command at each access.
FirmwareInv ==
  /\ command = "smoke" => SmokeInv
  /\ command = "ocr" => OcrInv
  /\ command = "latch" => LatchInv
  /\ command = "packet" => PacketInv
  /\ command = "pulse-io" => PulseInv

\* The invariant of the host, inductive.
HostInv ==
  /\ hardware \in Machines(command)
  /\ FirmwareInv
  /\ PassIsEvidence /\ FailIsDeserved

\* The firmware starts with all of its code, on a machine just reset.
LEMMA FirmwareInit == HostInit => FirmwareInv
<1> SUFFICES ASSUME HostInit PROVE FirmwareInv
  OBVIOUS
<1>1. code = Code(command) /\ mem = Memory(command)
      /\ timer = [tcnt |-> 0, ocr |-> 0, buffer |-> 0, tov |-> 0, ocf |-> 0, clock |-> FALSE]
      /\ latch = [ICR1 |-> <<"00", "00">>, TCNT1 |-> <<"00", "00">>, temp |-> "00"]
  BY DEF HostInit
<1>2. CASE command = "smoke"
  BY <1>1, <1>2 DEF FirmwareInv, SmokeInv, Code, Memory
<1>3. CASE command = "ocr"
  <2>1. code = Left(OcrCode, 1)
    BY <1>1, <1>3, OcrProgram DEF Code
  <2>2. OcrAt(1)
    BY <1>1, <1>3, <2>1 DEF OcrAt, Memory, Top
  <2> QED
    BY <1>3, <2>2 DEF FirmwareInv, OcrInv
<1>4. CASE command = "latch"
  <2>1. code = Left(LatchCode, 1)
    BY <1>1, <1>4, LatchProgram DEF Code
  <2>2. LatchAt(1)
    BY <1>1, <1>4, <2>1 DEF LatchAt, Memory
  <2> QED
    BY <1>4, <2>2 DEF FirmwareInv, LatchInv
<1>5. CASE command = "packet"
  <2>1. code = Left(PacketCode, 1)
    BY <1>1, <1>5, PacketProgram DEF Code
  <2>2. PacketAt(1)
    BY <1>1, <1>5, <2>1 DEF PacketAt, Memory
  <2> QED
    BY <1>5, <2>2 DEF FirmwareInv, PacketInv
<1>6. CASE command = "pulse-io"
  BY <1>1, <1>6 DEF FirmwareInv, PulseInv, Code, Memory, MaxSends
<1> QED
  BY <1>2, <1>3, <1>4, <1>5, <1>6 DEF FirmwareInv

\* Every instruction of every firmware keeps its invariant.
LEMMA FirmwareStep ==
  ASSUME hardware \in Machines(command), FirmwareInv, Instruction, UNCHANGED probe
  PROVE  FirmwareInv'
<1>0. command' = command
  BY DEF probe
<1>1. CASE command = "smoke"
  BY <1>0, <1>1, SmokeStep DEF FirmwareInv
<1>2. CASE command = "ocr"
  BY <1>0, <1>2, OcrStep DEF FirmwareInv
<1>3. CASE command = "latch"
  BY <1>0, <1>3, LatchStep DEF FirmwareInv
<1>4. CASE command = "packet"
  BY <1>0, <1>4, PacketStep DEF FirmwareInv
<1>5. CASE command = "pulse-io"
  BY <1>0, <1>5, PulseStep DEF FirmwareInv
<1> QED
  BY <1>0, <1>1, <1>2, <1>3, <1>4, <1>5 DEF FirmwareInv

\* A command that answers has seen what its answer says.
LEMMA AnswersRightly ==
  ASSUME hardware \in Machines(command), FirmwareInv', UNCHANGED probe,
         Settled \/ command = "smoke", exit' = Answer
  PROVE  PassIsEvidence' /\ FailIsDeserved'
<1>0. /\ command' = command /\ hardware' = hardware
      /\ exit' = IF Accepted THEN "pass" ELSE "fail"
  BY DEF probe, Answer
<1>1. CASE command = "smoke"
  <2>1. mem'.portb \in {0, 1} /\ hardware = "any" /\ (Accepted <=> mem'.portb = 1)
    BY <1>0, <1>1 DEF FirmwareInv, SmokeInv, Machines, Accepted
  <2> QED
    BY <1>0, <1>1, <2>1 DEF PassIsEvidence, FailIsDeserved, Sound
<1>2. CASE command = "ocr"
  <2>1. PICK k \in 1..19 : OcrAt(k)'
    BY <1>0, <1>2 DEF FirmwareInv, OcrInv
  <2>2. mem'.ready = 1 /\ (Accepted <=> mem'.flags = 1 /\ mem'.v2 = 120)
    BY <1>2 DEF Settled, Accepted
  <2>3. k = 19
    BY <2>1, <2>2 DEF OcrAt
  <2>4. hardware \in {"buffered", "immediate"}
    BY <1>2 DEF Machines
  <2>5. /\ mem'.v0 \in 70..100
        /\ Accepted <=> hardware = "buffered"
    BY <1>0, <2>1, <2>2, <2>3, <2>4 DEF OcrAt
  <2> QED
    BY <1>0, <1>2, <2>4, <2>5 DEF PassIsEvidence, FailIsDeserved, Sound
<1>3. CASE command = "latch"
  <2>1. PICK k \in 1..15 : LatchAt(k)'
    BY <1>0, <1>3 DEF FirmwareInv, LatchInv
  <2>2. mem'.ready = 1 /\ (Accepted <=> mem'.v0 = Word)
    BY <1>3 DEF Settled, Accepted
  <2>3. k = 15
    BY <2>1, <2>2 DEF LatchAt
  <2>4. hardware \in {"silicon", "simavr", "reversed"}
    BY <1>3 DEF Machines
  <2>5. Accepted <=> hardware # "reversed"
    BY <1>0, <2>1, <2>2, <2>3 DEF LatchAt, Word
  <2> QED
    BY <1>0, <1>3, <2>4, <2>5 DEF PassIsEvidence, FailIsDeserved, Sound
<1>4. CASE command = "packet"
  <2>1. PICK k \in 1..4 : PacketAt(k)'
    BY <1>0, <1>4 DEF FirmwareInv, PacketInv
  <2>2. /\ mem'.result # 0
        /\ Accepted <=> mem'.result = 165 /\ mem'.frames = 2 /\ mem'.deliveries = 1
    BY <1>4 DEF Settled, Accepted
  <2>3. k = 4
    BY <2>1, <2>2 DEF PacketAt
  <2>4. hardware \in {"whole", "corrupt", "double", "deaf", "refused"}
    BY <1>4 DEF Machines
  <2>5. Accepted <=> hardware = "whole"
    BY <1>0, <2>1, <2>2, <2>3, <2>4 DEF PacketAt
  <2> QED
    BY <1>0, <1>4, <2>4, <2>5 DEF PassIsEvidence, FailIsDeserved, Sound
<1>5. CASE command = "pulse-io"
  <2>1. mem'.last = 1 /\ (Accepted <=> mem'.edges >= 16)
    BY <1>5 DEF Settled, Accepted
  <2>2. hardware = "wired" /\ mem'.edges >= 16
    BY <1>0, <1>5, <2>1 DEF FirmwareInv, PulseInv
  <2> QED
    BY <1>0, <1>5, <2>1, <2>2 DEF PassIsEvidence, FailIsDeserved, Sound
<1> QED
  BY <1>1, <1>2, <1>3, <1>4, <1>5 DEF Settled

\* The invariant of every command of the host, on every machine, for every pace
\* of Timer1 within the margin of ocr.cpp.
THEOREM HostInvariant == HostSpec => []HostInv
<1>1. HostInit => HostInv
  BY FirmwareInit DEF HostInit, HostInv, PassIsEvidence, FailIsDeserved
<1>2. HostInv /\ [HostNext]_hostvars => HostInv'
  <2> SUFFICES ASSUME HostInv, [HostNext]_hostvars PROVE HostInv'
    OBVIOUS
  <2>0. ASSUME UNCHANGED probe, UNCHANGED board
        PROVE  /\ (hardware \in Machines(command))' /\ FirmwareInv'
               /\ exit' \notin {"pass", "fail"} => PassIsEvidence' /\ FailIsDeserved'
               /\ exit' = exit => PassIsEvidence' /\ FailIsDeserved'
    <3>1. command' = command /\ hardware' = hardware /\ code' = code /\ mem' = mem
          /\ timer' = timer /\ latch' = latch
      BY <2>0 DEF probe, board
    <3> QED
      BY <3>1 DEF HostInv, FirmwareInv, SmokeInv, OcrInv, OcrAt, LatchInv, LatchAt,
                  PacketInv, PacketAt, PulseInv, PassIsEvidence, FailIsDeserved
  <2>1. CASE Start
    BY <2>0, <2>1 DEF Start, HostInv
  <2>2. CASE Look
    <3>1. UNCHANGED probe /\ Instruction /\ exit = "running"
          /\ exit' = IF Settled THEN Answer ELSE exit
      BY <2>2 DEF Look
    <3>2. FirmwareInv' /\ (hardware \in Machines(command))'
      BY <3>1, FirmwareStep DEF HostInv, probe
    <3>3. CASE Settled
      BY <3>1, <3>2, <3>3, AnswersRightly DEF HostInv
    <3>4. CASE ~Settled
      BY <3>1, <3>2, <3>4 DEF HostInv, PassIsEvidence, FailIsDeserved
    <3> QED
      BY <3>3, <3>4
  <2>3. CASE Stop
    <3>1. UNCHANGED probe /\ UNCHANGED board
          /\ (exit' \in {"crashed", "timeout"} \/ (command = "smoke" /\ exit' = Answer))
      BY <2>3 DEF Stop
    <3>2. FirmwareInv' /\ (hardware \in Machines(command))'
      BY <2>0, <3>1
    <3>3. CASE exit' \in {"crashed", "timeout"}
      BY <2>0, <3>1, <3>3 DEF HostInv
    <3>4. CASE command = "smoke" /\ exit' = Answer
      BY <3>1, <3>2, <3>4, AnswersRightly DEF HostInv
    <3> QED
      BY <3>1, <3>3, <3>4
  <2>4. CASE Irq
    BY <2>0, <2>4 DEF Irq, HostInv
  <2>5. CASE UNCHANGED hostvars
    BY <2>0, <2>5 DEF hostvars, HostInv
  <2> QED
    BY <2>1, <2>2, <2>3, <2>4, <2>5 DEF HostNext
<1> QED
  BY <1>1, <1>2, PTL DEF HostSpec

\* PASS comes only from a machine without the fault the probe looks for.
THEOREM PassesAreEvidence == HostSpec => []PassIsEvidence
BY HostInvariant, PTL DEF HostInv

\* FAIL comes only from a machine with it, or from a smoke probe cut short.
THEOREM FailsAreDeserved == HostSpec => []FailIsDeserved
BY HostInvariant, PTL DEF HostInv

\* The host runs cmd_irq as SimIrq says, so what is proved of it holds here.
THEOREM HostRunsProbe == HostSpec => Spec
<1>1. HostInit => Init
  BY DEF HostInit
<1>2. [HostNext]_hostvars => [Next]_vars
  BY DEF HostNext, Start, Look, Stop, Irq, hostvars, irqvars, vars
<1> QED
  BY <1>1, <1>2, PTL DEF HostSpec, Spec
==============================================================================
