------------------------- MODULE PwmRegistersProofs -------------------------
(* For every set of programs whose words and shared registers are accessed    *)
(* under a barrier: no register holds the halves of two words and every check *)
(* passes, the interrupt flag is as it was, and an output shows one call.     *)
EXTENDS PwmRegisters, SequenceTheorems, TLAPS

Cells == [kind : {"reg"}, of : Registers] \cup [kind : {"mode", "pin"}, of : Names]

----------------------------------------------------------------------------
\* Accesses and sequences of accesses

\* The fields that an access of each kind has.
LEMMA AccessFields ==
  ASSUME NEW a \in Accesses
  PROVE  /\ a.do \in Outside \cup Inside \cup {"save", "cli"}
         /\ a.do \in {"high", "low", "readlow", "readhigh"} => a.reg \in Wide /\ a.value \in Nat
         /\ a.do \in {"byte", "readbyte"} => a.reg \in Registers \ Wide /\ a.value \in Nat
         /\ a.do = "load" => a.timer \in 0..2
         /\ a.do = "store" => /\ a.output \in Names /\ a.on \in BOOLEAN
                              /\ a.timer = TimerOf[a.output] /\ a.timer \in 0..2
         /\ a.do = "pin" => a.output \in Names /\ a.high \in BOOLEAN
         /\ a.do = "checkpin" => /\ a.output.name \in Names /\ a.on \in BOOLEAN
                                 /\ a.high \in BOOLEAN
                                 /\ a.output.timer = TimerOf[a.output.name]
<1>1. \A n \in Names : TimerOf[n] \in 0..2
  BY DEF Names, TimerOf
<1>2. CASE a \in [do : {"save", "cli", "restore"}]
  BY <1>2 DEF Outside, Inside
<1>3. CASE a \in [do : {"high", "low", "readlow", "readhigh"}, reg : Wide, value : Nat]
  BY <1>3 DEF Outside, Inside
<1>4. CASE a \in [do : {"byte", "readbyte"}, reg : Registers \ Wide, value : Nat]
  BY <1>4 DEF Outside, Inside
<1>5. CASE a \in {[do |-> "load", timer |-> t] : t \in 0..2}
  BY <1>5 DEF Outside, Inside
<1>6. CASE a \in {[do |-> "store", timer |-> TimerOf[n], output |-> n, on |-> b] :
                    n \in Names, b \in BOOLEAN}
  BY <1>1, <1>6 DEF Outside, Inside
<1>7. CASE a \in [do : {"pin"}, output : Names, high : BOOLEAN]
  BY <1>7 DEF Outside, Inside
<1>8. CASE a \in [do : {"checkpin"}, on : BOOLEAN, high : BOOLEAN,
                  output : {o \in [name : Names, timer : 0..2, register : Registers,
                                   period : Nat] : o.timer = TimerOf[o.name]}]
  BY <1>8 DEF Outside, Inside
<1> QED
  BY <1>2, <1>3, <1>4, <1>5, <1>6, <1>7, <1>8 DEF Accesses

LEMMA TailFacts ==
  ASSUME NEW s \in Seq(Accesses), s # <<>>
  PROVE  /\ Head(s) \in Accesses /\ Head(s) = s[1] /\ s[1] \in Accesses
         /\ Tail(s) \in Seq(Accesses) /\ Len(s) \in Nat \ {0}
         /\ Len(Tail(s)) = Len(s) - 1
         /\ DOMAIN s = 1..Len(s) /\ DOMAIN Tail(s) = 1..(Len(s) - 1)
         /\ \A i \in 1..(Len(s) - 1) : Tail(s)[i] = s[i + 1]
         /\ Tail(s) = <<>> <=> Len(s) = 1
         /\ Tail(s) # <<>> => Head(Tail(s)) = s[2] /\ s[2] \in Accesses
<1>1. /\ Len(s) \in Nat \ {0} /\ DOMAIN s = 1..Len(s)
      /\ \A i \in 1..Len(s) : s[i] \in Accesses
  BY EmptySeq, LenProperties, ElementOfSeq
<1>2. /\ Tail(s) \in Seq(Accesses) /\ Len(Tail(s)) = Len(s) - 1
      /\ \A i \in 1..(Len(s) - 1) : Tail(s)[i] = s[i + 1]
  BY HeadTailProperties
<1>3. DOMAIN Tail(s) = 1..(Len(s) - 1) /\ (Tail(s) = <<>> <=> Len(s) = 1)
  <2>1. DOMAIN Tail(s) = 1..(Len(s) - 1)
    BY <1>2, LenProperties
  <2>2. Tail(s) = <<>> => Len(s) - 1 = 0
    BY <1>2, EmptySeq
  <2>3. Tail(s) # <<>> => Len(s) - 1 # 0
    BY <1>2, EmptySeq
  <2> QED
    BY <1>1, <2>1, <2>2, <2>3
<1>4. Head(s) = s[1] /\ s[1] \in Accesses
  BY <1>1
<1>5. Tail(s) # <<>> => Head(Tail(s)) = s[2] /\ 2 \in 1..Len(s)
  <2>1. SUFFICES ASSUME Tail(s) # <<>>
                 PROVE  Head(Tail(s)) = s[2] /\ 2 \in 1..Len(s)
    OBVIOUS
  <2>2. Head(Tail(s)) = Tail(s)[1] /\ 1 \in 1..(Len(s) - 1)
    BY <1>1, <1>2, <1>3, <2>1
  <2> QED
    BY <1>1, <1>2, <2>2
<1> QED
  BY <1>1, <1>2, <1>3, <1>4, <1>5

\* What is left of a chained sequence is chained, and its next access may follow
\* the one just done.
LEMMA TailIsChained ==
  ASSUME NEW s \in Seq(Accesses), s # <<>>, Chained(s)
  PROVE  /\ Chained(Tail(s))
         /\ Tail(s) # <<>> => Follows(Head(s), Head(Tail(s)))
         /\ Tail(s) = <<>> => Head(s).do \in Outside \cup {"restore"}
<1>1. Tail(s) # <<>> => Follows(s[1], s[2])
  BY TailFacts DEF Chained
<1>2. \A i \in 1..(Len(Tail(s)) - 1) : Follows(Tail(s)[i], Tail(s)[i + 1])
  <2>1. SUFFICES ASSUME NEW i \in 1..(Len(Tail(s)) - 1)
                 PROVE  Follows(Tail(s)[i], Tail(s)[i + 1])
    OBVIOUS
  <2>2. i + 1 \in 1..(Len(s) - 1) /\ i \in 1..(Len(s) - 1)
    BY TailFacts
  <2>3. Follows(s[i + 1], s[(i + 1) + 1])
    BY <2>2 DEF Chained
  <2> QED
    BY <2>2, <2>3, TailFacts
<1>3. Tail(s) # <<>> => Tail(s)[Len(Tail(s))].do \in Outside \cup {"restore"}
  BY TailFacts DEF Chained
<1> QED
  BY <1>1, <1>2, <1>3, TailFacts DEF Chained

\* In a chained sequence the high byte of a word is never the last access.
LEMMA HighIsNotLast ==
  ASSUME NEW s \in Seq(Accesses), Chained(s), NEW i \in 1..Len(s), s[i].do = "high"
  PROVE  i + 1 \in 1..Len(s) /\ s[i + 1].do = "low" /\ s[i + 1].reg = s[i].reg
<1>1. i # Len(s)
  BY DEF Chained, Outside
<1>2. Follows(s[i], s[i + 1])
  BY <1>1 DEF Chained
<1> QED
  BY <1>1, <1>2 DEF Follows

LEMMA TailWords ==
  ASSUME NEW s \in Seq(Accesses), s # <<>>, Chained(s), NEW r
  PROVE  Words(Tail(s), r) \subseteq Words(s, r)
<1>1. SUFFICES ASSUME NEW i \in DOMAIN Tail(s), Tail(s)[i].do = "high", Tail(s)[i].reg = r
               PROVE  Tail(s)[i].value * 256 + Tail(s)[i + 1].value \in Words(s, r)
  BY DEF Words
<1>2. i + 1 \in 1..Len(Tail(s))
  BY <1>1, TailFacts, TailIsChained, HighIsNotLast
<1>3. /\ i + 1 \in DOMAIN s /\ s[i + 1].do = "high" /\ s[i + 1].reg = r
      /\ Tail(s)[i] = s[i + 1] /\ Tail(s)[i + 1] = s[(i + 1) + 1]
  BY <1>1, <1>2, TailFacts
<1> QED
  BY <1>3 DEF Words

\* The word of a pair of accesses that is next.
LEMMA FirstWord ==
  ASSUME NEW s \in Seq(Accesses), s # <<>>, Chained(s), Head(s).do = "high"
  PROVE  /\ Tail(s) # <<>> /\ Head(Tail(s)).do = "low" /\ Head(Tail(s)).reg = Head(s).reg
         /\ Head(s).value * 256 + Head(Tail(s)).value \in Words(s, Head(s).reg)
         /\ Value(s, 1) = Head(s).value * 256 + Head(Tail(s)).value
<1>1. Tail(s) # <<>>
  BY TailIsChained DEF Outside
<1>2. Follows(Head(s), Head(Tail(s)))
  BY <1>1, TailIsChained
<1>3. Head(Tail(s)) = s[1 + 1] /\ Head(s) = s[1] /\ 1 \in DOMAIN s
  BY <1>1, TailFacts
<1> QED
  BY <1>1, <1>2, <1>3 DEF Follows, Words, Value

LEMMA TailValue ==
  ASSUME NEW s \in Seq(Accesses), s # <<>>, Chained(s), NEW i \in 1..Len(Tail(s))
  PROVE  Value(Tail(s), i) = Value(s, i + 1) /\ Target(Tail(s)[i]) = Target(s[i + 1])
<1>1. Tail(s)[i] = s[i + 1]
  BY TailFacts
<1>2. Tail(s)[i].do = "high" => Tail(s)[i + 1] = s[(i + 1) + 1]
  BY TailFacts, TailIsChained, HighIsNotLast
<1> QED
  BY <1>1, <1>2 DEF Value

----------------------------------------------------------------------------
\* Steps

AccessStep ==
  \/ SaveFlag \/ Cli \/ Restore \/ WriteHigh \/ WriteLow \/ WriteByte \/ ReadLow
  \/ ReadHigh \/ ReadByte \/ Load \/ Store \/ Pin \/ CheckThePin

\* An access is the next one of the context that runs, and of no other.
LEMMA AccessIsNext ==
  ASSUME TypeOK, AccessStep
  PROVE  /\ Context \in Contexts /\ Context' = Context
         /\ code[Context] # <<>> /\ code[Context] \in Seq(Accesses)
         /\ Now \in Accesses /\ Tail(code[Context]) \in Seq(Accesses)
         /\ code' = [code EXCEPT ![Context] = Tail(@)]
         /\ code'[Context] = Tail(code[Context])
         /\ \A c \in Contexts \ {Context} : code'[c] = code[c]
         /\ program' = program /\ in_isr' = in_isr /\ latest' = latest
<1>1. /\ Context \in Contexts /\ code[Context] \in Seq(Accesses)
      /\ DOMAIN code = Contexts
  BY DEF TypeOK, Context, Contexts
<1>2. /\ code[Context] # <<>> /\ code' = [code EXCEPT ![Context] = Tail(@)]
      /\ program' = program /\ in_isr' = in_isr /\ latest' = latest
  BY DEF AccessStep, SaveFlag, Cli, Restore, WriteHigh, WriteLow, WriteByte, ReadLow,
         ReadHigh, ReadByte, Load, Store, Pin, CheckThePin, Doing, Done
<1>3. Context' = Context
  BY <1>2 DEF Context
<1>4. Now \in Accesses /\ Tail(code[Context]) \in Seq(Accesses)
  BY <1>1, <1>2, TailFacts DEF Now
<1> QED
  BY <1>1, <1>2, <1>3, <1>4

LEMMA ProgramFacts ==
  ASSUME TypeOK
  PROVE  /\ Serialized(program.main) /\ Serialized(program.handler) /\ program.on \in BOOLEAN
         /\ \A k \in DOMAIN program.handler : Demands(program.handler[k]) = {}
         /\ \A i \in DOMAIN program.main : \A d \in Demands(program.main[i]) :
              /\ Leaves(program.main, i, d.cell, d.value)
              /\ d.cell \notin Targets(program.handler)
         /\ program.handler # <<>> => Handled(program)
  BY ProgramsAssumption DEF TypeOK

LEMMA TypeInit == Init => TypeOK
<1>1. SUFFICES ASSUME Init PROVE TypeOK
  OBVIOUS
<1>2. program.main \in Seq(Accesses) /\ program.on \in BOOLEAN /\ <<>> \in Seq(Accesses)
  BY <1>1, ProgramsAssumption DEF Init, Serialized
<1>3. code \in [Contexts -> Seq(Accesses)]
  BY <1>1, <1>2 DEF Init
<1>4. reg \in [Registers -> Nat] /\ com \in [0..2 -> SUBSET Names] /\ level \in [Names -> BOOLEAN]
  BY <1>1 DEF Init
<1> QED
  BY <1>1, <1>2, <1>3, <1>4 DEF Init, TypeOK

LEMMA TypeStep ==
  ASSUME TypeOK, LatchInv, Next
  PROVE  TypeOK'
<1>1. CASE Interrupt
  <2>1. program.handler \in Seq(Accesses)
    BY ProgramFacts DEF Serialized
  <2>2. code' \in [Contexts -> Seq(Accesses)]
    BY <1>1, <2>1 DEF Interrupt, TypeOK
  <2> QED
    BY <1>1, <2>2 DEF Interrupt, TypeOK
<1>2. CASE Reti
  BY <1>2 DEF Reti, TypeOK
<1>3. CASE AccessStep
  <2>1. code' \in [Contexts -> Seq(Accesses)]
    BY <1>3, AccessIsNext DEF TypeOK
  <2>2. Context \in Contexts
    BY <1>3, AccessIsNext
  <2>3. /\ Now.do \in {"high", "low", "readlow", "readhigh"} => Now.reg \in Wide /\ Now.value \in Nat
        /\ Now.do \in {"byte", "readbyte"} => Now.reg \in Registers \ Wide /\ Now.value \in Nat
        /\ Now.do = "store" => /\ Now.output \in Names /\ Now.timer \in 0..2
        /\ Now.do = "pin" => Now.output \in Names /\ Now.high \in BOOLEAN
    BY <1>3, AccessIsNext, AccessFields
  <2>4. saved' \in [Contexts -> BOOLEAN] /\ iflag' \in BOOLEAN
    <3>1. CASE SaveFlag
      BY <2>2, <3>1 DEF SaveFlag, TypeOK
    <3>2. CASE Cli
      BY <3>2 DEF Cli, TypeOK
    <3>3. CASE Restore
      BY <2>2, <3>3 DEF Restore, TypeOK, Contexts
    <3> QED
      BY <1>3, <3>1, <3>2, <3>3
      DEF AccessStep, WriteHigh, WriteLow, WriteByte, ReadLow, ReadHigh, ReadByte, Load,
          Store, Pin, CheckThePin, TypeOK
  <2>5. reg' \in [Registers -> Nat] /\ temp' \in Nat
    <3>1. CASE WriteHigh
      BY <2>3, <3>1 DEF WriteHigh, Doing, TypeOK
    <3>2. CASE WriteLow
      <4>1. temp * 256 + Now.value \in Nat
        BY <2>3, <3>2 DEF WriteLow, Doing, TypeOK
      <4> QED
        BY <3>2, <4>1 DEF WriteLow, TypeOK
    <3>3. CASE WriteByte
      BY <2>3, <3>3 DEF WriteByte, Doing, TypeOK
    <3>4. CASE ReadLow
      <4>1. reg[Now.reg] \in Nat
        BY <2>3, <3>4 DEF ReadLow, Doing, TypeOK, Registers
      <4>2. reg[Now.reg] \div 256 \in Nat
        BY <4>1
      <4> QED
        BY <3>4, <4>2 DEF ReadLow, TypeOK
    <3> QED
      BY <1>3, <3>1, <3>2, <3>3, <3>4
      DEF AccessStep, SaveFlag, Cli, Restore, ReadHigh, ReadByte, Load, Store, Pin,
          CheckThePin, TypeOK
  <2>6. com' \in [0..2 -> SUBSET Names]
    <3>1. CASE Store
      <4>1. At(Context, {"store"}) /\ Now.timer \in 0..2 /\ Now.output \in Names
        BY <2>3, <3>1 DEF Store, Doing, At, Now
      <4>2. local[Context] = com[Now.timer]
        BY <2>2, <4>1 DEF LatchInv, Now, Contexts
      <4>3. local[Context] \in SUBSET Names
        BY <4>1, <4>2 DEF TypeOK
      <4>4. (IF Now.on THEN local[Context] \cup {Now.output}
             ELSE local[Context] \ {Now.output}) \in SUBSET Names
        BY <4>1, <4>3
      <4> QED
        BY <3>1, <4>1, <4>4 DEF Store, TypeOK
    <3> QED
      BY <1>3, <3>1
      DEF AccessStep, SaveFlag, Cli, Restore, WriteHigh, WriteLow, WriteByte, ReadLow,
          ReadHigh, ReadByte, Load, Pin, CheckThePin, TypeOK
  <2>7. level' \in [Names -> BOOLEAN]
    <3>1. CASE Pin
      BY <2>3, <3>1 DEF Pin, Doing, TypeOK
    <3> QED
      BY <1>3, <3>1
      DEF AccessStep, SaveFlag, Cli, Restore, WriteHigh, WriteLow, WriteByte, ReadLow,
          ReadHigh, ReadByte, Load, Store, CheckThePin, TypeOK
  <2>8. failed' \in BOOLEAN
    BY <1>3
    DEF AccessStep, SaveFlag, Cli, Restore, WriteHigh, WriteLow, WriteByte, ReadLow,
        ReadHigh, ReadByte, Load, Store, Pin, CheckThePin, TypeOK
  <2>9. DOMAIN local' = Contexts
    BY <1>3
    DEF AccessStep, SaveFlag, Cli, Restore, WriteHigh, WriteLow, WriteByte, ReadLow,
        ReadHigh, ReadByte, Load, Store, Pin, CheckThePin, TypeOK
  <2> QED
    BY <1>3, <2>1, <2>4, <2>5, <2>6, <2>7, <2>8, <2>9, AccessIsNext DEF TypeOK
<1> QED
  BY <1>1, <1>2, <1>3 DEF Next, AccessStep

----------------------------------------------------------------------------
\* The barrier, the latch and the words

\* The kinds of access that may come next, once the one at hand is done.
LEMMA NextAccess ==
  ASSUME TypeOK, BarrierInv, AccessStep, NEW dos
  PROVE  LET s == code[Context]
         IN  /\ Chained(Tail(s)) /\ Chained(s)
             /\ \A c \in {Context} : At(c, dos)' <=> Tail(s) # <<>> /\ Head(Tail(s)).do \in dos
             /\ Tail(s) # <<>> => Head(Tail(s)) \in Accesses /\ Follows(Now, Head(Tail(s)))
             /\ Tail(s) = <<>> => Now.do \in Outside \cup {"restore"}
             /\ \A c \in Contexts \ {Context} : At(c, dos)' <=> At(c, dos)
<1>1. Chained(code[Context])
  BY DEF BarrierInv, Context
<1>2. /\ code[Context] # <<>> /\ code[Context] \in Seq(Accesses)
      /\ code'[Context'] = Tail(code[Context]) /\ Context' = Context
      /\ Tail(code[Context]) \in Seq(Accesses)
  BY AccessIsNext
<1>3. \A c \in {Context} :
        At(c, dos)' <=> Tail(code[Context]) # <<>> /\ Head(Tail(code[Context])).do \in dos
  BY <1>2 DEF At
<1>4. \A c \in Contexts \ {Context} : At(c, dos)' <=> At(c, dos)
  BY AccessIsNext DEF At
<1> QED
  BY <1>1, <1>2, <1>3, <1>4, TailIsChained, TailFacts DEF Now

LEMMA BarrierInit == Init => BarrierInv
<1>1. SUFFICES ASSUME Init PROVE BarrierInv
  OBVIOUS
<1>2. /\ Serialized(program.main) /\ program.on \in BOOLEAN
      /\ code.main = program.main /\ code.isr = <<>>
  BY <1>1, ProgramsAssumption DEF Init, Contexts
<1>3. Chained(code.main) /\ ~At("main", Inside \cup {"cli"}) /\ ~At("main", Inside)
  BY <1>2 DEF Serialized, At, Outside, Inside
<1>4. Chained(code.isr) /\ ~At("isr", Inside \cup {"cli"})
  BY <1>2, EmptySeq DEF Chained, At
<1> QED
  BY <1>1, <1>2, <1>3, <1>4 DEF Init, BarrierInv

LEMMA BarrierStep ==
  ASSUME TypeOK, BarrierInv, Next
  PROVE  BarrierInv'
<1>1. CASE Interrupt
  <2>1. /\ Serialized(program.handler) /\ code'.isr = program.handler /\ code'.main = code.main
        /\ in_isr' /\ ~iflag' /\ program' = program /\ saved' = saved
        /\ program.handler # <<>> /\ ~in_isr /\ iflag
    BY <1>1, ProgramFacts DEF Interrupt, TypeOK, Contexts
  <2>2. Chained(code'.isr) /\ ~At("isr", Inside \cup {"cli"})'
    BY <2>1 DEF Serialized, At, Outside, Inside
  <2>3. At("main", Inside)' = At("main", Inside)
        /\ At("main", Inside \cup {"cli"})' = At("main", Inside \cup {"cli"})
    BY <2>1 DEF At
  <2> QED
    BY <2>1, <2>2, <2>3 DEF BarrierInv
<1>2. CASE Reti
  <2>1. /\ code' = code /\ ~in_isr' /\ iflag' /\ program' = program /\ saved'.main = saved.main
        /\ in_isr /\ code.isr = <<>>
    BY <1>2 DEF Reti, TypeOK, Contexts
  <2>2. At("main", Inside)' = At("main", Inside)
        /\ At("main", Inside \cup {"cli"})' = At("main", Inside \cup {"cli"})
        /\ ~At("isr", Inside \cup {"cli"})'
    BY <2>1 DEF At
  <2> QED
    BY <2>1, <2>2 DEF BarrierInv
<1>3. CASE AccessStep
  <2> DEFINE b == Head(Tail(code[Context]))
             more == Tail(code[Context]) # <<>>
  <2>1. /\ Context \in Contexts /\ code'[Context] = Tail(code[Context])
        /\ \A c \in Contexts \ {Context} : code'[c] = code[c]
        /\ program' = program /\ in_isr' = in_isr /\ Now \in Accesses
    BY <1>3, AccessIsNext
  <2>2. Chained(code'.main) /\ Chained(code'.isr)
    BY <1>3, <2>1, NextAccess DEF BarrierInv, Contexts
  <2>3. /\ \A c \in {Context} :
             /\ At(c, Inside)' <=> more /\ b.do \in Inside
             /\ At(c, Inside \cup {"cli"})' <=> more /\ b.do \in Inside \cup {"cli"}
        /\ more => Follows(Now, b)
        /\ ~more => Now.do \in Outside \cup {"restore"}
        /\ \A c \in Contexts \ {Context} :
             /\ At(c, Inside)' <=> At(c, Inside)
             /\ At(c, Inside \cup {"cli"})' <=> At(c, Inside \cup {"cli"})
    <3> HIDE DEF b, more
    <3> QED
      BY <1>3, NextAccess DEF b, more
  <2> HIDE DEF b, more
  <2>4. \A c \in {Context} :
          /\ At(c, Inside) <=> Now.do \in Inside
          /\ At(c, Inside \cup {"cli"}) <=> Now.do \in Inside \cup {"cli"}
    BY <1>3, AccessIsNext DEF At, Now
  \* What the access does to the flag, and what it saves.
  <2>5. /\ SaveFlag => Now.do = "save" /\ iflag' = iflag /\ saved'[Context] = iflag
        /\ Cli => Now.do = "cli" /\ iflag' = FALSE /\ saved' = saved
        /\ Restore => Now.do = "restore" /\ iflag' = saved[Context] /\ saved' = saved
        /\ \A c \in Contexts \ {Context} : saved'[c] = saved[c]
    BY <1>3, <2>1 DEF AccessStep, SaveFlag, Cli, Restore, WriteHigh, WriteLow, WriteByte,
       ReadLow, ReadHigh, ReadByte, Load, Store, Pin, CheckThePin, Doing, TypeOK
  <2>6. ~SaveFlag /\ ~Cli /\ ~Restore =>
          Now.do \in (Outside \cup Inside) \ {"restore"} /\ iflag' = iflag /\ saved' = saved
    BY <1>3 DEF AccessStep, WriteHigh, WriteLow, WriteByte, ReadLow, ReadHigh, ReadByte,
       Load, Store, Pin, CheckThePin, Doing, Outside, Inside
  <2>7. /\ SaveFlag => more /\ b.do = "cli"
        /\ Cli => more /\ b.do \in Inside
        /\ Restore => ~(more /\ b.do \in Inside \cup {"cli"})
        /\ ~SaveFlag /\ ~Cli /\ ~Restore =>
             /\ more /\ b.do \in Inside \cup {"cli"} <=> Now.do \in Inside
             /\ more /\ b.do \in Inside <=> Now.do \in Inside
    <3>1. CASE SaveFlag \/ Cli \/ Restore
      BY <2>3, <2>5, <3>1 DEF Follows, Outside, Inside
    <3>2. CASE ~SaveFlag /\ ~Cli /\ ~Restore
      <4>1. Now.do \in Outside \/ Now.do \in Inside \ {"restore"}
        BY <2>6, <3>2
      <4>2. CASE Now.do \in Outside
        BY <2>3, <3>2, <4>2 DEF Follows, Outside, Inside
      <4>3. CASE Now.do \in Inside \ {"restore"}
        BY <2>3, <3>2, <4>3 DEF Follows, Outside, Inside
      <4> QED
        BY <3>2, <4>1, <4>2, <4>3
    <3> QED
      BY <3>1, <3>2
  <2>8. CASE Context = "main"
    <3>1. /\ ~in_isr /\ code.isr = <<>> /\ (iflag <=> program.on /\ ~At("main", Inside))
          /\ (At("main", Inside \cup {"cli"}) => saved.main = program.on)
      BY <2>8 DEF BarrierInv, Context
    <3>2. code'.isr = <<>> /\ ~At("isr", Inside \cup {"cli"})'
      BY <2>1, <2>8, <3>1 DEF At, Contexts
    <3>3. iflag' <=> program.on /\ ~At("main", Inside)'
      <4>1. /\ At("main", Inside) <=> Now.do \in Inside
            /\ At("main", Inside)' <=> more /\ b.do \in Inside
        BY <2>3, <2>4, <2>8
      <4>2. CASE SaveFlag
        BY <2>5, <2>7, <3>1, <4>1, <4>2 DEF Inside
      <4>3. CASE Cli
        BY <2>5, <2>7, <3>1, <4>1, <4>3
      <4>4. CASE Restore
        BY <2>4, <2>5, <2>8, <2>7, <3>1, <4>1, <4>4 DEF Inside
      <4>5. CASE ~SaveFlag /\ ~Cli /\ ~Restore
        BY <2>6, <2>7, <3>1, <4>1, <4>5
      <4> QED
        BY <4>2, <4>3, <4>4, <4>5
    <3>4. At("main", Inside \cup {"cli"})' => saved'.main = program.on
      <4>1. /\ At("main", Inside \cup {"cli"}) <=> Now.do \in Inside \cup {"cli"}
            /\ At("main", Inside \cup {"cli"})' <=> more /\ b.do \in Inside \cup {"cli"}
            /\ At("main", Inside) <=> Now.do \in Inside
        BY <2>3, <2>4, <2>8
      <4>2. CASE SaveFlag
        <5>1. saved'.main = iflag /\ (iflag <=> program.on)
          BY <2>5, <2>8, <3>1, <4>1, <4>2 DEF Inside
        <5> QED
          BY <5>1, ProgramFacts DEF TypeOK
      <4>3. CASE Cli
        BY <2>5, <3>1, <4>1, <4>3
      <4>4. CASE Restore
        BY <2>7, <4>1, <4>4
      <4>5. CASE ~SaveFlag /\ ~Cli /\ ~Restore
        BY <2>6, <2>7, <3>1, <4>1, <4>5
      <4> QED
        BY <4>2, <4>3, <4>4, <4>5
    <3> QED
      BY <2>1, <2>2, <3>1, <3>2, <3>3, <3>4 DEF BarrierInv
  <2>9. CASE Context = "isr"
    <3>1. /\ in_isr /\ ~iflag /\ program.on /\ program.handler # <<>> /\ ~At("main", Inside)
          /\ (At("isr", Inside \cup {"cli"}) => saved.isr = FALSE)
          /\ (At("main", Inside \cup {"cli"}) => saved.main = program.on)
      BY <2>9 DEF BarrierInv, Context
    <3>2. /\ ~At("main", Inside)' /\ saved'.main = saved.main
          /\ (At("main", Inside \cup {"cli"})' <=> At("main", Inside \cup {"cli"}))
      BY <2>3, <2>5, <2>9, <3>1 DEF Contexts
    <3>3. ~iflag'
      BY <2>4, <2>5, <2>6, <2>9, <3>1 DEF Inside
    <3>4. At("isr", Inside \cup {"cli"})' => saved'.isr = FALSE
      <4>1. /\ At("isr", Inside \cup {"cli"}) <=> Now.do \in Inside \cup {"cli"}
            /\ At("isr", Inside \cup {"cli"})' <=> more /\ b.do \in Inside \cup {"cli"}
        BY <2>3, <2>4, <2>9
      <4>2. CASE SaveFlag
        BY <2>5, <2>9, <3>1, <4>2 DEF TypeOK
      <4>3. CASE Cli
        BY <2>5, <3>1, <4>1, <4>3
      <4>4. CASE Restore
        BY <2>7, <4>1, <4>4
      <4>5. CASE ~SaveFlag /\ ~Cli /\ ~Restore
        BY <2>6, <2>7, <3>1, <4>1, <4>5
      <4> QED
        BY <4>2, <4>3, <4>4, <4>5
    <3> QED
      BY <2>1, <2>2, <3>1, <3>2, <3>3, <3>4 DEF BarrierInv
  <2> QED
    BY <2>1, <2>8, <2>9 DEF Contexts
<1> QED
  BY <1>1, <1>2, <1>3 DEF Next, AccessStep

\* The context that does not run is under no barrier.
LEMMA OtherIsOutside ==
  ASSUME BarrierInv, NEW c \in Contexts \ {Context}
  PROVE  ~At(c, Inside)
  BY DEF BarrierInv, Context, Contexts, At

LEMMA LatchInit == Init => LatchInv
<1>1. SUFFICES ASSUME Init PROVE LatchInv
  OBVIOUS
<1>2. Serialized(program.main) /\ code.main = program.main /\ code.isr = <<>>
  BY <1>1, ProgramsAssumption DEF Init, Contexts
<1>3. \A c \in Contexts : ~At(c, {"low"}) /\ ~At(c, {"store"}) /\ ~At(c, {"readhigh"})
  BY <1>2 DEF Serialized, At, Outside, Contexts
<1> QED
  BY <1>3 DEF LatchInv

LEMMA LatchStep ==
  ASSUME TypeOK, BarrierInv, LatchInv, WordsInv, Next
  PROVE  LatchInv'
<1>1. CASE Interrupt \/ Reti
  <2>1. /\ code'.main = code.main /\ local'.main = local.main /\ program' = program
        /\ temp' = temp /\ reg' = reg /\ com' = com
    BY <1>1 DEF Interrupt, Reti, TypeOK, Contexts
  <2>2. code'.isr # <<>> => Head(code'.isr).do \in Outside \cup {"save"}
    BY <1>1, ProgramFacts DEF Interrupt, Reti, Serialized, TypeOK, Contexts
  <2>3. ~At("isr", {"low"})' /\ ~At("isr", {"store"})' /\ ~At("isr", {"readhigh"})'
    BY <2>2 DEF At, Outside
  <2>4. /\ At("main", {"low"})' <=> At("main", {"low"})
        /\ At("main", {"store"})' <=> At("main", {"store"})
        /\ At("main", {"readhigh"})' <=> At("main", {"readhigh"})
    BY <2>1 DEF At
  <2> QED
    BY <2>1, <2>3, <2>4 DEF LatchInv, Contexts
<1>2. CASE AccessStep
  <2> DEFINE s == code[Context]
             b == Head(Tail(s))
             words(c) == IF c = "main" THEN program.main ELSE program.handler
  <2>1. /\ Context \in Contexts /\ s # <<>> /\ s \in Seq(Accesses) /\ Now \in Accesses
        /\ code'[Context] = Tail(s) /\ Now = Head(s)
        /\ program' = program /\ \A c \in Contexts \ {Context} : code'[c] = code[c]
    BY <1>2, AccessIsNext DEF Now
  <2>2. \A c \in Contexts \ {Context} :
          ~At(c, {"low"})' /\ ~At(c, {"store"})' /\ ~At(c, {"readhigh"})'
    <3>1. \A c \in Contexts \ {Context} : ~At(c, Inside)'
      BY <1>2, OtherIsOutside, NextAccess
    <3> QED
      BY <3>1 DEF At, Inside
  <2>3. \A c \in {Context} :
          /\ At(c, {"low"})' <=> Tail(s) # <<>> /\ b.do = "low"
          /\ At(c, {"store"})' <=> Tail(s) # <<>> /\ b.do = "store"
          /\ At(c, {"readhigh"})' <=> Tail(s) # <<>> /\ b.do = "readhigh"
    BY <2>1 DEF At
  <2>4. Chained(s) /\ (Tail(s) # <<>> => b \in Accesses /\ Follows(Now, b))
    BY <1>2, NextAccess
  <2>5. Now.do \in Outside \cup Inside \cup {"save", "cli"}
    BY <2>1, AccessFields
  \* Only the access before it leads to each of the three.
  <2>6. /\ Tail(s) # <<>> /\ b.do = "low" => Now.do = "high"
        /\ Tail(s) # <<>> /\ b.do = "store" => Now.do = "load" /\ b.timer = Now.timer
        /\ Tail(s) # <<>> /\ b.do = "readhigh" => Now.do = "readlow" /\ b.reg = Now.reg
    BY <2>4, <2>5 DEF Follows, Outside, Inside
  <2>7. Now.do = "high" => temp' = Now.value
    BY <1>2 DEF AccessStep, SaveFlag, Cli, Restore, WriteHigh, WriteLow, WriteByte, ReadLow,
       ReadHigh, ReadByte, Load, Store, Pin, CheckThePin, Doing
  <2>8. Now.do = "load" => local'[Context] = com[Now.timer] /\ com' = com
    BY <1>2, <2>1 DEF AccessStep, SaveFlag, Cli, Restore, WriteHigh, WriteLow, WriteByte,
       ReadLow, ReadHigh, ReadByte, Load, Store, Pin, CheckThePin, Doing, TypeOK
  <2>9. Now.do = "readlow" =>
          /\ local'[Context] = reg[Now.reg] % 256 /\ reg' = reg
          /\ Now.reg = "ICR1" => temp' = reg["ICR1"] \div 256
    BY <1>2, <2>1 DEF AccessStep, SaveFlag, Cli, Restore, WriteHigh, WriteLow, WriteByte,
       ReadLow, ReadHigh, ReadByte, Load, Store, Pin, CheckThePin, Doing, TypeOK
  <2>10. Now.do = "high" =>
           /\ b.reg = Now.reg /\ Now.reg \in Wide
           /\ Now.value * 256 + b.value \in Words(words(Context), Now.reg)
    <3>1. Now.do = "high" => /\ b.reg = Now.reg /\ Now.reg \in Wide
                             /\ Now.value * 256 + b.value \in Words(s, Now.reg)
      BY <2>1, <2>4, FirstWord, AccessFields
    <3>2. \A r \in Wide : Words(s, r) \subseteq Words(words(Context), r)
      BY <2>1 DEF WordsInv, Contexts
    <3> QED
      BY <3>1, <3>2
  <2>11. SUFFICES ASSUME NEW c \in Contexts
                  PROVE  /\ At(c, {"low"})' =>
                              temp' * 256 + Head(code'[c]).value
                                \in Words(words(c), Head(code'[c]).reg)
                         /\ At(c, {"store"})' => local'[c] = com'[Head(code'[c]).timer]
                         /\ At(c, {"readhigh"})' =>
                              /\ local'[c] = reg'[Head(code'[c]).reg] % 256
                              /\ Head(code'[c]).reg = "ICR1" => temp' = reg'["ICR1"] \div 256
    BY <2>1 DEF LatchInv
  <2>12. CASE c = Context
    <3>1. Head(code'[c]) = b /\ c \in {Context}
      BY <2>1, <2>12
    <3> HIDE DEF s, b, words
    <3>2. At(c, {"low"})' => temp' * 256 + Head(code'[c]).value
                               \in Words(words(c), Head(code'[c]).reg)
      BY <2>3, <2>6, <2>7, <2>10, <2>12, <3>1
    <3>3. At(c, {"store"})' => local'[c] = com'[Head(code'[c]).timer]
      BY <2>3, <2>6, <2>8, <2>12, <3>1
    <3>4. At(c, {"readhigh"})' =>
            /\ local'[c] = reg'[Head(code'[c]).reg] % 256
            /\ Head(code'[c]).reg = "ICR1" => temp' = reg'["ICR1"] \div 256
      BY <2>3, <2>6, <2>9, <2>12, <3>1
    <3> QED
      BY <3>2, <3>3, <3>4
  <2>13. CASE c # Context
    BY <2>2, <2>13
  <2> QED
    BY <2>12, <2>13
<1> QED
  BY <1>1, <1>2 DEF Next, AccessStep

LEMMA WordsInit == Init => WordsInv
<1>1. SUFFICES ASSUME Init, NEW r \in Wide
               PROVE  /\ Words(code.main, r) \subseteq Words(program.main, r)
                      /\ Words(code.isr, r) \subseteq Words(program.handler, r)
                      /\ reg[r] = 0
  BY DEF WordsInv
<1>2. code.main = program.main /\ code.isr = <<>>
  BY <1>1 DEF Init, Contexts
<1>3. Words(code.isr, r) = {}
  BY <1>2 DEF Words
<1> QED
  BY <1>1, <1>2, <1>3 DEF Init, Registers

LEMMA WordsStep ==
  ASSUME TypeOK, BarrierInv, LatchInv, WordsInv, Next
  PROVE  WordsInv'
<1> SUFFICES ASSUME NEW r \in Wide
             PROVE  /\ Words(code'.main, r) \subseteq Words(program'.main, r)
                    /\ Words(code'.isr, r) \subseteq Words(program'.handler, r)
                    /\ reg'[r] \in {0} \cup Words(program'.main, r) \cup Words(program'.handler, r)
  BY DEF WordsInv
<1>1. CASE Interrupt
  <2>1. /\ code'.main = code.main /\ code'.isr = program.handler
        /\ program' = program /\ reg' = reg
    BY <1>1 DEF Interrupt, TypeOK, Contexts
  <2> QED
    BY <2>1 DEF WordsInv
<1>2. CASE Reti
  BY <1>2 DEF Reti, WordsInv
<1>3. CASE AccessStep
  <2> DEFINE s == code[Context]
  <2>1. /\ Context \in Contexts /\ s # <<>> /\ s \in Seq(Accesses)
        /\ code'[Context] = Tail(s) /\ program' = program
        /\ \A c \in Contexts \ {Context} : code'[c] = code[c]
        /\ Now \in Accesses /\ Now = Head(s) /\ Chained(s)
    BY <1>3, AccessIsNext, NextAccess DEF Now
  <2>2. \A c \in Contexts : Words(code'[c], r) \subseteq Words(code[c], r)
    BY <2>1, TailWords
  <2>3. reg'[r] \in {0} \cup Words(program.main, r) \cup Words(program.handler, r)
    <3>1. CASE WriteLow
      <4>1. Now.reg \in Wide /\ Now.do = "low"
        BY <2>1, <3>1, AccessFields DEF WriteLow, Doing
      <4>2. At(Context, {"low"})
        BY <2>1, <4>1 DEF At
      <4>3. temp * 256 + Now.value
              \in Words(program.main, Now.reg) \cup Words(program.handler, Now.reg)
        BY <2>1, <4>2 DEF LatchInv, Now
      <4>4. reg' = [reg EXCEPT ![Now.reg] = temp * 256 + Now.value]
        BY <3>1 DEF WriteLow
      <4>5. CASE r = Now.reg
        <5>1. reg'[r] = temp * 256 + Now.value
          BY <4>1, <4>4, <4>5 DEF TypeOK, Registers
        <5> QED
          BY <4>3, <4>5, <5>1
      <4>6. CASE r # Now.reg
        <5>1. reg'[r] = reg[r]
          BY <4>4, <4>6 DEF TypeOK, Registers
        <5> QED
          BY <5>1 DEF WordsInv
      <4> QED
        BY <4>5, <4>6
    <3>2. CASE WriteByte
      <4>1. Now.reg \notin Wide
        BY <2>1, <3>2, AccessFields DEF WriteByte, Doing
      <4>2. reg'[r] = reg[r]
        BY <3>2, <4>1 DEF WriteByte, TypeOK, Registers
      <4> QED
        BY <4>2 DEF WordsInv
    <3>3. CASE ~WriteLow /\ ~WriteByte
      <4>1. reg' = reg
        BY <1>3, <3>3 DEF AccessStep, SaveFlag, Cli, Restore, WriteHigh, ReadLow, ReadHigh,
           ReadByte, Load, Store, Pin, CheckThePin
      <4> QED
        BY <4>1 DEF WordsInv
    <3> QED
      BY <3>1, <3>2, <3>3
  <2> QED
    BY <2>1, <2>2, <2>3 DEF WordsInv, Contexts
<1> QED
  BY <1>1, <1>2, <1>3 DEF Next, AccessStep

----------------------------------------------------------------------------
\* Cells: what an access leaves in them, and what accesses to come will

LEMMA TargetIs ==
  ASSUME NEW a \in Accesses, NEW x \in Cells
  PROVE  /\ \/ x.kind = "reg" /\ x.of \in Registers
            \/ x.kind = "mode" /\ x.of \in Names
            \/ x.kind = "pin" /\ x.of \in Names
         /\ x.kind = "reg" => (Target(a) = x <=> a.do \in {"high", "byte"} /\ a.reg = x.of)
         /\ x.kind = "mode" => (Target(a) = x <=> a.do = "store" /\ a.output = x.of)
         /\ x.kind = "pin" => (Target(a) = x <=> a.do = "pin" /\ a.output = x.of)
<1>1. \A k, o : Cell(k, o) = x <=> x.kind = k /\ x.of = o
  BY DEF Cells, Cell
<1>2. CASE a.do \in {"high", "byte"}
  BY <1>1, <1>2 DEF Target, Cells
<1>3. CASE a.do = "store"
  BY <1>1, <1>3 DEF Target, Cells
<1>4. CASE a.do = "pin"
  BY <1>1, <1>4 DEF Target, Cells
<1>5. CASE a.do \notin {"high", "byte", "store", "pin"}
  <2>1. Target(a) = Cell("none", "none")
    BY <1>5 DEF Target
  <2> QED
    BY <1>1, <1>5, <2>1 DEF Cells
<1> QED
  BY <1>2, <1>3, <1>4, <1>5

\* A word is half written exactly between its two accesses.
LEMMA HalfWritten ==
  ASSUME TypeOK, BarrierInv, AccessStep
  PROVE  LET b == Head(Tail(code[Context]))
         IN  /\ Doing("low") <=> Now.do = "low"
             /\ Doing("low")' <=> Now.do = "high"
             /\ Now.do = "high" => Now' = b /\ b.reg = Now.reg
<1>1. /\ code[Context] # <<>> /\ code[Context] \in Seq(Accesses) /\ Now \in Accesses
      /\ code'[Context'] = Tail(code[Context]) /\ Chained(code[Context])
      /\ Now = Head(code[Context])
  BY AccessIsNext, NextAccess DEF Now
<1> DEFINE s == code[Context]
<1>2. Now.do = "high" => Tail(s) # <<>> /\ Head(Tail(s)).do = "low" /\ Head(Tail(s)).reg = Now.reg
  BY <1>1, FirstWord
<1>3. Tail(s) # <<>> /\ Head(Tail(s)).do = "low" => Now.do = "high"
  BY <1>1, TailIsChained, AccessFields DEF Follows, Outside, Inside
<1> QED
  BY <1>1, <1>2, <1>3 DEF Doing, Now

\* An access sets the cell that is its target, and no other.
LEMMA AccessEffect ==
  ASSUME TypeOK, BarrierInv, LatchInv, AccessStep, NEW x \in Cells
  PROVE  Holds(x)' = IF Target(Now) = x THEN Value(code[Context], 1) ELSE Holds(x)
<1> DEFINE s == code[Context]
           b == Head(Tail(s))
<1>1. /\ Context \in Contexts /\ s # <<>> /\ s \in Seq(Accesses) /\ Now \in Accesses
      /\ Now = s[1] /\ Now = Head(s) /\ Chained(s)
  BY AccessIsNext, NextAccess, TailFacts DEF Now
<1>2. /\ Doing("low") <=> Now.do = "low"
      /\ Doing("low")' <=> Now.do = "high"
      /\ Now.do = "high" => Now' = b /\ b.reg = Now.reg
  BY HalfWritten
<1>3. /\ \/ x.kind = "reg" /\ x.of \in Registers
         \/ x.kind = "mode" /\ x.of \in Names
         \/ x.kind = "pin" /\ x.of \in Names
      /\ x.kind = "reg" => (Target(Now) = x <=> Now.do \in {"high", "byte"} /\ Now.reg = x.of)
      /\ x.kind = "mode" => (Target(Now) = x <=> Now.do = "store" /\ Now.output = x.of)
      /\ x.kind = "pin" => (Target(Now) = x <=> Now.do = "pin" /\ Now.output = x.of)
  BY <1>1, TargetIs
<1>4. /\ Now.do = "high" => Value(s, 1) = Now.value * 256 + b.value
      /\ Now.do = "byte" => Value(s, 1) = Now.value
      /\ Now.do = "store" => Value(s, 1) = Bit(Now.on)
      /\ Now.do = "pin" => Value(s, 1) = Bit(Now.high)
  <2>1. Now.do = "high" => Value(s, 1) = Now.value * 256 + b.value
    BY <1>1, FirstWord
  <2> QED
    BY <1>1, <2>1 DEF Value
<1>5. CASE x.kind = "reg"
  <2>1. /\ Holds(x) = IF Doing("low") /\ Now.reg = x.of THEN temp * 256 + Now.value
                      ELSE reg[x.of]
        /\ Holds(x)' = IF Doing("low")' /\ (Now').reg = x.of THEN temp' * 256 + (Now').value
                       ELSE reg'[x.of]
    BY <1>5 DEF Holds
  <2>2. CASE WriteHigh
    <3>1. Now.do = "high" /\ temp' = Now.value /\ reg' = reg
      BY <2>2 DEF WriteHigh, Doing
    <3> QED
      BY <1>2, <1>3, <1>4, <1>5, <2>1, <3>1
  <2>3. CASE WriteLow
    <3>1. Now.do = "low" /\ reg' = [reg EXCEPT ![Now.reg] = temp * 256 + Now.value]
      BY <2>3 DEF WriteLow, Doing
    <3>2. reg'[x.of] = IF Now.reg = x.of THEN temp * 256 + Now.value ELSE reg[x.of]
      BY <1>3, <1>5, <3>1 DEF TypeOK
    <3> QED
      BY <1>2, <1>3, <1>5, <2>1, <3>1, <3>2
  <2>4. CASE WriteByte
    <3>1. Now.do = "byte" /\ reg' = [reg EXCEPT ![Now.reg] = Now.value]
      BY <2>4 DEF WriteByte, Doing
    <3>2. reg'[x.of] = IF Now.reg = x.of THEN Now.value ELSE reg[x.of]
      BY <1>3, <1>5, <3>1 DEF TypeOK
    <3> QED
      BY <1>2, <1>3, <1>4, <1>5, <2>1, <3>1, <3>2
  <2>5. CASE ~WriteHigh /\ ~WriteLow /\ ~WriteByte
    <3>1. Now.do \notin {"high", "low", "byte"} /\ reg' = reg
      BY <2>5 DEF AccessStep, SaveFlag, Cli, Restore, ReadLow, ReadHigh, ReadByte, Load,
         Store, Pin, CheckThePin, Doing
    <3> QED
      BY <1>2, <1>3, <1>5, <2>1, <3>1
  <2> QED
    BY <2>2, <2>3, <2>4, <2>5
<1>6. CASE x.kind = "mode"
  <2>1. /\ Holds(x) = Bit(x.of \in com[TimerOf[x.of]])
        /\ Holds(x)' = Bit(x.of \in com'[TimerOf[x.of]])
    BY <1>6 DEF Holds
  <2>2. CASE Store
    <3>1. /\ Now.do = "store" /\ Now.output \in Names /\ Now.timer = TimerOf[Now.output]
          /\ Now.timer \in 0..2 /\ Now.on \in BOOLEAN
      BY <1>1, <2>2, AccessFields DEF Store, Doing
    <3>2. local[Context] = com[Now.timer]
      BY <1>1, <3>1 DEF LatchInv, At
    <3>3. com' = [com EXCEPT ![Now.timer] = IF Now.on THEN com[Now.timer] \cup {Now.output}
                                            ELSE com[Now.timer] \ {Now.output}]
      BY <2>2, <3>2 DEF Store
    <3>4. DOMAIN com = 0..2 /\ TimerOf[x.of] \in 0..2
      BY <1>3, <1>6 DEF TypeOK, TimerOf, Names
    <3>5. x.of \in com'[TimerOf[x.of]] <=>
            IF Now.output = x.of THEN Now.on ELSE x.of \in com[TimerOf[x.of]]
      <4>1. CASE TimerOf[x.of] = Now.timer
        BY <3>1, <3>3, <3>4, <4>1
      <4>2. CASE TimerOf[x.of] # Now.timer
        BY <3>1, <3>3, <3>4, <4>2
      <4> QED
        BY <4>1, <4>2
    <3> QED
      BY <1>3, <1>4, <1>6, <2>1, <3>1, <3>5 DEF Bit
  <2>3. CASE ~Store
    <3>1. Now.do # "store" /\ com' = com
      BY <2>3 DEF AccessStep, SaveFlag, Cli, Restore, WriteHigh, WriteLow, WriteByte, ReadLow,
         ReadHigh, ReadByte, Load, Pin, CheckThePin, Doing
    <3> QED
      BY <1>3, <1>6, <2>1, <3>1
  <2> QED
    BY <2>2, <2>3
<1>7. CASE x.kind = "pin"
  <2>1. Holds(x) = Bit(level[x.of]) /\ Holds(x)' = Bit(level'[x.of])
    BY <1>7 DEF Holds
  <2>2. CASE Pin
    <3>1. Now.do = "pin" /\ level' = [level EXCEPT ![Now.output] = Now.high]
      BY <2>2 DEF Pin, Doing
    <3>2. level'[x.of] = IF Now.output = x.of THEN Now.high ELSE level[x.of]
      BY <1>3, <1>7, <3>1 DEF TypeOK
    <3> QED
      BY <1>3, <1>4, <1>7, <2>1, <3>1, <3>2
  <2>3. CASE ~Pin
    <3>1. Now.do # "pin" /\ level' = level
      BY <2>3 DEF AccessStep, SaveFlag, Cli, Restore, WriteHigh, WriteLow, WriteByte, ReadLow,
         ReadHigh, ReadByte, Load, Store, CheckThePin, Doing
    <3> QED
      BY <1>3, <1>7, <2>1, <3>1
  <2> QED
    BY <2>2, <2>3
<1> QED
  BY <1>3, <1>5, <1>6, <1>7

\* Neither taking the interrupt nor returning from it sets a cell.
LEMMA SwitchEffect ==
  ASSUME TypeOK, BarrierInv, Interrupt \/ Reti, NEW x \in Cells
  PROVE  Holds(x)' = Holds(x)
<1>1. ~Doing("low")
  BY DEF BarrierInv, Interrupt, Reti, Doing, Now, Context, At, Inside
<1>2. ~Doing("low")'
  <2>1. CASE Interrupt
    <3>1. code'[Context'] = program.handler
      BY <2>1 DEF Interrupt, Context, TypeOK, Contexts
    <3> QED
      BY <3>1, ProgramFacts DEF Serialized, Doing, Now, Outside
  <2>2. CASE Reti
    <3>1. Context' = "main" /\ code' = code /\ ~At("main", Inside)
      BY <2>2 DEF Reti, Context, BarrierInv
    <3> QED
      BY <3>1 DEF At, Doing, Now, Inside
  <2> QED
    BY <2>1, <2>2
<1>3. reg' = reg /\ com' = com /\ level' = level
  BY DEF Interrupt, Reti
<1> QED
  BY <1>1, <1>2, <1>3 DEF Holds

\* What is left in a cell before an access is left there by the first access, or
\* by those after it.
LEMMA LeavesTail ==
  ASSUME NEW s \in Seq(Accesses), s # <<>>, Chained(s), NEW i \in 1..Len(s), NEW x, NEW v
  PROVE  /\ Leaves(s, i + 1, x, v) =>
              \/ Leaves(Tail(s), i, x, v)
              \/ Target(s[1]) = x /\ Value(s, 1) = v /\ Keeps(Tail(s), i, x)
         /\ Keeps(s, i + 1, x) => Target(s[1]) # x /\ Keeps(Tail(s), i, x)
<1>1. /\ Len(s) \in Nat \ {0} /\ Len(Tail(s)) = Len(s) - 1
      /\ \A k \in 1..(i - 1) : /\ Target(Tail(s)[k]) = Target(s[k + 1])
                               /\ Value(Tail(s), k) = Value(s, k + 1)
  BY TailFacts, TailValue
<1>2. ASSUME Leaves(s, i + 1, x, v)
      PROVE  \/ Leaves(Tail(s), i, x, v)
             \/ Target(s[1]) = x /\ Value(s, 1) = v /\ Keeps(Tail(s), i, x)
  <2>1. PICK j \in 1..i : /\ Target(s[j]) = x /\ Value(s, j) = v
                          /\ \A k \in (j + 1)..i : Target(s[k]) # x
    BY <1>2 DEF Leaves
  <2>2. CASE j = 1
    <3>1. \A k \in 1..(i - 1) : Target(Tail(s)[k]) # x
      BY <1>1, <2>1, <2>2
    <3> QED
      BY <2>1, <2>2, <3>1 DEF Keeps
  <2>3. CASE j # 1
    <3>1. /\ j - 1 \in 1..(i - 1) /\ (j - 1) + 1 = j
          /\ Target(Tail(s)[j - 1]) = x /\ Value(Tail(s), j - 1) = v
      BY <1>1, <2>1, <2>3
    <3>2. \A k \in ((j - 1) + 1)..(i - 1) : Target(Tail(s)[k]) # x
      <4>1. SUFFICES ASSUME NEW k \in ((j - 1) + 1)..(i - 1)
                     PROVE  Target(Tail(s)[k]) # x
        OBVIOUS
      <4>2. k \in 1..(i - 1) /\ k + 1 \in (j + 1)..i
        BY <2>1, <2>3
      <4> QED
        BY <1>1, <2>1, <4>2
    <3> QED
      BY <3>1, <3>2 DEF Leaves
  <2> QED
    BY <2>2, <2>3
<1>3. ASSUME Keeps(s, i + 1, x)
      PROVE  Target(s[1]) # x /\ Keeps(Tail(s), i, x)
  <2>1. \A k \in 1..i : Target(s[k]) # x
    BY <1>3 DEF Keeps
  <2>2. \A k \in 1..(i - 1) : k + 1 \in 1..i
    OBVIOUS
  <2> QED
    BY <1>1, <2>1, <2>2 DEF Keeps
<1> QED
  BY <1>2, <1>3

\* What the running context is about to leave it still is, or has just left.
LEMMA WillAdvances ==
  ASSUME TypeOK, BarrierInv, LatchInv, AccessStep,
         NEW c \in {Context}, NEW x \in Cells, NEW v, NEW i \in 1..Len(code[c]),
         Will(c, i + 1, x, v)
  PROVE  Will(c, i, x, v)'
<1> DEFINE s == code[Context]
<1>1. /\ s # <<>> /\ s \in Seq(Accesses) /\ Chained(s) /\ code'[c] = Tail(s) /\ Now = s[1]
      /\ code[c] = s
  BY AccessIsNext, NextAccess, TailFacts DEF Now
<1>2. Holds(x)' = IF Target(s[1]) = x THEN Value(s, 1) ELSE Holds(x)
  BY <1>1, AccessEffect
<1>3. Leaves(Tail(s), i, x, v) \/ (Keeps(Tail(s), i, x) /\ Holds(x)' = v)
  BY <1>1, <1>2, LeavesTail DEF Will
<1> QED
  BY <1>1, <1>3 DEF Will

\* What one context is about to leave stays so if the other does not set the
\* cell, or sets it to that value.
LEMMA WillIsKept ==
  ASSUME TypeOK, BarrierInv, LatchInv, AccessStep,
         NEW c \in Contexts \ {Context}, NEW x \in Cells, NEW v, NEW i,
         Will(c, i, x, v), Target(Now) = x => Value(code[Context], 1) = v
  PROVE  Will(c, i, x, v)'
<1>1. code'[c] = code[c]
  BY AccessIsNext
<1>2. Holds(x) = v => Holds(x)' = v
  BY AccessEffect
<1> QED
  BY <1>1, <1>2 DEF Will

LEMMA WillIsSwitched ==
  ASSUME TypeOK, BarrierInv, Interrupt \/ Reti, NEW x \in Cells, NEW v, NEW i,
         Will("main", i, x, v)
  PROVE  Will("main", i, x, v)'
<1>1. code'["main"] = code["main"]
  BY DEF Interrupt, Reti, TypeOK, Contexts
<1>2. Holds(x)' = Holds(x)
  BY SwitchEffect
<1> QED
  BY <1>1, <1>2 DEF Will

\* Of what is next nothing is to come: the cell holds the value now.
LEMMA WillNow ==
  ASSUME NEW c, NEW x, NEW v, Will(c, 1, x, v)
  PROVE  Holds(x) = v
  BY DEF Will, Leaves

\* The cells that checks and outputs name.
LEMMA DemandsAreCells ==
  ASSUME NEW a \in Accesses, NEW d \in Demands(a)
  PROVE  d.cell \in Cells
<1>1. CASE a.do \in {"readhigh", "readbyte"}
  BY <1>1, AccessFields DEF Demands, Is, Cell, Cells, Registers
<1>2. CASE a.do = "checkpin"
  BY <1>2, AccessFields DEF Demands, Is, Cell, Cells
<1> QED
  BY <1>1, <1>2 DEF Demands

LEMMA ShowingCells ==
  ASSUME NEW o \in {one, one_b}, NEW ticks, NEW d \in Showing(o, ticks)
  PROVE  d.cell \in Cells
  BY DEF one, one_b, Output, Showing, Is, Cell, Cells, Registers, Wide, Names

----------------------------------------------------------------------------
\* Checks

LEMMA ChecksInit == Init => ChecksInv
<1>1. SUFFICES ASSUME Init PROVE ChecksInv
  OBVIOUS
<1>2. code.main = program.main /\ code.isr = <<>> /\ TypeOK
  BY <1>1, TypeInit DEF Init, Contexts
<1>3. DOMAIN code.isr = {}
  BY <1>2
<1>4. Targets(code.isr) = {}
  BY <1>3 DEF Targets
<1>5. \A i \in DOMAIN code.main : \A d \in Demands(code.main[i]) :
        Will("main", i, d.cell, d.value) /\ d.cell \notin Targets(program.handler)
  BY <1>2, ProgramFacts DEF Will
<1> QED
  BY <1>1, <1>3, <1>4, <1>5 DEF Init, ChecksInv

LEMMA Halves ==
  ASSUME NEW n \in Nat
  PROVE  (n \div 256) * 256 + (n % 256) = n
  OBVIOUS

\* A check that is next finds what it asks for.
LEMMA ChecksPass ==
  ASSUME TypeOK, BarrierInv, LatchInv, ChecksInv, AccessStep
  PROVE  ~failed'
<1> DEFINE s == code[Context]
<1>1. /\ Context \in Contexts /\ s # <<>> /\ s \in Seq(Accesses) /\ Now \in Accesses
      /\ Now = s[1] /\ Now = Head(s) /\ 1 \in DOMAIN s
  BY AccessIsNext, TailFacts DEF Now
<1>2. ASSUME NEW d \in Demands(Now)
      PROVE  Holds(d.cell) = d.value /\ d.cell \in Cells
  <2>1. Context = "main"
    BY <1>1, <1>2 DEF ChecksInv, Contexts
  <2>2. Will("main", 1, d.cell, d.value)
    BY <1>1, <1>2, <2>1 DEF ChecksInv
  <2> QED
    BY <1>1, <2>2, WillNow, DemandsAreCells
<1>3. CASE ReadHigh
  <2>1. Now.do = "readhigh" /\ Now.reg \in Wide
    BY <1>1, <1>3, AccessFields DEF ReadHigh, Doing
  <2>2. Is(Cell("reg", Now.reg), Now.value) \in Demands(Now)
    BY <2>1 DEF Demands
  <2>3. Holds(Cell("reg", Now.reg)) = Now.value
    BY <1>2, <2>2 DEF Is
  <2>4. reg[Now.reg] = Now.value
    BY <2>1, <2>3 DEF Holds, Cell, Doing
  <2>5. At(Context, {"readhigh"})
    BY <1>1, <2>1 DEF At
  <2>6. /\ local[Context] = reg[Now.reg] % 256
        /\ Now.reg = "ICR1" => temp = reg["ICR1"] \div 256
    BY <1>1, <2>5 DEF LatchInv
  <2>7. reg[Now.reg] \in Nat
    BY <2>1 DEF TypeOK, Registers
  <2>8. (reg[Now.reg] \div 256) * 256 + (reg[Now.reg] % 256) = reg[Now.reg]
    BY <2>7, Halves
  <2>9. (IF Now.reg = "ICR1" THEN temp ELSE reg[Now.reg] \div 256) * 256 + local[Context]
          = Now.value
    BY <2>4, <2>6, <2>8
  <2> QED
    BY <1>3, <2>9 DEF ReadHigh, ChecksInv
<1>4. CASE ReadByte
  <2>1. Now.do = "readbyte"
    BY <1>4 DEF ReadByte, Doing
  <2>2. Is(Cell("reg", Now.reg), Now.value) \in Demands(Now)
    BY <2>1 DEF Demands
  <2>3. Holds(Cell("reg", Now.reg)) = Now.value
    BY <1>2, <2>2 DEF Is
  <2>4. reg[Now.reg] = Now.value
    BY <2>1, <2>3 DEF Holds, Cell, Doing
  <2> QED
    BY <1>4, <2>4 DEF ReadByte, ChecksInv
<1>5. CASE CheckThePin
  <2> DEFINE o == Now.output
  <2>1. /\ Now.do = "checkpin" /\ o.name \in Names /\ o.timer = TimerOf[o.name]
        /\ Now.on \in BOOLEAN /\ Now.high \in BOOLEAN
    BY <1>1, <1>5, AccessFields DEF CheckThePin, Doing
  <2>2. /\ Is(Cell("mode", o.name), Bit(Now.on)) \in Demands(Now)
        /\ ~Now.on => Is(Cell("pin", o.name), Bit(Now.high)) \in Demands(Now)
    BY <2>1 DEF Demands
  <2>3. /\ Holds(Cell("mode", o.name)) = Bit(Now.on)
        /\ ~Now.on => Holds(Cell("pin", o.name)) = Bit(Now.high)
    BY <1>2, <2>2 DEF Is
  <2>4. /\ Bit(o.name \in com[o.timer]) = Bit(Now.on)
        /\ ~Now.on => Bit(level[o.name]) = Bit(Now.high)
    BY <2>1, <2>3 DEF Holds, Cell
  <2>5. (o.name \in com[o.timer]) = Now.on /\ (~Now.on => level[o.name] = Now.high)
    <3>1. level[o.name] \in BOOLEAN
      BY <2>1 DEF TypeOK
    <3> QED
      BY <2>1, <2>4, <3>1 DEF Bit
  <2> QED
    BY <1>5, <2>5 DEF CheckThePin, ChecksInv
<1>6. CASE ~ReadHigh /\ ~ReadByte /\ ~CheckThePin
  BY <1>6 DEF AccessStep, SaveFlag, Cli, Restore, WriteHigh, WriteLow, WriteByte, ReadLow,
     Load, Store, Pin, ChecksInv
<1> QED
  BY <1>3, <1>4, <1>5, <1>6

\* The cells that the handler has left to set are cells that it sets.
LEMMA TailTargets ==
  ASSUME NEW s \in Seq(Accesses), s # <<>>
  PROVE  Targets(Tail(s)) \subseteq Targets(s) /\ Target(Head(s)) \in Targets(s)
  BY TailFacts DEF Targets

LEMMA ChecksStep ==
  ASSUME TypeOK, BarrierInv, LatchInv, ChecksInv, Next
  PROVE  ChecksInv'
<1>1. CASE Interrupt \/ Reti
  <2>1. /\ failed' = failed /\ program' = program /\ code'.main = code.main
        /\ code'.isr = program.handler \/ code'.isr = code.isr
    BY <1>1 DEF Interrupt, Reti, TypeOK, Contexts
  <2>2. /\ \A k \in DOMAIN code'.isr : Demands(code'.isr[k]) = {}
        /\ Targets(code'.isr) \subseteq Targets(program'.handler)
    BY <2>1, ProgramFacts DEF ChecksInv
  <2>3. ASSUME NEW i \in DOMAIN code'.main, NEW d \in Demands(code'.main[i])
        PROVE  Will("main", i, d.cell, d.value)' /\ d.cell \notin Targets(program'.handler)
    <3>1. Will("main", i, d.cell, d.value) /\ d.cell \notin Targets(program.handler)
      BY <2>1, <2>3 DEF ChecksInv
    <3>2. d.cell \in Cells
      <4>1. code.main[i] \in Accesses
        BY <2>1, <2>3 DEF TypeOK, Contexts
      <4> QED
        BY <2>1, <2>3, <4>1, DemandsAreCells
    <3> QED
      BY <1>1, <2>1, <3>1, <3>2, WillIsSwitched
  <2> QED
    BY <2>1, <2>2, <2>3 DEF ChecksInv
<1>2. CASE AccessStep
  <2> DEFINE s == code[Context]
  <2>1. /\ Context \in Contexts /\ s # <<>> /\ s \in Seq(Accesses) /\ Now = Head(s)
        /\ code'[Context] = Tail(s) /\ program' = program
        /\ \A c \in Contexts \ {Context} : code'[c] = code[c]
    BY <1>2, AccessIsNext DEF Now
  <2>2. ~failed'
    BY <1>2, ChecksPass
  <2>3. \A k \in DOMAIN code'.isr : Demands(code'.isr[k]) = {}
    <3>1. CASE Context = "isr"
      <4>1. \A k \in DOMAIN Tail(s) : k + 1 \in DOMAIN s /\ Tail(s)[k] = s[k + 1]
        BY <2>1, TailFacts
      <4> QED
        <5>1. code'.isr = Tail(s) /\ \A k \in DOMAIN s : Demands(s[k]) = {}
          BY <2>1, <3>1 DEF ChecksInv
        <5> QED
          BY <4>1, <5>1
    <3>2. CASE Context # "isr"
      BY <2>1, <3>2 DEF ChecksInv, Contexts
    <3> QED
      BY <3>1, <3>2
  <2>4. Targets(code'.isr) \subseteq Targets(program'.handler)
    <3>1. Targets(code'.isr) \subseteq Targets(code.isr)
      BY <2>1, TailTargets DEF Contexts
    <3> QED
      BY <2>1, <3>1 DEF ChecksInv
  <2>5. ASSUME NEW i \in DOMAIN code'.main, NEW d \in Demands(code'.main[i])
        PROVE  Will("main", i, d.cell, d.value)' /\ d.cell \notin Targets(program'.handler)
    <3>1. CASE Context = "main"
      <4>1. /\ i + 1 \in DOMAIN code.main /\ code'.main[i] = code.main[i + 1]
            /\ i \in 1..Len(code.main) /\ code.main[i + 1] \in Accesses
        <5>1. code'.main = Tail(s) /\ code.main = s /\ i \in DOMAIN Tail(s)
          BY <2>1, <2>5, <3>1
        <5>2. /\ i \in 1..(Len(s) - 1) /\ Tail(s)[i] = s[i + 1] /\ DOMAIN s = 1..Len(s)
              /\ Len(s) \in Nat
          BY <2>1, <5>1, TailFacts
        <5> QED
          BY <2>1, <5>1, <5>2, ElementOfSeq
      <4>2. Will("main", i + 1, d.cell, d.value) /\ d.cell \notin Targets(program.handler)
        BY <2>5, <4>1 DEF ChecksInv
      <4>3. d.cell \in Cells
        BY <2>5, <4>1, DemandsAreCells
      <4> QED
        BY <1>2, <2>1, <3>1, <4>1, <4>2, <4>3, WillAdvances
    <3>2. CASE Context = "isr"
      <4>1. code'.main = code.main
        BY <2>1, <3>2 DEF Contexts
      <4>2. Will("main", i, d.cell, d.value) /\ d.cell \notin Targets(program.handler)
        BY <2>5, <4>1 DEF ChecksInv
      <4>3. d.cell \in Cells
        <5>1. code.main[i] \in Accesses
          BY <2>5, <4>1 DEF TypeOK, Contexts
        <5> QED
          BY <2>5, <4>1, <5>1, DemandsAreCells
      <4>4. Target(Now) # d.cell
        BY <2>1, <3>2, <4>2, TailTargets DEF ChecksInv
      <4> QED
        BY <1>2, <2>1, <3>2, <4>2, <4>3, <4>4, WillIsKept DEF Contexts
    <3> QED
      BY <2>1, <3>1, <3>2 DEF Contexts
  <2> QED
    BY <2>2, <2>3, <2>4, <2>5 DEF ChecksInv
<1> QED
  BY <1>1, <1>2 DEF Next, AccessStep

----------------------------------------------------------------------------
\* What the outputs show

LEMMA LeftOutput ==
  /\ Showing(one, 8000) = {Is(Mode, 1), Is(Compare, 7999)}
  /\ Mode \in Cells /\ Compare \in Cells /\ Mode # Compare
  /\ \A v, w : Is(Mode, v).cell = Mode /\ Is(Mode, v).value = v
               /\ Is(Compare, w).cell = Compare /\ Is(Compare, w).value = w
<1>1. one.name = "one" /\ one.register = "OCR1A" /\ one.period = 16000
  BY DEF one, Output
<1>2. Mode \in Cells /\ Compare \in Cells /\ Mode # Compare
  BY DEF Mode, Compare, Cell, Cells, Names, Registers, Wide
<1>3. Bit(8000 # 0) = 1 /\ 8000 - 1 = 7999 /\ 8000 \notin {0, 16000}
  BY DEF Bit
<1>4. Showing(one, 8000) = {Is(Mode, 1), Is(Compare, 7999)}
  BY <1>1, <1>3 DEF Showing, Mode, Compare
<1> QED
  BY <1>2, <1>4 DEF Is

\* What is in a cell when a context ends stays so through every access, unless
\* the other context sets it to something else.
LEMMA EndStep ==
  ASSUME TypeOK, BarrierInv, LatchInv, AccessStep,
         NEW c \in Contexts, NEW x \in Cells, NEW v, Will(c, End(c), x, v),
         c # Context /\ Target(Now) = x => Value(code[Context], 1) = v
  PROVE  Will(c, End(c), x, v)'
<1>1. CASE c = Context
  <2>1. /\ code[c] # <<>> /\ code[c] \in Seq(Accesses) /\ code'[c] = Tail(code[c])
    BY <1>1, AccessIsNext
  <2>2. PICK n \in Nat \ {0} : n = Len(code[c])
    BY <2>1, TailFacts
  <2>3. Will(c, n, x, v)'
    <3>1. c \in {Context} /\ n \in 1..Len(code[c]) /\ Will(c, n + 1, x, v)
      BY <1>1, <2>2 DEF End
    <3> QED
      BY <3>1, WillAdvances
  <2>4. End(c)' = n
    BY <2>1, <2>2, TailFacts DEF End
  <2> QED
    BY <2>3, <2>4 DEF Will
<1>2. CASE c # Context
  <2>1. code'[c] = code[c]
    BY <1>2, AccessIsNext
  <2>2. PICK n : n = End(c)
    OBVIOUS
  <2>3. End(c)' = n
    BY <2>1, <2>2 DEF End
  <2>4. Will(c, n, x, v)'
    <3>1. Will(c, n, x, v) /\ c \in Contexts \ {Context}
      BY <1>2, <2>2
    <3>2. Target(Now) = x => Value(code[Context], 1) = v
      BY <1>2
    <3> QED
      BY <3>1, <3>2, WillIsKept
  <2> QED
    BY <2>3, <2>4 DEF Will
<1> QED
  BY <1>1, <1>2

LEMMA EndSwitch ==
  ASSUME TypeOK, BarrierInv, Interrupt \/ Reti, NEW x \in Cells, NEW v,
         Will("main", End("main"), x, v)
  PROVE  Will("main", End("main"), x, v)'
<1>1. code'["main"] = code["main"]
  BY DEF Interrupt, Reti, TypeOK, Contexts
<1>2. Holds(x)' = Holds(x)
  BY SwitchEffect
<1> QED
  BY <1>1, <1>2 DEF Will, End

\* What the next access of the handler sets, if it sets a cell.
LEMMA HandlerSets ==
  ASSUME TypeOK, BarrierInv, ChecksInv, HandlerInv, AccessStep, Context = "isr",
         program.handler # <<>>
  PROVE  /\ Target(Now) = Mode => Value(code[Context], 1) = 1 /\ Holds(Compare) = 7999
         /\ Target(Now) = Compare => Value(code[Context], 1) = 7999
         /\ Target(Now) \in Cells => Target(Now) \in {Mode, Compare}
<1> DEFINE s == code.isr
<1>1. s # <<>> /\ s \in Seq(Accesses) /\ Now = s[1] /\ Now = Head(s) /\ 1 \in DOMAIN s
  BY AccessIsNext, TailFacts DEF Now
<1>2. \A d \in {Is(Mode, 1), Is(Compare, 7999)} : Target(s[1]) = d.cell => Value(s, 1) = d.value
  BY <1>1, LeftOutput DEF HandlerInv
<1>3. Target(Now) = Mode => Value(s, 1) = 1
  BY <1>1, <1>2, LeftOutput
<1>4. Target(Now) = Compare => Value(s, 1) = 7999
  BY <1>1, <1>2, LeftOutput
<1>5. Target(Now) = Mode => Holds(Compare) = 7999
  <2>1. SUFFICES ASSUME Target(Now) = Mode PROVE Holds(Compare) = 7999
    OBVIOUS
  <2>2. Will("isr", 1, Compare, 7999)
    BY <1>1, <2>1 DEF HandlerInv
  <2> QED
    BY <2>2, WillNow
<1>6. Target(Now) \in Cells => Target(Now) \in {Mode, Compare}
  <2>1. Target(Now) \in Targets(program.handler)
    BY <1>1, TailTargets DEF ChecksInv
  <2>2. \/ Target(Now).kind = "none"
        \/ \E d \in {Is(Mode, 1), Is(Compare, 7999)} : d.cell = Target(Now)
    BY <2>1, ProgramFacts, LeftOutput DEF Handled
  <2>3. Target(Now) \in Cells => Target(Now).kind # "none"
    BY DEF Cells
  <2> QED
    BY <2>2, <2>3, LeftOutput
<1> QED
  BY <1>3, <1>4, <1>5, <1>6

LEMMA HandlerInit == Init => HandlerInv
<1>1. SUFFICES ASSUME Init PROVE HandlerInv
  OBVIOUS
<1>2. code.isr = <<>> /\ ~in_isr /\ ~latest
  BY <1>1 DEF Init, Contexts
<1>3. DOMAIN code.isr = {}
  BY <1>2
<1> QED
  BY <1>2, <1>3 DEF HandlerInv

LEMMA HandlerStep ==
  ASSUME TypeOK, BarrierInv, LatchInv, ChecksInv, HandlerInv, program.handler # <<>>, Next
  PROVE  HandlerInv'
<1> DEFINE left == {Is(Mode, 1), Is(Compare, 7999)}
<1>a. /\ left = Showing(one, 8000) /\ Mode \in Cells /\ Compare \in Cells
      /\ \A d \in left : d.cell \in Cells
  BY LeftOutput
<1>b. SUFFICES
        /\ \A d \in left : \A k \in DOMAIN code'.isr :
             Target(code'.isr[k]) = d.cell => Value(code'.isr, k) = d.value
        /\ in_isr' => \A d \in left : Will("isr", End("isr"), d.cell, d.value)'
        /\ \A k \in DOMAIN code'.isr :
             Target(code'.isr[k]) = Mode => Will("isr", k, Compare, 7999)'
        /\ latest' => \A i \in DOMAIN code'.main : ~OfHandler(code'.main[i])
        /\ latest' /\ ~in_isr' => \A d \in left : Holds(d.cell)' = d.value
  BY <1>a DEF HandlerInv
<1> HIDE DEF left
<1>1. CASE Interrupt
  <2>1. /\ code'.isr = program.handler /\ code'["isr"] = program.handler
        /\ code'.main = code.main /\ in_isr' /\ latest' = latest
    BY <1>1 DEF Interrupt, TypeOK, Contexts
  <2>2. Handled(program)
    BY ProgramFacts
  <2>3. \A d \in left : \A k \in DOMAIN code'.isr :
          Target(code'.isr[k]) = d.cell => Value(code'.isr, k) = d.value
    BY <1>a, <2>1, <2>2 DEF Handled
  <2>4. \A d \in left : Will("isr", End("isr"), d.cell, d.value)'
    BY <1>a, <2>1, <2>2 DEF Handled, Will, End
  <2>5. \A k \in DOMAIN code'.isr :
          Target(code'.isr[k]) = Mode => Will("isr", k, Compare, 7999)'
    BY <2>1, <2>2 DEF Handled, Will, Mode, Compare
  <2> QED
    BY <2>1, <2>3, <2>4, <2>5 DEF HandlerInv
<1>2. CASE Reti
  <2>1. code' = code /\ code.isr = <<>> /\ in_isr /\ ~in_isr'
    BY <1>2 DEF Reti
  <2>2. DOMAIN code'.isr = {} /\ Len(code.isr) = 0
    BY <2>1
  <2>3. latest' => \A i \in DOMAIN code'.main : ~OfHandler(code'.main[i])
    BY <1>2, <2>1 DEF Reti
  <2>4. ASSUME NEW d \in left PROVE Holds(d.cell)' = d.value
    <3>1. Will("isr", End("isr"), d.cell, d.value)
      BY <1>a, <2>1, <2>4 DEF HandlerInv
    <3>2. Will("isr", 1, d.cell, d.value)
      BY <2>2, <3>1 DEF End
    <3>3. Holds(d.cell) = d.value
      BY <3>2, WillNow
    <3> QED
      BY <1>2, <1>a, <2>4, <3>3, SwitchEffect
  <2> QED
    BY <2>1, <2>2, <2>3, <2>4
<1>3. CASE AccessStep /\ Context = "main"
  <2>1. /\ code.main # <<>> /\ code.main \in Seq(Accesses) /\ Now = code.main[1]
        /\ Now \in Accesses /\ code'.main = Tail(code.main) /\ code'.isr = code.isr
        /\ in_isr' = in_isr /\ latest' = latest /\ 1 \in DOMAIN code.main
    BY <1>3, AccessIsNext, TailFacts DEF Now, Contexts
  <2>2. ~in_isr /\ code.isr = <<>>
    BY <1>3 DEF Context, BarrierInv
  <2>3. DOMAIN code'.isr = {}
    BY <2>1, <2>2
  <2>4. latest' => \A i \in DOMAIN code'.main : ~OfHandler(code'.main[i])
    <3>1. \A i \in DOMAIN Tail(code.main) :
            i + 1 \in DOMAIN code.main /\ Tail(code.main)[i] = code.main[i + 1]
      BY <2>1, TailFacts
    <3> QED
      BY <2>1, <3>1 DEF HandlerInv
  <2>5. ASSUME latest', NEW d \in left PROVE Holds(d.cell)' = d.value
    <3>1. ~OfHandler(Now) /\ Holds(d.cell) = d.value
      BY <1>a, <2>1, <2>2, <2>5 DEF HandlerInv
    <3>2. Target(Now) # Mode /\ Target(Now) # Compare
      <4>1. one.name = "one" /\ one.register = "OCR1A"
        BY DEF one, Output
      <4>2. Mode.kind = "mode" /\ Mode.of = "one" /\ Compare.kind = "reg" /\ Compare.of = "OCR1A"
        BY DEF Mode, Compare, Cell
      <4>3. Now.do = "byte" => Now.reg # "OCR1A"
        BY <2>1, AccessFields DEF Wide
      <4> QED
        BY <1>a, <2>1, <3>1, <4>1, <4>2, <4>3, TargetIs DEF OfHandler
    <3>3. d.cell \in {Mode, Compare}
      BY <2>5, LeftOutput DEF left
    <3> QED
      BY <1>3, <1>a, <3>1, <3>2, <3>3, AccessEffect
  <2> QED
    BY <2>1, <2>2, <2>3, <2>4, <2>5
<1>4. CASE AccessStep /\ Context = "isr"
  <2> DEFINE s == code.isr
  <2>1. /\ s # <<>> /\ s \in Seq(Accesses) /\ Chained(s)
        /\ code'.isr = Tail(s) /\ code'.main = code.main /\ latest' = latest
        /\ in_isr /\ in_isr' /\ "isr" \in {Context} /\ "isr" \in Contexts
    BY <1>4, AccessIsNext DEF Context, Contexts, BarrierInv
  <2>2. /\ Len(s) \in Nat \ {0} /\ DOMAIN s = 1..Len(s)
        /\ \A k \in DOMAIN Tail(s) : /\ k \in 1..Len(s) /\ k + 1 \in DOMAIN s
                                     /\ Value(Tail(s), k) = Value(s, k + 1)
                                     /\ Target(Tail(s)[k]) = Target(s[k + 1])
    BY <2>1, TailFacts, TailValue
  <2>3. \A d \in left : \A k \in DOMAIN code'.isr :
          Target(code'.isr[k]) = d.cell => Value(code'.isr, k) = d.value
    BY <1>a, <2>1, <2>2 DEF HandlerInv
  <2>4. \A d \in left : Will("isr", End("isr"), d.cell, d.value)'
    <3>1. \A d \in left : Will("isr", End("isr"), d.cell, d.value)
      BY <1>a, <2>1 DEF HandlerInv
    <3> QED
      BY <1>4, <1>a, <2>1, <3>1, EndStep
  <2>5. ASSUME NEW k \in DOMAIN code'.isr, Target(code'.isr[k]) = Mode
        PROVE  Will("isr", k, Compare, 7999)'
    <3>1. Will("isr", k + 1, Compare, 7999) /\ k \in 1..Len(s)
      BY <2>1, <2>2, <2>5 DEF HandlerInv
    <3> QED
      BY <1>4, <1>a, <2>1, <3>1, WillAdvances
  <2> QED
    BY <2>1, <2>3, <2>4, <2>5 DEF HandlerInv
<1>5. AccessStep => Context \in {"main", "isr"}
  BY DEF Context
<1> QED
  BY <1>1, <1>2, <1>3, <1>4, <1>5 DEF Next, AccessStep

LEMMA ConnectsTail ==
  ASSUME NEW s \in Seq(Accesses), s # <<>>, NEW o, Connects(s, o)
  PROVE  Connects(Tail(s), o)
<1>1. SUFFICES ASSUME NEW i \in DOMAIN Tail(s), Target(Tail(s)[i]) = Cell("reg", o.register)
               PROVE  \E j \in (i + 1)..Len(Tail(s)) : Target(Tail(s)[j]) = Cell("mode", o.name)
  BY DEF Connects
<1>2. i + 1 \in DOMAIN s /\ Tail(s)[i] = s[i + 1] /\ i \in 1..(Len(s) - 1)
  BY TailFacts
<1>3. PICK j \in ((i + 1) + 1)..Len(s) : Target(s[j]) = Cell("mode", o.name)
  BY <1>1, <1>2 DEF Connects
<1>4. /\ j - 1 \in (i + 1)..Len(Tail(s)) /\ j - 1 \in 1..(Len(s) - 1)
      /\ (j - 1) + 1 = j
  BY <1>2, <1>3, TailFacts
<1> QED
  BY <1>3, <1>4, TailFacts

\* When main() sets the mode of the left output no more, it does not set the
\* compare register either.
LEMMA KeepsBoth ==
  ASSUME NEW s \in Seq(Accesses), Connects(s, one), Keeps(s, Len(s) + 1, Mode)
  PROVE  Keeps(s, Len(s) + 1, Compare)
<1>1. Len(s) \in Nat /\ DOMAIN s = 1..Len(s)
  BY LenProperties
<1>2. \A k \in 1..Len(s) : Target(s[k]) # Mode
  BY <1>1 DEF Keeps
<1>3. Cell("reg", one.register) = Compare /\ Cell("mode", one.name) = Mode
  BY DEF one, Output, Mode, Compare
<1>4. \A k \in 1..Len(s) : Target(s[k]) # Compare
  BY <1>1, <1>2, <1>3 DEF Connects
<1> QED
  BY <1>1, <1>4 DEF Keeps

\* The handler came last: main() has nothing left for the output, which is on.
Yielded ==
  /\ Keeps(code.main, End("main"), Mode) /\ Keeps(code.main, End("main"), Compare)
  /\ Holds(Mode) = 1 /\ Holds(Compare) = 7999

LEMMA MainInit ==
  ASSUME Init, program.handler # <<>>
  PROVE  MainInv
<1>1. code.main = program.main /\ TypeOK /\ Handled(program) /\ "main" \in Contexts
  BY TypeInit, ProgramFacts DEF Init, Contexts
<1>2. \A d \in Showing(one, program.ticks[1]) \cup Showing(one_b, program.ticks[2]) :
        Will("main", End("main"), d.cell, d.value)
  BY <1>1 DEF Handled, Will, End
<1>3. one.name = "one" /\ one.register = "OCR1A"
  BY DEF one, Output
<1>4. CASE program.ticks[1] \in {0, one.period}
  <2>1. /\ Is(Mode, 0) \in Showing(one, program.ticks[1])
        /\ Is(Cell("pin", "one"), Bit(program.ticks[1] # 0)) \in Showing(one, program.ticks[1])
    BY <1>3, <1>4 DEF Showing, Mode
  <2>2. /\ Will("main", End("main"), Mode, 0)
        /\ Will("main", End("main"), Cell("pin", "one"), Bit(program.ticks[1] # 0))
    BY <1>2, <2>1 DEF Is
  <2> QED
    BY <1>1, <1>2, <1>4, <2>2 DEF MainInv, Handled
<1>5. CASE program.ticks[1] \notin {0, one.period}
  <2>1. /\ Is(Mode, 1) \in Showing(one, program.ticks[1])
        /\ Is(Compare, program.ticks[1] - 1) \in Showing(one, program.ticks[1])
    BY <1>3, <1>5 DEF Showing, Mode, Compare
  <2>2. /\ Will("main", End("main"), Mode, 1)
        /\ Will("main", End("main"), Compare, program.ticks[1] - 1)
    BY <1>2, <2>1 DEF Is
  <2> QED
    BY <1>1, <1>2, <1>5, <2>2 DEF MainInv, Handled
<1> QED
  BY <1>4, <1>5

LEMMA MainStep ==
  ASSUME TypeOK, BarrierInv, LatchInv, ChecksInv, HandlerInv, MainInv,
         program.handler # <<>>, Next
  PROVE  MainInv'
<1> DEFINE right == Showing(one_b, program.ticks[2])
           pin == Cell("pin", "one")
           extreme == program.ticks[1] \in {0, one.period}
<1>1. program' = program
  BY DEF Next, Interrupt, Reti, SaveFlag, Cli, Restore, WriteHigh, WriteLow, WriteByte, ReadLow,
     ReadHigh, ReadByte, Load, Store, Pin, CheckThePin
<1>2. /\ Mode \in Cells /\ Compare \in Cells /\ pin \in Cells /\ Mode # Compare
      /\ pin \notin {Mode, Compare}
      /\ \A d \in right : d.cell \in Cells /\ d.cell \notin {Mode, Compare}
  <2>1. pin \in Cells /\ pin \notin {Mode, Compare}
    BY DEF Cells, Cell, Names, Mode, Compare
  <2>2. one_b.name = "one_b" /\ one_b.register = "OCR1B"
    BY DEF one_b, Output
  <2>3. \A d \in right : d.cell \notin {Mode, Compare}
    BY <2>2 DEF Showing, Is, Cell, Mode, Compare
  <2> QED
    BY <2>1, <2>3, LeftOutput, ShowingCells
<1>p. PICK p : p = Bit(program.ticks[1] # 0)
  OBVIOUS
<1>q. PICK q : q = program.ticks[1] - 1
  OBVIOUS
\* What every step keeps of the invariant gives the invariant.
<1>3. ASSUME Connects(code'.main, one),
             \A d \in right : Will("main", End("main"), d.cell, d.value)',
             extreme => /\ Will("main", End("main"), pin, p)'
                        /\ Will("main", End("main"), Mode, 0)' \/ Yielded',
             ~extreme => /\ Will("main", End("main"), Mode, 1)'
                         /\ \/ Will("main", End("main"), Compare, q)'
                            \/ Will("main", End("main"), Compare, 7999)'
      PROVE  MainInv'
  BY <1>1, <1>3, <1>p, <1>q DEF MainInv, Yielded, Will
<1>4. /\ Connects(code.main, one)
      /\ \A d \in right : Will("main", End("main"), d.cell, d.value)
      /\ extreme => /\ Will("main", End("main"), pin, p)
                    /\ Will("main", End("main"), Mode, 0) \/ Yielded
      /\ ~extreme => /\ Will("main", End("main"), Mode, 1)
                     /\ \/ Will("main", End("main"), Compare, q)
                        \/ Will("main", End("main"), Compare, 7999)
  BY <1>p, <1>q DEF MainInv, Yielded
<1> HIDE DEF right, pin, extreme
<1>5. CASE Interrupt \/ Reti
  <2>1. code'.main = code.main
    BY <1>5 DEF Interrupt, Reti, TypeOK, Contexts
  <2>2. ASSUME Yielded PROVE Yielded'
    <3>1. Holds(Mode)' = Holds(Mode) /\ Holds(Compare)' = Holds(Compare)
      BY <1>2, <1>5, SwitchEffect
    <3> QED
      BY <2>1, <2>2, <3>1 DEF Yielded, End
  <2>3. \A x \in Cells : \A v : Will("main", End("main"), x, v) => Will("main", End("main"), x, v)'
    BY <1>5, EndSwitch
  <2> QED
    BY <1>2, <1>3, <1>4, <2>1, <2>2, <2>3
<1>6. CASE AccessStep /\ Context = "main"
  <2>1. /\ code.main # <<>> /\ code.main \in Seq(Accesses) /\ Chained(code.main)
        /\ code'.main = Tail(code.main) /\ Now = code.main[1] /\ "main" \in Contexts
    BY <1>6, AccessIsNext, TailFacts DEF Now, Contexts, BarrierInv
  <2>2. ASSUME Yielded PROVE Yielded'
    <3>1. PICK n \in 1..Len(code.main) : n = Len(code.main)
      BY <2>1, TailFacts
    <3>2. /\ Target(Now) # Mode /\ Keeps(Tail(code.main), n, Mode)
          /\ Target(Now) # Compare /\ Keeps(Tail(code.main), n, Compare)
      <4>1. Keeps(code.main, n + 1, Mode) /\ Keeps(code.main, n + 1, Compare)
        BY <2>2, <3>1 DEF Yielded, End
      <4> QED
        BY <2>1, <3>1, <4>1, LeavesTail
    <3>3. Holds(Mode)' = Holds(Mode) /\ Holds(Compare)' = Holds(Compare)
      BY <1>2, <1>6, <3>2, AccessEffect
    <3>4. Len(code'.main) + 1 = n
      BY <2>1, <3>1, TailFacts
    <3>5. /\ Keeps(code'.main, Len(code'.main) + 1, Mode)
          /\ Keeps(code'.main, Len(code'.main) + 1, Compare)
      BY <2>1, <3>2, <3>4
    <3>6. Holds(Mode)' = 1 /\ Holds(Compare)' = 7999
      BY <2>2, <3>3 DEF Yielded
    <3> QED
      BY <3>5, <3>6 DEF Yielded, End
  <2>3. \A x \in Cells : \A v : Will("main", End("main"), x, v) => Will("main", End("main"), x, v)'
    BY <1>6, <2>1, EndStep
  <2>4. Connects(code'.main, one)
    BY <1>4, <2>1, ConnectsTail
  <2> QED
    BY <1>2, <1>3, <1>4, <2>2, <2>3, <2>4
<1>7. CASE AccessStep /\ Context = "isr"
  <2>1. /\ code'.main = code.main /\ "main" \in Contexts /\ code.main \in Seq(Accesses)
    BY <1>7, AccessIsNext DEF Contexts, TypeOK
  <2>2. /\ Target(Now) = Mode => Value(code[Context], 1) = 1 /\ Holds(Compare) = 7999
        /\ Target(Now) = Compare => Value(code[Context], 1) = 7999
        /\ Target(Now) \in Cells => Target(Now) \in {Mode, Compare}
    BY <1>7, HandlerSets
  <2>3. /\ Holds(Mode)' = IF Target(Now) = Mode THEN 1 ELSE Holds(Mode)
        /\ Holds(Compare)' = IF Target(Now) = Compare THEN 7999 ELSE Holds(Compare)
    BY <1>2, <1>7, <2>2, AccessEffect
  <2>4. ASSUME NEW x \in Cells, NEW v, Will("main", End("main"), x, v),
               Target(Now) = x => Value(code[Context], 1) = v
        PROVE  Will("main", End("main"), x, v)'
    BY <1>7, <2>1, <2>4, EndStep
  <2>5. ASSUME NEW x \in Cells, x \notin {Mode, Compare}, NEW v, Will("main", End("main"), x, v)
        PROVE  Will("main", End("main"), x, v)'
    BY <2>2, <2>4, <2>5
  <2>6. ASSUME Yielded PROVE Yielded'
    BY <2>1, <2>3, <2>6 DEF Yielded, End
  <2>7. ASSUME Will("main", End("main"), Mode, 0)
        PROVE  Will("main", End("main"), Mode, 0)' \/ Yielded'
    <3>1. CASE Target(Now) = Mode
      <4>1. CASE Leaves(code.main, End("main"), Mode, 0)
        BY <2>1, <4>1 DEF Will, End
      <4>2. CASE Keeps(code.main, End("main"), Mode)
        <5>1. Keeps(code.main, End("main"), Compare)
          BY <1>4, <2>1, <4>2, KeepsBoth DEF End
        <5> QED
          BY <1>2, <2>1, <2>2, <2>3, <3>1, <4>2, <5>1 DEF Yielded, End
      <4> QED
        BY <2>7, <4>1, <4>2 DEF Will
    <3>2. CASE Target(Now) # Mode
      BY <1>2, <2>4, <2>7, <3>2
    <3> QED
      BY <3>1, <3>2
  <2>8. ASSUME Will("main", End("main"), Mode, 1)
        PROVE  Will("main", End("main"), Mode, 1)'
    BY <1>2, <2>2, <2>4, <2>8
  <2>9. ASSUME NEW v, Will("main", End("main"), Compare, v)
        PROVE  Will("main", End("main"), Compare, v)' \/ Will("main", End("main"), Compare, 7999)'
    <3>1. CASE Target(Now) = Compare
      <4>1. CASE Leaves(code.main, End("main"), Compare, v)
        BY <2>1, <4>1 DEF Will, End
      <4>2. CASE Keeps(code.main, End("main"), Compare)
        BY <2>1, <2>3, <3>1, <4>2 DEF Will, End
      <4> QED
        BY <2>9, <4>1, <4>2 DEF Will
    <3>2. CASE Target(Now) # Compare
      BY <1>2, <2>4, <2>9, <3>2
    <3> QED
      BY <3>1, <3>2
  <2>10. \A d \in right : Will("main", End("main"), d.cell, d.value)'
    BY <1>2, <1>4, <2>5
  <2>11. extreme => /\ Will("main", End("main"), pin, p)'
                    /\ Will("main", End("main"), Mode, 0)' \/ Yielded'
    BY <1>2, <1>4, <2>5, <2>6, <2>7
  <2>12. ~extreme => /\ Will("main", End("main"), Mode, 1)'
                     /\ \/ Will("main", End("main"), Compare, q)'
                        \/ Will("main", End("main"), Compare, 7999)'
    BY <1>4, <2>8, <2>9
  <2> QED
    BY <1>3, <1>4, <2>1, <2>10, <2>11, <2>12
<1>8. AccessStep => Context \in {"main", "isr"}
  BY DEF Context
<1> QED
  BY <1>5, <1>6, <1>7, <1>8 DEF Next, AccessStep

----------------------------------------------------------------------------
\* Theorems

\* The inductive invariant: every access leaves the barrier, the latch, the words
\* and what is still to come to each cell as the code of each context has it.
THEOREM PwmInvariant == Spec => []PwmInv
<1>1. Init => PwmInv
  BY TypeInit, BarrierInit, LatchInit, WordsInit, ChecksInit, HandlerInit, MainInit DEF PwmInv
<1>2. ASSUME PwmInv, [Next]_vars
      PROVE  PwmInv'
  <2>1. CASE Next
    <3>1. TypeOK' /\ BarrierInv' /\ LatchInv' /\ WordsInv' /\ ChecksInv'
      BY <1>2, <2>1, TypeStep, BarrierStep, LatchStep, WordsStep, ChecksStep DEF PwmInv
    <3>2. program' = program
      BY <2>1 DEF Next, Interrupt, Reti, SaveFlag, Cli, Restore, WriteHigh, WriteLow, WriteByte,
         ReadLow, ReadHigh, ReadByte, Load, Store, Pin, CheckThePin
    <3>3. program.handler # <<>> => HandlerInv' /\ MainInv'
      BY <1>2, <2>1, HandlerStep, MainStep DEF PwmInv
    <3> QED
      BY <3>1, <3>2, <3>3 DEF PwmInv
  <2>2. CASE UNCHANGED vars
    <3> USE DEF vars
    <3>1. TypeOK'
      BY <1>2, <2>2 DEF PwmInv, TypeOK
    <3>2. BarrierInv'
      BY <1>2, <2>2 DEF PwmInv, BarrierInv, At
    <3>3. LatchInv' /\ WordsInv'
      BY <1>2, <2>2 DEF PwmInv, LatchInv, WordsInv, At
    <3>4. ChecksInv'
      BY <1>2, <2>2 DEF PwmInv, ChecksInv, Will, Holds, Doing, Now, Context
    <3>5. program.handler # <<>> => HandlerInv'
      BY <1>2, <2>2 DEF PwmInv, HandlerInv, Will, End, Holds, Doing, Now, Context
    <3>6. program.handler # <<>> => MainInv'
      BY <1>2, <2>2 DEF PwmInv, MainInv, Will, End, Holds, Doing, Now, Context
    <3> QED
      BY <2>2, <3>1, <3>2, <3>3, <3>4, <3>5, <3>6 DEF PwmInv
  <2> QED
    BY <1>2, <2>1, <2>2
<1> QED
  BY <1>1, <1>2, PTL DEF Spec

\* No 16-bit register ever holds the halves of two words, and every check of
\* main() passes, whatever main() and the handler write (avr_bindings.hpp).
THEOREM WordsAreWhole == Spec => []WritesAreWhole
<1>1. PwmInv => WritesAreWhole
  BY DEF PwmInv, ChecksInv, WordsInv, WritesAreWhole
<1> QED
  BY <1>1, PwmInvariant, PTL

\* IrqBarrier leaves the interrupt flag as it found it, nested in a handler too.
THEOREM FlagIsRestored == Spec => []InterruptsRestored
<1>1. ASSUME PwmInv PROVE InterruptsRestored
  <2>1. ASSUME ~in_isr, code.main = <<>> \/ Head(code.main).do \in {"save", "pin", "byte"}
        PROVE  iflag = program.on
    <3>1. ~At("main", Inside)
      BY <2>1 DEF At, Inside
    <3>2. iflag <=> program.on
      BY <1>1, <2>1, <3>1 DEF PwmInv, BarrierInv
    <3>3. iflag \in BOOLEAN /\ program.on \in BOOLEAN
      BY <1>1, ProgramFacts DEF PwmInv, TypeOK
    <3> QED
      BY <3>2, <3>3
  <2> QED
    BY <1>1, <2>1 DEF PwmInv, BarrierInv, InterruptsRestored
<1> QED
  BY <1>1, PwmInvariant, PTL

\* Each output of the timer shows the duty of one call, though main() and the
\* handler share its control register.
THEOREM OutputsShowOneCall == Spec => []OutputsFollowACall
<1>1. ASSUME PwmInv, ~in_isr, program.handler # <<>>
      PROVE  /\ latest => Shows(one, 8000)
             /\ code.main = <<>> => /\ Shows(one_b, program.ticks[2])
                                    /\ Shows(one, program.ticks[1]) \/ Shows(one, 8000)
  <2>1. /\ one.name = "one" /\ one.register = "OCR1A" /\ one.timer = 1 /\ one.period = 16000
        /\ one_b.name = "one_b" /\ one_b.register = "OCR1B" /\ one_b.timer = 1
        /\ TimerOf["one"] = 1 /\ TimerOf["one_b"] = 1
        /\ 8000 \notin {0, one.period} /\ 8000 - 1 = 7999
    BY DEF one, one_b, Output, TimerOf
  <2>2. HandlerInv /\ MainInv /\ TypeOK /\ BarrierInv
    BY <1>1 DEF PwmInv
  <2>3. /\ level["one"] \in BOOLEAN /\ level["one_b"] \in BOOLEAN
    BY <2>2 DEF TypeOK, Names
  \* The cells of an output that no half-written word concerns.
  <2>4. ASSUME NEW o \in {one, one_b}, NEW t, \A d \in Showing(o, t) : Holds(d.cell) = d.value,
               ~(Doing("low") /\ Now.reg = o.register)
        PROVE  Shows(o, t)
    <3>1. TimerOf[o.name] = o.timer /\ level[o.name] \in BOOLEAN
      BY <2>1, <2>3
    <3>2. CASE t \in {0, o.period}
      <4>1. Holds(Cell("mode", o.name)) = 0 /\ Holds(Cell("pin", o.name)) = Bit(t # 0)
        BY <2>4, <3>2 DEF Showing, Is
      <4>2. Bit(o.name \in com[o.timer]) = 0 /\ Bit(level[o.name]) = Bit(t # 0)
        BY <3>1, <4>1 DEF Holds, Cell
      <4>3. o.name \notin com[o.timer] /\ level[o.name] = (t # 0)
        BY <3>1, <4>2 DEF Bit
      <4> QED
        BY <3>2, <4>3 DEF Shows
    <3>3. CASE t \notin {0, o.period}
      <4>1. Holds(Cell("mode", o.name)) = 1 /\ Holds(Cell("reg", o.register)) = t - 1
        BY <2>4, <3>3 DEF Showing, Is
      <4>2. Bit(o.name \in com[o.timer]) = 1 /\ reg[o.register] = t - 1
        BY <2>4, <3>1, <4>1 DEF Holds, Cell
      <4>3. o.name \in com[o.timer]
        BY <4>2 DEF Bit
      <4> QED
        BY <3>3, <4>2, <4>3 DEF Shows
    <3> QED
      BY <3>2, <3>3
  <2>5. ASSUME latest PROVE Shows(one, 8000)
    <3>1. \A d \in Showing(one, 8000) : Holds(d.cell) = d.value
      BY <1>1, <2>2, <2>5 DEF HandlerInv
    <3>2. ~(Doing("low") /\ Now.reg = one.register)
      <4>1. SUFFICES ASSUME Doing("low"), Now.reg = one.register PROVE FALSE
        OBVIOUS
      <4>2. code.main # <<>> /\ code.main \in Seq(Accesses) /\ Now = Head(code.main)
        BY <1>1, <2>2, <4>1 DEF Doing, Now, Context, TypeOK, Contexts
      <4>3. 1 \in DOMAIN code.main /\ code.main[1] = Now
        BY <4>2, TailFacts
      <4>4. OfHandler(Now)
        BY <4>1 DEF Doing, OfHandler
      <4> QED
        BY <2>2, <2>5, <4>3, <4>4 DEF HandlerInv
    <3> QED
      BY <2>4, <3>1, <3>2
  <2>6. ASSUME code.main = <<>>
        PROVE  Shows(one_b, program.ticks[2]) /\ (Shows(one, program.ticks[1]) \/ Shows(one, 8000))
    <3>1. ~Doing("low") /\ End("main") = 1
      BY <1>1, <2>6 DEF Doing, Context, End
    <3>2. \A x, v : Will("main", End("main"), x, v) => Holds(x) = v
      BY <3>1, WillNow
    <3>3. Shows(one_b, program.ticks[2])
      BY <2>2, <2>4, <3>1, <3>2 DEF MainInv
    <3>4. Showing(one, 8000) = {Is(Mode, 1), Is(Compare, 7999)}
      BY LeftOutput
    <3>5. ASSUME Holds(Mode) = 1, Holds(Compare) = 7999 PROVE Shows(one, 8000)
      BY <2>4, <3>1, <3>4, <3>5, LeftOutput
    <3>6. CASE program.ticks[1] \in {0, one.period}
      <4>1. /\ Holds(Cell("pin", "one")) = Bit(program.ticks[1] # 0)
            /\ Holds(Mode) = 0 \/ (Holds(Mode) = 1 /\ Holds(Compare) = 7999)
        BY <2>2, <3>2, <3>6 DEF MainInv
      <4>2. Showing(one, program.ticks[1])
              = {Is(Mode, 0), Is(Cell("pin", "one"), Bit(program.ticks[1] # 0))}
        BY <2>1, <3>6 DEF Showing, Mode
      <4>3. Holds(Mode) = 0 => Shows(one, program.ticks[1])
        BY <2>4, <3>1, <4>1, <4>2 DEF Is
      <4> QED
        BY <3>3, <3>5, <4>1, <4>3
    <3>7. CASE program.ticks[1] \notin {0, one.period}
      <4>1. /\ Holds(Mode) = 1
            /\ Holds(Compare) = program.ticks[1] - 1 \/ Holds(Compare) = 7999
        BY <2>2, <3>2, <3>7 DEF MainInv
      <4>2. Showing(one, program.ticks[1]) = {Is(Mode, 1), Is(Compare, program.ticks[1] - 1)}
        BY <2>1, <3>7 DEF Showing, Mode, Compare
      <4>3. Holds(Compare) = program.ticks[1] - 1 => Shows(one, program.ticks[1])
        BY <2>4, <3>1, <4>1, <4>2 DEF Is
      <4> QED
        BY <3>3, <3>5, <4>1, <4>3
    <3> QED
      BY <3>6, <3>7
  <2> QED
    BY <2>5, <2>6
<1>2. PwmInv => OutputsFollowACall
  BY <1>1 DEF OutputsFollowACall
<1> QED
  BY <1>2, PwmInvariant, PTL

----------------------------------------------------------------------------
\* Programs: calls of the register layer are serialized, one after the other too

LEMMA PairIsSerialized ==
  ASSUME NEW a \in Accesses, NEW b \in Accesses, a.do \in {"high", "readlow", "load"},
         Follows(a, b)
  PROVE  Serialized(Barrier(<<a, b>>))
<1> DEFINE first == <<[do |-> "save"], [do |-> "cli"]>>
           last == <<[do |-> "restore"]>>
           pair == <<a, b>>
           s == Barrier(<<a, b>>)
<1>1. [do |-> "save"] \in Accesses /\ [do |-> "cli"] \in Accesses /\ [do |-> "restore"] \in Accesses
  BY DEF Accesses
<1>2. first \in Seq(Accesses) /\ pair \in Seq(Accesses) /\ last \in Seq(Accesses)
  BY <1>1
<1>3. /\ Len(first) = 2 /\ first[1] = [do |-> "save"] /\ first[2] = [do |-> "cli"]
      /\ Len(pair) = 2 /\ pair[1] = a /\ pair[2] = b
      /\ Len(last) = 1 /\ last[1] = [do |-> "restore"]
  OBVIOUS
<1> HIDE DEF first, last, pair
<1>4. /\ first \o pair \in Seq(Accesses) /\ Len(first \o pair) = 4
      /\ (first \o pair)[1] = [do |-> "save"] /\ (first \o pair)[2] = [do |-> "cli"]
      /\ (first \o pair)[3] = a /\ (first \o pair)[4] = b
  BY <1>2, <1>3, ConcatProperties
<1> DEFINE most == first \o pair
<1>5. s = most \o last
  BY DEF Barrier, first, pair, last
<1> HIDE DEF s
<1>6. /\ s \in Seq(Accesses) /\ Len(s) = 5
      /\ s[1] = [do |-> "save"] /\ s[2] = [do |-> "cli"] /\ s[3] = a /\ s[4] = b
      /\ s[5] = [do |-> "restore"]
  <2>1. most \in Seq(Accesses) /\ last \in Seq(Accesses) /\ Len(most) = 4 /\ Len(last) = 1
    BY <1>2, <1>3, <1>4
  <2> HIDE DEF most
  <2>2. /\ s \in Seq(Accesses) /\ Len(s) = 5
        /\ \A i \in 1..5 : s[i] = IF i <= 4 THEN most[i] ELSE last[i - 4]
    <3> HIDE DEF last
    <3>1. /\ most \o last \in Seq(Accesses) /\ Len(most \o last) = Len(most) + Len(last)
          /\ \A i \in 1..(Len(most) + Len(last)) :
               (most \o last)[i] = IF i <= Len(most) THEN most[i] ELSE last[i - Len(most)]
      BY <2>1, ConcatProperties
    <3> QED
      BY <1>5, <2>1, <3>1
  <2>3. \A i \in 1..4 : s[i] = most[i]
    BY <2>2
  <2>4. s[5] = last[1]
    BY <2>2
  <2> QED
    BY <1>3, <1>4, <2>2, <2>3, <2>4 DEF most
<1>7. \A i \in 1..4 : Follows(s[i], s[i + 1])
  <2>1. SUFFICES ASSUME NEW i \in 1..4 PROVE Follows(s[i], s[i + 1])
    OBVIOUS
  <2>2. CASE i = 1
    BY <1>6, <2>2 DEF Follows, Outside
  <2>3. CASE i = 2
    BY <1>6, <2>3 DEF Follows, Outside
  <2>4. CASE i = 3
    BY <1>6, <2>4
  <2>5. CASE i = 4
    <3>1. b.do \in {"low", "readhigh", "store"}
      BY DEF Follows
    <3> QED
      BY <1>6, <2>5, <3>1 DEF Follows, Outside
  <2> QED
    BY <2>1, <2>2, <2>3, <2>4, <2>5
<1>8. Head(s).do = "save" /\ s # <<>>
  <2>1. s # <<>>
    <3>1. Len(<<>>) = 0
      OBVIOUS
    <3> QED
      BY <1>6, <3>1
  <2> QED
    BY <1>6, <2>1, TailFacts
<1> QED
  BY <1>6, <1>7, <1>8 DEF s, Serialized, Chained

LEMMA OneIsSerialized ==
  ASSUME NEW a \in Accesses, a.do \in Outside
  PROVE  Serialized(<<a>>)
<1>1. /\ <<a>> \in Seq(Accesses) /\ Len(<<a>>) = 1 /\ <<a>>[1] = a /\ Head(<<a>>) = a
      /\ <<a>> # <<>>
  OBVIOUS
<1> QED
  BY <1>1 DEF Serialized, Chained

LEMMA NoneIsSerialized == Serialized(<<>>)
  BY EmptySeq DEF Serialized, Chained

\* One call after another: what a call leaves is outside a barrier, where the
\* next one begins.
THEOREM CallsInTurn ==
  ASSUME NEW s, Serialized(s), NEW t, Serialized(t)
  PROVE  Serialized(s \o t)
<1> DEFINE u == s \o t
<1>1. s \in Seq(Accesses) /\ t \in Seq(Accesses)
  BY DEF Serialized
<1>2. /\ u \in Seq(Accesses) /\ Len(u) = Len(s) + Len(t) /\ Len(s) \in Nat /\ Len(t) \in Nat
      /\ \A i \in 1..(Len(s) + Len(t)) : u[i] = IF i <= Len(s) THEN s[i] ELSE t[i - Len(s)]
  BY <1>1, ConcatProperties, LenProperties
<1>3. CASE s = <<>>
  BY <1>1, <1>3, ConcatEmptySeq
<1>4. CASE t = <<>>
  BY <1>1, <1>4, ConcatEmptySeq
<1>5. CASE s # <<>> /\ t # <<>>
  <2>1. /\ Len(s) >= 1 /\ Len(t) >= 1 /\ Head(s) = s[1] /\ Head(t) = t[1]
        /\ u # <<>> /\ s[Len(s)] \in Accesses
    BY <1>1, <1>2, <1>5, TailFacts, EmptySeq, ElementOfSeq
  <2> HIDE DEF u
  <2>2. /\ \A i \in 1..(Len(s) - 1) : Follows(s[i], s[i + 1])
        /\ \A i \in 1..(Len(t) - 1) : Follows(t[i], t[i + 1])
        /\ s[Len(s)].do \in Outside \cup {"restore"} /\ t[Len(t)].do \in Outside \cup {"restore"}
        /\ s[1].do \in Outside \cup {"save"} /\ t[1].do \in Outside \cup {"save"}
    BY <1>5, <2>1 DEF Serialized, Chained
  <2>3. ASSUME NEW i \in 1..(Len(u) - 1) PROVE Follows(u[i], u[i + 1])
    <3>1. CASE i < Len(s)
      <4>1. u[i] = s[i] /\ u[i + 1] = s[i + 1] /\ i \in 1..(Len(s) - 1)
        BY <1>2, <3>1
      <4> QED
        BY <2>2, <4>1
    <3>2. CASE i = Len(s)
      <4>1. u[i] = s[Len(s)] /\ u[i + 1] = t[1]
        BY <1>2, <2>1, <3>2
      <4> QED
        BY <2>2, <4>1 DEF Follows, Outside
    <3>3. CASE i > Len(s)
      <4>1. PICK k \in 1..(Len(t) - 1) : i = Len(s) + k
        <5>1. i - Len(s) \in 1..(Len(t) - 1) /\ i = Len(s) + (i - Len(s))
          BY <1>2, <2>3, <3>3
        <5> QED
          BY <5>1
      <4>2. u[i] = t[k] /\ u[i + 1] = t[k + 1]
        BY <1>2, <4>1
      <4> QED
        BY <2>2, <4>1, <4>2
    <3> QED
      BY <1>2, <3>1, <3>2, <3>3
  <2>4. u[Len(u)] = t[Len(t)] /\ u[1] = s[1]
    BY <1>2, <2>1
  <2>5. Head(u) = u[1]
    BY <1>2, <2>1, TailFacts
  <2> QED
    BY <1>2, <2>1, <2>2, <2>3, <2>4, <2>5 DEF u, Serialized, Chained
<1> QED
  BY <1>3, <1>4, <1>5

Outputs ==
  {o \in [name : Names, timer : 0..2, register : Registers, period : Nat] :
     o.timer = TimerOf[o.name]}

LEMMA PutIsSerialized ==
  ASSUME NEW r \in Registers, NEW v \in Nat
  PROVE  Serialized(Put(r, v))
<1>1. CASE r \in Wide
  <2>1. v \div 256 \in Nat /\ v % 256 \in Nat
    OBVIOUS
  <2>2. Access("high", r, v \div 256) \in Accesses /\ Access("low", r, v % 256) \in Accesses
    BY <1>1, <2>1 DEF Access, Accesses
  <2>3. Follows(Access("high", r, v \div 256), Access("low", r, v % 256))
    BY DEF Access, Follows, Outside
  <2>4. Access("high", r, v \div 256).do = "high"
    BY DEF Access
  <2> QED
    BY <1>1, <2>2, <2>3, <2>4, PairIsSerialized DEF Put
<1>2. CASE r \notin Wide
  <2>1. Access("byte", r, v) \in Accesses /\ Access("byte", r, v).do = "byte"
    BY <1>2 DEF Access, Accesses
  <2> QED
    BY <1>2, <2>1, OneIsSerialized DEF Put, Outside
<1> QED
  BY <1>1, <1>2

LEMMA CheckIsSerialized ==
  ASSUME NEW r \in Registers, NEW v \in Nat
  PROVE  Serialized(Check(r, v))
<1>1. CASE r \in Wide
  <2>1. Access("readlow", r, v) \in Accesses /\ Access("readhigh", r, v) \in Accesses
    BY <1>1 DEF Access, Accesses
  <2>2. Follows(Access("readlow", r, v), Access("readhigh", r, v))
    BY DEF Access, Follows, Outside
  <2>3. Access("readlow", r, v).do = "readlow"
    BY DEF Access
  <2> QED
    BY <1>1, <2>1, <2>2, <2>3, PairIsSerialized DEF Check
<1>2. CASE r \notin Wide
  <2>1. Access("readbyte", r, v) \in Accesses /\ Access("readbyte", r, v).do = "readbyte"
    BY <1>2 DEF Access, Accesses
  <2> QED
    BY <1>2, <2>1, OneIsSerialized DEF Check, Outside
<1> QED
  BY <1>1, <1>2

LEMMA ConnectIsSerialized ==
  ASSUME NEW o \in Outputs, NEW on \in BOOLEAN
  PROVE  Serialized(Connect(o, on))
<1> DEFINE a == [do |-> "load", timer |-> o.timer]
           b == [do |-> "store", timer |-> o.timer, output |-> o.name, on |-> on]
<1>1. o.timer \in 0..2 /\ o.name \in Names /\ o.timer = TimerOf[o.name]
  BY DEF Outputs
<1>2. a \in Accesses /\ b \in Accesses
  BY <1>1 DEF Accesses
<1>3. a.do = "load" /\ Follows(a, b)
  BY DEF Follows, Outside
<1> QED
  BY <1>2, <1>3, PairIsSerialized DEF Connect

\* A duty write of any output, and so every program of calls, holds the barrier
\* over each word and each read-modify-write: writeTicks().
THEOREM DutyWritesAreSerialized ==
  ASSUME NEW o \in Outputs, NEW ticks \in Nat
  PROVE  Serialized(writeTicks(o, ticks))
<1>1. o.name \in Names /\ o.register \in Registers /\ o.period \in Nat
  BY DEF Outputs
<1>2. CASE ticks > o.period
  BY <1>2, NoneIsSerialized DEF writeTicks
<1>3. CASE ~(ticks > o.period) /\ ticks \in {0, o.period}
  <2>1. Serialized(Drive(o, ticks # 0))
    <3>1. [do |-> "pin", output |-> o.name, high |-> ticks # 0] \in Accesses
      BY <1>1 DEF Accesses
    <3> QED
      BY <3>1, OneIsSerialized DEF Drive, Outside
  <2>2. Serialized(Connect(o, FALSE))
    BY ConnectIsSerialized
  <2> QED
    BY <1>3, <2>1, <2>2, CallsInTurn DEF writeTicks
<1>4. CASE ~(ticks > o.period) /\ ticks \notin {0, o.period}
  <2>1. Serialized(Put(o.register, ticks - 1))
    <3>1. ticks - 1 \in Nat
      BY <1>4
    <3> QED
      BY <1>1, <3>1, PutIsSerialized
  <2>2. Serialized(Connect(o, TRUE))
    BY ConnectIsSerialized
  <2> QED
    BY <1>4, <2>1, <2>2, CallsInTurn DEF writeTicks
<1> QED
  BY <1>2, <1>3, <1>4
=============================================================================
