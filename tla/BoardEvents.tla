----------------------------- MODULE BoardEvents -----------------------------
(* A program of BoardHooks runs: its operations one by one, with the timers   *)
(* overflowing and the interrupts taken between any two of them.  A handler   *)
(* is called from the interrupt (Direct), or its event is posted to the       *)
(* main-loop context: Elide keeps one record per event, Stream one per        *)
(* firing, a full queue drops the firing and raises the sticky overrun, and   *)
(* the consumer removes a record before it makes the callback.                *)
EXTENDS BoardHooks, FiniteSets

CONSTANTS
  Programs,   \* the programs to run
  MaxRaises   \* how often each timer overflows at most

IsSequence(c) == c \in Seq({c[i] : i \in DOMAIN c})

\* The operations of a program are sequences, and in the order the boards keep.
KeepsOrder(p) ==
  /\ WellOrdered(p)
  /\ IsSequence(p.code) /\ IsSequence(p.failure)
  /\ \A i \in DOMAIN p.code : p.code[i].op = "loop" => IsSequence(p.code[i].body)

ASSUME ProgramsAssumption == \A p \in Programs : KeepsOrder(p)

VARIABLES
  program,   \* the program that runs
  code,      \* the operations left
  flags,     \* the flags that are up
  pending,   \* the sources whose interrupt is pending
  queue,     \* the main-loop context: "stopped" or "ready"
  records,   \* its records
  overrun,   \* its sticky flag
  calls,     \* how often the handler of each event was called, capped
  outcome,   \* of main(): "running", "ok", "failed" a check, "rejected" at start
  raises,    \* how often each source was raised
  due,       \* history: sources with an overflow that no handler call answers yet
  silent,    \* history: a drop raised the overrun and no report was made since
  early      \* history: an interrupt was taken while the queue was stopped

run == <<program, code, outcome>>
hardware == <<flags, pending, raises>>
context == <<queue, records, overrun>>
history == <<due, silent, early>>
vars == <<run, hardware, context, calls, history>>

Sources == DOMAIN program.delivery
Handled(s) == program.delivery[s] # "none"
Deferred(s) == program.delivery[s] \in {"elide", "stream"}
CallBound == 3

\* An overflow may be pending from before the program, and interrupts may be
\* enabled already.
Init ==
  /\ program \in Programs
  /\ code = program.code
  /\ flags \in {program.board.always, program.board.always \cup {<<"global", "cpu">>}}
  /\ pending \in IF program.sync THEN {{}} ELSE SUBSET Sources
  /\ queue = "stopped" /\ records = <<>> /\ overrun = FALSE
  /\ calls = [s \in Sources |-> 0]
  /\ outcome = "running"
  /\ raises = [s \in Sources |-> 0]
  /\ due = {s \in pending : Handled(s)}
  /\ silent = FALSE /\ early = FALSE

----------------------------------------------------------------------------
\* Interrupts

Serviceable(s) ==
  /\ s \in pending
  /\ {<<"irq", s>>, <<"installed", s>>, <<"global", "cpu">>} \subseteq flags

\* The handler of s is called.
Called(s) ==
  /\ calls' = [calls EXCEPT ![s] = IF @ = CallBound THEN @ ELSE @ + 1]
  /\ due' = due \ {s}

\* Mutant: any record that is queued stands for the event.
PostedAsAny(s) ==
  LET coalesced == program.delivery[s] = "elide" /\ records # <<>>
      full == Len(records) >= program.capacity
  IN  /\ records' = IF coalesced \/ full THEN records ELSE Append(records, s)
      /\ overrun' = (overrun \/ (~coalesced /\ full))
      /\ silent' = (silent \/ (~coalesced /\ full /\ ~overrun))
      /\ due' = IF full /\ ~coalesced THEN due \ {s} ELSE due
      /\ UNCHANGED <<queue, calls>>

\* post_from_isr(): coalesced, queued or full.
Posted(s) ==
  LET held == s \in {records[i] : i \in DOMAIN records}
      coalesced == program.delivery[s] = "elide" /\ held
      full == Len(records) >= program.capacity
  IN  /\ records' = IF coalesced \/ full THEN records ELSE Append(records, s)
      /\ overrun' = (overrun \/ (~coalesced /\ full))
      /\ silent' = (silent \/ (~coalesced /\ full /\ ~overrun))
      /\ due' = IF full /\ ~held THEN due \ {s} ELSE due
      /\ UNCHANGED <<queue, calls>>

\* The source is acknowledged and its binding runs.
Serve(s) ==
  /\ Serviceable(s)
  /\ pending' = pending \ {s}
  /\ \/ /\ ~Deferred(s)
        /\ Called(s)
        /\ UNCHANGED <<context, silent, early>>
     \/ /\ Deferred(s) /\ queue = "ready"
        /\ Posted(s)
        /\ UNCHANGED early
     \/ /\ Deferred(s) /\ queue = "stopped"
        /\ early' = TRUE
        /\ due' = due \ {s}
        /\ UNCHANGED <<context, calls, silent>>
  /\ UNCHANGED <<run, flags, raises>>

\* A running timer overflows; a second overflow before the first is served is
\* the same flag.
Overflow(s) ==
  /\ ~program.sync
  /\ <<"clock", s>> \in flags
  /\ raises[s] < MaxRaises
  /\ raises' = [raises EXCEPT ![s] = @ + 1]
  /\ pending' = pending \cup {s}
  /\ due' = IF Handled(s) THEN due \cup {s} ELSE due
  /\ UNCHANGED <<run, flags, context, calls, silent, early>>

----------------------------------------------------------------------------
\* The operations of the program

\* With a controller of the host an interrupt is served before raise() returns.
MayRun == program.sync => \A s \in Sources : ~Serviceable(s)

At(op) == code # <<>> /\ Head(code).op = op /\ MayRun /\ outcome = "running"

Go(rest) == code' = rest /\ UNCHANGED <<program, outcome>>

Write ==
  /\ \/ At("up") /\ flags' = flags \cup {Head(code).flag}
     \/ At("down") /\ flags' = flags \ {Head(code).flag}
  /\ Go(Tail(code))
  /\ UNCHANGED <<pending, raises, context, calls, history>>

\* Mutant: a start that a driver refuses returns without its clean-up.
TryHookReturns ==
  /\ At("try")
  /\ \/ /\ flags' = IF Head(code).flag[1] = "clock" THEN flags \ {Head(code).flag}
                    ELSE flags \cup {Head(code).flag}
        /\ Go(Tail(code))
        /\ UNCHANGED due
     \/ /\ code' = <<>>
        /\ outcome' = "rejected"
        /\ due' = {}
        /\ UNCHANGED <<program, flags>>
  /\ UNCHANGED <<pending, raises, context, calls, silent, early>>

\* The driver accepts, or start() cleans up and the program gives up.
TryHook ==
  /\ At("try")
  /\ \/ /\ flags' = IF Head(code).flag[1] = "clock" THEN flags \ {Head(code).flag}
                    ELSE flags \cup {Head(code).flag}
        /\ Go(Tail(code))
        /\ UNCHANGED due
     \/ /\ code' = program.failure
        /\ outcome' = "rejected"
        /\ due' = {}
        /\ UNCHANGED <<program, flags>>
  /\ UNCHANGED <<pending, raises, context, calls, silent, early>>

\* The clean-up of a failed start.
CleanUp ==
  /\ outcome = "rejected" /\ code # <<>> /\ Head(code).op # "loop"
  /\ code' = Tail(code)
  /\ flags' = IF Head(code).op = "down" THEN flags \ {Head(code).flag} ELSE flags
  /\ pending' = IF Head(code).op = "forget" THEN pending \ {Head(code).source} ELSE pending
  /\ queue' = IF Head(code).op = "stop" THEN "stopped" ELSE queue
  /\ records' = IF Head(code).op = "stop" THEN <<>> ELSE records
  /\ UNCHANGED <<program, outcome, raises, overrun, calls, history>>

PrepareQueue ==
  /\ At("prepare")
  /\ queue' = "ready" /\ records' = <<>> /\ overrun' = FALSE
  /\ Go(Tail(code))
  /\ UNCHANGED <<hardware, calls, history>>

ForgetPending ==
  /\ At("forget")
  /\ pending' = pending \ {Head(code).source}
  /\ due' = due \ {Head(code).source}
  /\ Go(Tail(code))
  /\ UNCHANGED <<flags, raises, context, calls, silent, early>>

\* controller.raise()
RaiseSource ==
  /\ At("raise")
  /\ pending' = pending \cup {Head(code).source}
  /\ due' = due \cup {Head(code).source}
  /\ Go(Tail(code))
  /\ UNCHANGED <<flags, raises, context, calls, silent, early>>

PostDirectly ==
  /\ At("post")
  /\ Posted(Head(code).source)
  /\ Go(Tail(code))
  /\ UNCHANGED <<hardware, early>>

\* dispatch(n): a record is removed before its callback; what the call returns
\* is how many it made.
DispatchOne ==
  /\ At("dispatch")
  /\ Head(code).left > 0 /\ records # <<>>
  /\ records' = Tail(records)
  /\ Go(<<Callback(Head(records)),
          [Head(code) EXCEPT !.left = @ - 1, !.done = @ + 1]>> \o Tail(code))
  /\ UNCHANGED <<hardware, queue, overrun, calls, history>>

RunCallback ==
  /\ At("callback")
  /\ Called(Head(code).source)
  /\ Go(Tail(code))
  /\ UNCHANGED <<hardware, context, silent, early>>

DispatchReturns ==
  /\ At("dispatch")
  /\ Head(code).left = 0 \/ records = <<>>
  /\ code' = Tail(code)
  /\ outcome' = IF Head(code).want \in {-1, Head(code).done} THEN outcome ELSE "failed"
  /\ UNCHANGED <<program, hardware, context, calls, history>>

\* Mutant: the flag is cleared and tested again for the report.
TestOverrunCleared ==
  /\ At("overrun")
  /\ Go(IF overrun THEN <<ClearOverrun, Report>> \o Tail(code) ELSE Tail(code))
  /\ UNCHANGED <<hardware, context, calls, history>>

\* if (overrun()) { report; clear_overrun(); }
TestOverrun ==
  /\ At("overrun")
  /\ Go(IF overrun THEN <<Report, ClearOverrun>> \o Tail(code) ELSE Tail(code))
  /\ UNCHANGED <<hardware, context, calls, history>>

ReportOverrun ==
  /\ At("report")
  /\ silent' = FALSE
  /\ Go(Tail(code))
  /\ UNCHANGED <<hardware, context, calls, due, early>>

ClearFlag ==
  /\ At("clear")
  /\ overrun' = FALSE
  /\ Go(Tail(code))
  /\ UNCHANGED <<hardware, queue, records, calls, history>>

\* A check of main() passes, or main() returns its error.
Expect ==
  /\ \/ At("calls") /\ outcome' = IF calls = Head(code).calls THEN outcome ELSE "failed"
     \/ At("no_overrun") /\ outcome' = IF overrun THEN "failed" ELSE outcome
     \/ /\ At("off")
        /\ outcome' = IF {<<"irq", Head(code).source>>, <<"installed", Head(code).source>>}
                         \cap flags = {} THEN outcome ELSE "failed"
  /\ code' = Tail(code)
  /\ UNCHANGED <<program, hardware, context, calls, history>>

\* while (ticks == 0) {}
AwaitTick ==
  /\ At("await") /\ calls[Head(code).source] > 0
  /\ Go(Tail(code))
  /\ UNCHANGED <<hardware, context, calls, history>>

Repeat ==
  /\ At("loop") /\ Head(code).body # <<>>
  /\ Go(Head(code).body \o code)
  /\ UNCHANGED <<hardware, context, calls, history>>

Return ==
  /\ code = <<>> /\ outcome = "running" /\ MayRun
  /\ outcome' = "ok"
  /\ UNCHANGED <<program, code, hardware, context, calls, history>>

Step ==
  \/ Write \/ TryHook \/ CleanUp \/ PrepareQueue \/ ForgetPending \/ RaiseSource
  \/ PostDirectly \/ DispatchOne \/ RunCallback \/ DispatchReturns \/ TestOverrun
  \/ ReportOverrun \/ ClearFlag \/ Expect \/ AwaitTick \/ Repeat \/ Return

Next == Step \/ \E s \in Sources : Serve(s) \/ Overflow(s)

\* The processor goes on with the program and takes enabled interrupts; a timer
\* that overflows only if it likes.
Spec == /\ Init /\ [][Next]_vars
        /\ WF_vars(Step)
        /\ \A s \in {"motor", "a", "b"} : WF_vars(s \in Sources /\ Serve(s))

----------------------------------------------------------------------------
\* Properties

\* No interrupt is taken before the start has made the queue ready, and a start
\* that a driver refused halfway leaves no timer running, no interrupt enabled,
\* no handler bound and nothing queued or pending.
ReadyBeforeInterrupts ==
  /\ ~early
  /\ (outcome = "rejected" /\ code = <<>>) =>
       /\ \A s \in Sources, flag \in {"clock", "irq", "installed"} : <<flag, s>> \notin flags
       /\ records = <<>> /\ pending = {}

\* Each main() of the examples and gates passes its own checks, or its start
\* was refused.
MainsPass == outcome # "failed"

\* An overrun that a drop raised is not cleared before it was reported.
DropsAreReported == silent => overrun

\* An overflow that a handler is declared for is pending at its source, queued
\* or the next callback until the handler is called: interrupts that come
\* between any two statements, coalescing and the start of the queue lose none.
\* What a full queue, an early interrupt or a clean-up drops is no longer due.
OverflowsAreHeld ==
  outcome # "rejected" =>
    \A s \in due :
      \/ s \in pending
      \/ \E i \in DOMAIN records : records[i] = s
      \/ code # <<>> /\ Head(code) = Callback(s)

\* An overflow that a handler is declared for is answered by a call of it:
\* one that was pending before the start, one that came between two hooks and
\* one during a callback, unless the queue was full or the start was refused.
OverflowsAreAnswered ==
  \A s \in {"motor", "a", "b"} : s \in due ~> s \notin due
=============================================================================
