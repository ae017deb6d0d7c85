----------------------------- MODULE BoardHooks -----------------------------
(* The hooks of the boards as the writes they make, in order, and the         *)
(* programs that use them as the operations they perform.  A flag of a source *)
(* is a bit of its timer or of its controller:                                *)
(*   "clock"      the timer is running                                        *)
(*   "irq"        its interrupt is enabled (TOIE1, controller.enable())       *)
(*   "installed"  a handler is bound to it                                    *)
(* and "global" is the interrupt flag of the processor.  The value loaded in  *)
(* a counter only decides how soon the first overflow comes, which is left    *)
(* open.                                                                      *)
EXTENDS Sequences, Integers

Up(flag, s) == [op |-> "up", flag |-> <<flag, s>>]
Down(flag, s) == [op |-> "down", flag |-> <<flag, s>>]
Sei == Up("global", "cpu")

\* A write whose driver may refuse it; the start then fails.
Try(write) == [write EXCEPT !.op = "try"]
Check == [op |-> "try", flag |-> <<"checked", "cpu">>]

Prepare == [op |-> "prepare"]
Stop == [op |-> "stop"]
Forget(s) == [op |-> "forget", source |-> s]     \* clears the pending interrupt
Raise(s) == [op |-> "raise", source |-> s]
Post(s) == [op |-> "post", source |-> s]
Dispatch(n) == [op |-> "dispatch", left |-> n, done |-> 0, want |-> -1]
DispatchAll(n) == [Dispatch(n) EXCEPT !.want = n]
Callback(s) == [op |-> "callback", source |-> s]
Overrun == [op |-> "overrun"]
Report == [op |-> "report"]
ClearOverrun == [op |-> "clear"]
ExpectCalls(calls) == [op |-> "calls", calls |-> calls]
ExpectNoOverrun == [op |-> "no_overrun"]
ExpectOff(s) == [op |-> "off", source |-> s]
Await(s) == [op |-> "await", source |-> s]
Loop(body) == [op |-> "loop", body |-> body]

----------------------------------------------------------------------------
\* Boards.  "on" says whether the plan binds an interrupt.

\* Mutant: the interrupt is enabled, but not those of the processor.
DocsAvrMasked(on) ==
  [mask |-> <<Down("irq", "motor"), Down("clock", "motor")>>,
   configure |-> <<Down("clock", "motor")>>,
   install |-> <<>>,
   enable |-> IF on THEN <<Up("clock", "motor"), Up("irq", "motor")>>
              ELSE <<Up("clock", "motor")>>,
   cleanup |-> <<Down("irq", "motor"), Down("clock", "motor")>>,
   always |-> {<<"installed", "motor">>}]

\* ATmega328P, Timer1.  configure() assigns TCCR1B as a whole, which stops the
\* clock; enable_owned() starts it before it enables the interrupt and sei().
DocsAvr(on) ==
  [mask |-> <<Down("irq", "motor"), Down("clock", "motor")>>,
   configure |-> <<Down("clock", "motor")>>,
   install |-> <<>>,
   enable |-> IF on THEN <<Up("clock", "motor"), Up("irq", "motor"), Sei>>
              ELSE <<Up("clock", "motor")>>,
   cleanup |-> <<Down("irq", "motor"), Down("clock", "motor")>>,
   always |-> {<<"installed", "motor">>}]
GateAvr(on) == DocsAvr(on)
ExampleAvr(on) == DocsAvr(on)

\* ESP32, timer 0 of group 0: configure and install can fail.
DocsEsp(on) ==
  [mask |-> <<Down("irq", "motor")>>,
   configure |-> <<Try(Down("clock", "motor"))>>,
   install |-> IF on THEN <<Try(Up("installed", "motor"))>> ELSE <<>>,
   enable |-> IF on THEN <<Up("clock", "motor"), Up("irq", "motor")>>
              ELSE <<Up("clock", "motor")>>,
   cleanup |-> <<Down("irq", "motor"), Down("clock", "motor"),
                 Down("installed", "motor"), Forget("motor")>>,
   always |-> {<<"global", "cpu">>}]
GateEsp(on) == DocsEsp(on)
ExampleEsp(on) == DocsEsp(on)

\* The boards over the controller of the host.
DocsMock(on) ==
  [mask |-> <<Down("irq", "motor")>>,
   configure |-> <<>>,
   install |-> IF on THEN <<Try(Up("installed", "motor"))>> ELSE <<>>,
   enable |-> IF on THEN <<Up("irq", "motor")>> ELSE <<>>,
   cleanup |-> <<Down("irq", "motor"), Down("installed", "motor"), Forget("motor")>>,
   always |-> {<<"global", "cpu">>}]
GateMock(on) == [DocsMock(on) EXCEPT !.configure = <<Check>>]

\* The steps of the two controllers.
InstallBoth == <<Try(Up("installed", "a")), Try(Up("installed", "b"))>>
CleanupOf(s) == <<Down("irq", s), Down("installed", s), Forget(s)>>

\* Mutant: the first controller is enabled twice.
DeferredTwoHalfEnabled(on) ==
  [mask |-> <<Down("irq", "a"), Down("irq", "b")>>,
   configure |-> <<>>,
   install |-> IF on THEN InstallBoth ELSE <<>>,
   enable |-> <<Up("irq", "a"), Up("irq", "a")>>,
   cleanup |-> CleanupOf("a") \o CleanupOf("b"),
   always |-> {<<"global", "cpu">>}]

\* Two controllers, enabled one after the other whatever the plan binds.
DeferredTwo(on) ==
  [mask |-> <<Down("irq", "a"), Down("irq", "b")>>,
   configure |-> <<>>,
   install |-> IF on THEN InstallBoth ELSE <<>>,
   enable |-> <<Up("irq", "a"), Up("irq", "b")>>,
   cleanup |-> CleanupOf("a") \o CleanupOf("b"),
   always |-> {<<"global", "cpu">>}]

\* Application::start() of grevir-core: the hooks in order, and the queue made
\* ready before anything can post when an event is deferred to it.
Start(board, deferred) ==
  board.mask \o (IF deferred THEN <<Prepare>> ELSE <<>>)
  \o board.configure \o board.install \o board.enable

Failed(board, deferred) ==
  (IF deferred THEN <<Stop>> ELSE <<>>) \o board.cleanup

----------------------------------------------------------------------------
\* Programs: a board, the deliveries of its events and what main() or setup()
\* and loop() do.  "sync" says that an interrupt is taken when it is raised.
\* What a repeated start() returns, and a clean-up that fails, is AppStart's.

Program(board, sync, delivery, capacity, body) ==
  LET deferred == \E s \in DOMAIN delivery : delivery[s] \in {"elide", "stream"}
  IN  [board |-> board, sync |-> sync, delivery |-> delivery, capacity |-> capacity,
       code |-> Start(board, deferred) \o body, failure |-> Failed(board, deferred)]

Motor(delivery) == [s \in {"motor"} |-> delivery]
Unhandled == Motor("none")

\* interrupt-avr.ino and interrupt-esp32.ino: at most four callbacks a turn,
\* then the overrun is reported and cleared.
AvrSketch(capacity, budget) ==
  Program(DocsAvr(TRUE), FALSE, Motor("elide"), capacity,
          <<Loop(<<Dispatch(budget), Overrun>>)>>)
EspSketch(capacity, budget) ==
  Program(DocsEsp(TRUE), FALSE, Motor("elide"), capacity,
          <<Loop(<<Dispatch(budget), Overrun>>)>>)

\* interrupt-mock/main.cpp: two raises, one callback, no overrun.
MockExample ==
  Program(DocsMock(TRUE), TRUE, Motor("elide"), 4,
    <<Raise("motor"), Raise("motor"), ExpectCalls(Motor(0)), DispatchAll(1),
      ExpectCalls(Motor(1)), ExpectNoOverrun>>)

\* The gates' sketches have direct handlers and empty loops.
AvrExample == Program(ExampleAvr(TRUE), FALSE, Motor("direct"), 0, <<Loop(<<>>)>>)
EspExample == Program(ExampleEsp(TRUE), FALSE, Motor("direct"), 0, <<Loop(<<>>)>>)

\* Without a handler the plan binds nothing and the timer just runs.
ZeroHandlers ==
  {Program(board, FALSE, Unhandled, 0, <<Loop(<<>>)>>) :
     board \in {DocsAvr(FALSE), GateAvr(FALSE), DocsEsp(FALSE), GateEsp(FALSE)}}

\* avr_main.cpp starts Timer1 by itself; an overflow from before is discarded.
AvrMain ==
  LET hooks == GateAvr(TRUE)
  IN  [Program(hooks, FALSE, Motor("direct"), 0, <<>>) EXCEPT
         !.code = <<Down("irq", "motor"), Down("clock", "motor"), Forget("motor")>>
                  \o hooks.install
                  \o <<Up("clock", "motor"), Up("irq", "motor"), Sei, Await("motor")>>]

\* esp_sketch.ino installs the bindings and enables, without configuring.
EspGateSketch ==
  LET hooks == GateEsp(TRUE)
  IN  [Program(hooks, FALSE, Motor("direct"), 0, <<>>) EXCEPT
         !.code = hooks.install
                  \o <<Up("clock", "motor"), Up("irq", "motor"), Loop(<<>>)>>,
         !.failure = <<Loop(<<>>)>>]

\* mock_main.cpp, mock_event_main.cpp, mock_zero_main.cpp
MockMain ==
  Program(GateMock(TRUE), TRUE, Motor("direct"), 0,
          <<Raise("motor"), ExpectCalls(Motor(1))>>)
MockEventMain ==
  Program(GateMock(TRUE), TRUE, Motor("direct"), 0,
          <<Raise("motor"), ExpectCalls(Motor(1))>>)
MockZeroMain ==
  Program(GateMock(FALSE), TRUE, Unhandled, 0, <<ExpectOff("motor")>>)

\* mock_deferred_two_main.cpp, both ways GREVIR_TEST_STREAM_B compiles it.
TwoDeliveries(b) == [s \in {"a", "b"} |-> IF s = "a" THEN "elide" ELSE b]
TwoCalls(a, b) == [s \in {"a", "b"} |-> IF s = "a" THEN a ELSE b]
DeferredTwoMain(stream) ==
  Program(DeferredTwo(TRUE), TRUE, TwoDeliveries(IF stream THEN "stream" ELSE "elide"), 2,
    <<Raise("a"), Raise("b")>>
    \o IF stream
       THEN <<DispatchAll(1), Raise("b"), DispatchAll(2), ExpectCalls(TwoCalls(1, 2))>>
       ELSE <<DispatchAll(2), ExpectCalls(TwoCalls(1, 1))>>)

\* avr_stream_queue_probe.cpp looks at no result: its own check is that it links.
StreamQueueProbe ==
  [Program(DocsAvr(TRUE), FALSE, Motor("stream"), 4, <<>>) EXCEPT
     !.code = <<Prepare, Post("motor"), Post("motor"), Dispatch(2)>>]

----------------------------------------------------------------------------
\* The order the operations of every program keep

Has(operations, op) == \E i \in DOMAIN operations : operations[i].op = op
MayRaise(operation, flag, s) ==
  operation.op \in {"up", "try"} /\ operation.flag = <<flag, s>>
Raisable(p, flag, s) ==
  <<flag, s>> \in p.board.always \/ \E i \in DOMAIN p.code : MayRaise(p.code[i], flag, s)
DeferredIn(p) == {s \in DOMAIN p.delivery : p.delivery[s] \in {"elide", "stream"}}

\* The queue is made ready once, before anything is posted to it and before an
\* interrupt is enabled that would post.
QueueIsFirst(p) ==
  /\ \A i \in DOMAIN p.code :
       p.code[i].op = "post" \/ (\E s \in DeferredIn(p) : MayRaise(p.code[i], "irq", s)) =>
         \E j \in 1..i-1 : p.code[j].op = "prepare"
  /\ \A i, j \in DOMAIN p.code :
       p.code[i].op = "prepare" /\ p.code[j].op = "prepare" => i = j

\* No interrupt is enabled before the last driver that may refuse the start.
EnablingIsLast(p) ==
  /\ \A s \in DOMAIN p.delivery : <<"irq", s>> \notin p.board.always
  /\ \A i, j \in DOMAIN p.code, s \in DOMAIN p.delivery :
       p.code[i].op = "try" /\ MayRaise(p.code[j], "irq", s) => i < j

\* The clean-up after a refusal takes back whatever the start may have done: a
\* pending interrupt is cleared once the clock is stopped.  (A main that just
\* loops after a refusal cleans up nothing.)
CleansUp(p) ==
  Has(p.code, "try") /\ ~Has(p.failure, "loop") =>
    /\ \A s \in DOMAIN p.delivery, flag \in {"clock", "irq", "installed"} :
         Raisable(p, flag, s) => \E i \in DOMAIN p.failure : p.failure[i] = Down(flag, s)
    /\ \A s \in DOMAIN p.delivery : \E i \in DOMAIN p.failure :
         /\ p.failure[i] = Forget(s)
         /\ Raisable(p, "clock", s) => \E j \in 1..i-1 : p.failure[j] = Down("clock", s)
    /\ Has(p.code, "prepare") => Has(p.failure, "stop")

\* What only a dispatch or the test of the overrun adds is not written out, a
\* loop is a sketch's, and what is raised is a source of the program.
WrittenByHand(p) ==
  /\ \A op \in {"callback", "report", "clear"} : ~Has(p.code, op)
  /\ \A i \in DOMAIN p.code :
       /\ p.code[i].op = "loop" =>
            \A k \in DOMAIN p.code[i].body : p.code[i].body[k].op \in {"dispatch", "overrun"}
       /\ p.code[i].op = "raise" => p.code[i].source \in DOMAIN p.delivery

WellOrdered(p) ==
  QueueIsFirst(p) /\ EnablingIsLast(p) /\ CleansUp(p) /\ WrittenByHand(p)
=============================================================================
