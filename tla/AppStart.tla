------------------------------ MODULE AppStart ------------------------------
(***************************************************************************)
(* Application::start() over the boards of this repository, with the       *)
(* sketch that calls it.  The runner itself belongs to grevir-core; the    *)
(* phases, hooks and results are those of the boards that serve it         *)
(* (mock_app_base.hpp, mock_deferred_two_app.hpp, the AVR and ESP32        *)
(* boards), of mock_start_test.cpp and of the sketches.                    *)
(*                                                                         *)
(* Tasks call start() at any time; one of them runs the sketch, setup()    *)
(* and then loop() for ever.  The sources of the board raise at any time   *)
(* too: between two hooks, while sources are enabled one by one, and while *)
(* a failed start is cleaned up.  waits tells the two start policies       *)
(* apart: a caller that comes during setup waits for its outcome (host),   *)
(* or gets in_progress at once (ESP32).  With one task the policies agree  *)
(* (AVR).                                                                  *)
(***************************************************************************)
EXTENDS FiniteSets

CONSTANTS
  Tasks,    (* the tasks or threads that call start()                      *)
  Main,     (* the task that runs setup() and loop()                       *)
  Sources,  (* the selected interrupt sources, one event each              *)
  Direct,   (* those whose event has an on_interrupt handler               *)
  None      (* no task, no result                                          *)

\* The hooks that can fail: configure_ok, pending_ok, cleanup_ok.
Faults == {"configure", "settle", "cleanup"}

Steps == {"idle", "mask", "prepare", "configure", "setup", "install", "settle",
          "enable", "stop", "cleanup", "done"}

Failures == {"configuration_failed", "registration_failed", "pending_policy_failed"}

Result == [outcome     : Failures \cup {"success", "cleanup_failed", "in_progress"},
           origin      : Failures \cup {"none"},
           disposition : {"initiated", "waited", "replayed", "in_progress"}]

ASSUME StartAssumption ==
  /\ Main \in Tasks
  /\ Direct \subseteq Sources
  /\ None \notin Tasks \cup {"success", "cleanup_failed"} \cup Failures \cup Result

VARIABLES
  waits,      (* the start policy is HostStartPolicy                       *)
  broken,     (* the hooks that fail in this session                       *)
  rejecting,  (* the sources whose controller rejects an installation      *)
  step,       (* what the initiating call does next                        *)
  initiator,  (* the task that runs setup                                  *)
  outcome,    (* of setup, once it is settled                              *)
  origin,     (* the failure that started the clean-up                     *)
  at,         (* for each task: not in start(), initiating or waiting      *)
  result,     (* what the last start() of each task returned               *)
  enabled, installed, pending,  (* the state of the interrupt sources      *)
  queue,      (* the main-loop queue: stopped or ready                     *)
  queued,     (* the events in it (Elide: each at most once)               *)
  finished,   (* startup_finished                                          *)
  started,    (* esp_app::started                                          *)
  owed        (* history: sources that raised and had no handler call since *)

setup == <<waits, broken, rejecting, step, initiator, outcome, origin>>
calls == <<at, result, finished, started>>
hardware == <<enabled, installed, pending>>
work == <<queue, queued, owed>>
vars == <<setup, calls, hardware, work>>

Init ==
  /\ waits \in BOOLEAN
  /\ broken \in SUBSET Faults
  /\ rejecting \in SUBSET Sources
  /\ step = "idle"
  /\ initiator = None
  /\ outcome = None
  /\ origin = "none"
  /\ at = [t \in Tasks |-> "out"]
  /\ result = [t \in Tasks |-> None]
  /\ enabled = {} /\ installed = {} /\ pending = {}
  /\ queue = "stopped"
  /\ queued = {}
  /\ finished = FALSE
  /\ started = FALSE
  /\ owed = {}

-----------------------------------------------------------------------------
(* Calls of start() and their results.                                     *)

Settled(how) == [outcome |-> outcome, origin |-> origin, disposition |-> how]

InProgress == [outcome |-> "in_progress", origin |-> "none", disposition |-> "in_progress"]

\* Mutant: the sketch goes to work only if its own call ran the setup.
ReturnInitiated(t, r) ==
  /\ result' = [result EXCEPT ![t] = r]
  /\ at' = [at EXCEPT ![t] = "out"]
  /\ IF t = Main /\ r.outcome # "in_progress"
       THEN /\ finished' = TRUE
            /\ started' = (r.outcome = "success" /\ r.disposition = "initiated")
       ELSE UNCHANGED <<finished, started>>

\* start() returns r to task t; in the sketch's task, attempt_start goes on
\* with it.
Return(t, r) ==
  /\ result' = [result EXCEPT ![t] = r]
  /\ at' = [at EXCEPT ![t] = "out"]
  /\ IF t = Main /\ r.outcome # "in_progress"
       THEN /\ finished' = TRUE
            /\ started' = (r.outcome = "success")
       ELSE UNCHANGED <<finished, started>>

\* Task t calls start(); the sketch does until it has a settled result.
MayCall(t) == at[t] = "out" /\ (t = Main => ~finished)

\* Mutant: a failed start may be tried again.
InitiateAgain(t) ==
  /\ MayCall(t)
  /\ step = "idle" \/ (step = "done" /\ outcome # "success")
  /\ step' = "mask"
  /\ initiator' = t
  /\ at' = [at EXCEPT ![t] = "initiating"]
  /\ UNCHANGED <<waits, broken, rejecting, outcome, origin, result, finished, started, hardware, work>>

Initiate(t) ==
  /\ MayCall(t)
  /\ step = "idle"
  /\ step' = "mask"
  /\ initiator' = t
  /\ at' = [at EXCEPT ![t] = "initiating"]
  /\ UNCHANGED <<waits, broken, rejecting, outcome, origin, result, finished, started, hardware, work>>

\* A call while setup runs.
Overlap(t) ==
  /\ MayCall(t)
  /\ step \notin {"idle", "done"}
  /\ IF waits
       THEN /\ at' = [at EXCEPT ![t] = "waiting"]
            /\ UNCHANGED <<result, finished, started>>
       ELSE Return(t, InProgress)
  /\ UNCHANGED <<setup, hardware, work>>

Replay(t) ==
  /\ MayCall(t)
  /\ step = "done"
  /\ Return(t, Settled("replayed"))
  /\ UNCHANGED <<setup, hardware, work>>

\* Mutant: only a success wakes the callers that wait.
WakeOnSuccess(t) ==
  /\ at[t] = "waiting"
  /\ step = "done" /\ outcome = "success"
  /\ Return(t, Settled("waited"))
  /\ UNCHANGED <<setup, hardware, work>>

Wake(t) ==
  /\ at[t] = "waiting"
  /\ step = "done"
  /\ Return(t, Settled("waited"))
  /\ UNCHANGED <<setup, hardware, work>>

FinishInitiated ==
  /\ step = "done"
  /\ \E t \in Tasks : at[t] = "initiating" /\ Return(t, Settled("initiated"))
  /\ UNCHANGED <<setup, hardware, work>>

-----------------------------------------------------------------------------
(* The phases of setup, each a call of a hook of the board.                *)

Goto(s) == step' = s /\ UNCHANGED <<waits, broken, rejecting, initiator, outcome, origin>>

Fails(failure) ==
  /\ origin' = failure
  /\ step' = "stop"
  /\ UNCHANGED <<waits, broken, rejecting, initiator, outcome>>

Settle(verdict) ==
  /\ outcome' = verdict
  /\ step' = "done"
  /\ UNCHANGED <<waits, broken, rejecting, initiator, origin>>

MaskOwned ==
  /\ step = "mask"
  /\ enabled' = {}
  /\ Goto("prepare")
  /\ UNCHANGED <<calls, installed, pending, work>>

PrepareQueue ==
  /\ step = "prepare"
  /\ queue' = "ready" /\ queued' = {}
  /\ Goto("configure")
  /\ UNCHANGED <<calls, hardware, owed>>

Configure ==
  /\ step = "configure"
  /\ IF "configure" \in broken THEN Fails("configuration_failed") ELSE Goto("setup")
  /\ UNCHANGED <<calls, hardware, work>>

SetupModules ==
  /\ step = "setup"
  /\ Goto("install")
  /\ UNCHANGED <<calls, hardware, work>>

\* Mutant: a rejected installation is skipped.
InstallSkipping ==
  /\ step = "install"
  /\ \/ /\ installed = Sources \ rejecting
        /\ Goto("settle")
        /\ UNCHANGED installed
     \/ \E s \in Sources \ installed :
          /\ s \notin rejecting
          /\ installed' = installed \cup {s}
          /\ UNCHANGED setup
  /\ UNCHANGED <<calls, enabled, pending, work>>

\* One source after the other; the first that is rejected ends the setup.
Install ==
  /\ step = "install"
  /\ \/ /\ installed = Sources
        /\ Goto("settle")
        /\ UNCHANGED installed
     \/ \E s \in Sources \ installed :
          IF s \in rejecting
            THEN Fails("registration_failed") /\ UNCHANGED installed
            ELSE installed' = installed \cup {s} /\ UNCHANGED setup
  /\ UNCHANGED <<calls, enabled, pending, work>>

SettlePending ==
  /\ step = "settle"
  /\ IF "settle" \in broken THEN Fails("pending_policy_failed") ELSE Goto("enable")
  /\ UNCHANGED <<calls, hardware, work>>

\* Mutant: what is pending is cleared before the source is enabled.
EnableClearing ==
  /\ step = "enable"
  /\ \/ /\ enabled = Sources
        /\ Settle("success")
        /\ UNCHANGED <<enabled, pending>>
     \/ \E s \in Sources \ enabled :
          /\ enabled' = enabled \cup {s}
          /\ pending' = pending \ {s}
          /\ UNCHANGED setup
  /\ UNCHANGED <<calls, installed, work>>

\* One source after the other; what is pending stays so (enable_preserving_pending).
EnableOwned ==
  /\ step = "enable"
  /\ \/ enabled = Sources /\ Settle("success") /\ UNCHANGED enabled
     \/ \E s \in Sources \ enabled : enabled' = enabled \cup {s} /\ UNCHANGED setup
  /\ UNCHANGED <<calls, installed, pending, work>>

\* After a failure: sources masked, queue stopped and cleared, cleanup hook.
StopQueue ==
  /\ step = "stop"
  /\ enabled' = {}
  /\ queue' = "stopped" /\ queued' = {}
  /\ Goto("cleanup")
  /\ UNCHANGED <<calls, installed, pending, owed>>

\* Mutant: the failure that led here is reported whether cleanup works or not.
CleanupSilent ==
  /\ step = "cleanup"
  /\ enabled' = {}
  /\ Settle(origin)
  /\ IF "cleanup" \in broken
       THEN UNCHANGED <<installed, pending>>
       ELSE installed' = {} /\ pending' = {}
  /\ UNCHANGED <<calls, work>>

Cleanup ==
  /\ step = "cleanup"
  /\ enabled' = {}
  /\ IF "cleanup" \in broken
       THEN Settle("cleanup_failed") /\ UNCHANGED <<installed, pending>>
       ELSE Settle(origin) /\ installed' = {} /\ pending' = {}
  /\ UNCHANGED <<calls, work>>

Setup ==
  \/ MaskOwned
  \/ PrepareQueue
  \/ Configure
  \/ SetupModules
  \/ Install
  \/ SettlePending
  \/ EnableOwned
  \/ StopQueue
  \/ Cleanup

-----------------------------------------------------------------------------
(* The sources and the main loop.                                          *)

\* controller.raise(), from the device or from a handler (reraising).
Raise(s) ==
  /\ pending' = pending \cup {s}
  /\ owed' = owed \cup {s}
  /\ UNCHANGED <<setup, calls, enabled, installed, queue, queued>>

\* The entry of an enabled source acknowledges, then runs on_interrupt or posts
\* the event; a queue that is not ready refuses it (not_ready).
Deliver(s) ==
  /\ s \in enabled \cap installed \cap pending
  /\ pending' = pending \ {s}
  /\ IF s \in Direct
       THEN owed' = owed \ {s} /\ UNCHANGED queued
       ELSE /\ queued' = IF queue = "ready" THEN queued \cup {s} ELSE queued
            /\ UNCHANGED owed
  /\ UNCHANGED <<setup, calls, enabled, installed, queue>>

\* A callback that event::dispatch runs in loop().  The mark is cleared before.
Dispatch(s) ==
  /\ started
  /\ s \in queued
  /\ queued' = queued \ {s}
  /\ owed' = IF s \in pending THEN owed ELSE owed \ {s}
  /\ UNCHANGED <<setup, calls, hardware, queue>>

Next ==
  \/ \E t \in Tasks : Initiate(t) \/ Overlap(t) \/ Replay(t) \/ Wake(t)
  \/ FinishInitiated
  \/ Setup
  \/ \E s \in Sources : Raise(s) \/ Deliver(s) \/ Dispatch(s)

\* Every task runs: a call that is under way goes on, the sketch calls start()
\* in setup() and loop(), and loop() dispatches.  An enabled interrupt is taken.
\* No other task has to call, no source has to raise.
Fairness ==
  /\ WF_vars(Setup)
  /\ WF_vars(FinishInitiated)
  /\ \A t \in Tasks : WF_vars(Wake(t))
  /\ WF_vars(Initiate(Main) \/ Overlap(Main) \/ Replay(Main))
  /\ \A s \in Sources : WF_vars(Deliver(s)) /\ WF_vars(Dispatch(s))

Spec == Init /\ [][Next]_vars /\ Fairness

-----------------------------------------------------------------------------
TypeOK ==
  /\ waits \in BOOLEAN
  /\ broken \subseteq Faults /\ rejecting \subseteq Sources
  /\ step \in Steps
  /\ initiator \in Tasks \cup {None}
  /\ outcome \in Failures \cup {"success", "cleanup_failed", None}
  /\ origin \in Failures \cup {"none"}
  /\ at \in [Tasks -> {"out", "initiating", "waiting"}]
  /\ result \in [Tasks -> Result \cup {None}]
  /\ enabled \subseteq Sources
  /\ installed \subseteq Sources
  /\ pending \subseteq Sources
  /\ queue \in {"stopped", "ready"}
  /\ queued \subseteq Sources
  /\ finished \in BOOLEAN
  /\ started \in BOOLEAN
  /\ owed \subseteq Sources

\* No entry runs before every hook that prepares for it has: an enabled source
\* finds all handlers installed and the queue ready, also when a source raised
\* before start() and when the sources are enabled one by one.
ReadyBeforeDelivery ==
  enabled # {} =>
    /\ installed = Sources
    /\ queue = "ready"
    /\ step \in {"enable", "done"}
    /\ step = "done" => outcome = "success"

\* After a failed start every source is masked for good, no event is queued, the
\* first failure is kept, and a handler is still installed only if the outcome
\* says that cleanup failed (mock_start_test.cpp, failure()).
FailureIsContained ==
  step = "done" /\ outcome # "success" =>
    /\ enabled = {} /\ queued = {} /\ queue = "stopped"
    /\ origin \in Failures
    /\ outcome \in {origin, "cleanup_failed"}
    /\ installed # {} => outcome = "cleanup_failed"

\* All calls that return a settled result return the same outcome and origin,
\* whoever initiated, waited or came later, and at most one task initiated.
OneVerdict ==
  \A t \in Tasks : result[t] # None /\ result[t].outcome # "in_progress" =>
    /\ step = "done"
    /\ result[t].outcome = outcome
    /\ result[t].origin = origin
    /\ result[t].disposition = "initiated" => t = initiator

\* The sketch starts dependent work only after a start that succeeded.
WorkAfterSuccess ==
  /\ started => step = "done" /\ outcome = "success" /\ enabled = Sources
  /\ finished => step = "done"

\* A raise that no handler has answered is still pending at its source or queued
\* for the main loop, whenever it came, unless the start failed.
NoRaiseLost ==
  owed \subseteq pending \cup queued \/ (step = "done" /\ outcome # "success")

\* The inductive invariant: where the setup is, and what its hooks have done by then.
PhaseInv ==
  /\ (outcome = None) = (step # "done")
  /\ step \notin {"enable", "done"} => enabled = {} /\ queued = {}
  /\ step \in {"configure", "setup", "install", "settle", "enable"} => queue = "ready"
  /\ step \in {"settle", "enable"} => installed = Sources
  /\ step \in {"stop", "cleanup"} => origin \in Failures
  /\ step = "cleanup" => queue = "stopped"
  /\ step = "done" /\ outcome = "success" =>
       enabled = Sources /\ installed = Sources /\ queue = "ready"

CallInv ==
  /\ \A t \in Tasks : at[t] = "initiating" => t = initiator
  /\ step = "idle" => \A t \in Tasks : at[t] = "out"

StartInv ==
  /\ TypeOK
  /\ PhaseInv
  /\ CallInv
  /\ FailureIsContained
  /\ OneVerdict
  /\ NoRaiseLost
  /\ WorkAfterSuccess

\* A settled start is terminal: no later call runs a hook or changes the verdict,
\* and nothing is installed, released, enabled or masked any more.
Terminal ==
  [][step = "done" => UNCHANGED <<step, outcome, origin, enabled, installed, queue>>]_vars

\* A pending source is taken, and a queued event is dispatched, unless the start
\* fails: with NoRaiseLost, every raise leads to a handler call after it.
RaisesAreAnswered ==
  \A s \in Sources :
    /\ s \in pending ~> (s \notin pending \/ (step = "done" /\ outcome # "success"))
    /\ s \in queued ~> s \notin queued

\* Every call of start() returns, and the sketch ends with a settled result.
CallsReturn ==
  /\ \A t \in Tasks : at[t] # "out" ~> at[t] = "out"
  /\ <>finished
=============================================================================
