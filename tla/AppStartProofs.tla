--------------------------- MODULE AppStartProofs ---------------------------
(* Proofs about AppStart: for any tasks, sources and faults, and for both    *)
(* start policies, no entry runs early, a failure is contained, all calls    *)
(* get one verdict, the verdict is final and no raise is lost.               *)
EXTENDS AppStart, TLAPS

\* A call that comes to an end with what is settled.
Answer(t, how) == step = "done" /\ Return(t, Settled(how)) /\ UNCHANGED <<setup, hardware, work>>

\* Calls that end are of one of two kinds: setup is done, or runs and does not wait.
LEMMA Answers ==
  ASSUME NEW t \in Tasks
  PROVE  /\ Replay(t) => Answer(t, "replayed")
         /\ Wake(t) => Answer(t, "waited")
BY DEF Replay, Wake, Answer

\* What is settled is a result.
LEMMA SettledResult ==
  ASSUME TypeOK, PhaseInv, step = "done", NEW how \in {"initiated", "waited", "replayed"}
  PROVE  Settled(how) \in Result /\ Settled(how).outcome = outcome /\ outcome # None
BY DEF TypeOK, PhaseInv, Settled, Result

\* What a call that returns r leaves alone and what it sets.
LEMMA Returning ==
  ASSUME TypeOK, NEW t \in Tasks, NEW r \in Result, Return(t, r)
  PROVE  /\ result' \in [Tasks -> Result \cup {None}] /\ at' \in [Tasks -> {"out", "initiating", "waiting"}]
         /\ finished' \in BOOLEAN /\ started' \in BOOLEAN
         /\ \A u \in Tasks : /\ at'[u] = IF u = t THEN "out" ELSE at[u]
                             /\ result'[u] = IF u = t THEN r ELSE result[u]
         /\ started' => started \/ r.outcome = "success"
         /\ finished' => finished \/ r.outcome # "in_progress"
BY DEF TypeOK, Return, Result

\* Every step keeps the types.
LEMMA Typing == TypeOK /\ PhaseInv /\ [Next]_vars => TypeOK'
<1> SUFFICES ASSUME TypeOK, PhaseInv, [Next]_vars PROVE TypeOK'
  OBVIOUS
<1>1. CASE UNCHANGED vars
  BY <1>1 DEF vars, setup, calls, hardware, work, TypeOK
<1>2. ASSUME NEW t \in Tasks, Initiate(t) PROVE TypeOK'
  BY <1>2 DEF Initiate, hardware, work, TypeOK, Steps
<1>3. ASSUME NEW t \in Tasks, Overlap(t) PROVE TypeOK'
  <2>1. CASE waits
    BY <1>3, <2>1 DEF Overlap, setup, hardware, work, TypeOK
  <2>2. CASE ~waits
    <3>1. InProgress \in Result /\ Return(t, InProgress)
      BY <1>3, <2>2 DEF Overlap, InProgress, Result
    <3> QED
      BY <1>3, <3>1, Returning DEF Overlap, setup, hardware, work, TypeOK
  <2> QED
    BY <2>1, <2>2
<1>4. ASSUME NEW t \in Tasks, NEW how \in {"initiated", "waited", "replayed"}, Answer(t, how)
      PROVE TypeOK'
  <2>1. Settled(how) \in Result
    BY <1>4, SettledResult DEF Answer
  <2> QED
    BY <1>4, <2>1, Returning DEF Answer, setup, hardware, work, TypeOK
<1>5. CASE Setup
  <2> USE DEF TypeOK, Steps, Failures, Faults
  <2>1. CASE MaskOwned \/ PrepareQueue \/ SetupModules
    BY <2>1 DEF MaskOwned, PrepareQueue, SetupModules, Goto, calls, hardware, work
  <2>4. CASE Configure
    BY <2>4 DEF Configure, Goto, Fails, calls, hardware, work
  <2>2. CASE Install
    BY <2>2 DEF Install, Goto, Fails, setup, calls, work
  <2>5. CASE SettlePending
    BY <2>5 DEF SettlePending, Goto, Fails, calls, hardware, work
  <2>6. CASE EnableOwned
    BY <2>6 DEF EnableOwned, Settle, setup, calls, work
  <2>3. CASE StopQueue \/ Cleanup
    BY <2>3 DEF StopQueue, Cleanup, Goto, Settle, calls, hardware, work, PhaseInv
  <2> QED
    BY <1>5, <2>1, <2>2, <2>3, <2>4, <2>5, <2>6 DEF Setup
<1>6. ASSUME NEW s \in Sources, Raise(s) \/ Deliver(s) \/ Dispatch(s) PROVE TypeOK'
  BY <1>6 DEF Raise, Deliver, Dispatch, setup, calls, hardware, TypeOK
<1> QED
  BY <1>1, <1>2, <1>3, <1>4, <1>5, <1>6, Answers DEF Next, FinishInitiated, Answer

\* The phases of setup keep what they set up.
LEMMA PhaseStep == StartInv /\ [Next]_vars => PhaseInv'
<1> SUFFICES ASSUME StartInv, [Next]_vars PROVE PhaseInv'
  OBVIOUS
<1> USE DEF StartInv, PhaseInv
<1>1. CASE UNCHANGED vars
  BY <1>1 DEF vars, setup, hardware, work
<1>2. ASSUME NEW t \in Tasks, Initiate(t) PROVE PhaseInv'
  BY <1>2 DEF Initiate, hardware, work
<1>3. ASSUME NEW t \in Tasks, Overlap(t) PROVE PhaseInv'
  BY <1>3 DEF Overlap, setup, hardware, work
<1>4. ASSUME NEW t \in Tasks, NEW how, Answer(t, how) PROVE PhaseInv'
  BY <1>4 DEF Answer, setup, hardware, work
<1>5. CASE Setup
  <2>1. CASE MaskOwned \/ PrepareQueue \/ SetupModules
    BY <2>1 DEF MaskOwned, PrepareQueue, SetupModules, Goto, calls, hardware, work
  <2>2. CASE Configure \/ SettlePending
    BY <2>2 DEF Configure, SettlePending, Goto, Fails, calls, hardware, work, Failures
  <2>3. CASE Install
    BY <2>3 DEF Install, Goto, Fails, setup, calls, hardware, work, Failures
  <2>4. CASE EnableOwned
    BY <2>4, StartAssumption DEF EnableOwned, Settle, setup, calls, hardware, work
  <2>5. CASE StopQueue
    BY <2>5 DEF StopQueue, Goto, calls, hardware, work
  <2>6. CASE Cleanup
    BY <2>6, StartAssumption DEF Cleanup, Settle, calls, hardware, work, Failures
  <2> QED
    BY <1>5, <2>1, <2>2, <2>3, <2>4, <2>5, <2>6 DEF Setup
<1>6. ASSUME NEW s \in Sources, Raise(s) \/ Deliver(s) \/ Dispatch(s) PROVE PhaseInv'
  BY <1>6 DEF Raise, Deliver, Dispatch, setup, calls, hardware, TypeOK, WorkAfterSuccess
<1> QED
  BY <1>1, <1>2, <1>3, <1>4, <1>5, <1>6, Answers DEF Next, FinishInitiated, Answer

\* A failure stays contained.
LEMMA FailureStep == StartInv /\ [Next]_vars => FailureIsContained'
<1> SUFFICES ASSUME StartInv, [Next]_vars PROVE FailureIsContained'
  OBVIOUS
<1> USE DEF StartInv, PhaseInv, FailureIsContained
<1>1. CASE UNCHANGED vars
  BY <1>1 DEF vars, setup, hardware, work
<1>2. ASSUME NEW t \in Tasks, Initiate(t) \/ Overlap(t) PROVE FailureIsContained'
  BY <1>2 DEF Initiate, Overlap, setup, hardware, work
<1>4. ASSUME NEW t \in Tasks, NEW how, Answer(t, how) PROVE FailureIsContained'
  BY <1>4 DEF Answer, setup, hardware, work
<1>5. CASE Setup
  <2>1. CASE MaskOwned \/ PrepareQueue \/ SetupModules \/ StopQueue
    BY <2>1 DEF MaskOwned, PrepareQueue, SetupModules, StopQueue, Goto
  <2>2. CASE Configure \/ SettlePending
    BY <2>2 DEF Configure, SettlePending, Goto, Fails
  <2>3. CASE Install
    BY <2>3 DEF Install, Goto, Fails, setup
  <2>4. CASE EnableOwned
    BY <2>4 DEF EnableOwned, Settle, setup
  <2>6. CASE Cleanup
    BY <2>6 DEF Cleanup, Settle, work
  <2> QED
    BY <1>5, <2>1, <2>2, <2>3, <2>4, <2>6 DEF Setup
<1>6. ASSUME NEW s \in Sources, Raise(s) \/ Deliver(s) \/ Dispatch(s) PROVE FailureIsContained'
  BY <1>6 DEF Raise, Deliver, Dispatch, setup, calls, hardware, TypeOK, WorkAfterSuccess
<1> QED
  BY <1>1, <1>2, <1>4, <1>5, <1>6, Answers DEF Next, FinishInitiated, Answer

\* A verdict does not change once it is out: a settled start is terminal.
LEMMA TerminalStep ==
  StartInv /\ [Next]_vars /\ step = "done"
    => UNCHANGED <<step, initiator, outcome, origin, enabled, installed, queue>>
<1> SUFFICES ASSUME StartInv, [Next]_vars, step = "done"
             PROVE  UNCHANGED <<step, initiator, outcome, origin, enabled, installed, queue>>
  OBVIOUS
<1>1. ~Setup
  BY DEF Setup, MaskOwned, PrepareQueue, Configure, SetupModules, Install, SettlePending,
         EnableOwned, StopQueue, Cleanup
<1> QED
  BY <1>1 DEF Next, Initiate, Overlap, Replay, Wake, FinishInitiated, Raise, Deliver, Dispatch,
              vars, setup, calls, hardware, work

\* The calls: one initiator, one verdict, and dependent work after a success.
LEMMA CallStep == StartInv /\ [Next]_vars => CallInv' /\ OneVerdict' /\ WorkAfterSuccess'
<1> DEFINE Goal == CallInv' /\ OneVerdict' /\ WorkAfterSuccess'
<1> SUFFICES ASSUME StartInv, [Next]_vars PROVE Goal
  OBVIOUS
<1> USE DEF StartInv, CallInv, OneVerdict, WorkAfterSuccess
<1>1. CASE UNCHANGED vars
  BY <1>1 DEF vars, setup, calls, hardware, work
<1>2. ASSUME NEW t \in Tasks, Initiate(t) PROVE Goal
  BY <1>2 DEF Initiate, hardware, work, TypeOK
<1>3. ASSUME NEW t \in Tasks, Overlap(t) PROVE Goal
  <2>1. CASE waits
    BY <1>3, <2>1 DEF Overlap, setup, hardware, work, TypeOK
  <2>2. CASE ~waits
    <3>1. InProgress \in Result /\ Return(t, InProgress) /\ InProgress.outcome = "in_progress"
      BY <1>3, <2>2 DEF Overlap, InProgress, Result
    <3> QED
      BY <1>3, <3>1, Returning DEF Overlap, setup, hardware, work
  <2> QED
    BY <2>1, <2>2
<1>4. ASSUME NEW t \in Tasks, NEW how \in {"initiated", "waited", "replayed"}, Answer(t, how),
             how = "initiated" => at[t] = "initiating"
      PROVE Goal
  <2>1. Settled(how) \in Result /\ Settled(how).outcome = outcome /\ Settled(how).origin = origin
        /\ Settled(how).disposition = how
    BY <1>4, SettledResult DEF Answer, Settled
  <2>2. UNCHANGED <<step, initiator, outcome, origin, enabled>> /\ step = "done"
    BY <1>4 DEF Answer, setup, hardware
  <2>3. outcome = "success" => enabled = Sources
    BY <2>2 DEF PhaseInv
  <2> QED
    BY <1>4, <2>1, <2>2, <2>3, Returning DEF Answer
<1>5. CASE Setup
  <2>1. step # "idle" /\ step # "done" /\ step' # "idle" /\ UNCHANGED <<initiator, calls>>
    BY <1>5 DEF Setup, MaskOwned, PrepareQueue, Configure, SetupModules, Install, SettlePending,
         EnableOwned, StopQueue, Cleanup, Goto, Fails, Settle, setup
  <2> QED
    BY <2>1 DEF calls
<1>6. ASSUME NEW s \in Sources, Raise(s) \/ Deliver(s) \/ Dispatch(s) PROVE Goal
  BY <1>6 DEF Raise, Deliver, Dispatch, setup, calls, hardware
<1>7. CASE FinishInitiated
  BY <1>7, <1>4 DEF FinishInitiated, Answer
<1>8. ASSUME NEW t \in Tasks, Replay(t) \/ Wake(t) PROVE Goal
  BY <1>8, <1>4, Answers
<1> QED
  BY <1>1, <1>2, <1>3, <1>5, <1>6, <1>7, <1>8 DEF Next

\* A raise that is not answered stays pending or queued.
LEMMA RaiseStep == StartInv /\ [Next]_vars => NoRaiseLost'
<1> SUFFICES ASSUME StartInv, [Next]_vars PROVE NoRaiseLost'
  OBVIOUS
<1> USE DEF StartInv, NoRaiseLost, PhaseInv
<1>1. CASE UNCHANGED vars
  BY <1>1 DEF vars, setup, hardware, work
<1>2. ASSUME NEW t \in Tasks, Initiate(t) \/ Overlap(t) PROVE NoRaiseLost'
  BY <1>2 DEF Initiate, Overlap, setup, hardware, work
<1>3. ASSUME NEW t \in Tasks, NEW how, Answer(t, how) PROVE NoRaiseLost'
  BY <1>3 DEF Answer, setup, hardware, work
<1>4. CASE Setup
  <2>1. CASE MaskOwned \/ PrepareQueue \/ Configure \/ SetupModules \/ SettlePending \/ StopQueue
    BY <2>1 DEF MaskOwned, PrepareQueue, Configure, SetupModules, SettlePending, StopQueue, Goto, Fails,
                hardware, work
  <2>2. CASE Install \/ EnableOwned
    BY <2>2 DEF Install, EnableOwned, Goto, Fails, Settle, setup, hardware, work
  <2>3. CASE Cleanup
    BY <2>3 DEF Cleanup, Settle, Failures
  <2> QED
    BY <1>4, <2>1, <2>2, <2>3 DEF Setup
<1>5. ASSUME NEW s \in Sources, Raise(s) PROVE NoRaiseLost'
  BY <1>5 DEF Raise, setup
<1>6. ASSUME NEW s \in Sources, Deliver(s) PROVE NoRaiseLost'
  <2>1. queue = "ready" \/ (step = "done" /\ outcome # "success")
    BY <1>6 DEF Deliver
  <2> QED
    BY <1>6, <2>1 DEF Deliver, setup
<1>7. ASSUME NEW s \in Sources, Dispatch(s) PROVE NoRaiseLost'
  BY <1>7 DEF Dispatch, setup, hardware
<1> QED
  BY <1>1, <1>2, <1>3, <1>4, <1>5, <1>6, <1>7, Answers DEF Next, FinishInitiated, Answer

\* The inductive invariant holds in every session.
THEOREM InductiveInvariant == Spec => []StartInv
<1>1. Init => StartInv
  BY StartAssumption DEF Init, StartInv, TypeOK, PhaseInv, CallInv, FailureIsContained, OneVerdict,
     NoRaiseLost, WorkAfterSuccess, Steps
<1>2. StartInv /\ [Next]_vars => StartInv'
  BY Typing, PhaseStep, FailureStep, CallStep, RaiseStep DEF StartInv
<1> QED
  BY <1>1, <1>2, PTL DEF Spec

\* No entry of an interrupt runs before every hook that prepares for it.
THEOREM NothingRunsEarly == Spec => []ReadyBeforeDelivery
<1>1. StartInv => ReadyBeforeDelivery
  BY DEF StartInv, PhaseInv, FailureIsContained, ReadyBeforeDelivery
<1> QED
  BY <1>1, InductiveInvariant, PTL

\* A failed start leaves sources masked and the queue empty and stopped, and
\* says so if a handler could not be released.
THEOREM FailuresAreContained == Spec => []FailureIsContained
<1>1. StartInv => FailureIsContained
  BY DEF StartInv
<1> QED
  BY <1>1, InductiveInvariant, PTL

\* All callers get one verdict.
THEOREM CallersAgree == Spec => []OneVerdict
<1>1. StartInv => OneVerdict
  BY DEF StartInv
<1> QED
  BY <1>1, InductiveInvariant, PTL

\* No raise is lost before, during or after a start that does not fail.
THEOREM RaisesAreKept == Spec => []NoRaiseLost
<1>1. StartInv => NoRaiseLost
  BY DEF StartInv
<1> QED
  BY <1>1, InductiveInvariant, PTL

\* The sketch starts dependent work only after a start that succeeded.
THEOREM WorkWaits == Spec => []WorkAfterSuccess
<1>1. StartInv => WorkAfterSuccess
  BY DEF StartInv
<1> QED
  BY <1>1, InductiveInvariant, PTL

\* A settled start is terminal.
THEOREM VerdictIsFinal == Spec => Terminal
<1>1. StartInv /\ [Next]_vars =>
        [step = "done" => UNCHANGED <<step, outcome, origin, enabled, installed, queue>>]_vars
  BY TerminalStep
<1> QED
  BY <1>1, InductiveInvariant, PTL DEF Spec, Terminal
=============================================================================
