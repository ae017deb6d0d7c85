------------------------------ MODULE IrqBuild ------------------------------
(***************************************************************************)
(* The round trip as a build: the commands of IrqDetector run in the order *)
(* of check_binding_set.py, every failure is fatal (subprocess.run with    *)
(* check=True) and the next build starts again at prepare.  Inputs are     *)
(* edited while a build runs, and a build can be killed.                   *)
(***************************************************************************)
EXTENDS IrqDetector

VARIABLE stage  \* the command the build runs next

buildVars == <<vars, stage>>

BuildInit == Init /\ stage = "prepare"

\* The command of stage s succeeds; the next one is t.
Step(s, command, t) == stage = s /\ command /\ stage' = t

\* Mutant: a failed command is run again, without the commands before it.
FailRetries(s, command) ==
  /\ stage = s
  /\ ~ENABLED command
  /\ UNCHANGED <<vars, stage>>

\* The command of stage s exits with an error.
Fail(s, command) ==
  /\ stage = s
  /\ ~ENABLED command
  /\ stage' = "prepare"
  /\ UNCHANGED vars

RunPrepare == Step("prepare", Prepare, "compile") \/ Fail("prepare", Prepare)

RunCompile == Step("compile", CompileDiscovery, "inspect")

RunInspect == Step("inspect", Inspect, "emit") \/ Fail("inspect", Inspect)

RunEmit == Step("emit", EmitHeader, "write") \/ Fail("emit", EmitHeader)

RunWrite == Step("write", EmitSource, "build")

\* Mutant: the build goes on after emit was killed.
KillIgnored == Step("write", KillEmit, "build")

Kill == Step("write", KillEmit, "prepare")

RunBuild == Step("build", StrictBuild, "prepare") \/ Fail("build", StrictBuild)

Edited == Edit /\ UNCHANGED stage

BuildNext ==
  \/ Edited
  \/ RunPrepare
  \/ RunCompile
  \/ RunInspect
  \/ RunEmit
  \/ RunWrite
  \/ Kill
  \/ RunBuild

\* Builds are run again and again, their commands finish, and not every emit is
\* killed; nobody has to edit.
BuildFairness ==
  /\ WF_buildVars(RunPrepare)
  /\ WF_buildVars(RunCompile)
  /\ WF_buildVars(RunInspect)
  /\ WF_buildVars(RunEmit)
  /\ SF_buildVars(RunWrite)
  /\ WF_buildVars(RunBuild)

BuildSpec == BuildInit /\ [][BuildNext]_buildVars /\ BuildFairness

-----------------------------------------------------------------------------
\* With fatal failures a linked program always has exactly its handlers bound,
\* also after a killed emit and with edits in the middle of a build.
EveryBuildBindsHandlers ==
  firmware # NoFile => TypesOf(firmware.isrs) = firmware.handlers

\* What a build links is the plan it read for the catalog it started from: the
\* strict compile never sees the output of an earlier build.
NoStaleOutputBuilt ==
  stage = "build" =>
    /\ ~torn
    /\ detector = isrs.bindings
    /\ isrs.digest = discovery
    /\ isrs.seen = object.seen

\* The plan covers the handlers, and all of them are in the catalog.
InputsAgree ==
  /\ ReadableCatalog
  /\ Honest(catalog)
  /\ handlers \subseteq TypesOf(catalog)
  /\ PlanAccepted({TypeId[t] : t \in handlers})
  /\ Cardinality({TypeId[t] : t \in TypesOf(catalog)}) = Cardinality(catalog)

\* When the edits stop with inputs that agree, the program is in the end the
\* one these inputs describe.
EventuallyCurrent ==
  <>[](InputsAgree =>
         /\ firmware # NoFile
         /\ firmware.isrs = plan
         /\ firmware.handlers = handlers)
=============================================================================
