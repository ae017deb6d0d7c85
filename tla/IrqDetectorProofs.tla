------------------------- MODULE IrqDetectorProofs -------------------------
(***************************************************************************)
(* What the strict compile guarantees for every set of types, every        *)
(* catalog and plan, and any order of the commands.                        *)
(***************************************************************************)
EXTENDS IrqBuild, TLAPS

\* What read_selected_plan leaves unique in an accepted plan.
Owned(bindings) ==
  /\ \A a, b \in bindings : a.vector = b.vector => a = b
  /\ \A a, b \in bindings : a.source = b.source => a = b
  /\ \A a, b \in bindings : a.event_id = b.event_id => a = b

\* The plan names each binding's type from the catalog, where no type has two
\* ids; so a type has one binding as well.
OneBindingPerType(bindings) ==
  \A a, b \in bindings : a.cpp_type = b.cpp_type => a = b

\* Both generated files hold the same accepted plan, except during an emit and
\* after one was killed; each file by itself always holds an accepted plan.
PairInv ==
  /\ emitting \in BOOLEAN
  /\ emitting => staged.bindings = detector
  /\ emitting => Owned(staged.bindings) /\ OneBindingPerType(staged.bindings)
  /\ ~emitting /\ ~torn => isrs = NoFile \/ isrs.bindings = detector
  /\ isrs # NoFile => Owned(isrs.bindings) /\ OneBindingPerType(isrs.bindings)

DetectorInv == PairInv /\ BuildBindsHandlers /\ OneOwner

LEMMA AcceptedPlanIsOwned ==
  ASSUME NEW ids, ReadableCatalog, PlanAccepted(ids)
  PROVE  Owned(plan) /\ OneBindingPerType(plan)
  <1>1. Owned(plan)
    BY DEF PlanAccepted, Unique, Owned
  <1>2. ASSUME NEW a \in plan, NEW b \in plan, a.cpp_type = b.cpp_type
        PROVE  a = b
    <2> DEFINE entry(x) == [event_id |-> x.event_id, cpp_type |-> x.cpp_type]
    <2>1. entry(a) \in catalog /\ entry(b) \in catalog
      BY DEF PlanAccepted
    <2>2. entry(a).cpp_type = entry(b).cpp_type
      BY <1>2
    <2>3. entry(a) = entry(b)
      BY <2>1, <2>2 DEF ReadableCatalog, Unique
    <2>4. entry(a).event_id = entry(b).event_id
      BY <2>3
    <2>5. a.event_id = b.event_id
      BY <2>4
    <2>6. QED
      BY <1>1, <2>5 DEF Owned
  <1>3. QED
    BY <1>1, <1>2 DEF OneBindingPerType

LEMMA DetectorInit == Init => DetectorInv
BY DEF Init, DetectorInv, PairInv, BuildBindsHandlers, OneOwner

LEMMA DetectorNext == DetectorInv /\ [Next]_vars => DetectorInv'
  <1> SUFFICES ASSUME DetectorInv, [Next]_vars PROVE DetectorInv'
    OBVIOUS
  <1>1. CASE UNCHANGED <<detector, isrs, emitting, staged, torn, firmware>>
    BY <1>1 DEF DetectorInv, PairInv, BuildBindsHandlers, OneOwner, Unique
  <1>2. CASE Edit \/ Prepare \/ CompileDiscovery \/ Inspect \/ UNCHANGED vars
    BY <1>1, <1>2 DEF Edit, Prepare, CompileDiscovery, Inspect, vars
  <1>3. CASE EmitHeader
    <2>1. /\ emitting' = TRUE /\ staged'.bindings = plan /\ detector' = plan
          /\ UNCHANGED <<isrs, firmware>>
      BY <1>3 DEF EmitHeader
    <2>2. Owned(plan) /\ OneBindingPerType(plan)
      BY <1>3, AcceptedPlanIsOwned DEF EmitHeader
    <2>3. PairInv'
      BY <2>1, <2>2 DEF DetectorInv, PairInv
    <2>4. QED
      BY <2>1, <2>3 DEF DetectorInv, BuildBindsHandlers, OneOwner, Unique
  <1>4. CASE EmitSource
    BY <1>4 DEF EmitSource, DetectorInv, PairInv, BuildBindsHandlers, OneOwner, Unique
  <1>5. CASE KillEmit
    BY <1>5 DEF KillEmit, DetectorInv, PairInv, BuildBindsHandlers, OneOwner, Unique
  <1>6. CASE StrictBuild
    <2>1. /\ ~emitting /\ isrs # NoFile
          /\ handlers \subseteq TypesOf(detector)
          /\ TypesOf(isrs.bindings) \subseteq handlers
          /\ UNCHANGED <<detector, isrs, emitting, staged, torn>>
      BY <1>6 DEF StrictBuild, HandlersAllowed
    <2>2. /\ firmware'.isrs = isrs.bindings
          /\ firmware'.handlers = handlers
          /\ firmware'.torn = torn
      BY <1>6 DEF StrictBuild
    <2>3. PairInv'
      BY <2>1 DEF DetectorInv, PairInv
    <2>4. BuildBindsHandlers'
      <3>1. ~torn => isrs.bindings = detector
        BY <2>1 DEF DetectorInv, PairInv
      <3>2. QED
        BY <2>1, <2>2, <3>1 DEF BuildBindsHandlers
    <2>5. OneOwner'
      <3>1. Owned(isrs.bindings) /\ OneBindingPerType(isrs.bindings)
        BY <2>1 DEF DetectorInv, PairInv
      <3>2. QED
        BY <2>2, <3>1 DEF OneOwner, Unique, Owned, OneBindingPerType
    <2>6. QED
      BY <2>3, <2>4, <2>5 DEF DetectorInv
  <1>7. QED
    BY <1>2, <1>3, <1>4, <1>5, <1>6 DEF Next

\* generate.py and the strict compile, in any order: a program that links
\* binds exactly its handlers unless an emit was killed between its two writes.
THEOREM LinkedProgramBindsHandlers == Spec => []BuildBindsHandlers
  <1>1. DetectorInv => BuildBindsHandlers
    BY DEF DetectorInv
  <1>2. QED
    BY DetectorInit, DetectorNext, <1>1, PTL DEF Spec

\* No linked program gives a vector, a source or an event type two ISRs.
THEOREM LinkedProgramHasOneOwner == Spec => []OneOwner
  <1>1. DetectorInv => OneOwner
    BY DEF DetectorInv
  <1>2. QED
    BY DetectorInit, DetectorNext, <1>1, PTL DEF Spec

-----------------------------------------------------------------------------
(* From the discovery compile to the emitted file.                         *)

HandledIsSeen(m) ==
  Honest(m.digest) =>
    \A e \in m.digest : e.event_id \in m.handled <=> e.cpp_type \in m.seen

EmitsSeen(f) ==
  Honest(f.digest) => TypesOf(f.bindings) = f.seen \cap TypesOf(f.digest)

DiscoveryInv ==
  /\ object # NoFile =>
       object.probes =
         {<<TypeId[t], t \in object.seen>> : t \in TypesOf(object.digest)}
  /\ manifest # NoFile => HandledIsSeen(manifest)
  /\ emitting => EmitsSeen(staged)
  /\ isrs # NoFile => EmitsSeen(isrs)

\* With honest ids a probe tells of one catalog entry whether it has a handler.
LEMMA InspectReadsProbes ==
  ASSUME DiscoveryInv, Inspect
  PROVE  HandledIsSeen(manifest')
  <1>1. /\ object # NoFile /\ object.digest = catalog
        /\ object.probes =
             {<<TypeId[t], t \in object.seen>> : t \in TypesOf(catalog)}
    BY DEF DiscoveryInv, Inspect, FingerprintMatches
  <1>2. /\ manifest'.digest = catalog /\ manifest'.seen = object.seen
        /\ manifest'.handled = {i \in ProbedIds : <<i, TRUE>> \in object.probes}
    BY DEF Inspect
  <1> SUFFICES ASSUME Honest(catalog), NEW e \in catalog
               PROVE  e.event_id \in manifest'.handled <=> e.cpp_type \in object.seen
    BY <1>2 DEF HandledIsSeen
  <1>3. e.event_id = TypeId[e.cpp_type] /\ e.cpp_type \in TypesOf(catalog)
    BY DEF Honest, TypesOf
  <1>4. ASSUME e.cpp_type \in object.seen
        PROVE  e.event_id \in manifest'.handled
    <2>1. (e.cpp_type \in object.seen) = TRUE
      BY <1>4
    <2>2. <<e.event_id, TRUE>> \in object.probes
      BY <2>1, <1>1, <1>3
    <2>3. e.event_id \in ProbedIds
      BY <2>2 DEF ProbedIds
    <2>4. QED
      BY <2>2, <2>3, <1>2
  <1>5. ASSUME e.event_id \in manifest'.handled
        PROVE  e.cpp_type \in object.seen
    <2>1. <<e.event_id, TRUE>> \in object.probes
      BY <1>5, <1>2
    <2>2. PICK t \in TypesOf(catalog) :
            <<e.event_id, TRUE>> = <<TypeId[t], t \in object.seen>>
      BY <2>1, <1>1
    <2>3. TypeId[t] = e.event_id /\ t \in object.seen
      BY <2>2
    <2>4. PICK d \in catalog : d.cpp_type = t
      BY DEF TypesOf
    <2>5. d.event_id = e.event_id
      BY <2>3, <2>4 DEF Honest
    <2>6. d = e
      BY <2>5 DEF Inspect, ReadableCatalog, Unique
    <2>7. QED
      BY <2>3, <2>4, <2>6
  <1>6. QED
    BY <1>4, <1>5

\* A plan whose ids are the discovered ones binds the discovered types.
LEMMA EmitFollowsManifest ==
  ASSUME DiscoveryInv, EmitHeader
  PROVE  EmitsSeen(staged')
  <1>1. /\ staged'.bindings = plan /\ staged'.digest = catalog
        /\ staged'.seen = manifest.seen
        /\ manifest # NoFile /\ manifest.digest = catalog
        /\ ReadableCatalog /\ PlanAccepted(manifest.handled)
    BY DEF EmitHeader
  <1> SUFFICES ASSUME Honest(catalog)
               PROVE  TypesOf(plan) = manifest.seen \cap TypesOf(catalog)
    BY <1>1 DEF EmitsSeen
  <1>2. \A e \in catalog : e.event_id \in manifest.handled <=> e.cpp_type \in manifest.seen
    BY <1>1 DEF DiscoveryInv, HandledIsSeen
  <1> DEFINE entry(b) == [event_id |-> b.event_id, cpp_type |-> b.cpp_type]
  <1>3. \A b \in plan : entry(b) \in catalog /\ b.event_id \in manifest.handled
    BY <1>1 DEF PlanAccepted, EventIds
  <1>4. ASSUME NEW b \in plan
        PROVE  b.cpp_type \in manifest.seen \cap TypesOf(catalog)
    <2>1. entry(b).cpp_type = b.cpp_type /\ entry(b).event_id = b.event_id
      OBVIOUS
    <2>2. entry(b).cpp_type \in manifest.seen
      BY <2>1, <1>2, <1>3
    <2>3. entry(b).cpp_type \in TypesOf(catalog)
      BY <1>3 DEF TypesOf
    <2>4. QED
      BY <2>1, <2>2, <2>3
  <1>5. ASSUME NEW t \in manifest.seen \cap TypesOf(catalog)
        PROVE  t \in TypesOf(plan)
    <2>1. PICK e \in catalog : e.cpp_type = t
      BY DEF TypesOf
    <2>2. PICK b \in plan : b.event_id = e.event_id
      BY <2>1, <1>1, <1>2 DEF PlanAccepted, EventIds
    <2>3. entry(b).event_id = e.event_id
      BY <2>2
    <2>4. entry(b) = e
      BY <2>3, <1>1, <1>3 DEF ReadableCatalog, Unique
    <2>5. entry(b).cpp_type = b.cpp_type
      OBVIOUS
    <2>6. b.cpp_type = t
      BY <2>1, <2>4, <2>5
    <2>7. QED
      BY <2>6 DEF TypesOf
  <1>6. QED
    BY <1>4, <1>5 DEF TypesOf

LEMMA DiscoveryInit == Init => DiscoveryInv
BY DEF Init, DiscoveryInv

LEMMA DiscoveryNext == DiscoveryInv /\ [Next]_vars => DiscoveryInv'
  <1> SUFFICES ASSUME DiscoveryInv, [Next]_vars PROVE DiscoveryInv'
    OBVIOUS
  <1>1. CASE UNCHANGED <<object, manifest, isrs, emitting, staged>>
    BY <1>1 DEF DiscoveryInv, HandledIsSeen, EmitsSeen
  <1>2. CASE Edit \/ Prepare \/ StrictBuild \/ UNCHANGED vars
    BY <1>1, <1>2 DEF Edit, Prepare, StrictBuild, vars
  <1>3. CASE CompileDiscovery
    BY <1>3 DEF CompileDiscovery, DiscoveryInv, HandledIsSeen, EmitsSeen
  <1>4. CASE Inspect
    <2>1. UNCHANGED <<object, isrs, emitting, staged>>
      BY <1>4 DEF Inspect
    <2>2. HandledIsSeen(manifest')
      BY <1>4, InspectReadsProbes
    <2>3. QED
      BY <2>1, <2>2 DEF DiscoveryInv, HandledIsSeen, EmitsSeen
  <1>5. CASE EmitHeader
    <2>1. UNCHANGED <<object, manifest, isrs>>
      BY <1>5 DEF EmitHeader
    <2>2. EmitsSeen(staged')
      BY <1>5, EmitFollowsManifest
    <2>3. QED
      BY <2>1, <2>2 DEF DiscoveryInv, HandledIsSeen, EmitsSeen
  <1>6. CASE EmitSource
    BY <1>6 DEF EmitSource, DiscoveryInv, HandledIsSeen, EmitsSeen
  <1>7. CASE KillEmit
    BY <1>7 DEF KillEmit, DiscoveryInv, HandledIsSeen, EmitsSeen
  <1>8. QED
    BY <1>2, <1>3, <1>4, <1>5, <1>6, <1>7 DEF Next

\* generate.py in any order: with a catalog that carries the types' own ids,
\* emit writes ISRs for exactly the handlers the discovery compile saw.
THEOREM EmitMatchesDiscovery == Spec => []EmitsWhatWasDiscovered
  <1>1. DiscoveryInv => EmitsWhatWasDiscovered
    BY DEF DiscoveryInv, EmitsSeen, EmitsWhatWasDiscovered
  <1>2. QED
    BY DiscoveryInit, DiscoveryNext, <1>1, PTL DEF Spec

-----------------------------------------------------------------------------
(* The commands as a build.  Of a failure only its effect matters here.    *)

\* After each command the files are those of the build that runs, except that
\* the inputs may have been edited since.
BuildInv ==
  /\ emitting <=> stage = "write"
  /\ stage \in {"inspect", "emit", "write", "build"} => object.digest = discovery
  /\ stage \in {"emit", "write", "build"} =>
       manifest.digest = discovery /\ manifest.seen = object.seen
  /\ stage = "write" =>
       /\ staged.bindings = detector
       /\ staged.digest = discovery
       /\ staged.seen = object.seen
  /\ NoStaleOutputBuilt
  /\ EveryBuildBindsHandlers

LEMMA FailedStep ==
  ASSUME \/ Fail("prepare", Prepare) \/ Fail("inspect", Inspect)
         \/ Fail("emit", EmitHeader) \/ Fail("build", StrictBuild)
  PROVE  stage # "write" /\ stage' = "prepare" /\ UNCHANGED vars
BY DEF Fail

LEMMA BuildInitInv == BuildInit => BuildInv
BY DEF BuildInit, Init, BuildInv, NoStaleOutputBuilt, EveryBuildBindsHandlers

LEMMA BuildNextInv == BuildInv /\ [BuildNext]_buildVars => BuildInv'
  <1> SUFFICES ASSUME BuildInv, [BuildNext]_buildVars PROVE BuildInv'
    OBVIOUS
  <1> USE DEF BuildInv, NoStaleOutputBuilt, EveryBuildBindsHandlers
  <1>1. CASE UNCHANGED <<discovery, object, manifest, detector, isrs, emitting, staged, torn,
                         firmware, stage>>
    BY <1>1
  <1>2. CASE Edited \/ UNCHANGED buildVars
    BY <1>1, <1>2 DEF Edited, Edit, buildVars, vars
  <1>3. CASE \/ Fail("prepare", Prepare) \/ Fail("inspect", Inspect)
             \/ Fail("emit", EmitHeader) \/ Fail("build", StrictBuild)
    BY <1>3, FailedStep DEF vars
  <1>4. CASE Step("prepare", Prepare, "compile")
    BY <1>4 DEF Step, Prepare
  <1>5. CASE Step("compile", CompileDiscovery, "inspect")
    BY <1>5 DEF Step, CompileDiscovery
  <1>6. CASE Step("inspect", Inspect, "emit")
    BY <1>6 DEF Step, Inspect, FingerprintMatches
  <1>7. CASE Step("emit", EmitHeader, "write")
    BY <1>7 DEF Step, EmitHeader
  <1>8. CASE Step("write", EmitSource, "build")
    BY <1>8 DEF Step, EmitSource
  <1>9. CASE Kill
    BY <1>9 DEF Kill, Step, KillEmit
  <1>10. CASE Step("build", StrictBuild, "prepare")
    <2>1. /\ stage = "build" /\ stage' = "prepare"
          /\ handlers \subseteq TypesOf(detector)
          /\ TypesOf(isrs.bindings) \subseteq handlers
          /\ firmware'.isrs = isrs.bindings /\ firmware'.handlers = handlers
          /\ UNCHANGED <<discovery, object, manifest, detector, isrs, emitting, staged, torn>>
      BY <1>10 DEF Step, StrictBuild, HandlersAllowed
    <2>2. TypesOf(firmware'.isrs) = firmware'.handlers
      BY <2>1
    <2>3. EveryBuildBindsHandlers'
      BY <2>2
    <2>4. QED
      BY <2>1, <2>3
  <1>11. QED
    BY <1>2, <1>3, <1>4, <1>5, <1>6, <1>7, <1>8, <1>9, <1>10
       DEF BuildNext, RunPrepare, RunCompile, RunInspect, RunEmit, RunWrite, RunBuild

\* Each command of a build reads what the commands before it wrote.
THEOREM BuildInvariant == BuildSpec => []BuildInv
  <1>1. QED
    BY BuildInitInv, BuildNextInv, PTL DEF BuildSpec

\* When failures are fatal, the strict compile never sees a file of an earlier
\* build nor a pair that was torn, whatever is edited while the commands run.
THEOREM BuildsAreNotStale == BuildSpec => []NoStaleOutputBuilt
  <1>1. BuildInv => NoStaleOutputBuilt
    BY DEF BuildInv
  <1>2. QED
    BY <1>1, BuildInvariant, PTL

\* And so a program that a build links binds exactly its handlers, also after a
\* build that was killed.
THEOREM EveryBuildBinds == BuildSpec => []EveryBuildBindsHandlers
  <1>1. BuildInv => EveryBuildBindsHandlers
    BY DEF BuildInv
  <1>2. QED
    BY <1>1, BuildInvariant, PTL

\* A build runs the commands in one of the orders a shell could: what holds of
\* every order holds of builds.
THEOREM BuildsAreRoundTrips == BuildSpec => Spec
  <1>1. BuildInit => Init
    BY DEF BuildInit
  <1>2. [BuildNext]_buildVars => [Next]_vars
    <2> SUFFICES ASSUME [BuildNext]_buildVars PROVE [Next]_vars
      OBVIOUS
    <2>1. CASE Edited \/ UNCHANGED buildVars
      BY <2>1 DEF Edited, Next, buildVars
    <2>2. CASE \/ Fail("prepare", Prepare) \/ Fail("inspect", Inspect)
               \/ Fail("emit", EmitHeader) \/ Fail("build", StrictBuild)
      BY <2>2, FailedStep
    <2>3. CASE \/ Step("prepare", Prepare, "compile")
               \/ Step("compile", CompileDiscovery, "inspect")
               \/ Step("inspect", Inspect, "emit")
               \/ Step("emit", EmitHeader, "write")
               \/ Step("write", EmitSource, "build") \/ Kill
               \/ Step("build", StrictBuild, "prepare")
      BY <2>3 DEF Step, Kill, Next
    <2>4. QED
      BY <2>1, <2>2, <2>3
         DEF BuildNext, RunPrepare, RunCompile, RunInspect, RunEmit, RunWrite, RunBuild
  <1>3. QED
    BY <1>1, <1>2, PTL DEF BuildSpec, Spec
=============================================================================
