----------------------------- MODULE IrqDetector -----------------------------
(***************************************************************************)
(* The interrupt generation round trip (scratch/interrupt-detector):       *)
(* generate.py prepare, the compiler, generate.py inspect, generate.py     *)
(* emit and the strict compile, run from a shell in any order while the    *)
(* handler header, the event catalog and the selected plan are edited.     *)
(*                                                                         *)
(* A file is the data it carries.  A catalog digest is the catalog itself  *)
(* (SHA-256 of the sorted events).  A command that rejects its input       *)
(* writes nothing, so only the successful runs are steps; emit writes two  *)
(* files one after the other and can be killed between them.               *)
(***************************************************************************)
EXTENDS Naturals, FiniteSets

CONSTANTS
  Types,             (* C++ event types                                     *)
  TypeId,            (* Event::event_id of each type                        *)
  CatalogFiles,      (* catalogs that may be saved: sets of [event_id,      *)
                     (* cpp_type]                                           *)
  PlanFiles,         (* plans that may be saved: sets of [event_id,         *)
                     (* binding_id, cpp_type, source, vector]               *)
  SupportedVectors,  (* SUPPORTED_VECTORS                                   *)
  NoFile,            (* a file that is absent or not readable               *)
  MaxEdits           (* bound on the edits of the inputs                    *)

ASSUME DetectorAssumption ==
  /\ TypeId \in [Types -> Nat]
  /\ \A c \in CatalogFiles : \A e \in c : e.cpp_type \in Types
  /\ NoFile \notin CatalogFiles \cup PlanFiles
  /\ MaxEdits \in Nat

VARIABLES
  handlers,   (* handler.hpp: the types with an on_interrupt specialization *)
  catalog,    (* event_catalog.json                                         *)
  plan,       (* selected_plan.json                                         *)
  edits,      (* edits made so far                                          *)
  discovery,  (* discovery.cpp: the catalog it was generated from           *)
  object,     (* discovery.o: digest, undefined probe symbols, and as       *)
              (* history the handlers the compiler saw                      *)
  manifest,   (* handler manifest: digest, handled ids, history as above    *)
  detector,   (* generated_detector.hpp: its bindings                       *)
  isrs,       (* generated_isrs.cpp: its bindings, history as above         *)
  emitting,   (* an emit runs and has written its first file               *)
  staged,     (* what that emit writes next                                 *)
  torn,       (* history: an emit was killed after it wrote the header      *)
  firmware    (* the linked program: its ISRs, the handlers it was built    *)
              (* with and whether the pair of generated files was torn      *)

inputs == <<handlers, catalog, plan, edits>>
vars == <<inputs, discovery, object, manifest, detector, isrs, emitting, staged, torn,
          firmware>>

EventIds(file) == {e.event_id : e \in file}
TypesOf(file) == {e.cpp_type : e \in file}

\* No two entries agree in the field f.
Unique(file, f(_)) == \A a, b \in file : f(a) = f(b) => a = b

\* read_catalog accepts the file.
ReadableCatalog ==
  /\ catalog # NoFile
  /\ Unique(catalog, LAMBDA e : e.event_id)
  /\ Unique(catalog, LAMBDA e : e.cpp_type)

\* Mutant: two bindings may share a vector.
PlanAcceptedSharedVector(present_ids) ==
  /\ plan # NoFile
  /\ \A b \in plan :
       /\ [event_id |-> b.event_id, cpp_type |-> b.cpp_type] \in catalog
       /\ b.vector \in SupportedVectors
  /\ Unique(plan, LAMBDA b : b.event_id)
  /\ Unique(plan, LAMBDA b : b.binding_id)
  /\ Unique(plan, LAMBDA b : b.source)
  /\ EventIds(plan) = present_ids

\* read_selected_plan accepts the plan for the current catalog and these ids.
PlanAccepted(present_ids) ==
  /\ plan # NoFile
  /\ \A b \in plan :
       /\ [event_id |-> b.event_id, cpp_type |-> b.cpp_type] \in catalog
       /\ b.vector \in SupportedVectors
  /\ Unique(plan, LAMBDA b : b.event_id)
  /\ Unique(plan, LAMBDA b : b.binding_id)
  /\ Unique(plan, LAMBDA b : b.source)
  /\ Unique(plan, LAMBDA b : b.vector)
  /\ EventIds(plan) = present_ids

Init ==
  /\ handlers = {}
  /\ catalog = NoFile
  /\ plan = NoFile
  /\ edits = 0
  /\ discovery = NoFile
  /\ object = NoFile
  /\ manifest = NoFile
  /\ detector = NoFile
  /\ isrs = NoFile
  /\ emitting = FALSE
  /\ staged = NoFile
  /\ torn = FALSE
  /\ firmware = NoFile

-----------------------------------------------------------------------------
(* The developer saves an input, at any time, also during an emit.         *)

Edit ==
  /\ edits < MaxEdits
  /\ edits' = edits + 1
  /\ \/ handlers' \in SUBSET Types /\ UNCHANGED <<catalog, plan>>
     \/ catalog' \in CatalogFiles /\ UNCHANGED <<handlers, plan>>
     \/ plan' \in PlanFiles /\ UNCHANGED <<handlers, catalog>>
  /\ UNCHANGED <<discovery, object, manifest, detector, isrs, emitting, staged, torn, firmware>>

-----------------------------------------------------------------------------
(* generate.py prepare, the compiler, generate.py inspect.                 *)

Prepare ==
  /\ ~emitting
  /\ ReadableCatalog
  /\ discovery' = catalog
  /\ UNCHANGED <<inputs, object, manifest, detector, isrs, emitting, staged, torn, firmware>>

\* The probes name the id the C++ type carries, not the catalog's; equal
\* symbols are one symbol of the object.
CompileDiscovery ==
  /\ ~emitting
  /\ discovery # NoFile
  /\ object' = [digest |-> discovery,
                probes |-> {<<TypeId[t], t \in handlers>> : t \in TypesOf(discovery)},
                seen   |-> handlers]
  /\ UNCHANGED <<inputs, discovery, manifest, detector, isrs, emitting, staged, torn, firmware>>

ProbedIds == {p[1] : p \in object.probes}

\* Mutant: inspect takes any object.
FingerprintIgnored == object # NoFile

\* inspect_object: the one catalog marker of the object is the current digest.
FingerprintMatches == object # NoFile /\ object.digest = catalog

Inspect ==
  /\ ~emitting
  /\ ReadableCatalog
  /\ FingerprintMatches
  /\ Unique(object.probes, LAMBDA p : p[1])
  /\ ProbedIds = EventIds(catalog)
  /\ manifest' = [digest  |-> catalog,
                  handled |-> {i \in ProbedIds : <<i, TRUE>> \in object.probes},
                  seen    |-> object.seen]
  /\ UNCHANGED <<inputs, discovery, object, detector, isrs, emitting, staged, torn, firmware>>

-----------------------------------------------------------------------------
(* generate.py emit: both validations, then two atomic_write calls.        *)

EmitHeader ==
  /\ ~emitting
  /\ ReadableCatalog
  /\ manifest # NoFile
  /\ manifest.digest = catalog
  /\ PlanAccepted(manifest.handled)
  /\ detector' = plan
  /\ emitting' = TRUE
  /\ staged' = [bindings |-> plan, seen |-> manifest.seen, digest |-> catalog]
  /\ UNCHANGED <<inputs, discovery, object, manifest, isrs, torn, firmware>>

EmitSource ==
  /\ emitting
  /\ isrs' = staged
  /\ emitting' = FALSE
  /\ staged' = NoFile
  /\ torn' = FALSE
  /\ UNCHANGED <<inputs, discovery, object, manifest, detector, firmware>>

\* The process dies between the writes; a command later finds the mixed pair.
KillEmit ==
  /\ emitting
  /\ emitting' = FALSE
  /\ staged' = NoFile
  /\ torn' = TRUE
  /\ UNCHANGED <<inputs, discovery, object, manifest, detector, isrs, firmware>>

-----------------------------------------------------------------------------
(* The strict compile and link of the application with both files.         *)

\* Mutant: api.hpp keeps the discovery definition of DetectorImpl.
HandlersAllowedAlways == TRUE

\* A specialization for a type without a DetectorImpl does not compile.
HandlersAllowed == handlers \subseteq TypesOf(detector)

StrictBuild ==
  /\ ~emitting
  /\ detector # NoFile /\ isrs # NoFile
  /\ HandlersAllowed
  \* An ISR calls on_interrupt<T>: T has a detector, and a handler that is not
  \* the deleted primary template.
  /\ TypesOf(isrs.bindings) \subseteq handlers
  /\ firmware' = [isrs |-> isrs.bindings, handlers |-> handlers, torn |-> torn]
  /\ UNCHANGED <<inputs, discovery, object, manifest, detector, isrs, emitting, staged, torn>>

Next ==
  \/ Edit
  \/ Prepare
  \/ CompileDiscovery
  \/ Inspect
  \/ EmitHeader
  \/ EmitSource
  \/ KillEmit
  \/ StrictBuild

Spec == Init /\ [][Next]_vars

-----------------------------------------------------------------------------
\* A catalog whose ids are those the C++ types carry.
Honest(c) == \A e \in c : e.event_id = TypeId[e.cpp_type]

\* Unless an emit was killed half-way since the pair was last complete, a
\* program that links has an ISR for every handler and a handler for every
\* ISR, whatever was edited between the commands and however old its files.
BuildBindsHandlers ==
  firmware # NoFile /\ ~firmware.torn =>
    TypesOf(firmware.isrs) = firmware.handlers

\* No linked program has two ISRs for one vector, one source or one event type,
\* not even when it mixes the files of two emits.
OneOwner ==
  firmware # NoFile =>
    /\ Unique(firmware.isrs, LAMBDA b : b.vector)
    /\ Unique(firmware.isrs, LAMBDA b : b.source)
    /\ Unique(firmware.isrs, LAMBDA b : b.cpp_type)

\* With an honest catalog, the ISRs that emit writes are for exactly the handlers
\* the discovery compile saw: no stale object, manifest or plan gets through the
\* fingerprint and the allocation check.
EmitsWhatWasDiscovered ==
  isrs # NoFile /\ Honest(isrs.digest) =>
    TypesOf(isrs.bindings) = isrs.seen \cap TypesOf(isrs.digest)
=============================================================================
