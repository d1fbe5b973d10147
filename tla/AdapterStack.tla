---------------------------- MODULE AdapterStack ----------------------------
(* How the in-process engine loads a model and its adapters (kpack-engine):
   the stack is put in the order in which it composes, each file must be there
   and, if the catalog pins its digest, be genuine, once per process
   (VerifyCache), and only then are the native backend, of which a process has
   one, and the files themselves loaded. Several loads run side by side. *)
EXTENDS Integers, Sequences, SequencesExt

CONSTANTS
  Loader,       \* threads that load an engine
  Embedding,    \* threads that load kpack-embed's embedder, in the same process
  Disks,        \* what lies on the disk at first, per artifact
  Pinned,       \* the artifacts whose digest the catalog pins
  Requests,     \* adapter roles, in any order, as a caller may ask for them
  MaxChanges,   \* bound: how often a file changes
  LoadBeyond    \* what a run goes beyond: "replaced", a file that was verified is;
                \* "both", the engine and the embedder share a process
Roles == <<"behavioral", "contract", "voice">>
Artifact == {"base"} \cup Range(Roles)
ASSUME StackAssumption ==
  /\ Disks \subseteq [Artifact -> {"none", "genuine", "other"}]
  /\ Pinned \subseteq Artifact /\ MaxChanges \in Nat
  /\ Requests \subseteq Seq(Range(Roles)) /\ Loader \cap Embedding = {}

VARIABLES
  disk,      \* the artifacts' files
  verified,  \* VerifyCache: the paths that were verified in this process
  native,    \* llama.cpp's backend: has it been initialised
  backend,   \* the crates whose BACKEND is set, kpack-embed has its own
  load,      \* what each thread is at
  changes    \* how often a file has changed
stackvars == <<disk, verified, native, backend, load, changes>>

Resting == [pc |-> "idle", want |-> <<>>, k |-> 1, mounted |-> <<>>]
Crate(l) == IF l \in Loader THEN "engine" ELSE "embed"
Ended == {"loaded", "missing", "integrity", "composition", "init", "native_failed"}

StackInit ==
  /\ disk \in Disks /\ verified = {} /\ native = FALSE /\ backend = {}
  /\ load = [l \in Loader \cup Embedding |-> Resting] /\ changes = 0

LoadGoes(l, pc) == load' = [load EXCEPT ![l].pc = pc]

\* AdapterRole::order: the base first, then behavioral, contract, voice.
Only(role, want) == IF role \in Range(want) THEN <<role>> ELSE <<>>
Order(want) == <<"base">> \o Only("behavioral", want)
                 \o Only("contract", want) \o Only("voice", want)

\* Without "both", a process loads the engine or the embedder.
LoadsAlone(l) ==
  \/ "both" \in LoadBeyond
  \/ \A m \in Loader \cup Embedding :
       Crate(m) = Crate(l) \/ (load[m].pc = "idle" /\ Crate(m) \notin backend)

\* A second adapter of one role is refused before anything is read.
Ask(l, want) ==
  /\ l \in Loader /\ load[l].pc = "idle" /\ LoadsAlone(l)
  /\ load' = [load EXCEPT ![l] = [Resting EXCEPT !.want = want,
       !.pc = IF IsInjective(want) THEN "gate" ELSE "composition"]]
  /\ UNCHANGED <<disk, verified, native, backend, changes>>

\* require_present and VerifyCache::verify, artifact by artifact: nothing is
\* skipped, and the first that fails ends the load.
Genuine(a) == a \in verified \/ a \notin Pinned \/ disk[a] = "genuine"
\* Mutant: a path is noted as verified before its digest is compared.
GateArtifact_NotesFirst(l) ==
  /\ load[l].pc = "gate"
  /\ LET order == Order(load[l].want)
         a     == order[load[l].k]
     IN IF disk[a] = "none" THEN LoadGoes(l, "missing") /\ UNCHANGED verified
        ELSE /\ verified' = verified \cup ({a} \cap Pinned)
             /\ IF ~Genuine(a) THEN LoadGoes(l, "integrity")
                ELSE load' = [load EXCEPT ![l].k = @ + 1,
                       ![l].pc = IF load[l].k = Len(order) THEN "backend" ELSE @]
  /\ UNCHANGED <<disk, native, backend, changes>>
GateArtifact(l) ==
  /\ load[l].pc = "gate"
  /\ LET order == Order(load[l].want)
         a     == order[load[l].k]
     IN IF disk[a] = "none" THEN LoadGoes(l, "missing") /\ UNCHANGED verified
        ELSE IF ~Genuine(a) THEN LoadGoes(l, "integrity") /\ UNCHANGED verified
        ELSE /\ verified' = verified \cup ({a} \cap Pinned)
             /\ load' = [load EXCEPT ![l].k = @ + 1,
                  ![l].pc = IF load[l].k = Len(order) THEN "backend" ELSE @]
  /\ UNCHANGED <<disk, native, backend, changes>>

\* kpack-embed's BgeEmbedder::new begins with its own backend.
Embed(l) ==
  /\ l \in Embedding /\ load[l].pc = "idle" /\ LoadsAlone(l) /\ LoadGoes(l, "backend")
  /\ UNCHANGED <<disk, verified, native, backend, changes>>

\* shared_backend: looked for without the lock, and once more with it.
FindBackend(l) ==
  /\ load[l].pc = "backend"
  /\ LoadGoes(l, IF Crate(l) \in backend THEN "read" ELSE "init_lock")
  /\ UNCHANGED <<disk, verified, native, backend, changes>>
InitBackend(l) ==
  /\ load[l].pc = "init_lock"
  /\ LoadGoes(l, IF Crate(l) \notin backend /\ native THEN "init" ELSE "read")
  /\ native' = TRUE
  /\ backend' = IF Crate(l) \notin backend /\ native THEN backend
                ELSE backend \cup {Crate(l)}
  /\ UNCHANGED <<disk, verified, changes>>

\* The model and its adapters are read, in order; llama.cpp may refuse any.
ReadStack(l, fails) ==
  /\ load[l].pc = "read"
  /\ LET order == IF l \in Loader THEN Order(load[l].want) ELSE <<>>
     IN IF fails \/ \E n \in DOMAIN order : disk[order[n]] = "none"
        THEN LoadGoes(l, "native_failed")
        ELSE load' = [load EXCEPT ![l].pc = "loaded",
               ![l].mounted = [n \in DOMAIN order |->
                                 [art |-> order[n], file |-> disk[order[n]]]]]
  /\ UNCHANGED <<disk, verified, native, backend, changes>>

\* unload, or the end of a load that failed: the caller may try again.
Unload(l) ==
  /\ load[l].pc \in Ended
  /\ load' = [load EXCEPT ![l] = Resting]
  /\ UNCHANGED <<disk, verified, native, backend, changes>>

\* A download, an update or a deletion.
FileChanges(a, to) ==
  /\ changes < MaxChanges /\ changes' = changes + 1
  /\ to # disk[a] /\ disk' = [disk EXCEPT ![a] = to]
  /\ a \in verified /\ to = "other" => "replaced" \in LoadBeyond
  /\ UNCHANGED <<verified, native, backend, load>>

LoadSteps(l) == GateArtifact(l) \/ FindBackend(l) \/ InitBackend(l)
                  \/ ReadStack(l, TRUE) \/ ReadStack(l, FALSE)
StackNext ==
  \/ \E l \in Loader : \E want \in Requests : Ask(l, want)
  \/ \E l \in Embedding : Embed(l)
  \/ \E l \in Loader \cup Embedding : LoadSteps(l) \/ Unload(l)
  \/ \E a \in Artifact, to \in {"none", "genuine", "other"} : FileChanges(a, to)
StackSpec == StackInit /\ [][StackNext]_stackvars

\* The engine that is up runs all it was asked to run, in the order in which it
\* composes, and no pinned file but the genuine one, whatever was tried before;
\* and no load fails because another one initialised the backend first.
LoadedAsDeclared ==
  \A l \in Loader :
    /\ load[l].pc = "loaded" =>
         /\ Len(load[l].mounted) = Len(load[l].want) + 1
         /\ \A n \in DOMAIN load[l].mounted :
              LET m == load[l].mounted[n]
              IN /\ m.art = Order(load[l].want)[n]
                 /\ m.art \in Pinned => m.file = "genuine"
    /\ load[l].pc # "init"
=============================================================================
