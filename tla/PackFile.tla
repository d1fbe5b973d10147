----------------------------- MODULE PackFile -----------------------------
(* What build_pack writes and Pack::mount accepts (kpack-core: build.rs,
   format.rs, manifest.rs, sign.rs). A pack is built statement by statement in
   a .part file, each one durable by itself: the sources' docs, their chunks
   with an index row each, then one embedding per chunk, then the manifest; and
   the file is renamed. The builder may fail, be cancelled or be killed at any
   of these steps and a later one, perhaps with another embedder, start over at
   the same path. A file found there may also come from elsewhere. *)
EXTENDS Integers, Sequences

CONSTANTS
  Sources,    \* how many chunks each source of the pack is cut into
  Embedders,  \* what the app may have installed, one at a time
  Dims(_),    \* the width of an embedder's vectors
  Foreign,      \* files that another device, app or curator may have put there
  MaxUpdates  \* bound: times the app's embedder changes
ASSUME PackFileAssumption ==
  /\ Sources \in Seq(Nat) /\ MaxUpdates \in Nat
  /\ \A e \in Embedders : Dims(e) \in Nat \ {0}
AllKeys == {"schema_version", "embedding_dims", "pack", "embedder", "gate"}
\* A file that is complete was made by some build_pack: its manifest names the
\* embedder that its vectors come from.
ASSUME ForeignAssumption ==
  \A f \in Foreign : f.keys = AllKeys =>
    Len(f.vec) = Len(f.chunks) /\ \A k \in DOMAIN f.vec : f.vec[k].by = f.embedder

VARIABLES
  installed,  \* the embedder, by hash
  updates,    \* how often it was changed
  dotPart,    \* the .part file, or NoFile
  kpack,      \* the file under the final name, or NoFile
  building,   \* where build_pack is
  source_at,  \* the source it is at, and in that one's chunks or in pending
  chunk_at,
  pending,    \* the ids of the chunks it inserted
  mounted     \* the file mounted last and with which embedder
fvars == <<installed, updates, dotPart, kpack, building, source_at, chunk_at,
           pending, mounted>>

NoFile == [width |-> 0]
NoMount == [file |-> NoFile, by |-> "none"]
App == <<installed, updates, kpack, mounted>>
Where == <<source_at, chunk_at, pending>>

FInit ==
  /\ installed \in Embedders /\ updates = 0 /\ dotPart = NoFile /\ kpack = NoFile
  /\ building = "idle" /\ source_at = 1 /\ chunk_at = 1 /\ pending = <<>>
  /\ mounted = NoMount

\* create_schema: the vec0 table has its width for good, and two keys of the
\* manifest are there from the start.
Created ==
  [width |-> Dims(installed), dims |-> Dims(installed), docs |-> <<>>,
   chunks |-> <<>>, fts |-> <<>>, vec |-> <<>>,
   keys |-> {"schema_version", "embedding_dims"},
   tier |-> "none", embedder |-> "none", schema |-> "ours", signed |-> FALSE]

-----------------------------------------------------------------------------
(* build_pack *)

\* What a build that was killed left is discarded, never added to.
\* Mutant: it is opened as it is.
Discard_Not == building \in {"idle", "built"} /\ building' = "open"
               /\ UNCHANGED <<App, dotPart, Where>>
Discard == building \in {"idle", "built"} /\ building' = "open" /\ dotPart' = NoFile
           /\ UNCHANGED <<App, Where>>
OpenOrCreate ==
  /\ building = "open" /\ building' = "docs"
  /\ dotPart' = IF dotPart = NoFile THEN Created ELSE dotPart
  /\ UNCHANGED <<App, Where>>

\* Pass 1: a source's doc, and for each of its chunks a row in chunks and then
\* one in fts.
InsertDoc ==
  /\ building = "docs" /\ source_at <= Len(Sources) /\ building' = "chunks"
  /\ dotPart' = [dotPart EXCEPT !.docs = Append(@, source_at)] /\ chunk_at' = 1
  /\ UNCHANGED <<App, source_at, pending>>
InsertChunk ==
  /\ building = "chunks" /\ chunk_at <= Sources[source_at] /\ building' = "fts"
  /\ dotPart' = [dotPart EXCEPT
       !.chunks = Append(@, [doc |-> Len(dotPart.docs), nth |-> chunk_at])]
  /\ UNCHANGED <<App, Where>>
InsertFts ==
  /\ building = "fts" /\ building' = "chunks" /\ chunk_at' = chunk_at + 1
  /\ dotPart' = [dotPart EXCEPT !.fts = Append(@, Len(dotPart.chunks))]
  /\ pending' = Append(pending, Len(dotPart.chunks))
  /\ UNCHANGED <<App, source_at>>
NextSource ==
  /\ building = "chunks" /\ chunk_at > Sources[source_at] /\ building' = "docs"
  /\ source_at' = source_at + 1 /\ UNCHANGED <<App, dotPart, chunk_at, pending>>

\* Pass 2: the embeddings, in the same order; one must be as wide as the table.
Pass2 ==
  /\ building = "docs" /\ source_at > Len(Sources) /\ building' = "embed"
  /\ chunk_at' = 1 /\ UNCHANGED <<App, dotPart, source_at, pending>>
InsertEmbedding ==
  /\ building = "embed" /\ chunk_at <= Len(pending) /\ dotPart.width = Dims(installed)
  /\ dotPart' = [dotPart EXCEPT
       !.vec = Append(@, [chunk |-> pending[chunk_at], by |-> installed])]
  /\ chunk_at' = chunk_at + 1 /\ UNCHANGED <<App, building, source_at, pending>>

\* The manifest, key by key, and then the rename.
WriteManifest ==
  /\ building = "embed" /\ chunk_at > Len(pending)
  /\ \E key \in AllKeys \ dotPart.keys :
       dotPart' = [dotPart EXCEPT !.keys = @ \cup {key},
         !.tier = IF key = "pack" THEN "personal" ELSE @,
         !.embedder = IF key = "embedder" THEN installed ELSE @]
  /\ UNCHANGED <<App, building, Where>>
Over == source_at' = 1 /\ chunk_at' = 1 /\ pending' = <<>>
RenamePart ==
  /\ building = "embed" /\ chunk_at > Len(pending) /\ dotPart.keys = AllKeys
  /\ kpack' = dotPart /\ dotPart' = NoFile /\ building' = "built" /\ Over
  /\ UNCHANGED <<installed, updates, mounted>>

\* Any statement, embedding or the rename may fail, or the build be cancelled.
FailBuild ==
  /\ building \notin {"idle", "built"} /\ building' = "idle" /\ dotPart' = NoFile
  /\ Over /\ UNCHANGED App
\* The app ends in the middle of it.
KillBuild ==
  /\ building \notin {"idle", "built"} /\ building' = "idle" /\ Over
  /\ mounted' = NoMount /\ UNCHANGED <<installed, updates, kpack, dotPart>>

-----------------------------------------------------------------------------
(* Pack::mount *)

\* Manifest::read finds every key; check_load; and a curated pack is signed.
Mounts(file) ==
  /\ file # NoFile /\ file.keys = AllKeys
  /\ file.embedder = installed
  /\ file.dims = file.width
  /\ file.schema = "ours"
  /\ file.tier = "curated" => file.signed
Mount ==
  /\ Mounts(kpack) /\ mounted' = [file |-> kpack, by |-> installed]
  /\ UNCHANGED <<installed, updates, kpack, dotPart, building, Where>>

\* A file comes from elsewhere; another version of the app is started.
Arrive ==
  /\ building \in {"idle", "built"} /\ building' = "idle" /\ kpack' \in Foreign
  /\ UNCHANGED <<installed, updates, dotPart, Where, mounted>>
Update ==
  /\ building \in {"idle", "built"} /\ building' = "idle" /\ updates < MaxUpdates
  /\ installed' \in Embedders \ {installed} /\ updates' = updates + 1
  /\ mounted' = NoMount /\ UNCHANGED <<dotPart, kpack, Where>>

FNext ==
  \/ Discard \/ OpenOrCreate \/ InsertDoc \/ InsertChunk \/ InsertFts \/ NextSource
  \/ Pass2 \/ InsertEmbedding \/ WriteManifest \/ RenamePart \/ FailBuild \/ KillBuild
  \/ Mount \/ Arrive \/ Update
FSpec == FInit /\ [][FNext]_fvars

-----------------------------------------------------------------------------
\* A row of chunks before another: of an earlier source, or earlier in the same.
InOrder(x, y) == x.doc < y.doc \/ (x.doc = y.doc /\ x.nth < y.nth)
AllChunks == UNION {{[doc |-> s, nth |-> m] : m \in 1..Sources[s]} : s \in 1..Len(Sources)}

\* A pack that was built mounts, and holds each source once, every chunk of each
\* once and in order, and for each chunk one row in either index, in the same
\* order; whatever happened to earlier builds. And the vectors of a mounted pack
\* are those of the embedder that questions will be embedded with.
PackRoundTrip ==
  /\ building = "built" =>
       /\ Mounts(kpack) /\ kpack.docs = [s \in 1..Len(Sources) |-> s]
       /\ {kpack.chunks[k] : k \in 1..Len(kpack.chunks)} = AllChunks
       /\ \A j, k \in 1..Len(kpack.chunks) :
            j < k => InOrder(kpack.chunks[j], kpack.chunks[k])
       /\ kpack.fts = [k \in 1..Len(kpack.chunks) |-> k]
       /\ [k \in 1..Len(kpack.vec) |-> kpack.vec[k].chunk] = kpack.fts
  /\ mounted # NoMount =>
       /\ Len(mounted.file.vec) = Len(mounted.file.chunks)
       /\ \A k \in DOMAIN mounted.file.vec : mounted.file.vec[k].by = mounted.by
=============================================================================
