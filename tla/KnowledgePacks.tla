--------------------------- MODULE KnowledgePacks ---------------------------
(* The account's knowledge packs (kpack.rs, kpack-core's build.rs): one build
   at a time, in a thread of its own, into a .part file that becomes a .kpack
   once every chunk is embedded and the manifest written; its cancel flag; the
   embedder that builds and queries load once; the query of a turn over the
   packs attached to its chat; packs deleted, and an account's whole directory
   removed, while any of this runs; and the end of the app in the middle of it.
   A build is known by its number, and so are the files it names. *)
EXTENDS Integers

CONSTANTS User, NoUser,
          Builder,   \* bound: the accounts that build packs
          MaxBuild,  \* bound: builds ever asked for
          Chunks,    \* chunks of a build's sources
          Beyond     \* what a run goes beyond: "late"
ASSUME PackAssumption ==
  NoUser \notin User /\ MaxBuild \in Nat /\ Chunks \in Nat

VARIABLES
  user,      \* Cloud::current_user_id
  dirs,      \* the accounts whose packs directory exists
  part,      \* a build's .part file, if any
  pack,      \* a build's .kpack file, if any
  builds,    \* the build_personal_pack commands and their threads
  active,    \* Builds.active
  embedder,  \* EmbedderCache: loaded or not, and who holds the lock to load it
  attached,  \* state.chat.packPaths
  query,     \* the rag_query of the turn
  wipe,      \* remove_account_impl with wipe_local_data
  wiped      \* history: builds asked for before their account was wiped
disk == <<dirs, part, pack>>
vars == <<user, disk, builds, active, embedder, attached, query, wipe, wiped>>

Build == 1..MaxBuild
None == 0
Page == 0   \* among those who load the embedder, the query
File == [rows : 0..Chunks, manifest : BOOLEAN]
Whole == [rows |-> Chunks, manifest |-> TRUE]
Thread == {"embedder", "loading", "read", "open", "embed", "rename", "mount",
           "cleanup", "return"}
Result == {"none", "ok", "refused", "cancelled", "error", "unmounted"}
Running(n) == builds[n].pc \in Thread \cup {"resolved"}

Unasked == [pc |-> "none", user |-> NoUser, pdf |-> FALSE, cancel |-> FALSE,
            result |-> "none"]
NoQuery == [pc |-> "idle", user |-> NoUser, asked |-> {}, mounted |-> {}]
Cold == [loaded |-> FALSE, holder |-> {}]

Init ==
  /\ user = NoUser /\ dirs = {} /\ attached = {}
  /\ part = [n \in Build |-> {}] /\ pack = [n \in Build |-> {}]
  /\ builds = [n \in Build |-> Unasked] /\ active = None
  /\ embedder = Cold /\ query = NoQuery /\ wipe = NoUser /\ wiped = {}

-----------------------------------------------------------------------------
(* Who is signed in *)

\* packs_dir makes the directory of whoever is signed in.
PacksDir == user # NoUser /\ dirs' = dirs \cup {user}

\* Only "late" does an account come back during its wipe, or while a build it
\* asked for before still runs.
SignIn(u) ==
  /\ user = NoUser
  /\ \/ "late" \in Beyond
     \/ wipe # u /\ \A n \in wiped : builds[n].user = u => ~Running(n)
  /\ user' = u
  /\ UNCHANGED <<disk, builds, active, embedder, attached, query, wipe, wiped>>

SignOut ==
  /\ user # NoUser /\ user' = NoUser /\ attached' = {}
  /\ UNCHANGED <<disk, builds, active, embedder, query, wipe, wiped>>

-----------------------------------------------------------------------------
(* build_personal_pack *)

Goto(n, pc) == builds' = [builds EXCEPT ![n].pc = pc]
Fail(n, why, pc) == builds' = [builds EXCEPT ![n].pc = pc, ![n].result = why]

\* The name of the file is decided for the account signed in now.
BuildPersonalPack(n, pdf) ==
  /\ builds[n] = Unasked /\ \A m \in Build : m < n => builds[m] # Unasked
  /\ PacksDir /\ user \in Builder
  /\ builds' = [builds EXCEPT ![n] = [Unasked EXCEPT !.pc = "resolved",
                                        !.user = user, !.pdf = pdf]]
  /\ UNCHANGED <<user, part, pack, active, embedder, attached, query, wipe,
                 wiped>>

\* The slot; a build that finds it taken is refused and leaves it alone.
Claim(n) ==
  /\ builds[n].pc = "resolved"
  /\ IF active # None THEN Fail(n, "refused", "ended") /\ UNCHANGED active
     ELSE Goto(n, "embedder") /\ active' = n
  /\ UNCHANGED <<user, disk, embedder, attached, query, wipe, wiped>>

\* cancel_build
Cancel ==
  /\ active # None
  /\ builds' = [builds EXCEPT ![active].cancel = TRUE]
  /\ UNCHANGED <<user, disk, active, embedder, attached, query, wipe, wiped>>

\* ClearActiveOnDrop, when the command returns, and its flag goes with it
Ended(b, pc) == [b EXCEPT !.pc = pc, !.pdf = FALSE, !.cancel = FALSE]
Return(n) ==
  /\ builds[n].pc = "return" /\ active' = None
  /\ builds' = [builds EXCEPT ![n] = Ended(@, "ended")]
  /\ UNCHANGED <<user, disk, embedder, attached, query, wipe, wiped>>

-----------------------------------------------------------------------------
(* EmbedderCache.get_or_load: the lock is held across the load *)

Lock(who) == embedder.holder = {} /\ embedder' = [embedder EXCEPT !.holder =
               IF embedder.loaded THEN {} ELSE {who}]
Unlock(loaded) == embedder' = [loaded |-> loaded, holder |-> {}]

GetOrLoad(n) ==
  /\ builds[n].pc = "embedder" /\ Lock(n)
  /\ Goto(n, IF embedder.loaded THEN "read" ELSE "loading")
  /\ UNCHANGED <<user, disk, active, attached, query, wipe, wiped>>
\* Mutant: a load that fails leaves the cache locked.
Loaded_Locked(n) ==
  /\ builds[n].pc = "loading"
  /\ \/ Unlock(TRUE) /\ Goto(n, "read")
     \/ UNCHANGED embedder /\ Fail(n, "error", "return")
  /\ UNCHANGED <<user, disk, active, attached, query, wipe, wiped>>
Loaded(n) ==
  /\ builds[n].pc = "loading"
  /\ \/ Unlock(TRUE) /\ Goto(n, "read")
     \/ Unlock(FALSE) /\ Fail(n, "error", "return")
  /\ UNCHANGED <<user, disk, active, attached, query, wipe, wiped>>

-----------------------------------------------------------------------------
(* build_personal_pack_with_embedder and build_pack_with_progress *)

\* The sources are read; only a PDF's are left when the build is cancelled.
Read(n) ==
  /\ builds[n].pc = "read"
  /\ \/ builds[n].pdf /\ builds[n].cancel /\ Fail(n, "cancelled", "return")
     \/ ~(builds[n].pdf /\ builds[n].cancel) /\ Goto(n, "open")
     \/ Fail(n, "error", "return")
  /\ UNCHANGED <<user, disk, active, embedder, attached, query, wipe, wiped>>

\* Pack::open_or_create makes the file but never its directory.
\* Mutant: the directory is made again.
Open_MakesDir(n) ==
  /\ builds[n].pc = "open"
  /\ \/ /\ dirs' = dirs \cup {builds[n].user} /\ Goto(n, "embed")
        /\ part' = [part EXCEPT ![n] = {[rows |-> 0, manifest |-> FALSE]}]
     \/ Fail(n, "error", "cleanup") /\ UNCHANGED <<dirs, part>>
  /\ UNCHANGED <<user, pack, active, embedder, attached, query, wipe, wiped>>
Open(n) ==
  /\ builds[n].pc = "open"
  /\ \/ /\ builds[n].user \in dirs /\ Goto(n, "embed")
        /\ part' = [part EXCEPT ![n] = {[rows |-> 0, manifest |-> FALSE]}]
     \/ Fail(n, "error", "cleanup") /\ UNCHANGED part
  /\ UNCHANGED <<user, dirs, pack, active, embedder, attached, query, wipe,
                 wiped>>

\* The flag is read before each chunk, so not after the last; SQLite refuses
\* to write a file that has been removed.
\* Mutant: a cancelled build keeps the chunks it has.
Embed_Partial(n) ==
  /\ builds[n].pc = "embed"
  /\ \/ \E f \in part[n] :
          /\ f.rows < Chunks /\ ~builds[n].cancel /\ UNCHANGED builds
          /\ part' = [part EXCEPT ![n] = {[f EXCEPT !.rows = @ + 1]}]
     \/ \E f \in part[n] :
          /\ f.rows = Chunks \/ builds[n].cancel
          /\ part' = [part EXCEPT ![n] = {[f EXCEPT !.manifest = TRUE]}]
          /\ Goto(n, "rename")
     \/ Fail(n, "error", "cleanup") /\ UNCHANGED part
  /\ UNCHANGED <<user, dirs, pack, active, embedder, attached, query, wipe,
                 wiped>>
Embed(n) ==
  /\ builds[n].pc = "embed"
  /\ \/ \E f \in part[n] :
          /\ f.rows < Chunks /\ ~builds[n].cancel /\ UNCHANGED builds
          /\ part' = [part EXCEPT ![n] = {[f EXCEPT !.rows = @ + 1]}]
     \/ /\ \E f \in part[n] : f.rows < Chunks
        /\ builds[n].cancel /\ Fail(n, "cancelled", "cleanup")
        /\ UNCHANGED part
     \/ \E f \in part[n] :
          /\ f.rows = Chunks /\ Goto(n, "rename")
          /\ part' = [part EXCEPT ![n] = {Whole}]
     \/ Fail(n, "error", "cleanup") /\ UNCHANGED part
  /\ UNCHANGED <<user, dirs, pack, active, embedder, attached, query, wipe,
                 wiped>>

Rename(n) ==
  /\ builds[n].pc = "rename"
  /\ \/ /\ part[n] # {} /\ Goto(n, "mount")
        /\ pack' = [pack EXCEPT ![n] = part[n]]
        /\ part' = [part EXCEPT ![n] = {}]
     \/ Fail(n, "error", "cleanup") /\ UNCHANGED <<part, pack>>
  /\ UNCHANGED <<user, dirs, active, embedder, attached, query, wipe, wiped>>

\* Mutant: a failed build leaves its .part.
Cleanup_Leaves(n) ==
  /\ builds[n].pc = "cleanup" /\ Goto(n, "return")
  /\ UNCHANGED <<user, disk, active, embedder, attached, query, wipe, wiped>>
Cleanup(n) ==
  /\ builds[n].pc = "cleanup" /\ Goto(n, "return")
  /\ part' = [part EXCEPT ![n] = {}]
  /\ UNCHANGED <<user, dirs, pack, active, embedder, attached, query, wipe,
                 wiped>>

\* mount_pack_at: the build answers with the manifest of what it mounts.
Mount(n) ==
  /\ builds[n].pc = "mount"
  /\ \/ pack[n] # {} /\ Fail(n, "ok", "return")
     \/ Fail(n, "unmounted", "return")
  /\ UNCHANGED <<user, disk, active, embedder, attached, query, wipe, wiped>>

BuildThread(n) ==
  \/ Claim(n) \/ GetOrLoad(n) \/ Loaded(n) \/ Read(n) \/ Open(n) \/ Embed(n)
  \/ Rename(n) \/ Cleanup(n) \/ Mount(n) \/ Return(n)

-----------------------------------------------------------------------------
(* The packs of a chat *)

Mine(n) == builds[n].user = user
\* list_packs_in, through Pack::mount, which needs the manifest
Listed == {n \in Build : Mine(n) /\ \E f \in pack[n] : f.manifest}

\* The attach list is filled, and Done keeps what is checked in it.
Attach ==
  /\ PacksDir /\ \E s \in SUBSET Listed : attached' = s
  /\ UNCHANGED <<user, part, pack, builds, active, embedder, query, wipe,
                 wiped>>

\* delete_pack_in; nothing looks at the chats the pack is attached to.
DeletePack(n) ==
  /\ PacksDir /\ n \in Listed /\ pack' = [pack EXCEPT ![n] = {}]
  /\ UNCHANGED <<user, part, builds, active, embedder, attached, query, wipe,
                 wiped>>

\* rag_query, before the turn reaches the model
RagQuery ==
  /\ query.pc = "idle" /\ attached # {} /\ PacksDir
  /\ query' = [pc |-> "mount", user |-> user, asked |-> attached,
               mounted |-> {}]
  /\ UNCHANGED <<user, part, pack, builds, active, embedder, attached, wipe,
                 wiped>>

\* rag_query_inner: one pack that is not there fails the whole query.
QueryMounts(n) ==
  /\ query.pc = "mount" /\ n \in query.asked \ query.mounted
  /\ query' = IF builds[n].user = query.user /\ pack[n] # {}
              THEN [query EXCEPT !.mounted = @ \cup {n}] ELSE NoQuery
  /\ UNCHANGED <<user, disk, builds, active, embedder, attached, wipe, wiped>>

QueryEmbeds ==
  /\ query.pc \in {"mount", "embedder"}
  /\ query.pc = "mount" => query.mounted = query.asked
  /\ Lock(Page)
  /\ query' = [query EXCEPT !.pc = IF embedder.loaded THEN "answered"
                                   ELSE "loading"]
  /\ UNCHANGED <<user, disk, builds, active, attached, wipe, wiped>>
QueryLoaded ==
  /\ query.pc = "loading"
  /\ \/ Unlock(TRUE) /\ query' = [query EXCEPT !.pc = "answered"]
     \/ Unlock(FALSE) /\ query' = NoQuery
  /\ UNCHANGED <<user, disk, builds, active, attached, wipe, wiped>>
QueryEnds ==
  /\ query.pc = "answered" /\ query' = NoQuery
  /\ UNCHANGED <<user, disk, builds, active, embedder, attached, wipe, wiped>>
QueryThread ==
  (\E n \in Build : QueryMounts(n)) \/ QueryEmbeds \/ QueryLoaded \/ QueryEnds

-----------------------------------------------------------------------------
(* delete_account_packs, file by file *)

\* The account is signed out first, if it is the one signed in.
RemoveAccount(u) ==
  /\ wipe = NoUser /\ wipe' = u
  /\ user' = IF user = u THEN NoUser ELSE user
  /\ attached' = IF user = u THEN {} ELSE attached
  /\ UNCHANGED <<disk, builds, active, embedder, query, wiped>>

WipeFile(n) ==
  /\ wipe # NoUser /\ builds[n].user = wipe
  /\ \/ part[n] # {} /\ part' = [part EXCEPT ![n] = {}] /\ UNCHANGED pack
     \/ pack[n] # {} /\ pack' = [pack EXCEPT ![n] = {}] /\ UNCHANGED part
  /\ UNCHANGED <<user, dirs, builds, active, embedder, attached, query, wipe,
                 wiped>>

\* A directory with a file left in it, one made meanwhile or one that cannot
\* be removed, stays, and the wipe fails.
WipeEnds ==
  /\ wipe # NoUser /\ wipe' = NoUser
  /\ LET of == {n \in Build : builds[n].user = wipe} IN
     IF \A n \in of : part[n] = {} /\ pack[n] = {}
     THEN dirs' = dirs \ {wipe} /\ wiped' = wiped \cup of
     ELSE UNCHANGED <<dirs, wiped>>
  /\ UNCHANGED <<user, part, pack, builds, active, embedder, attached, query>>

-----------------------------------------------------------------------------
\* The app ends, or is killed, wherever its threads are.
AppEnds ==
  /\ user' = NoUser /\ attached' = {} /\ active' = None
  /\ builds' = [n \in Build |-> IF Running(n)
                                THEN Ended(builds[n], "killed")
                                ELSE builds[n]]
  /\ embedder' = Cold /\ query' = NoQuery /\ wipe' = NoUser
  /\ UNCHANGED <<disk, wiped>>

Next ==
  \/ \E u \in User : SignIn(u) \/ RemoveAccount(u)
  \/ SignOut \/ Cancel \/ Attach \/ RagQuery \/ QueryThread
  \/ \E n \in Build : \/ \E pdf \in BOOLEAN : BuildPersonalPack(n, pdf)
                      \/ BuildThread(n) \/ DeletePack(n) \/ WipeFile(n)
  \/ WipeEnds \/ AppEnds

\* Threads and commands run on, and a lock that is freed again and again is got
\* in the end; nobody has to ask for anything.
Fairness ==
  /\ WF_vars(QueryThread)
  /\ \A n \in Build : WF_vars(BuildThread(n)) /\ SF_vars(GetOrLoad(n))
Spec == Init /\ [][Next]_vars /\ Fairness

-----------------------------------------------------------------------------
\* The state of the module.
TypeOK ==
  /\ user \in User \cup {NoUser} /\ wipe \in User \cup {NoUser}
  /\ dirs \subseteq User /\ attached \subseteq Build /\ wiped \subseteq Build
  /\ part \in [Build -> SUBSET File] /\ pack \in [Build -> SUBSET File]
  /\ builds \in [Build -> [pc : Thread \cup {"none", "resolved", "ended",
                                             "killed"},
                           user : User \cup {NoUser}, pdf : BOOLEAN,
                           cancel : BOOLEAN, result : Result]]
  /\ active \in Build \cup {None}
  /\ embedder \in [loaded : BOOLEAN, holder : SUBSET (Build \cup {Page})]
  /\ query \in [pc : {"idle", "mount", "embedder", "loading", "answered"},
                user : User \cup {NoUser}, asked : SUBSET Build,
                mounted : SUBSET Build]

\* Only one build runs at a time: the thread of the build that holds the slot
\* (Builds: "only one personal-pack build runs at a time app-wide").
OneBuild == \A n \in Build : builds[n].pc \in Thread => active = n

\* Whatever is cancelled, killed, removed or fails, a file under a .kpack name
\* holds every chunk of its sources and its manifest: no chat is grounded in
\* half a book.
PackIsWhole == \A n \in Build : pack[n] \subseteq {Whole}

\* A build that ends leaves what it says: no file at all if it was refused,
\* cancelled or failed; and a .part is on the disk only while its build runs, or
\* if the app was ended under it.
EndsClean ==
  \A n \in Build :
    /\ part[n] # {} => Running(n) \/ builds[n].pc = "killed"
    /\ builds[n].result \in {"refused", "cancelled", "error"}
         => /\ pack[n] = {}
            /\ builds[n].pc \in {"return", "ended"} => part[n] = {}

\* Once an account's packs are wiped, none of them comes back, not even the one
\* that was being built.
WipedStaysGone == \A n \in wiped : part[n] = {} /\ pack[n] = {}

\* A turn is grounded in every pack attached to its chat, or fails: an answer
\* never silently leaves out a pack that was deleted as it was asked.
GroundedInAll == query.pc = "answered" => query.mounted = query.asked

\* The slot of a build is freed, on every path, whoever else holds the embedder.
SlotFrees == \A n \in Build : (active = n) ~> (active # n)
=============================================================================
