------------------------ MODULE KnowledgePacksProofs ------------------------
(* For any number of accounts, builds and chunks: one build at a time, whole
   packs, nothing left behind, a turn grounded in all its packs, and what was
   wiped stays gone. *)
EXTENDS KnowledgePacks, TLAPS

USE PackAssumption

\* A build goes to another place in its thread, with a result or without.
BuildRecord == [pc : Thread \cup {"none", "resolved", "ended", "killed"},
                user : User \cup {NoUser}, pdf : BOOLEAN,
                cancel : BOOLEAN, result : Result]

LEMMA GotoFacts ==
  ASSUME TypeOK, NEW n \in Build,
         NEW pc \in Thread \cup {"none", "resolved", "ended", "killed"}, Goto(n, pc)
  PROVE  /\ builds' \in [Build -> BuildRecord]
         /\ \A m \in Build : m # n => builds'[m] = builds[m]
         /\ builds'[n].pc = pc /\ builds'[n].result = builds[n].result
         /\ builds'[n].user = builds[n].user
BY DEF Goto, TypeOK, BuildRecord

LEMMA FailFacts ==
  ASSUME TypeOK, NEW n \in Build, NEW why \in Result,
         NEW pc \in Thread \cup {"none", "resolved", "ended", "killed"},
         Fail(n, why, pc)
  PROVE  /\ builds' \in [Build -> BuildRecord]
         /\ \A m \in Build : m # n => builds'[m] = builds[m]
         /\ builds'[n].pc = pc /\ builds'[n].result = why
         /\ builds'[n].user = builds[n].user
<1>1. builds \in [Build -> BuildRecord]
  BY DEF TypeOK, BuildRecord
<1>2. /\ builds' = [m \in Build |-> IF m = n
                      THEN [builds[n] EXCEPT !.pc = pc, !.result = why]
                      ELSE builds[m]]
  BY <1>1 DEF Fail
<1>3. [builds[n] EXCEPT !.pc = pc, !.result = why] \in BuildRecord
  BY <1>1 DEF BuildRecord
<1>4. QED
  BY <1>1, <1>2, <1>3 DEF BuildRecord

LEMMA EndedFacts ==
  ASSUME NEW b \in BuildRecord,
         NEW pc \in Thread \cup {"none", "resolved", "ended", "killed"}
  PROVE  /\ Ended(b, pc) \in BuildRecord
         /\ Ended(b, pc).pc = pc /\ Ended(b, pc).result = b.result
         /\ Ended(b, pc).user = b.user
         /\ [b EXCEPT !.cancel = TRUE] \in BuildRecord
<1>1. Ended(b, pc) \in BuildRecord
  BY DEF Ended, BuildRecord
<1>2. [b EXCEPT !.cancel = TRUE] \in BuildRecord
  BY DEF BuildRecord
<1>3. /\ Ended(b, pc).pc = pc /\ Ended(b, pc).result = b.result
      /\ Ended(b, pc).user = b.user
  BY DEF Ended, BuildRecord
<1>4. QED
  BY <1>1, <1>2, <1>3

LEMMA UnlockFacts ==
  ASSUME NEW loaded \in BOOLEAN, Unlock(loaded)
  PROVE  embedder' \in [loaded : BOOLEAN, holder : SUBSET (Build \cup {Page})]
BY DEF Unlock

LEMMA TypeInit == Init => TypeOK
BY DEF Init, TypeOK, Unasked, NoQuery, Cold, None, Thread, Result

LEMMA TypeStep == TypeOK /\ [Next]_vars => TypeOK'
<1>1. SUFFICES ASSUME TypeOK, [Next]_vars PROVE TypeOK'
  OBVIOUS
<1>2. /\ user \in User \cup {NoUser} /\ wipe \in User \cup {NoUser}
      /\ dirs \subseteq User /\ attached \subseteq Build /\ wiped \subseteq Build
      /\ part \in [Build -> SUBSET File] /\ pack \in [Build -> SUBSET File]
      /\ builds \in [Build -> BuildRecord]
      /\ active \in Build \cup {None}
      /\ embedder \in [loaded : BOOLEAN, holder : SUBSET (Build \cup {Page})]
      /\ query \in [pc : {"idle", "mount", "embedder", "loading", "answered"},
                    user : User \cup {NoUser}, asked : SUBSET Build,
                    mounted : SUBSET Build]
  BY <1>1 DEF TypeOK, BuildRecord
<1>3. SUFFICES
      /\ user' \in User \cup {NoUser} /\ wipe' \in User \cup {NoUser}
      /\ dirs' \subseteq User /\ attached' \subseteq Build /\ wiped' \subseteq Build
      /\ part' \in [Build -> SUBSET File] /\ pack' \in [Build -> SUBSET File]
      /\ builds' \in [Build -> BuildRecord]
      /\ active' \in Build \cup {None}
      /\ embedder' \in [loaded : BOOLEAN, holder : SUBSET (Build \cup {Page})]
      /\ query' \in [pc : {"idle", "mount", "embedder", "loading", "answered"},
                    user : User \cup {NoUser}, asked : SUBSET Build,
                    mounted : SUBSET Build]
  BY DEF TypeOK, BuildRecord
<1>4. ASSUME NEW u \in User, SignIn(u) \/ RemoveAccount(u) PROVE TypeOK'
  BY <1>2, <1>4 DEF SignIn, RemoveAccount, disk, TypeOK, BuildRecord
<1>5. CASE SignOut
  BY <1>2, <1>5 DEF SignOut, disk
<1>6. CASE Cancel
  <2>1. active \in Build /\ builds[active] \in BuildRecord
    BY <1>2, <1>6 DEF Cancel
  <2>2. builds' \in [Build -> BuildRecord]
    BY <1>2, <1>6, <2>1, EndedFacts DEF Cancel
  <2>3. QED
    BY <1>2, <1>6, <2>2 DEF Cancel, disk
<1>7. CASE Attach
  <2>1. Listed \subseteq Build
    BY DEF Listed
  <2>2. QED
    BY <1>2, <1>7, <2>1 DEF Attach, PacksDir
<1>8. CASE RagQuery
  BY <1>2, <1>8 DEF RagQuery, PacksDir
<1>9. CASE QueryThread
  <2>1. ASSUME NEW n \in Build, QueryMounts(n) PROVE TypeOK'
    BY <1>2, <2>1 DEF QueryMounts, disk, NoQuery, TypeOK, BuildRecord
  <2>2. CASE QueryEmbeds
    BY <1>2, <2>2 DEF QueryEmbeds, disk, Lock, Page
  <2>3. CASE QueryLoaded
    <3>1. embedder' \in [loaded : BOOLEAN, holder : SUBSET (Build \cup {Page})]
      BY <2>3, UnlockFacts DEF QueryLoaded
    <3>2. query' \in [pc : {"idle", "mount", "embedder", "loading", "answered"},
                      user : User \cup {NoUser}, asked : SUBSET Build,
                      mounted : SUBSET Build]
      <4>1. CASE query' = NoQuery
        BY <4>1 DEF NoQuery
      <4>2. CASE query' = [query EXCEPT !.pc = "answered"]
        BY <1>2, <4>2
      <4>3. QED
        BY <2>3, <4>1, <4>2 DEF QueryLoaded
    <3>3. QED
      BY <1>2, <2>3, <3>1, <3>2 DEF QueryLoaded, disk, TypeOK, BuildRecord
  <2>4. CASE QueryEnds
    BY <1>2, <2>4 DEF QueryEnds, disk, NoQuery
  <2>5. QED
    BY <1>9, <2>1, <2>2, <2>3, <2>4 DEF QueryThread, TypeOK, BuildRecord
<1>10. ASSUME NEW n \in Build, NEW pdf \in BOOLEAN, BuildPersonalPack(n, pdf)
       PROVE  TypeOK'
  <2>1. user # NoUser /\ user \in User /\ dirs' = dirs \cup {user}
    BY <1>2, <1>10 DEF BuildPersonalPack, PacksDir
  <2>2. [Unasked EXCEPT !.pc = "resolved", !.user = user, !.pdf = pdf] \in BuildRecord
    BY <1>2 DEF Unasked, BuildRecord, Result
  <2>3. builds' \in [Build -> BuildRecord]
    BY <1>2, <1>10, <2>2 DEF BuildPersonalPack
  <2>4. QED
    BY <1>2, <1>10, <2>1, <2>3 DEF BuildPersonalPack, TypeOK, BuildRecord
<1>11. ASSUME NEW n \in Build, BuildThread(n) PROVE TypeOK'
  <2>1. CASE Claim(n)
    <3>1. builds' \in [Build -> BuildRecord]
      BY <1>1, <2>1, GotoFacts, FailFacts DEF Claim, Thread, Result
    <3>2. QED
      BY <1>2, <2>1, <3>1 DEF Claim, disk, TypeOK, BuildRecord
  <2>2. CASE GetOrLoad(n)
    <3>1. builds' \in [Build -> BuildRecord]
      BY <1>1, <2>2, GotoFacts DEF GetOrLoad, Thread
    <3>2. QED
      BY <1>2, <2>2, <3>1 DEF GetOrLoad, Lock, disk, TypeOK, BuildRecord
  <2>3. CASE Loaded(n)
    <3>1. builds' \in [Build -> BuildRecord]
      BY <1>1, <2>3, GotoFacts, FailFacts DEF Loaded, Thread, Result
    <3>2. embedder' \in [loaded : BOOLEAN, holder : SUBSET (Build \cup {Page})]
      BY <2>3, UnlockFacts DEF Loaded
    <3>3. QED
      BY <1>2, <2>3, <3>1, <3>2 DEF Loaded, disk, TypeOK, BuildRecord
  <2>4. CASE Read(n)
    <3>1. builds' \in [Build -> BuildRecord]
      BY <1>1, <2>4, GotoFacts, FailFacts DEF Read, Thread, Result
    <3>2. QED
      BY <1>2, <2>4, <3>1 DEF Read, disk, TypeOK, BuildRecord
  <2>5. CASE Open(n)
    <3>1. builds' \in [Build -> BuildRecord]
      BY <1>1, <2>5, GotoFacts, FailFacts DEF Open, Thread, Result
    <3>2. {[rows |-> 0, manifest |-> FALSE]} \in SUBSET File
      BY DEF File
    <3>3. part' \in [Build -> SUBSET File]
      BY <1>2, <2>5, <3>2 DEF Open
    <3>4. QED
      BY <1>2, <2>5, <3>1, <3>3 DEF Open, TypeOK, BuildRecord
  <2>6. CASE Embed(n)
    <3>1. builds' \in [Build -> BuildRecord]
      BY <1>1, <1>2, <2>6, GotoFacts, FailFacts DEF Embed, Thread, Result
    <3>2. ASSUME NEW f \in part[n]
          PROVE  f.rows < Chunks => [f EXCEPT !.rows = @ + 1] \in File
      <4>1. f \in File
        BY <1>2
      <4>2. f.rows < Chunks => f.rows + 1 \in 0..Chunks
        BY <4>1 DEF File
      <4>3. QED
        BY <4>1, <4>2 DEF File
    <3>3. part' \in [Build -> SUBSET File]
      <4>1. ASSUME NEW f \in part[n], f.rows < Chunks,
                   part' = [part EXCEPT ![n] = {[f EXCEPT !.rows = @ + 1]}]
            PROVE  part' \in [Build -> SUBSET File]
        BY <1>2, <3>2, <4>1
      <4>2. Whole \in File
        BY DEF Whole, File
      <4>3. QED
        BY <1>2, <2>6, <4>1, <4>2 DEF Embed
    <3>4. QED
      BY <1>2, <2>6, <3>1, <3>3 DEF Embed, TypeOK, BuildRecord
  <2>7. CASE Rename(n)
    <3>1. builds' \in [Build -> BuildRecord]
      BY <1>1, <2>7, GotoFacts, FailFacts DEF Rename, Thread, Result
    <3>2. part' \in [Build -> SUBSET File] /\ pack' \in [Build -> SUBSET File]
      BY <1>2, <2>7 DEF Rename
    <3>3. QED
      BY <1>2, <2>7, <3>1, <3>2 DEF Rename, TypeOK, BuildRecord
  <2>8. CASE Cleanup(n)
    <3>1. builds' \in [Build -> BuildRecord]
      BY <1>1, <2>8, GotoFacts DEF Cleanup, Thread
    <3>2. part' \in [Build -> SUBSET File]
      BY <1>2, <2>8 DEF Cleanup
    <3>3. QED
      BY <1>2, <2>8, <3>1, <3>2 DEF Cleanup, TypeOK, BuildRecord
  <2>9. CASE Mount(n)
    <3>1. builds' \in [Build -> BuildRecord]
      BY <1>1, <2>9, FailFacts DEF Mount, Thread, Result
    <3>2. QED
      BY <1>2, <2>9, <3>1 DEF Mount, disk, TypeOK, BuildRecord
  <2>10. CASE Return(n)
    <3>1. Ended(builds[n], "ended") \in BuildRecord
      BY <1>2, EndedFacts
    <3>2. builds' \in [Build -> BuildRecord]
      BY <1>2, <2>10, <3>1 DEF Return
    <3>3. QED
      BY <1>2, <2>10, <3>2 DEF Return, disk, TypeOK, BuildRecord
  <2>11. QED
    BY <1>11, <2>1, <2>2, <2>3, <2>4, <2>5, <2>6, <2>7, <2>8, <2>9, <2>10
    DEF BuildThread
<1>12. ASSUME NEW n \in Build, DeletePack(n) \/ WipeFile(n) PROVE TypeOK'
  <2>1. CASE DeletePack(n)
    BY <1>2, <2>1 DEF DeletePack, PacksDir, TypeOK, BuildRecord
  <2>2. CASE WipeFile(n)
    BY <1>2, <2>2 DEF WipeFile, TypeOK, BuildRecord
  <2>3. QED
    BY <1>12, <2>1, <2>2
<1>13. CASE WipeEnds
  BY <1>2, <1>13 DEF WipeEnds
<1>14. CASE AppEnds
  <2>1. ASSUME NEW n \in Build PROVE Ended(builds[n], "killed") \in BuildRecord
    BY <1>2, EndedFacts
  <2>2. builds' \in [Build -> BuildRecord]
    BY <1>2, <1>14, <2>1 DEF AppEnds
  <2>3. QED
    BY <1>2, <1>14, <2>2 DEF AppEnds, disk, Cold, NoQuery, None
<1>15. CASE UNCHANGED vars
  BY <1>2, <1>15 DEF vars, disk
<1>16. QED
  BY <1>1, <1>4, <1>5, <1>6, <1>7, <1>8, <1>9, <1>10, <1>11, <1>12, <1>13,
     <1>14, <1>15 DEF Next, TypeOK, BuildRecord

-----------------------------------------------------------------------------
\* What is true of a build wherever it is: the file it has, the result it has
\* so far, and the slot.
Path(n) ==
  /\ part[n] # {} => builds[n].pc \in {"embed", "rename", "cleanup", "killed"}
  /\ builds[n].pc \in (Thread \cup {"none", "resolved"}) \ {"cleanup", "return"}
       => builds[n].result = "none"
  /\ builds[n].pc = "cleanup" => builds[n].result \in {"cancelled", "error"}
  /\ pack[n] # {} => \/ builds[n].pc = "mount"
                     \/ builds[n].result \in {"ok", "unmounted"}
                     \/ builds[n].pc = "killed" /\ builds[n].result = "none"
  /\ builds[n].pc = "rename" => part[n] \subseteq {Whole}
  /\ pack[n] \subseteq {Whole}
  /\ builds[n].pc \in Thread => active = n
OnPath == \A n \in Build : Path(n)

LEMMA PathInit == Init => OnPath
BY DEF Init, OnPath, Path, Unasked, Thread

\* A build nothing happens to, but that its files may go.
LEMMA PathKept ==
  ASSUME NEW m \in Build, Path(m),
         builds'[m].pc = builds[m].pc, builds'[m].result = builds[m].result,
         part'[m] \in {part[m], {}}, pack'[m] \in {pack[m], {}},
         builds[m].pc \in Thread => active' = active
  PROVE  Path(m)'
BY DEF Path

LEMMA PathThread ==
  ASSUME TypeOK, OnPath, NEW n \in Build, BuildThread(n)
  PROVE  OnPath'
<1>1. /\ Path(n)
      /\ part \in [Build -> SUBSET File] /\ pack \in [Build -> SUBSET File]
      /\ builds \in [Build -> BuildRecord] /\ active \in Build \cup {None}
      /\ None \notin Build
  BY DEF OnPath, TypeOK, BuildRecord, None, Build
<1>2. SUFFICES Path(n)' /\ \A m \in Build : m # n => Path(m)'
  BY DEF OnPath
<1>3. ASSUME /\ \A m \in Build : m # n => builds'[m] = builds[m]
             /\ \A m \in Build : m # n => part'[m] = part[m]
             /\ \A m \in Build : m # n => pack'[m] = pack[m]
             /\ active = active' \/ active = n \/ active = None
      PROVE  \A m \in Build : m # n => Path(m)'
  BY <1>1, <1>3, PathKept DEF OnPath, Path
<1>4. CASE Claim(n)
  <2>1. part' = part /\ pack' = pack
    BY <1>4 DEF Claim, disk
  <2>2. CASE active # None /\ Fail(n, "refused", "ended") /\ UNCHANGED active
    <3>1. /\ \A m \in Build : m # n => builds'[m] = builds[m]
          /\ builds'[n].pc = "ended" /\ builds'[n].result = "refused"
      BY <2>2, FailFacts DEF Result
    <3>2. part[n] = {} /\ pack[n] = {}
      BY <1>1, <1>4 DEF Path, Claim, Thread
    <3>3. Path(n)'
      BY <2>1, <3>1, <3>2 DEF Path, Thread
    <3>4. QED
      BY <1>3, <2>1, <2>2, <3>1, <3>3
  <2>3. CASE active = None /\ Goto(n, "embedder") /\ active' = n
    <3>1. /\ \A m \in Build : m # n => builds'[m] = builds[m]
          /\ builds'[n].pc = "embedder" /\ builds'[n].result = builds[n].result
      BY <2>3, GotoFacts DEF Thread
    <3>2. part[n] = {} /\ pack[n] = {} /\ builds[n].result = "none"
      BY <1>1, <1>4 DEF Path, Claim, Thread
    <3>3. Path(n)'
      BY <2>1, <2>3, <3>1, <3>2 DEF Path
    <3>4. QED
      BY <1>3, <2>1, <2>3, <3>1, <3>3
  <2>4. QED
    BY <1>4, <2>2, <2>3 DEF Claim
<1>5. ASSUME /\ builds[n].pc \in {"embedder", "loading", "read"}
             /\ part' = part /\ pack' = pack /\ active' = active
             /\ \/ \E pc \in {"loading", "read", "open"} : Goto(n, pc)
                \/ \E why \in {"error", "cancelled"} : Fail(n, why, "return")
      PROVE  Path(n)' /\ \A m \in Build : m # n => Path(m)'
  <2>1. /\ \A m \in Build : m # n => builds'[m] = builds[m]
        /\ \/ builds'[n].pc \in {"loading", "read", "open"}
              /\ builds'[n].result = builds[n].result
           \/ builds'[n].pc = "return" /\ builds'[n].result \in {"error", "cancelled"}
    BY <1>5, GotoFacts, FailFacts DEF Thread, Result
  <2>2. part[n] = {} /\ pack[n] = {} /\ builds[n].result = "none" /\ active = n
    BY <1>1, <1>5 DEF Path, Thread
  <2>3. Path(n)'
    BY <1>5, <2>1, <2>2 DEF Path, Thread
  <2>4. QED
    BY <1>3, <1>5, <2>1, <2>3
<1>6. CASE GetOrLoad(n)
  BY <1>5, <1>6 DEF GetOrLoad, disk
<1>7. CASE Loaded(n)
  BY <1>5, <1>7 DEF Loaded, disk
<1>8. CASE Read(n)
  BY <1>5, <1>8 DEF Read, disk
<1>9. CASE Open(n)
  <2>1. /\ pack' = pack /\ active' = active
        /\ \A m \in Build : m # n => part'[m] = part[m]
    BY <1>1, <1>9 DEF Open
  <2>2. part[n] = {} /\ pack[n] = {} /\ builds[n].result = "none" /\ active = n
    BY <1>1, <1>9 DEF Path, Thread, Open
  <2>3. /\ \A m \in Build : m # n => builds'[m] = builds[m]
        /\ \/ builds'[n].pc = "embed" /\ builds'[n].result = builds[n].result
           \/ /\ builds'[n].pc = "cleanup" /\ builds'[n].result = "error"
              /\ part' = part
    BY <1>9, GotoFacts, FailFacts DEF Thread, Result, Open
  <2>4. Path(n)'
    BY <2>1, <2>2, <2>3 DEF Path
  <2>5. QED
    BY <1>3, <2>1, <2>3, <2>4
<1>10. CASE Embed(n)
  <2>1. /\ pack' = pack /\ active' = active
        /\ \A m \in Build : m # n => part'[m] = part[m]
    BY <1>1, <1>10 DEF Embed
  <2>2. pack[n] = {} /\ builds[n].result = "none" /\ active = n
    BY <1>1, <1>10 DEF Path, Thread, Embed
  <2>4. /\ \A m \in Build : m # n => builds'[m] = builds[m]
        /\ \/ builds'[n].pc = "embed" /\ builds'[n].result = builds[n].result
           \/ /\ builds'[n].pc = "cleanup"
              /\ builds'[n].result \in {"error", "cancelled"}
           \/ /\ builds'[n].pc = "rename" /\ builds'[n].result = builds[n].result
              /\ part'[n] = {Whole}
    BY <1>1, <1>10, GotoFacts, FailFacts DEF Thread, Result, Embed
  <2>5. Path(n)'
    BY <2>1, <2>2, <2>4 DEF Path
  <2>6. QED
    BY <1>3, <2>1, <2>4, <2>5
<1>11. CASE Rename(n)
  <2>1. /\ active' = active
        /\ \A m \in Build : m # n => part'[m] = part[m] /\ pack'[m] = pack[m]
    BY <1>1, <1>11 DEF Rename
  <2>2. /\ pack[n] = {} /\ builds[n].result = "none" /\ active = n
        /\ part[n] \subseteq {Whole}
    BY <1>1, <1>11 DEF Path, Thread, Rename
  <2>3. /\ \A m \in Build : m # n => builds'[m] = builds[m]
        /\ \/ /\ builds'[n].pc = "mount" /\ builds'[n].result = builds[n].result
              /\ part'[n] = {} /\ pack'[n] = part[n]
           \/ /\ builds'[n].pc = "cleanup" /\ builds'[n].result = "error"
              /\ part' = part /\ pack' = pack
    BY <1>1, <1>11, GotoFacts, FailFacts DEF Thread, Result, Rename
  <2>4. Path(n)'
    BY <2>1, <2>2, <2>3 DEF Path
  <2>5. QED
    BY <1>3, <2>1, <2>3, <2>4
<1>12. CASE Cleanup(n)
  <2>1. /\ active' = active /\ pack' = pack /\ part'[n] = {}
        /\ \A m \in Build : m # n => part'[m] = part[m]
    BY <1>1, <1>12 DEF Cleanup
  <2>2. pack[n] = {} /\ builds[n].result \in {"cancelled", "error"} /\ active = n
    BY <1>1, <1>12 DEF Path, Thread, Cleanup
  <2>3. /\ \A m \in Build : m # n => builds'[m] = builds[m]
        /\ builds'[n].pc = "return" /\ builds'[n].result = builds[n].result
    BY <1>12, GotoFacts DEF Thread, Cleanup
  <2>4. Path(n)'
    BY <2>1, <2>2, <2>3 DEF Path
  <2>5. QED
    BY <1>3, <2>1, <2>3, <2>4
<1>13. CASE Mount(n)
  <2>1. active' = active /\ pack' = pack /\ part' = part
    BY <1>13 DEF Mount, disk
  <2>2. part[n] = {} /\ pack[n] \subseteq {Whole} /\ active = n
    BY <1>1, <1>13 DEF Path, Thread, Mount
  <2>3. /\ \A m \in Build : m # n => builds'[m] = builds[m]
        /\ builds'[n].pc = "return" /\ builds'[n].result \in {"ok", "unmounted"}
    BY <1>13, FailFacts DEF Thread, Result, Mount
  <2>4. Path(n)'
    BY <2>1, <2>2, <2>3 DEF Path
  <2>5. QED
    BY <1>3, <2>1, <2>3, <2>4
<1>14. CASE Return(n)
  <2>1. active' = None /\ pack' = pack /\ part' = part
    BY <1>14 DEF Return, disk
  <2>2. active = n /\ part[n] = {} /\ pack[n] \subseteq {Whole}
        /\ (pack[n] # {} => builds[n].result \in {"ok", "unmounted"})
    BY <1>1, <1>14 DEF Path, Thread, Return
  <2>3. builds[n] \in BuildRecord
    BY <1>1
  <2>4. /\ \A m \in Build : m # n => builds'[m] = builds[m]
        /\ builds'[n].pc = "ended" /\ builds'[n].result = builds[n].result
    BY <1>1, <1>14, <2>3, EndedFacts DEF Return
  <2>5. Path(n)'
    BY <2>1, <2>2, <2>4 DEF Path, Thread
  <2>6. QED
    BY <1>3, <2>1, <2>2, <2>4, <2>5
<1>15. QED
  BY <1>4, <1>6, <1>7, <1>8, <1>9, <1>10, <1>11, <1>12, <1>13, <1>14
  DEF BuildThread

LEMMA PathStep == TypeOK /\ OnPath /\ [Next]_vars => OnPath'
<1>1. SUFFICES ASSUME TypeOK, OnPath, [Next]_vars PROVE OnPath'
  OBVIOUS
<1>2. /\ part \in [Build -> SUBSET File] /\ pack \in [Build -> SUBSET File]
      /\ builds \in [Build -> BuildRecord] /\ active \in Build \cup {None}
      /\ None \notin Build
  BY <1>1 DEF TypeOK, BuildRecord, None, Build
<1>3. ASSUME UNCHANGED <<disk, builds, active>> \/ UNCHANGED <<part, pack, builds, active>>
      PROVE  OnPath'
  BY <1>1, <1>3, PathKept DEF OnPath, disk
<1>4. ASSUME NEW u \in User, SignIn(u) \/ RemoveAccount(u) PROVE OnPath'
  BY <1>3, <1>4 DEF SignIn, RemoveAccount
<1>5. CASE SignOut \/ Attach \/ RagQuery \/ QueryThread \/ WipeEnds \/ UNCHANGED vars
  BY <1>3, <1>5
  DEF SignOut, Attach, RagQuery, QueryThread, QueryMounts, QueryEmbeds,
      QueryLoaded, QueryEnds, WipeEnds, vars
<1>6. CASE Cancel
  <2>1. UNCHANGED <<part, pack, active>>
    BY <1>6 DEF Cancel, disk
  <2>2. \A m \in Build : /\ builds'[m].pc = builds[m].pc
                         /\ builds'[m].result = builds[m].result
    BY <1>2, <1>6 DEF Cancel, BuildRecord
  <2>3. QED
    BY <1>1, <2>1, <2>2, PathKept DEF OnPath
<1>7. ASSUME NEW n \in Build, NEW pdf \in BOOLEAN, BuildPersonalPack(n, pdf)
      PROVE  OnPath'
  <2>1. builds[n] = Unasked /\ UNCHANGED <<part, pack, active>>
    BY <1>7 DEF BuildPersonalPack
  <2>2. /\ \A m \in Build : m # n => builds'[m] = builds[m]
        /\ builds'[n].pc = "resolved" /\ builds'[n].result = "none"
    BY <1>2, <1>7 DEF BuildPersonalPack, Unasked
  <2>3. part[n] = {} /\ pack[n] = {}
    BY <1>1, <2>1 DEF OnPath, Path, Unasked
  <2>4. Path(n)'
    BY <2>1, <2>2, <2>3 DEF Path, Thread
  <2>5. QED
    BY <1>1, <2>1, <2>2, <2>4, PathKept DEF OnPath
<1>8. ASSUME NEW n \in Build, BuildThread(n) PROVE OnPath'
  BY <1>1, <1>8, PathThread
<1>9. ASSUME NEW n \in Build, DeletePack(n) \/ WipeFile(n) PROVE OnPath'
  <2>1. UNCHANGED <<builds, active>>
    BY <1>9 DEF DeletePack, WipeFile
  <2>2. \A m \in Build : part'[m] \in {part[m], {}} /\ pack'[m] \in {pack[m], {}}
    BY <1>2, <1>9 DEF DeletePack, WipeFile
  <2>3. QED
    BY <1>1, <2>1, <2>2, PathKept DEF OnPath
<1>10. CASE AppEnds
  <2>1. UNCHANGED <<part, pack>> /\ active' = None
    BY <1>10 DEF AppEnds, disk
  <2>2. ASSUME NEW m \in Build PROVE Path(m)'
    <3>1. CASE Running(m)
      <4>1. builds'[m].pc = "killed" /\ builds'[m].result = builds[m].result
        BY <1>2, <1>10, <3>1, EndedFacts DEF AppEnds
      <4>2. Path(m)
        BY <1>1 DEF OnPath
      <4>3. QED
        BY <2>1, <3>1, <4>1, <4>2 DEF Path, Thread, Running
    <3>2. CASE ~Running(m)
      <4>1. builds'[m] = builds[m] /\ builds[m].pc \notin Thread
        BY <1>2, <1>10, <3>2 DEF AppEnds, Running
      <4>2. QED
        BY <1>1, <2>1, <4>1, PathKept DEF OnPath
    <3>3. QED
      BY <3>1, <3>2
  <2>3. QED
    BY <2>2 DEF OnPath
<1>11. QED
  BY <1>1, <1>4, <1>5, <1>6, <1>7, <1>8, <1>9, <1>10 DEF Next

LEMMA AlwaysOnPath == Spec => [](TypeOK /\ OnPath)
<1>1. Init => TypeOK /\ OnPath
  BY TypeInit, PathInit
<1>2. TypeOK /\ OnPath /\ [Next]_vars => (TypeOK /\ OnPath)'
  BY TypeStep, PathStep
<1>3. QED
  BY <1>1, <1>2, PTL DEF Spec

\* One build at a time, whoever asks and whatever fails.
THEOREM OneBuildAtATime == Spec => []OneBuild
<1>1. OnPath => OneBuild
  BY DEF OnPath, Path, OneBuild
<1>2. QED
  BY <1>1, AlwaysOnPath, PTL

\* Every .kpack is whole.
THEOREM PacksAreWhole == Spec => []PackIsWhole
<1>1. OnPath => PackIsWhole
  BY DEF OnPath, Path, PackIsWhole
<1>2. QED
  BY <1>1, AlwaysOnPath, PTL

\* A build leaves what it says it leaves.
THEOREM BuildsEndClean == Spec => []EndsClean
<1>1. OnPath => EndsClean
  BY DEF OnPath, Path, EndsClean, Running, Thread
<1>2. QED
  BY <1>1, AlwaysOnPath, PTL

-----------------------------------------------------------------------------
\* A query past its mounting has mounted all it was asked.
AllMounted == /\ query.pc \in {"loading", "answered"} => query.mounted = query.asked
              /\ query.pc # "embedder"

\* A turn is grounded in every pack attached to its chat, or fails.
THEOREM TurnsGroundedInAll == Spec => []GroundedInAll
<1>1. Init => AllMounted
  BY DEF Init, AllMounted, NoQuery
<1>2. TypeOK /\ AllMounted /\ [Next]_vars => AllMounted'
  <2>1. SUFFICES ASSUME TypeOK, AllMounted, [Next]_vars PROVE AllMounted'
    OBVIOUS
  <2>2. query \in [pc : {"idle", "mount", "embedder", "loading", "answered"},
                   user : User \cup {NoUser}, asked : SUBSET Build,
                   mounted : SUBSET Build]
    BY <2>1 DEF TypeOK
  <2>3. CASE query' = query
    BY <2>1, <2>3 DEF AllMounted
  <2>4. CASE query' = NoQuery
    BY <2>4 DEF AllMounted, NoQuery
  <2>5. CASE RagQuery
    BY <2>5 DEF RagQuery, AllMounted
  <2>6. ASSUME NEW n \in Build, QueryMounts(n) PROVE AllMounted'
    BY <2>2, <2>4, <2>6 DEF QueryMounts, AllMounted
  <2>7. CASE QueryEmbeds
    BY <2>1, <2>2, <2>7 DEF QueryEmbeds, AllMounted
  <2>8. CASE QueryLoaded
    BY <2>1, <2>2, <2>4, <2>8 DEF QueryLoaded, AllMounted
  <2>9. query' \in {query, NoQuery} \/ RagQuery \/ QueryThread
    BY <2>1 DEF Next, SignIn, RemoveAccount, SignOut, Cancel, Attach,
       BuildPersonalPack, BuildThread, Claim, GetOrLoad, Loaded, Read, Open,
       Embed, Rename, Cleanup, Mount, Return, DeletePack, WipeFile, WipeEnds,
       AppEnds, vars
  <2>10. QED
    BY <2>3, <2>4, <2>5, <2>6, <2>7, <2>8, <2>9 DEF QueryThread, QueryEnds
<1>3. AllMounted => GroundedInAll
  BY DEF AllMounted, GroundedInAll
<1>4. Init => TypeOK
  BY TypeInit
<1>5. TypeOK /\ [Next]_vars => TypeOK'
  BY TypeStep
<1>6. QED
  BY <1>1, <1>2, <1>3, <1>4, <1>5, PTL DEF Spec

-----------------------------------------------------------------------------
\* Why what is wiped stays gone: a build of a wiped account that still runs
\* has no directory to write to, and nobody signed in who would make it one.
Barred(n) ==
  /\ builds[n].user # NoUser
  /\ Running(n) => builds[n].user \notin dirs /\ user # builds[n].user
  /\ part[n] = {} /\ pack[n] = {}
Gone == (wipe # NoUser => user # wipe) /\ \A n \in wiped : Barred(n)

\* One step of a wiped build's thread leaves it barred.
LEMMA BarredThread ==
  ASSUME TypeOK, NEW n \in Build, NEW m \in Build, Barred(m), BuildThread(n)
  PROVE  Barred(m)'
<1>1. /\ part \in [Build -> SUBSET File] /\ pack \in [Build -> SUBSET File]
      /\ builds \in [Build -> BuildRecord]
  BY DEF TypeOK, BuildRecord
<1>2. dirs' = dirs /\ user' = user
  BY DEF BuildThread, Claim, GetOrLoad, Loaded, Read, Open, Embed, Rename,
         Cleanup, Mount, Return, disk
<1>3. /\ \A k \in Build : k # n => builds'[k] = builds[k]
      /\ builds'[n].user = builds[n].user
  <2>1. CASE Claim(n) \/ GetOrLoad(n) \/ Loaded(n) \/ Read(n) \/ Open(n)
    BY <2>1, GotoFacts, FailFacts
    DEF Claim, GetOrLoad, Loaded, Read, Open, Thread, Result
  <2>2. CASE Embed(n)
    BY <2>2, GotoFacts, FailFacts DEF Embed, Thread, Result
  <2>3. CASE Rename(n) \/ Cleanup(n) \/ Mount(n)
    BY <2>3, GotoFacts, FailFacts DEF Rename, Cleanup, Mount, Thread, Result
  <2>4. CASE Return(n)
    BY <1>1, <2>4, EndedFacts DEF Return
  <2>5. QED
    BY <2>1, <2>2, <2>3, <2>4 DEF BuildThread
<1>4. Running(n)
  BY DEF BuildThread, Claim, GetOrLoad, Loaded, Read, Open, Embed, Rename,
         Cleanup, Mount, Return, Running, Thread
<1>5. \A k \in Build : k # n => part'[k] = part[k] /\ pack'[k] = pack[k]
  BY <1>1 DEF BuildThread, Claim, GetOrLoad, Loaded, Read, Open, Embed, Rename,
         Cleanup, Mount, Return, disk
<1>6. CASE m # n
  BY <1>2, <1>3, <1>5, <1>6 DEF Barred, Running
<1>7. CASE m = n
  <2>1. part[n] = {} /\ pack[n] = {} /\ builds[n].user \notin dirs
    BY <1>4, <1>7 DEF Barred
  <2>2. part'[n] = {} /\ pack'[n] = {}
    BY <1>1, <2>1
    DEF BuildThread, Claim, GetOrLoad, Loaded, Read, Open, Embed, Rename,
        Cleanup, Mount, Return, disk
  <2>3. QED
    BY <1>2, <1>3, <1>4, <1>7, <2>2 DEF Barred
<1>8. QED
  BY <1>6, <1>7

LEMMA GoneStep ==
  "late" \notin Beyond /\ TypeOK /\ Gone /\ [Next]_vars => Gone'
<1>1. SUFFICES ASSUME "late" \notin Beyond, TypeOK, Gone, [Next]_vars PROVE Gone'
  OBVIOUS
<1>2. /\ part \in [Build -> SUBSET File] /\ pack \in [Build -> SUBSET File]
      /\ builds \in [Build -> BuildRecord] /\ wiped \subseteq Build
      /\ user \in User \cup {NoUser} /\ wipe \in User \cup {NoUser}
  BY <1>1 DEF TypeOK, BuildRecord
<1>3. CASE UNCHANGED <<user, wipe, wiped, disk, builds>>
  BY <1>1, <1>3 DEF Gone, Barred, Running, disk
<1>4. ASSUME NEW u \in User, SignIn(u) PROVE Gone'
  <2>1. /\ UNCHANGED <<disk, builds, wipe, wiped>> /\ user' = u /\ wipe # u
        /\ \A n \in wiped : builds[n].user = u => ~Running(n)
    BY <1>1, <1>4 DEF SignIn
  <2>2. QED
    BY <1>1, <2>1 DEF Gone, Barred, Running, disk
<1>5. ASSUME NEW u \in User, RemoveAccount(u) PROVE Gone'
  <2>1. /\ UNCHANGED <<disk, builds, wiped>> /\ wipe' = u
        /\ user' = IF user = u THEN NoUser ELSE user
    BY <1>5 DEF RemoveAccount
  <2>2. user' # u /\ user' \in {user, NoUser}
    BY <1>2, <2>1
  <2>3. QED
    BY <1>1, <2>1, <2>2 DEF Gone, Barred, Running, disk
<1>6. CASE SignOut
  <2>1. UNCHANGED <<disk, builds, wipe, wiped>> /\ user' = NoUser
    BY <1>6 DEF SignOut
  <2>2. QED
    BY <1>1, <2>1 DEF Gone, Barred, Running, disk
<1>7. CASE Cancel
  <2>1. UNCHANGED <<disk, user, wipe, wiped>>
    BY <1>7 DEF Cancel
  <2>2. \A m \in Build : /\ builds'[m].pc = builds[m].pc
                         /\ builds'[m].user = builds[m].user
    BY <1>2, <1>7 DEF Cancel, BuildRecord
  <2>3. QED
    BY <1>1, <1>2, <2>1, <2>2 DEF Gone, Barred, Running, disk
<1>8. CASE Attach \/ RagQuery
  <2>1. /\ UNCHANGED <<part, pack, builds, user, wipe, wiped>>
        /\ dirs' = dirs \cup {user}
    BY <1>8 DEF Attach, RagQuery, PacksDir
  <2>2. QED
    BY <1>1, <2>1 DEF Gone, Barred, Running
<1>9. CASE QueryThread
  BY <1>3, <1>9 DEF QueryThread, QueryMounts, QueryEmbeds, QueryLoaded, QueryEnds
<1>10. ASSUME NEW n \in Build, NEW pdf \in BOOLEAN, BuildPersonalPack(n, pdf)
       PROVE  Gone'
  <2>1. /\ UNCHANGED <<part, pack, user, wipe, wiped>>
        /\ dirs' = dirs \cup {user}
        /\ \A m \in Build : m # n => builds'[m] = builds[m]
        /\ builds[n].user = NoUser
    BY <1>2, <1>10 DEF BuildPersonalPack, PacksDir, Unasked
  <2>2. n \notin wiped
    BY <1>1, <2>1 DEF Gone, Barred
  <2>3. QED
    BY <1>1, <1>2, <2>1, <2>2 DEF Gone, Barred, Running
<1>11. ASSUME NEW n \in Build, BuildThread(n) PROVE Gone'
  <2>1. UNCHANGED <<user, wipe, wiped>>
    BY <1>11 DEF BuildThread, Claim, GetOrLoad, Loaded, Read, Open, Embed,
       Rename, Cleanup, Mount, Return
  <2>2. \A m \in wiped : Barred(m)'
    BY <1>1, <1>2, <1>11, BarredThread DEF Gone
  <2>3. QED
    BY <1>1, <2>1, <2>2 DEF Gone
<1>12. ASSUME NEW n \in Build, DeletePack(n) PROVE Gone'
  <2>1. /\ UNCHANGED <<part, builds, user, wipe, wiped>>
        /\ dirs' = dirs \cup {user}
        /\ \A m \in Build : pack'[m] \in {pack[m], {}}
    BY <1>2, <1>12 DEF DeletePack, PacksDir
  <2>2. QED
    BY <1>1, <1>2, <2>1 DEF Gone, Barred, Running
<1>13. ASSUME NEW n \in Build, WipeFile(n) PROVE Gone'
  <2>1. /\ UNCHANGED <<dirs, builds, user, wipe, wiped>>
        /\ \A m \in Build : /\ pack'[m] \in {pack[m], {}}
                            /\ part'[m] \in {part[m], {}}
    BY <1>2, <1>13 DEF WipeFile
  <2>2. QED
    BY <1>1, <1>2, <2>1 DEF Gone, Barred, Running
<1>14. CASE WipeEnds
  <2>1. /\ UNCHANGED <<user, part, pack, builds>> /\ wipe # NoUser /\ wipe' = NoUser
        /\ dirs' \subseteq dirs
        /\ \A n \in wiped' : \/ n \in wiped
                             \/ /\ builds[n].user = wipe /\ part[n] = {}
                                /\ pack[n] = {} /\ wipe \notin dirs'
    BY <1>14 DEF WipeEnds
  <2>2. \A n \in wiped' : Barred(n)'
    BY <1>1, <2>1 DEF Gone, Barred, Running
  <2>3. QED
    BY <2>1, <2>2 DEF Gone
<1>15. CASE AppEnds
  <2>1. UNCHANGED <<disk, wiped>> /\ user' = NoUser /\ wipe' = NoUser
    BY <1>15 DEF AppEnds
  <2>2. ASSUME NEW n \in Build
        PROVE  builds'[n].user = builds[n].user /\ ~Running(n)'
    <3>1. CASE Running(n)
      <4>1. builds'[n] = Ended(builds[n], "killed") /\ builds[n] \in BuildRecord
        BY <1>2, <1>15, <3>1 DEF AppEnds
      <4>2. builds'[n].user = builds[n].user /\ builds'[n].pc = "killed"
        BY <4>1 DEF Ended, BuildRecord
      <4>3. QED
        BY <4>2 DEF Running, Thread
    <3>2. CASE ~Running(n)
      <4>1. builds'[n] = builds[n]
        BY <1>2, <1>15, <3>2 DEF AppEnds
      <4>2. QED
        BY <3>2, <4>1 DEF Running
    <3>3. QED
      BY <3>1, <3>2
  <2>3. \A n \in wiped : Barred(n)'
    BY <1>1, <1>2, <2>1, <2>2 DEF Gone, Barred, disk
  <2>4. QED
    BY <2>1, <2>3 DEF Gone
<1>16. CASE UNCHANGED vars
  BY <1>3, <1>16 DEF vars
<1>17. QED
  BY <1>1, <1>4, <1>5, <1>6, <1>7, <1>8, <1>9, <1>10, <1>11, <1>12, <1>13,
     <1>14, <1>15, <1>16 DEF Next

\* What is wiped stays gone, unless its account comes back while a build it
\* asked for before still runs.
THEOREM WhatIsWipedStaysGone ==
  ASSUME "late" \notin Beyond
  PROVE  Spec => []WipedStaysGone
<1>1. Init => TypeOK /\ Gone
  <2>1. Init => Gone
    BY DEF Init, Gone
  <2>2. QED
    BY <2>1, TypeInit
<1>2. TypeOK /\ Gone /\ [Next]_vars => (TypeOK /\ Gone)'
  BY TypeStep, GoneStep
<1>3. Gone => WipedStaysGone
  BY DEF Gone, Barred, WipedStaysGone
<1>4. QED
  BY <1>1, <1>2, <1>3, PTL DEF Spec

-----------------------------------------------------------------------------
(* What frees the slot: the build that holds it has a thread that only ever goes
   forward, and the lock it may wait for is held by a thread that is loading. *)

\* The embedder's lock is held across the load, by the one that loads and by
\* nobody else, and there is nothing more to load afterwards.
Loaders == {n \in Build : builds[n].pc = "loading"}
           \cup (IF query.pc = "loading" THEN {Page} ELSE {})
LockServed ==
  /\ embedder.holder = Loaders
  /\ \A x, y \in Loaders : x = y
  /\ embedder.loaded => Loaders = {}

\* The slot is held by a build whose thread has yet to return; a build writes
\* one .part file.
SlotServed == \A n \in Build :
  /\ active = n => builds[n].pc \in Thread
  /\ \A f, g \in part[n] : f = g

StepsLeft == [embedder |-> 9, loading |-> 8, read |-> 7, open |-> 6, embed |-> 5,
              rename |-> 4, mount |-> 3, cleanup |-> 2, return |-> 1,
              none |-> 0, resolved |-> 0, ended |-> 0, killed |-> 0]
Place(n) == StepsLeft[builds[n].pc]

\* One more chunk in the file, which holds at most Chunks of them.
Grows(n) == \E f \in part[n] : /\ part[n] = {f} /\ f.rows < Chunks
                               /\ part'[n] = {[f EXCEPT !.rows = @ + 1]}

\* While a build keeps the slot nothing sends it back, and each step of its own
\* thread brings it to a later place or puts one more chunk into its file.
SlotNears == \A n \in Build : active = n /\ active' = n =>
  /\ \/ Place(n)' < Place(n)
     \/ Place(n)' = Place(n) /\ (part'[n] \in {part[n], {}} \/ Grows(n))
  /\ BuildThread(n) => Place(n)' < Place(n) \/ (Place(n)' = Place(n) /\ Grows(n))

\* Where a thread's step takes it.
LEMMA ThreadMoves ==
  ASSUME TypeOK, SlotServed, NEW n \in Build, BuildThread(n)
  PROVE  /\ \A m \in Build : m # n => builds'[m] = builds[m] /\ part'[m] = part[m]
         /\ \A f, g \in part'[n] : f = g
         /\ \/ builds[n].pc = "resolved" /\ builds'[n].pc = "embedder"
               /\ active = None /\ active' = n
            \/ builds[n].pc = "resolved" /\ builds'[n].pc = "ended" /\ active' = active
               /\ active # None
            \/ builds[n].pc = "return" /\ builds'[n].pc = "ended" /\ active' = None
            \/ builds[n].pc = "embed" /\ builds'[n].pc = "embed" /\ active' = active /\ Grows(n)
            \/ /\ active' = active /\ builds'[n].pc \in Thread /\ builds[n].pc \in Thread
               /\ Place(n)' < Place(n)
         /\ UNCHANGED query
<1>1. /\ part \in [Build -> SUBSET File] /\ pack \in [Build -> SUBSET File]
      /\ builds \in [Build -> BuildRecord] /\ active \in Build \cup {None}
      /\ None \notin Build
  BY DEF TypeOK, BuildRecord, None, Build
<1>2. \A f, g \in part[n] : f = g
  BY DEF SlotServed
<1>3. UNCHANGED query
  BY DEF BuildThread, Claim, GetOrLoad, Loaded, Read, Open, Embed, Rename, Cleanup, Mount, Return
<1>4. CASE Claim(n)
  <2>1. \A m \in Build : m # n => builds'[m] = builds[m]
    BY <1>4, GotoFacts, FailFacts DEF Claim, Thread, Result
  <2>2. part' = part /\ builds[n].pc = "resolved"
    BY <1>4 DEF Claim, disk
  <2>3. \/ builds'[n].pc = "embedder" /\ active = None /\ active' = n
        \/ builds'[n].pc = "ended" /\ active' = active /\ active # None
    BY <1>4, GotoFacts, FailFacts DEF Claim, Thread, Result
  <2>4. QED
    BY <1>2, <1>3, <2>1, <2>2, <2>3
\* What goes on to a later place with at most its own file written.
<1>5. ASSUME active' = active, builds[n].pc \in Thread,
             \A m \in Build : m # n => part'[m] = part[m],
             \A f, g \in part'[n] : f = g,
             NEW pc \in Thread, StepsLeft[pc] < Place(n),
             Goto(n, pc) \/ \E why \in Result : Fail(n, why, pc)
      PROVE  /\ \A m \in Build : m # n => builds'[m] = builds[m] /\ part'[m] = part[m]
             /\ \A f, g \in part'[n] : f = g
             /\ active' = active /\ builds[n].pc \in Thread
             /\ builds'[n].pc \in Thread /\ Place(n)' < Place(n)
  <2>1. /\ \A m \in Build : m # n => builds'[m] = builds[m]
        /\ builds'[n].pc = pc
    BY <1>5, GotoFacts, FailFacts
  <2>2. Place(n)' = StepsLeft[pc]
    BY <2>1 DEF Place
  <2>3. QED
    BY <1>5, <2>1, <2>2
<1>6. /\ {"none", "ok", "error", "cancelled", "unmounted"} \subseteq Result
      /\ {"loading", "read", "open", "embed", "rename", "mount", "cleanup", "return"}
           \subseteq Thread
  BY DEF Result, Thread
<1>7. CASE GetOrLoad(n) \/ Loaded(n) \/ Read(n)
  <2>1. /\ part' = part /\ active' = active /\ builds[n].pc \in Thread
        /\ \E pc \in {"read", "loading", "open", "return"} :
             /\ StepsLeft[pc] < Place(n)
             /\ Goto(n, pc) \/ \E why \in {"error", "cancelled"} : Fail(n, why, pc)
    <3>1. CASE GetOrLoad(n)
      <4>1. /\ builds[n].pc = "embedder" /\ part' = part /\ active' = active
            /\ Goto(n, "read") \/ Goto(n, "loading")
        BY <3>1 DEF GetOrLoad, disk
      <4>2. Place(n) = 9 /\ StepsLeft["read"] = 7 /\ StepsLeft["loading"] = 8
        BY <4>1 DEF Place, StepsLeft
      <4>3. QED
        BY <4>1, <4>2 DEF Thread
    <3>2. CASE Loaded(n)
      <4>1. /\ builds[n].pc = "loading" /\ part' = part /\ active' = active
            /\ Goto(n, "read") \/ Fail(n, "error", "return")
        BY <3>2 DEF Loaded, disk
      <4>2. Place(n) = 8 /\ StepsLeft["read"] = 7 /\ StepsLeft["return"] = 1
        BY <4>1 DEF Place, StepsLeft
      <4>3. QED
        BY <4>1, <4>2 DEF Thread
    <3>3. CASE Read(n)
      <4>1. /\ builds[n].pc = "read" /\ part' = part /\ active' = active
            /\ \/ Goto(n, "open")
               \/ Fail(n, "error", "return") \/ Fail(n, "cancelled", "return")
        BY <3>3 DEF Read, disk
      <4>2. Place(n) = 7 /\ StepsLeft["open"] = 6 /\ StepsLeft["return"] = 1
        BY <4>1 DEF Place, StepsLeft
      <4>3. QED
        BY <4>1, <4>2 DEF Thread
    <3>4. QED
      BY <1>7, <3>1, <3>2, <3>3
  <2>2. PICK pc \in {"read", "loading", "open", "return"} :
             /\ StepsLeft[pc] < Place(n)
             /\ Goto(n, pc) \/ \E why \in {"error", "cancelled"} : Fail(n, why, pc)
    BY <2>1
  <2>3. pc \in Thread /\ (Goto(n, pc) \/ \E why \in Result : Fail(n, why, pc))
    BY <1>6, <2>2
  <2>4. QED
    BY <1>2, <1>3, <1>5, <2>1, <2>2, <2>3
<1>8. CASE Open(n)
  <2>1. /\ builds[n].pc = "open" /\ active' = active
        /\ \A m \in Build : m # n => part'[m] = part[m]
        /\ \A f, g \in part'[n] : f = g
        /\ Goto(n, "embed") \/ Fail(n, "error", "cleanup")
    <3>1. /\ builds[n].pc = "open" /\ active' = active
          /\ Goto(n, "embed") \/ Fail(n, "error", "cleanup")
      BY <1>8 DEF Open
    <3>2. part' = part \/ part' = [part EXCEPT ![n] = {[rows |-> 0, manifest |-> FALSE]}]
      BY <1>8 DEF Open
    <3>3. /\ \A m \in Build : m # n => part'[m] = part[m]
          /\ part'[n] = part[n] \/ part'[n] = {[rows |-> 0, manifest |-> FALSE]}
      BY <1>1, <3>2
    <3>4. QED
      BY <1>2, <3>1, <3>3
  <2>2. Place(n) = 6 /\ StepsLeft["embed"] = 5 /\ StepsLeft["cleanup"] = 2
    BY <2>1 DEF Place, StepsLeft
  <2>3. CASE Goto(n, "embed")
    BY <1>3, <1>5, <1>6, <2>1, <2>2, <2>3 DEF Thread
  <2>4. CASE Fail(n, "error", "cleanup")
    BY <1>3, <1>5, <1>6, <2>1, <2>2, <2>4 DEF Thread
  <2>5. QED
    BY <2>1, <2>3, <2>4
<1>9. CASE Embed(n)
  <2>1. /\ builds[n].pc = "embed" /\ active' = active
        /\ \A m \in Build : m # n => part'[m] = part[m]
    BY <1>1, <1>9 DEF Embed
  <2>2. Place(n) = 5 /\ StepsLeft["rename"] = 4 /\ StepsLeft["cleanup"] = 2
    BY <2>1 DEF Place, StepsLeft
  <2>3. CASE /\ UNCHANGED builds
             /\ \E f \in part[n] : /\ f.rows < Chunks
                                   /\ part' = [part EXCEPT ![n] = {[f EXCEPT !.rows = @ + 1]}]
    <3>1. PICK f \in part[n] : /\ f.rows < Chunks
                               /\ part' = [part EXCEPT ![n] = {[f EXCEPT !.rows = @ + 1]}]
      BY <2>3
    <3>2. part'[n] = {[f EXCEPT !.rows = @ + 1]} /\ part[n] = {f}
      BY <1>1, <1>2, <3>1
    <3>3. Grows(n) /\ \A g, h \in part'[n] : g = h
      BY <3>1, <3>2 DEF Grows
    <3>4. QED
      BY <1>3, <2>1, <2>3, <3>3
  <2>4. CASE /\ \A f, g \in part'[n] : f = g
             /\ Fail(n, "error", "cleanup") \/ Fail(n, "cancelled", "cleanup")
    BY <1>3, <1>5, <1>6, <2>1, <2>2, <2>4 DEF Thread
  <2>5. CASE (\A f, g \in part'[n] : f = g) /\ Goto(n, "rename")
    BY <1>3, <1>5, <1>6, <2>1, <2>2, <2>5 DEF Thread
  <2>6. QED
    BY <1>1, <1>2, <1>9, <2>3, <2>4, <2>5 DEF Embed
<1>10. CASE Rename(n)
  <2>1. /\ builds[n].pc = "rename" /\ active' = active
        /\ \A m \in Build : m # n => part'[m] = part[m]
        /\ \A f, g \in part'[n] : f = g
        /\ Goto(n, "mount") \/ Fail(n, "error", "cleanup")
    BY <1>1, <1>2, <1>10 DEF Rename
  <2>2. Place(n) = 4 /\ StepsLeft["mount"] = 3 /\ StepsLeft["cleanup"] = 2
    BY <2>1 DEF Place, StepsLeft
  <2>3. CASE Goto(n, "mount")
    BY <1>3, <1>5, <1>6, <2>1, <2>2, <2>3 DEF Thread
  <2>4. CASE Fail(n, "error", "cleanup")
    BY <1>3, <1>5, <1>6, <2>1, <2>2, <2>4 DEF Thread
  <2>5. QED
    BY <2>1, <2>3, <2>4
<1>11. CASE Cleanup(n)
  <2>1. /\ builds[n].pc = "cleanup" /\ active' = active /\ Goto(n, "return")
        /\ \A m \in Build : m # n => part'[m] = part[m]
        /\ \A f, g \in part'[n] : f = g
    BY <1>1, <1>11 DEF Cleanup
  <2>2. Place(n) = 2 /\ StepsLeft["return"] = 1
    BY <2>1 DEF Place, StepsLeft
  <2>3. QED
    BY <1>3, <1>5, <1>6, <2>1, <2>2 DEF Thread
<1>12. CASE Mount(n)
  <2>1. /\ builds[n].pc = "mount" /\ part' = part /\ active' = active
        /\ Fail(n, "ok", "return") \/ Fail(n, "unmounted", "return")
    BY <1>12 DEF Mount, disk
  <2>2. Place(n) = 3 /\ StepsLeft["return"] = 1
    BY <2>1 DEF Place, StepsLeft
  <2>3. QED
    BY <1>2, <1>3, <1>5, <1>6, <2>1, <2>2 DEF Thread
<1>13. CASE Return(n)
  <2>1. builds[n] \in BuildRecord
    BY <1>1
  <2>2. /\ \A m \in Build : m # n => builds'[m] = builds[m]
        /\ builds'[n].pc = "ended" /\ builds[n].pc = "return"
        /\ part' = part /\ active' = None
    BY <1>1, <1>13, <2>1, EndedFacts DEF Return, disk
  <2>3. QED
    BY <1>2, <1>3, <2>2
<1>14. QED
  BY <1>4, <1>7, <1>8, <1>9, <1>10, <1>11, <1>12, <1>13 DEF BuildThread

\* Whoever is loading has the lock, and only it.
LEMMA LockStep == TypeOK /\ LockServed /\ [Next]_vars => LockServed'
<1>1. SUFFICES ASSUME TypeOK, LockServed, [Next]_vars PROVE LockServed'
  OBVIOUS
<1>2. /\ builds \in [Build -> BuildRecord]
      /\ embedder \in [loaded : BOOLEAN, holder : SUBSET (Build \cup {Page})]
      /\ query.pc \in {"idle", "mount", "embedder", "loading", "answered"}
      /\ Page \notin Build
  BY <1>1 DEF TypeOK, BuildRecord, Page, Build
<1>3. ASSUME UNCHANGED embedder,
             \A n \in Build : builds'[n].pc = "loading" <=> builds[n].pc = "loading",
             query'.pc = "loading" <=> query.pc = "loading"
      PROVE  LockServed'
  BY <1>1, <1>3 DEF LockServed, Loaders
<1>4. CASE \E u \in User : SignIn(u) \/ RemoveAccount(u)
  BY <1>3, <1>4 DEF SignIn, RemoveAccount
<1>5. CASE SignOut \/ Attach \/ WipeEnds \/ UNCHANGED vars
  BY <1>3, <1>5 DEF SignOut, Attach, WipeEnds, vars
<1>6. CASE Cancel
  <2>1. \A n \in Build : builds'[n].pc = builds[n].pc
    BY <1>2, <1>6 DEF Cancel, BuildRecord
  <2>2. QED
    BY <1>3, <1>6, <2>1 DEF Cancel
<1>7. CASE RagQuery
  BY <1>3, <1>7 DEF RagQuery
<1>8. CASE \E n \in Build : QueryMounts(n)
  <2>1. query.pc = "mount" /\ query'.pc \in {"mount", "idle"} /\ UNCHANGED <<builds, embedder>>
    BY <1>8 DEF QueryMounts, NoQuery
  <2>2. QED
    BY <1>3, <2>1
<1>9. CASE QueryEmbeds
  <2>1. /\ UNCHANGED builds /\ query.pc # "loading" /\ embedder.holder = {}
        /\ query'.pc = IF embedder.loaded THEN "answered" ELSE "loading"
        /\ embedder'.holder = IF embedder.loaded THEN {} ELSE {Page}
        /\ embedder'.loaded = embedder.loaded
    BY <1>1, <1>2, <1>9 DEF QueryEmbeds, Lock, TypeOK
  <2>2. QED
    BY <1>1, <1>2, <2>1 DEF LockServed, Loaders
<1>10. CASE QueryLoaded
  <2>1. /\ UNCHANGED builds /\ query.pc = "loading" /\ query'.pc \in {"answered", "idle"}
        /\ embedder'.holder = {}
    BY <1>1, <1>10 DEF QueryLoaded, Unlock, NoQuery, TypeOK
  <2>2. QED
    BY <1>1, <1>2, <2>1 DEF LockServed, Loaders
<1>11. CASE QueryEnds
  BY <1>3, <1>11 DEF QueryEnds, NoQuery
<1>12. ASSUME NEW n \in Build, NEW pdf \in BOOLEAN, BuildPersonalPack(n, pdf) PROVE LockServed'
  <2>1. /\ \A m \in Build : m # n => builds'[m] = builds[m]
        /\ builds'[n].pc = "resolved" /\ builds[n].pc = "none"
    BY <1>2, <1>12 DEF BuildPersonalPack, Unasked
  <2>2. QED
    BY <1>3, <1>12, <2>1 DEF BuildPersonalPack
<1>13. ASSUME NEW n \in Build, BuildThread(n) PROVE LockServed'
  <2>1. CASE GetOrLoad(n)
    <3>1. /\ UNCHANGED query /\ builds[n].pc = "embedder" /\ embedder.holder = {}
          /\ embedder'.holder = IF embedder.loaded THEN {} ELSE {n}
          /\ embedder'.loaded = embedder.loaded
      BY <1>2, <2>1 DEF GetOrLoad, Lock
    <3>2. /\ \A m \in Build : m # n => builds'[m] = builds[m]
          /\ builds'[n].pc = IF embedder.loaded THEN "read" ELSE "loading"
      BY <1>1, <2>1, GotoFacts DEF GetOrLoad, Thread
    <3>3. QED
      BY <1>1, <1>2, <3>1, <3>2 DEF LockServed, Loaders
  <2>2. CASE Loaded(n)
    <3>1. /\ UNCHANGED query /\ builds[n].pc = "loading" /\ embedder'.holder = {}
      BY <1>2, <2>2 DEF Loaded, Unlock
    <3>2. /\ \A m \in Build : m # n => builds'[m] = builds[m]
          /\ builds'[n].pc \in {"read", "return"}
      BY <1>1, <2>2, GotoFacts, FailFacts DEF Loaded, Thread, Result
    <3>3. QED
      BY <1>1, <1>2, <3>1, <3>2 DEF LockServed, Loaders
  <2>3. CASE Claim(n) \/ Read(n) \/ Open(n) \/ Embed(n) \/ Rename(n) \/ Cleanup(n)
             \/ Mount(n) \/ Return(n)
    <3>1. UNCHANGED <<embedder, query>> /\ builds[n].pc # "loading"
      BY <2>3 DEF Claim, Read, Open, Embed, Rename, Cleanup, Mount, Return
    <3>2. CASE Return(n)
      <4>1. builds[n] \in BuildRecord
        BY <1>2
      <4>2. /\ \A m \in Build : m # n => builds'[m] = builds[m]
            /\ builds'[n].pc = "ended"
        BY <1>2, <3>2, <4>1, EndedFacts DEF Return
      <4>3. QED
        BY <1>3, <3>1, <4>2
    <3>3. CASE ~Return(n)
      <4>1. \/ UNCHANGED builds
            \/ \E pc \in {"ended", "embedder", "open", "embed", "rename", "mount", "return",
                          "cleanup"} :
                 Goto(n, pc) \/ \E why \in Result : Fail(n, why, pc)
        BY <2>3, <3>3 DEF Claim, Read, Open, Embed, Rename, Cleanup, Mount, Result
      <4>2. /\ \A m \in Build : m # n => builds'[m] = builds[m]
            /\ builds'[n].pc # "loading"
        BY <1>1, <3>1, <4>1, GotoFacts, FailFacts DEF Thread
      <4>3. QED
        BY <1>3, <3>1, <4>2
    <3>4. QED
      BY <3>2, <3>3
  <2>4. QED
    BY <1>13, <2>1, <2>2, <2>3 DEF BuildThread
<1>14. ASSUME NEW n \in Build, DeletePack(n) \/ WipeFile(n) PROVE LockServed'
  BY <1>3, <1>14 DEF DeletePack, WipeFile
<1>15. CASE AppEnds
  <2>1. embedder' = Cold /\ query' = NoQuery
    BY <1>15 DEF AppEnds
  <2>2. ASSUME NEW n \in Build PROVE builds'[n].pc # "loading"
    <3>1. builds'[n] = IF Running(n) THEN Ended(builds[n], "killed") ELSE builds[n]
      BY <1>15 DEF AppEnds
    <3>2. Ended(builds[n], "killed").pc = "killed"
      BY <1>2, EndedFacts
    <3>3. QED
      BY <3>1, <3>2 DEF Running, Thread
  <2>3. query'.pc = "idle" /\ embedder'.holder = {}
    BY <2>1 DEF Cold, NoQuery
  <2>4. Loaders' = {}
    BY <2>2, <2>3 DEF Loaders
  <2>5. QED
    BY <2>3, <2>4 DEF LockServed
<1>16. QED
  BY <1>1, <1>4, <1>5, <1>6, <1>7, <1>8, <1>9, <1>10, <1>11, <1>12, <1>13, <1>14, <1>15
  DEF Next, QueryThread

\* The slot is served, and what holds it goes forward.
LEMMA SlotStep ==
  TypeOK /\ OnPath /\ SlotServed /\ [Next]_vars => SlotServed' /\ SlotNears
<1>1. SUFFICES ASSUME TypeOK, OnPath, SlotServed, [Next]_vars PROVE SlotServed' /\ SlotNears
  OBVIOUS
<1>2. /\ part \in [Build -> SUBSET File] /\ builds \in [Build -> BuildRecord]
      /\ active \in Build \cup {None} /\ None \notin Build
      /\ \A n \in Build : builds[n].pc \in Thread => active = n
  BY <1>1 DEF TypeOK, BuildRecord, None, Build, OnPath, Path
\* Whatever else happens, a build that runs stays where it is.
<1>3. ASSUME \/ active' = active /\ \A m \in Build : active = m => builds'[m].pc = builds[m].pc
             \/ active' = None,
             \A m \in Build : part'[m] \in {part[m], {}},
             \A m \in Build : ~BuildThread(m)
      PROVE  SlotServed' /\ SlotNears
  <2>1. SlotServed'
    BY <1>1, <1>2, <1>3 DEF SlotServed
  <2>2. SlotNears
    BY <1>2, <1>3 DEF SlotNears, Place
  <2>3. QED
    BY <2>1, <2>2
<1>4. ASSUME NEW n \in Build, BuildThread(n) PROVE SlotServed' /\ SlotNears
  <2>1. /\ \A m \in Build : m # n => builds'[m] = builds[m] /\ part'[m] = part[m]
        /\ \A f, g \in part'[n] : f = g
        /\ \/ builds[n].pc = "resolved" /\ builds'[n].pc = "embedder"
              /\ active = None /\ active' = n
           \/ builds[n].pc = "resolved" /\ builds'[n].pc = "ended" /\ active' = active
              /\ active # None
           \/ builds[n].pc = "return" /\ builds'[n].pc = "ended" /\ active' = None
           \/ builds[n].pc = "embed" /\ builds'[n].pc = "embed" /\ active' = active /\ Grows(n)
           \/ /\ active' = active /\ builds'[n].pc \in Thread /\ builds[n].pc \in Thread
              /\ Place(n)' < Place(n)
    BY <1>1, <1>4, ThreadMoves
  <2>2. SlotServed'
    BY <1>1, <1>2, <2>1 DEF SlotServed, Thread
  <2>3. ASSUME NEW m \in Build, active = m, active' = m, m # n
        PROVE  Place(m)' = Place(m) /\ part'[m] = part[m] /\ ~BuildThread(m)
    <3>1. ASSUME BuildThread(m) PROVE FALSE
      <4>1. builds'[m] # builds[m] \/ Grows(m)
        <5>1. builds[m].pc \in Thread => Place(m) \in Nat
          BY DEF Place, StepsLeft, Thread
        <5>2. \/ builds[m].pc # builds'[m].pc
              \/ Grows(m)
              \/ builds[m].pc \in Thread /\ Place(m)' < Place(m)
          BY <1>1, <3>1, ThreadMoves
        <5>3. QED
          BY <5>1, <5>2 DEF Place
      <4>2. builds'[m] = builds[m] /\ part'[m] = part[m]
        BY <2>1, <2>3
      <4>3. ~Grows(m)
        BY <1>2, <4>2 DEF Grows, File
      <4>4. QED
        BY <4>1, <4>2, <4>3
    <3>2. QED
      BY <2>1, <2>3, <3>1 DEF Place
  <2>4. ASSUME active = n, active' = n
        PROVE  Place(n)' < Place(n) \/ (Place(n)' = Place(n) /\ Grows(n))
    <3>1. builds[n].pc \in Thread
      BY <1>1, <2>4 DEF SlotServed
    <3>2. QED
      BY <1>2, <2>1, <2>4, <3>1 DEF Place, Thread
  <2>5. SlotNears
    BY <2>3, <2>4 DEF SlotNears
  <2>6. QED
    BY <2>2, <2>5
<1>5. ASSUME \A n \in Build : ~BuildThread(n) PROVE SlotServed' /\ SlotNears
  <2>1. CASE UNCHANGED <<part, builds, active>>
    BY <1>3, <1>5, <2>1
  <2>2. CASE Cancel
    <3>1. \A n \in Build : builds'[n].pc = builds[n].pc
      BY <1>2, <2>2 DEF Cancel, BuildRecord
    <3>2. QED
      BY <1>3, <1>5, <2>2, <3>1 DEF Cancel, disk
  <2>3. ASSUME NEW n \in Build, NEW pdf \in BOOLEAN, BuildPersonalPack(n, pdf)
        PROVE  SlotServed' /\ SlotNears
    <3>1. /\ \A m \in Build : m # n => builds'[m] = builds[m]
          /\ builds[n].pc = "none" /\ UNCHANGED <<part, active>>
      BY <1>2, <2>3 DEF BuildPersonalPack, Unasked
    <3>2. active # n
      BY <1>1, <3>1 DEF SlotServed, Thread
    <3>3. QED
      BY <1>3, <1>5, <3>1, <3>2
  <2>4. ASSUME NEW n \in Build, WipeFile(n) PROVE SlotServed' /\ SlotNears
    <3>1. UNCHANGED <<builds, active>> /\ \A m \in Build : part'[m] \in {part[m], {}}
      BY <1>2, <2>4 DEF WipeFile
    <3>2. QED
      BY <1>3, <1>5, <3>1
  <2>5. CASE AppEnds
    BY <1>3, <1>5, <2>5 DEF AppEnds, disk
  <2>6. QED
    BY <1>1, <1>5, <2>1, <2>2, <2>3, <2>4, <2>5
    DEF Next, SignIn, RemoveAccount, SignOut, Attach, RagQuery, QueryThread, QueryMounts,
        QueryEmbeds, QueryLoaded, QueryEnds, DeletePack, WipeEnds, vars, disk
<1>6. QED
  BY <1>4, <1>5

\* A build or a query that waits for the embedder waits for a thread that is
\* loading it, whose next step gives the lock back, loaded or not (kpack.rs,
\* get_or_load): no two wait for each other, and nothing is loaded twice.
THEOREM LockIsServed == Spec => []LockServed
<1>1. Init => LockServed
  BY DEF Init, LockServed, Loaders, Unasked, NoQuery, Cold
<1>2. QED
  BY <1>1, LockStep, AlwaysOnPath, PTL DEF Spec

LEMMA SlotAlwaysServed == Spec => []SlotServed
<1>1. Init => SlotServed
  BY DEF Init, SlotServed, None, Build
<1>2. QED
  BY <1>1, SlotStep, AlwaysOnPath, PTL DEF Spec

\* The build that holds the slot (kpack.rs, Builds) has a thread that has yet to
\* return, nothing sends it back, and each of its steps brings it to a later
\* place or a chunk nearer the last: it frees the slot after at most
\* Chunks + 9 of them, whatever fails and whatever is removed under it.
THEOREM SlotNearsItsEnd == Spec => []SlotServed /\ [][SlotNears]_vars
<1>1. TypeOK /\ OnPath /\ SlotServed /\ [Next]_vars => [SlotNears]_vars
  BY SlotStep
<1>2. QED
  BY <1>1, SlotAlwaysServed, AlwaysOnPath, PTL DEF Spec
=============================================================================
