------------------------- MODULE CloudSessionProofs -------------------------
(***************************************************************************)
(* That the cloud session implements GrantLedger, for any number of        *)
(* accounts, models and calls, as long as a run stays within what Beyond   *)
(* leaves out.                                                             *)
(***************************************************************************)
EXTENDS CloudSession, TLAPS

Syncing(r) == r.pc \in {"token", "session", "list", "flush", "write"}

\* What an operation and a call rest on, wherever they are.
UiShape(r) == Syncing(r) => r.user # NoUser
CallShape(r) ==
  /\ r.pc = "idle" => r = NoRequest
  /\ r.pc \in {"insert", "record", "list", "merge", "refresh", "save"} => r.user # NoUser
  /\ r.pc = "queue" => r.op = "grant"
  /\ r.op = "grant" => \E m \in Model : r.model = {m}
Shape ==
  /\ session.kind = "none" => session = NoSession
  /\ \A r \in cache.pending : r.owner = cache.user
  /\ ui.pc = "closed" => session = NoSession /\ Quiet
  /\ UiShape(ui) /\ \A c \in Call : CallShape(call[c])
Sound == TypeOK /\ Shape

\* All that writes to the cache does so for one account h, and what the cache
\* shows, or is about to be merged into it, h's rows have or its queue holds.
Rows(h) == IF h = NoUser THEN {} ELSE server[h]
UiFits(r, h, rows) ==
  /\ Syncing(r) => r.user = h
  /\ r.pc \in {"token", "session", "list"} =>
       r.early.ents \subseteq rows \cup Queued(r.early, h)
  /\ r.pc \in {"flush", "write"} => r.list \subseteq rows
  /\ r.pc = "write" => r.flushed \subseteq rows
CallFits(r, h, rows) ==
  /\ r.user \in {NoUser, h}
  /\ r.pc = "merge" => r.list \subseteq rows
  /\ r.pc = "record" => r.model \subseteq rows
DiskFits(h, rows) ==
  /\ cache.user \in {NoUser, h} /\ keyring \in {NoUser, h}
  /\ cache.ents \subseteq rows \cup Queued(cache, h)
Belongs(h) ==
  /\ DiskFits(h, Rows(h)) /\ UiFits(ui, h, Rows(h))
  /\ session.kind \in {"online", "stale"} => session.user = h
  /\ \A c \in Call : CallFits(call[c], h, Rows(h))
OneAccount == \E h \in Account : Belongs(h)

LedgerInv == Sound /\ OneAccount

-----------------------------------------------------------------------------
(* The answers, and the records that operations and calls start from. *)

LEMMA Results ==
  /\ RefreshResult \subseteq {"ok", "offline", "expired", "error"}
  /\ SignInResult \subseteq {"ok", "offline", "error"}
  /\ InsertResult \cup ReadResult \subseteq {"ok", "offline", "expired", "error"}
<1>1. \A a \in Answer : /\ AuthResult(a, TRUE) \in {"ok", "offline", "expired", "error"}
                        /\ AuthResult(a, FALSE) \in {"ok", "offline", "error"}
  BY DEF Answer, AuthResult
<1>2. \A a \in Answer, b \in BOOLEAN : RestResult(a, b) \in {"ok", "offline", "expired", "error"}
  BY DEF Answer, RestResult
<1> QED
  BY <1>1, <1>2 DEF RefreshResult, SignInResult, InsertResult, ReadResult

LEMMA Empties ==
  /\ NoUser \in Account /\ NoCache \in Cache /\ NoSession \in Session
  /\ NoEntry \in Entry /\ Rest \in Ui /\ NoRequest \in CallState
  /\ NoSession.user = NoUser /\ NoSession.kind = "none"
  /\ NoCache.user = NoUser /\ NoCache.ents = {} /\ NoCache.pending = {}
  /\ Rest.pc = "idle" /\ ~Syncing(Rest)
  /\ NoRequest.pc = "idle" /\ NoRequest.op = "none" /\ NoRequest.user = NoUser
BY DEF Account, NoCache, Cache, NoSession, Session, NoEntry, Entry, Rest, Ui, Syncing,
       NoRequest, CallState

LEMMA EmptyShapes == UiShape(Rest) /\ CallShape(NoRequest)
BY Empties DEF UiShape, CallShape

LEMMA SessionFacts ==
  ASSUME NEW u \in User, NEW e \in BOOLEAN
  PROVE  /\ Online(u, e) \in Session /\ Offline(u) \in Session
         /\ Online(u, e).user = u /\ Online(u, e).kind = "online"
         /\ Offline(u).user = u /\ Offline(u).kind = "offline" /\ u # NoUser
BY CloudAssumption DEF Online, Offline, Session, Account

\* The conjuncts that an operation of the dialog may disturb.
Dialogs ==
  /\ session \in Session /\ (session.user = NoUser <=> session.kind = "none")
  /\ session.kind = "none" => session = NoSession
  /\ keyring \in Account /\ kept \in Account
  /\ ui \in Ui /\ UiShape(ui)

LEMMA DialogsSuffice ==
  ASSUME Sound, Dialogs', UNCHANGED <<cache, gate, entry, verifier, call, server>>,
         ui'.pc # "closed"
  PROVE  Sound'
BY DEF Sound, TypeOK, Shape, Dialogs, Quiet

LEMMA SoundInit == Init => Sound
<1> SUFFICES ASSUME Init PROVE Sound
  OBVIOUS
<1>1. TypeOK
  BY Empties DEF Init, TypeOK
<1>2. Shape
  BY Empties, EmptyShapes DEF Init, Shape
<1> QED
  BY <1>1, <1>2 DEF Sound

LEMMA SoundSession ==
  ASSUME Sound
  PROVE  /\ Dialogs /\ cache \in Cache /\ cache.user \in Account /\ cache.ents \subseteq Model
         /\ session.user \in Account /\ session.ephemeral \in BOOLEAN
         /\ ui.user \in Account /\ ui.ephemeral \in BOOLEAN
         /\ session.user # NoUser => session.user \in User
BY DEF Sound, TypeOK, Shape, Dialogs, Session, Cache, Ui, Account

\* A purge forgets, whoever it is for.
LEMMA ForgottenFacts ==
  ASSUME Sound, NEW u \in Account, Forgotten(u)
  PROVE  keyring' \in Account /\ kept' \in Account /\ session' = NoSession
BY Empties DEF Forgotten, Sound, TypeOK

LEMMA SoundRestore ==
  ASSUME Sound, NEW outcome \in RefreshResult, Restore(outcome)
  PROVE  Sound'
<1> USE SoundSession, Empties, EmptyShapes
<1>0. UNCHANGED <<cache, gate, entry, verifier, call, server>>
  BY DEF Restore
<1>1. CASE keyring = NoUser
  <2>1. ui' = Rest /\ UNCHANGED <<session, keyring, kept>>
    BY <1>1 DEF Restore
  <2> QED
    BY <1>0, <2>1, DialogsSuffice DEF Dialogs
<1>2. CASE keyring # NoUser /\ outcome = "ok"
  <2>1. ui' = [Rest EXCEPT !.op = "restore", !.pc = "token",
                           !.user = keyring, !.early = cache]
        /\ UNCHANGED <<session, keyring, kept>>
    BY <1>2 DEF Restore
  <2>2. ui' \in Ui /\ ui'.pc = "token" /\ ui'.user = keyring
    BY <2>1 DEF Rest, Ui, Dialogs
  <2> QED
    BY <1>0, <1>2, <2>1, <2>2, DialogsSuffice DEF Dialogs, UiShape
<1>3. CASE keyring # NoUser /\ outcome = "expired"
  <2>1. Forgotten(keyring) /\ ui' = [Rest EXCEPT !.op = "restore", !.pc = "drop"]
    BY <1>3 DEF Restore
  <2>2. ui' \in Ui /\ ui'.pc = "drop"
    BY <2>1 DEF Rest, Ui
  <2> QED
    BY <1>0, <2>1, <2>2, ForgottenFacts, DialogsSuffice DEF Dialogs, UiShape, Syncing
<1>4. CASE keyring # NoUser /\ outcome \in {"offline", "error"}
  <2>1. session' = OfflineAs(cache.user) /\ ui' = Rest /\ UNCHANGED <<keyring, kept>>
    BY <1>4 DEF Restore
  <2>2. CASE cache.user = NoUser
    BY <1>0, <2>1, <2>2, DialogsSuffice DEF Dialogs, OfflineAs
  <2>3. CASE cache.user # NoUser
    <3>1. cache.user \in User /\ session' = Offline(cache.user)
      BY <2>1, <2>3 DEF OfflineAs, Account
    <3> QED
      BY <1>0, <2>1, <3>1, SessionFacts, DialogsSuffice DEF Dialogs
  <2> QED
    BY <2>2, <2>3
<1> QED
  BY <1>1, <1>2, <1>3, <1>4, Results

LEMMA SoundSignIn ==
  ASSUME Sound, NEW u \in User, NEW result,
         \/ \E remember \in BOOLEAN : SignIn(u, remember, result)
         \/ \E file \in User : OfflineSignIn(u, file, result)
  PROVE  Sound'
<1> USE SoundSession, Empties, EmptyShapes
<1>1. ASSUME NEW remember \in BOOLEAN, SignIn(u, remember, result) PROVE Sound'
  <2>1. ui' = [Rest EXCEPT !.op = "sign_in", !.pc = "token", !.user = u,
                           !.ephemeral = ~remember, !.early = cache]
        /\ UNCHANGED <<session, disk, gate, call, server, kept>>
    BY <1>1 DEF SignIn
  <2>2. ui' \in Ui /\ ui'.pc = "token" /\ ui'.user = u
    BY <2>1 DEF Rest, Ui, Account
  <2> QED
    BY <2>1, <2>2, CloudAssumption, DialogsSuffice DEF Dialogs, UiShape, disk
<1>2. ASSUME NEW file \in User, OfflineSignIn(u, file, result) PROVE Sound'
  <2>1. UNCHANGED <<disk, gate, ui, call, server, kept>> /\ ui.pc = "idle"
        /\ session' = Offline(file)
    BY <1>2 DEF OfflineSignIn, MayOperate
  <2> QED
    BY <2>1, SessionFacts, DialogsSuffice DEF Dialogs, disk
<1> QED
  BY <1>1, <1>2

LEMMA SoundUi ==
  ASSUME Sound
  PROVE  /\ ui \in Ui /\ ui.early \in Cache /\ ui.list \subseteq Model
         /\ ui.flushed \subseteq Model
         /\ Syncing(ui) => ui.user \in User
BY DEF Sound, TypeOK, Shape, Ui, Account, UiShape

LEMMA SoundSync ==
  ASSUME Sound,
         \/ SyncToken \/ SyncSession \/ (\E r \in BOOLEAN : SyncList(r))
         \/ (\E a, d \in SUBSET Model : SyncFlush(a, d)) \/ SyncWrite
  PROVE  Sound'
<1> USE SoundSession, SoundUi, Empties, EmptyShapes
<1>1. CASE SyncToken
  <2>1. ui' \in Ui /\ ui'.pc = "session" /\ ui'.user = ui.user /\ ui.pc = "token"
    BY <1>1 DEF SyncToken, Ui
  <2>2. keyring' \in Account /\ kept' \in Account
    BY <1>1 DEF SyncToken, Dialogs
  <2> QED
    BY <1>1, <2>1, <2>2, DialogsSuffice DEF SyncToken, Dialogs, UiShape, Syncing
<1>2. CASE SyncSession
  <2>1. ui' \in Ui /\ ui'.pc = "list" /\ ui'.user = ui.user /\ ui.user \in User
    BY <1>2 DEF SyncSession, Ui, Syncing
  <2>2. session' = Online(ui.user, ui.ephemeral)
    BY <1>2 DEF SyncSession
  <2>3. /\ session' \in Session /\ session'.user \in User /\ session'.user # NoUser
        /\ session'.kind = "online"
    BY <2>1, <2>2, SessionFacts
  <2> QED
    BY <1>2, <2>1, <2>3, CloudAssumption, DialogsSuffice DEF SyncSession, Dialogs, UiShape, disk
<1>3. ASSUME NEW r \in BOOLEAN, SyncList(r) PROVE Sound'
  <2>1. ui.user \in User /\ server[ui.user] \subseteq Model
    BY <1>3 DEF SyncList, Syncing, Sound, TypeOK
  <2>2. ui' \in Ui /\ ui'.pc = "flush" /\ ui'.user = ui.user
    BY <1>3, <2>1 DEF SyncList, Ui, Cache
  <2> QED
    BY <1>3, <2>1, <2>2, CloudAssumption, DialogsSuffice DEF SyncList, Dialogs, UiShape, disk
<1>4. ASSUME NEW a \in SUBSET Model, NEW d \in SUBSET Model, SyncFlush(a, d)
      PROVE  Sound'
  <2>1. ui.user \in User
    BY <1>4 DEF SyncFlush, Syncing
  <2>2. ui' \in Ui /\ ui'.pc = "write" /\ ui'.user = ui.user
    BY <1>4 DEF SyncFlush, Ui
  <2>3. server' \in [User -> SUBSET Model]
    BY <1>4, <2>1 DEF SyncFlush, Sound, TypeOK
  <2> QED
    BY <1>4, <2>1, <2>2, <2>3, CloudAssumption
    DEF SyncFlush, Sound, TypeOK, Shape, UiShape, disk
<1>5. CASE SyncWrite
  <2>1. ui.user \in User
    BY <1>5 DEF SyncWrite, Syncing
  <2> DEFINE merged == Merged(cache, ui.user, ui.list, ui.flushed)
  <2>2. /\ merged \in Cache /\ merged.ents \subseteq Model
        /\ \A r \in merged.pending : r.owner = merged.user
    <3>1. Queued(cache, ui.user) \subseteq Model
      BY DEF Queued, Cache, Row
    <3> QED
      BY <2>1, <3>1 DEF Merged, Cache, Account
  <2>3. cache' \in {cache, merged}
    BY <1>5 DEF SyncWrite
  <2>4. cache' \in Cache /\ \A r \in cache'.pending : r.owner = cache'.user
    BY <2>2, <2>3 DEF Sound, Shape
  <2>5. ui' \in {Rest, [Rest EXCEPT !.op = ui.op, !.pc = "enroll",
                                    !.user = ui.user, !.list = merged.ents]}
    BY <1>5 DEF SyncWrite
  <2>6. ui' \in Ui /\ UiShape(ui') /\ ui'.pc # "closed"
    BY <2>2, <2>5 DEF Rest, Ui, UiShape, Syncing
  <2> QED
    BY <1>5, <2>4, <2>6 DEF SyncWrite, Sound, TypeOK, Shape
<1> QED
  BY <1>1, <1>2, <1>3, <1>4, <1>5

\* What signing out, a removal and a purge leave alone but for a file.
LEMMA SoundEnd ==
  ASSUME Sound,
         \/ Enroll \/ SignOut \/ Purge \/ DropCache \/ (\E u \in User : Remove(u))
         \/ RemovePurge \/ RemoveVerifier \/ RemoveEntry
  PROVE  Sound'
<1> USE SoundSession, SoundUi, Empties, EmptyShapes
<1>1. CASE Enroll
  <2>1. entry' \in [User -> Entry] /\ verifier' \in [User -> Account]
    <3>1. [mail |-> session.user, ents |-> ui.list] \in Entry
      BY DEF Entry
    <3> QED
      BY <1>1, <3>1 DEF Enroll, Sound, TypeOK
  <2> QED
    BY <1>1, <2>1 DEF Enroll, Sound, TypeOK, Shape
<1>2. ASSUME NEW op \in {"sign_out", "remove"}, SignsOut(op),
             UNCHANGED <<disk, gate, call, server, kept>>
      PROVE  Sound'
  <2>1. session' \in {session, NoSession}
    BY <1>2 DEF SignsOut
  <2>2. ui' \in {Rest, [Rest EXCEPT !.op = op, !.pc = "purge", !.user = session.user],
                 [Rest EXCEPT !.op = op, !.pc = "logout", !.user = session.user]}
    BY <1>2 DEF SignsOut
  <2>3. ui' \in Ui /\ UiShape(ui') /\ ui'.pc # "closed"
    BY <2>2, ZenonT(60) DEF Rest, Ui, UiShape, Syncing
  <2> QED
    BY <1>2, <2>1, <2>3, DialogsSuffice DEF Dialogs, disk
<1>3. CASE SignOut
  BY <1>2, <1>3 DEF SignOut
<1>4. CASE Purge
  <2>1. Forgotten(ui.user) /\ ui' = [ui EXCEPT !.pc = "drop"]
    BY <1>4 DEF Purge
  <2>2. ui' \in Ui /\ ui'.pc = "drop"
    BY <2>1 DEF Ui
  <2> QED
    BY <1>4, <2>1, <2>2, ForgottenFacts, DialogsSuffice DEF Purge, Dialogs, UiShape, Syncing
<1>5. CASE DropCache
  <2>1. ui' \in {Rest, [ui EXCEPT !.pc = "purge"]}
    BY <1>5 DEF DropCache
  <2>2. ui' \in Ui /\ UiShape(ui') /\ ui'.pc # "closed"
    BY <2>1 DEF Ui, UiShape, Syncing
  <2> QED
    BY <1>5, <2>2 DEF DropCache, Sound, TypeOK, Shape
<1>6. ASSUME NEW u \in User, Remove(u) PROVE Sound'
  <2>1. CASE session.user = u
    BY <1>2, <1>6, <2>1 DEF Remove
  <2>2. CASE session.user # u
    <3>1. ui' = [Rest EXCEPT !.op = "remove", !.pc = "purge", !.user = u]
          /\ UNCHANGED <<session, disk, gate, call, server, kept>>
      BY <1>6, <2>2 DEF Remove
    <3>2. ui' \in Ui /\ ui'.pc = "purge"
      BY <3>1 DEF Rest, Ui, Account
    <3> QED
      BY <3>1, <3>2, DialogsSuffice DEF Dialogs, disk, UiShape, Syncing
  <2> QED
    BY <2>1, <2>2
<1>7. CASE RemovePurge
  <2>1. ui' \in Ui /\ ui'.pc = "verifier"
    BY <1>7 DEF RemovePurge, Ui
  <2>2. cache' \in {cache, NoCache} /\ keyring' \in Account /\ kept' \in Account
    BY <1>7 DEF RemovePurge, Sound, TypeOK
  <2> QED
    BY <1>7, <2>1, <2>2 DEF RemovePurge, Sound, TypeOK, Shape, UiShape, Syncing
<1>8. CASE RemoveVerifier
  <2>1. ui' \in Ui /\ ui'.pc = "entry"
    BY <1>8 DEF RemoveVerifier, Ui
  <2>2. verifier' \in [User -> Account]
    BY <1>8 DEF RemoveVerifier, Sound, TypeOK
  <2> QED
    BY <1>8, <2>1, <2>2 DEF RemoveVerifier, Sound, TypeOK, Shape, UiShape, Syncing
<1>9. CASE RemoveEntry
  <2>1. entry' \in [User -> Entry]
    BY <1>9 DEF RemoveEntry, Sound, TypeOK
  <2> QED
    BY <1>9, <2>1 DEF RemoveEntry, Sound, TypeOK, Shape
<1> QED
  BY <1>1, <1>3, <1>4, <1>5, <1>6, <1>7, <1>8, <1>9

LEMMA SoundDialog == Sound /\ Dialog => Sound'
BY SoundRestore, SoundSignIn, SoundSync, SoundEnd DEF Dialog, SignInResult

-----------------------------------------------------------------------------
(* The page's calls: each step of a call moves only that call.             *)

\* What one call's step may disturb beside the call.
Stores ==
  /\ session \in Session /\ (session.user = NoUser <=> session.kind = "none")
  /\ session.kind = "none" => session = NoSession
  /\ keyring \in Account /\ kept \in Account /\ gate \in Call \cup {NoCall}
  /\ cache \in Cache /\ \A r \in cache.pending : r.owner = cache.user
  /\ server \in [User -> SUBSET Model]

LEMMA SoundStores == Sound => Stores
BY DEF Sound, TypeOK, Shape, Stores

Moves(c) == \E r \in CallState : CallShape(r) /\ call' = [call EXCEPT ![c] = r]

LEMMA MovesSuffice ==
  ASSUME Sound, NEW c \in Call, Moves(c), Stores', UNCHANGED <<ui, entry, verifier>>,
         ui.pc # "closed"
  PROVE  Sound'
BY DEF Sound, TypeOK, Shape, Stores, Moves

LEMMA SoundCall ==
  ASSUME Sound, NEW c \in Call
  PROVE  /\ call \in [Call -> CallState] /\ call[c] \in CallState /\ CallShape(call[c])
         /\ call[c].pc # "idle" => ui.pc # "closed"
         /\ call[c].user # NoUser => call[c].user \in User
BY DEF Sound, TypeOK, Shape, Quiet, CallState, Account

LEMMA ReturnsMoves ==
  ASSUME Sound, NEW c \in Call, Returns(c)
  PROVE  Moves(c)
BY Empties, EmptyShapes DEF Returns, Moves

LEMMA GivesUpMoves ==
  ASSUME Sound, NEW c \in Call, NEW o \in Account, GivesUp(c, o)
  PROVE  Moves(c)
<1> USE SoundCall, Empties, EmptyShapes
<1> DEFINE q == [NoRequest EXCEPT !.op = "grant", !.pc = "queue", !.model = call[c].model,
                                  !.owner = o]
<1>1. CASE call[c].op = "grant"
  <2>1. q \in CallState /\ q.pc = "queue" /\ q.op = "grant" /\ q.model = call[c].model
    BY DEF CallState, NoRequest
  <2>2. CallShape(q)
    BY <1>1, <2>1 DEF CallShape
  <2>3. call' = [call EXCEPT ![c] = q]
    BY <1>1 DEF GivesUp
  <2> QED
    BY <2>1, <2>2, <2>3 DEF Moves
<1>2. CASE call[c].op # "grant"
  BY <1>2 DEF GivesUp, Moves
<1> QED
  BY <1>1, <1>2

\* A call that goes on keeps its request.
LEMMA GoesMoves ==
  ASSUME Sound, NEW c \in Call,
         NEW pc \in {"save", "drop", "record"},
         call[c].pc \in {"refresh", "insert"},
         Goes(c, pc)
  PROVE  Moves(c)
<1> USE SoundCall
<1> DEFINE r == [call[c] EXCEPT !.pc = pc]
<1>1. /\ r \in CallState /\ r.pc = pc /\ r.op = call[c].op /\ r.user = call[c].user
      /\ r.model = call[c].model
  BY DEF CallState
<1>2. CallShape(r)
  BY <1>1 DEF CallShape
<1>3. call' = [call EXCEPT ![c] = r]
  BY DEF Goes
<1> QED
  BY <1>1, <1>2, <1>3 DEF Moves

LEMMA SoundStart ==
  ASSUME Sound, NEW c \in Call, NEW op \in {"grant", "poll", "mint"},
         NEW models \in SUBSET Model, Start(c, op, models)
  PROVE  Sound'
<1> USE SoundCall, SoundSession, Empties
<1> DEFINE who == IF session = NoSession THEN cache.user ELSE session.user
           place == CASE session.kind \in {"none", "offline"} -> "queue"
                      [] session.kind = "online" -> Work(op)
                      [] session.kind = "stale" -> "gate"
           u == IF session.kind = "online" THEN who ELSE NoUser
           e == op = "poll" /\ session.ephemeral
           o == IF session.kind = "offline" THEN who ELSE NoUser
           r == [NoRequest EXCEPT !.op = op, !.model = models, !.user = u, !.ephemeral = e,
                                  !.owner = o, !.pc = place]
<1>1. /\ call' = [call EXCEPT ![c] = r]
      /\ UNCHANGED <<session, disk, gate, ui, server, kept>> /\ ui.pc # "closed"
      /\ op = "grant" => \E m \in Wants[who] : models = {m}
      /\ session.kind \in {"none", "offline"} => op = "grant"
  BY DEF Start, MayCall, Dialogs
<1>2. /\ session.kind = "online" => session.user # NoUser /\ session # NoSession
      /\ session.kind \in {"none", "online", "stale", "offline"}
  BY DEF Dialogs, Session
<1>3. /\ place \in {"queue", "insert", "list", "mint", "gate"}
      /\ place = "queue" => op = "grant"
      /\ place \in {"insert", "list"} => session.kind = "online"
  BY <1>1, <1>2 DEF Work
<1>4. who \in Account /\ u \in Account /\ o \in Account /\ e \in BOOLEAN
  OBVIOUS
<1>5. session.kind = "online" => u # NoUser
  BY <1>2
<1>6. op = "grant" => \E m \in Model : models = {m}
  BY <1>1
<1> HIDE DEF who, place, u, e, o
<1>7. /\ r \in CallState /\ r.op = op /\ r.pc = place /\ r.model = models
      /\ r.user = u
  BY <1>3, <1>4, ZenonT(60) DEF CallState, NoRequest
<1>8. CallShape(r)
  BY <1>3, <1>7, <1>5, <1>6 DEF CallShape
<1>9. Moves(c)
  BY <1>1, <1>7, <1>8 DEF Moves
<1> QED
  BY <1>1, <1>9, SoundStores, MovesSuffice DEF Stores, disk

\* A call that has a usable token again goes to its work.
LEMMA WorkMoves ==
  ASSUME Sound, NEW c \in Call, call[c].pc \in {"gate", "save"},
         NEW u \in User, NEW e \in BOOLEAN,
         call' = [call EXCEPT ![c] = [call[c] EXCEPT !.pc = Work(call[c].op),
                                                     !.user = u, !.ephemeral = e]]
  PROVE  Moves(c)
<1> USE SoundCall
<1> DEFINE r == [call[c] EXCEPT !.pc = Work(call[c].op), !.user = u, !.ephemeral = e]
<1>1. Work(call[c].op) \in {"insert", "list", "mint"}
  BY DEF Work
<1>2. /\ r \in CallState /\ r.pc = Work(call[c].op) /\ r.op = call[c].op /\ r.user = u
      /\ r.model = call[c].model
  BY <1>1, ZenonT(60) DEF CallState, Account
<1>3. CallShape(r)
  BY <1>1, <1>2, CloudAssumption DEF CallShape
<1> QED
  BY <1>2, <1>3 DEF Moves

LEMMA SoundGate ==
  ASSUME Sound, NEW c \in Call, TakeGate(c) \/ SaveSession(c)
  PROVE  Sound'
<1> USE SoundCall, SoundSession, SoundStores, Empties
<1>1. CASE TakeGate(c)
  <2>1. /\ call[c].pc = "gate" /\ UNCHANGED <<session, disk, ui, server, kept>>
        /\ session.kind \in {"none", "online", "stale", "offline"}
    BY <1>1 DEF TakeGate, Dialogs, Session
  <2>2. CASE session.kind \in {"none", "offline"}
    BY <1>1, <2>1, <2>2, GivesUpMoves, MovesSuffice DEF TakeGate, Stores, disk
  <2>3. CASE session.kind = "online"
    <3>1. session.user \in User /\ call[c].ephemeral \in BOOLEAN
      BY <2>3 DEF Dialogs, CallState
    <3>2. UNCHANGED gate /\ call' = [call EXCEPT ![c].pc = Work(call[c].op),
                                                 ![c].user = session.user]
      BY <1>1, <2>3 DEF TakeGate
    <3>3. call' = [call EXCEPT ![c] = [call[c] EXCEPT !.pc = Work(call[c].op),
                     !.user = session.user, !.ephemeral = call[c].ephemeral]]
      BY <3>2 DEF CallState
    <3>4. Moves(c)
      BY <2>1, <3>1, <3>3, WorkMoves
    <3> QED
      BY <2>1, <3>2, <3>4, MovesSuffice DEF Stores, disk
  <2>4. CASE session.kind = "stale"
    <3> DEFINE r == [call[c] EXCEPT !.pc = "refresh", !.user = session.user,
                                    !.ephemeral = session.ephemeral]
    <3>1. session.user \in User /\ session.user # NoUser
      BY <2>4 DEF Dialogs
    <3>2. gate' = c /\ call' = [call EXCEPT ![c] = r]
      BY <1>1, <2>4 DEF TakeGate
    <3>3. /\ r \in CallState /\ r.pc = "refresh" /\ r.op = call[c].op
          /\ r.user = session.user /\ r.model = call[c].model
      BY DEF CallState
    <3>4. CallShape(r)
      BY <3>1, <3>3 DEF CallShape
    <3>5. Moves(c)
      BY <3>2, <3>3, <3>4 DEF Moves
    <3> QED
      BY <2>1, <3>2, <3>5, MovesSuffice DEF Stores, disk
  <2> QED
    BY <2>1, <2>2, <2>3, <2>4
<1>2. CASE SaveSession(c)
  <2>1. call[c].user \in User /\ call[c].pc = "save" /\ call[c].ephemeral \in BOOLEAN
    BY <1>2 DEF SaveSession, CallShape, CallState
  <2> DEFINE e == call[c].ephemeral /\ call[c].op = "poll"
  <2>2. call' = [call EXCEPT ![c] = [call[c] EXCEPT !.pc = Work(call[c].op),
                   !.user = call[c].user, !.ephemeral = e]]
    BY <1>2 DEF SaveSession, CallState
  <2>3. Moves(c)
    BY <2>1, <2>2, WorkMoves
  <2>4. session' = Online(call[c].user, call[c].ephemeral)
    BY <1>2 DEF SaveSession
  <2>5. /\ session' \in Session /\ session'.user \in User /\ session'.user # NoUser
        /\ session'.kind = "online"
    BY <2>1, <2>4, SessionFacts
  <2>6. Stores'
    BY <1>2, <2>5 DEF SaveSession, Stores, disk
  <2> QED
    BY <1>2, <2>3, <2>6, <2>1, MovesSuffice DEF SaveSession, disk
<1> QED
  BY <1>1, <1>2

LEMMA SoundRefresh ==
  ASSUME Sound, NEW c \in Call,
         (\E result \in RefreshResult : Refreshes(c, result)) \/ RefreshDrops(c)
  PROVE  Sound'
<1> USE SoundCall, SoundSession, SoundStores, Empties
<1>1. CASE Refreshed(c)
  <2>1. Moves(c) /\ keyring' \in Account
    BY <1>1, GoesMoves DEF Refreshed, CallState, Dialogs
  <2> QED
    BY <1>1, <2>1, MovesSuffice DEF Refreshed, Stores
<1>2. CASE RefreshExpired(c)
  <2>1. Moves(c) /\ call[c].user \in Account /\ Forgotten(call[c].user)
    BY <1>2, GoesMoves DEF RefreshExpired, CallState
  <2>2. keyring' \in Account /\ kept' \in Account /\ session' = NoSession
    BY <2>1, ForgottenFacts
  <2> QED
    BY <1>2, <2>1, <2>2, MovesSuffice DEF RefreshExpired, Stores
<1>3. ASSUME NEW offline \in BOOLEAN, RefreshFails(c, offline) PROVE Sound'
  <2>1. Moves(c)
    BY <1>3, ReturnsMoves, GivesUpMoves DEF RefreshFails
  <2> QED
    BY <1>3, <2>1, MovesSuffice DEF RefreshFails, Stores, disk
<1>4. CASE RefreshDrops(c)
  <2>1. Moves(c)
    BY <1>4, GivesUpMoves DEF RefreshDrops
  <2> QED
    BY <1>4, <2>1, MovesSuffice DEF RefreshDrops, Stores
<1> QED
  BY <1>1, <1>2, <1>3, <1>4 DEF Refreshes

\* Where a request is sent: the answer moves the call, and at most adds a row.
LEMMA RejectedMoves ==
  ASSUME Sound, NEW c \in Call, Rejected(c)
  PROVE  Moves(c)
<1> USE SoundCall, Empties
<1>1. CASE call[c].retried
  BY <1>1, GivesUpMoves DEF Rejected
<1>2. CASE ~call[c].retried
  <2> DEFINE r == [call[c] EXCEPT !.pc = "gate", !.retried = TRUE, !.user = NoUser]
  <2>1. call' = [call EXCEPT ![c] = r]
    BY <1>2 DEF Rejected
  <2>2. /\ r \in CallState /\ r.pc = "gate" /\ r.op = call[c].op /\ r.model = call[c].model
    BY DEF CallState
  <2>3. CallShape(r)
    BY <2>2 DEF CallShape
  <2> QED
    BY <2>1, <2>2, <2>3 DEF Moves
<1> QED
  BY <1>1, <1>2

LEMMA InsertedRows ==
  ASSUME Sound, NEW c \in Call, call[c].pc = "insert",
         server' \in {server, [server EXCEPT ![call[c].user] = @ \cup call[c].model]}
  PROVE  server' \in [User -> SUBSET Model]
<1>1. call[c].model \in SUBSET Model /\ server \in [User -> SUBSET Model]
  BY SoundCall DEF CallState, Sound, TypeOK
<1> QED
  BY <1>1

LEMMA SoundRequest ==
  ASSUME Sound, NEW c \in Call, NEW result,
         Inserts(c, result) \/ Reads(c, result)
  PROVE  Sound'
<1> USE SoundCall, SoundStores, Empties
<1>1. CASE Insert(c)
  <2>1. Moves(c)
    BY <1>1, GoesMoves DEF Insert
  <2>2. server' \in [User -> SUBSET Model]
    BY <1>1, InsertedRows DEF Insert
  <2> QED
    BY <1>1, <2>1, <2>2, MovesSuffice DEF Insert, Stores, disk
<1>2. CASE Rejected(c)
  BY <1>2, RejectedMoves, MovesSuffice DEF Rejected, Stores, disk
<1>3. ASSUME NEW arrived \in BOOLEAN, CutOff(c, arrived) PROVE Sound'
  <2>1. Moves(c)
    BY <1>3, GivesUpMoves DEF CutOff
  <2>2. server' \in [User -> SUBSET Model]
    BY <1>3, InsertedRows DEF CutOff
  <2> QED
    BY <1>3, <2>1, <2>2, MovesSuffice DEF CutOff, Stores, disk
<1>4. CASE Ends(c)
  BY <1>4, ReturnsMoves, MovesSuffice DEF Ends, Stores, disk
<1>5. CASE List(c)
  <2> DEFINE r == [call[c] EXCEPT !.pc = "merge", !.list = server[call[c].user]]
  <2>1. call' = [call EXCEPT ![c] = r] /\ call[c].pc = "list"
    BY <1>5 DEF List
  <2>2. call[c].user \in User /\ server[call[c].user] \subseteq Model
    BY <2>1 DEF CallShape, Stores
  <2>3. /\ r \in CallState /\ r.pc = "merge" /\ r.op = call[c].op /\ r.model = call[c].model
        /\ r.user = call[c].user
    BY <2>2 DEF CallState
  <2>4. CallShape(r)
    BY <2>1, <2>3 DEF CallShape
  <2>5. Moves(c)
    BY <2>1, <2>3, <2>4 DEF Moves
  <2> QED
    BY <1>5, <2>5, MovesSuffice DEF List, Stores, disk
<1> QED
  BY <1>1, <1>2, <1>3, <1>4, <1>5 DEF Inserts, Reads

LEMMA SoundCache ==
  ASSUME Sound, NEW c \in Call, Record(c) \/ QueueGrant(c) \/ MergeList(c)
  PROVE  Sound'
<1> USE SoundCall, SoundStores, Empties
<1>1. /\ call[c].model \subseteq Model /\ call[c].list \subseteq Model
      /\ cache \in Cache /\ cache.user \in Account /\ cache.ents \subseteq Model
      /\ \A r \in cache.pending : r.owner = cache.user
  BY DEF CallState, Stores, Cache
<1>2. cache' \in Cache /\ \A r \in cache'.pending : r.owner = cache'.user
  <2>1. CASE Record(c)
    BY <1>1, <2>1 DEF Record, Cache
  <2>2. CASE QueueGrant(c)
    <3>1. CASE Refused(call[c].owner)
      BY <1>1, <2>2, <3>1 DEF QueueGrant
    <3>2. CASE ~Refused(call[c].owner)
      <4>1. cache' = QueuedIn(cache, call[c].model)
        BY <2>2, <3>2 DEF QueueGrant
      <4>2. cache.user \in User
        BY <1>1, <3>2 DEF Refused, Account
      <4> DEFINE new == {[model |-> m, owner |-> cache.user] : m \in
                   call[c].model \ (cache.ents \cup {r.model : r \in cache.pending})}
      <4>3. new \subseteq Row /\ \A r \in new : r.owner = cache.user
        BY <1>1, <4>2 DEF Row
      <4>4. cache' = [cache EXCEPT !.ents = @ \cup call[c].model, !.pending = @ \cup new]
        BY <4>1 DEF QueuedIn
      <4> HIDE DEF new
      <4> QED
        BY <1>1, <4>3, <4>4 DEF Cache
    <3> QED
      BY <3>1, <3>2
  <2>3. CASE MergeList(c)
    BY <1>1, <2>3 DEF MergeList, Polled, Cache
  <2> QED
    BY <2>1, <2>2, <2>3
<1>3. Moves(c)
  BY ReturnsMoves DEF Record, QueueGrant, MergeList
<1> QED
  BY <1>2, <1>3, MovesSuffice DEF Record, QueueGrant, MergeList, Stores

LEMMA SoundRequests == ASSUME Sound, NEW c \in Call, Requests(c) PROVE Sound'
BY SoundStart, SoundGate, SoundRefresh, SoundRequest, SoundCache, Results
DEF Requests

-----------------------------------------------------------------------------
LEMMA SoundExit == Sound /\ (GoesStale \/ Exit) => Sound'
<1> USE SoundSession, Empties, EmptyShapes
<1>1. ASSUME Sound, GoesStale PROVE Sound'
  <2>1. session' = [session EXCEPT !.kind = "stale"] /\ session.kind = "online"
    BY <1>1 DEF GoesStale
  <2>2. session' \in Session /\ session'.user = session.user /\ session'.kind = "stale"
    BY <1>1, <2>1 DEF Session, Dialogs
  <2> QED
    BY <1>1, <2>1, <2>2 DEF GoesStale, Sound, TypeOK, Shape, disk, Quiet
<1>2. ASSUME Sound, Exit PROVE Sound'
  <2>1. ui' = [Rest EXCEPT !.pc = "closed"]
    BY <1>2 DEF Exit
  <2>2. ui' \in Ui /\ ui'.pc = "closed"
    BY <2>1 DEF Rest, Ui
  <2>3. UiShape(ui')
    BY <2>2 DEF UiShape, Syncing
  <2> QED
    BY <1>2, <2>2, <2>3 DEF Exit, Sound, TypeOK, Shape, disk, Quiet
<1> QED
  BY <1>1, <1>2

LEMMA SoundNext == Sound /\ [Next]_vars => Sound'
<1>1. ASSUME Sound, UNCHANGED vars PROVE Sound'
  BY <1>1 DEF vars, Sound, TypeOK, Shape, Quiet
<1> QED
  BY <1>1, SoundDialog, SoundRequests, SoundExit DEF Next

\* Session, cache, keyring, operation and calls keep their types in every run
\* of session.rs, whatever Beyond allows.
THEOREM Typing == Spec => []TypeOK
<1>1. Sound => TypeOK
  BY DEF Sound
<1> QED
  BY SoundInit, SoundNext, <1>1, PTL DEF Spec

-----------------------------------------------------------------------------
(* One account.                                                            *)

LEMMA OneInit == Init => OneAccount
<1> SUFFICES ASSUME Init PROVE Belongs(NoUser)
  BY DEF OneAccount, Account
<1>1. DiskFits(NoUser, Rows(NoUser))
  BY Empties DEF Init, DiskFits
<1>2. UiFits(ui, NoUser, Rows(NoUser))
  BY Empties DEF Init, UiFits, Syncing, Rest
<1>3. \A c \in Call : CallFits(call[c], NoUser, Rows(NoUser))
  BY Empties DEF Init, CallFits
<1> QED
  BY <1>1, <1>2, <1>3, Empties DEF Init, Belongs

\* Rows are only ever added.
LEMMA RowsKept ==
  ASSUME NEW h, UNCHANGED server
  PROVE  Rows(h)' = Rows(h)
BY DEF Rows

LEMMA CallsKept ==
  ASSUME NEW h, \A c \in Call : CallFits(call[c], h, Rows(h)), UNCHANGED call,
         Rows(h) \subseteq Rows(h)'
  PROVE  \A c \in Call : CallFits(call[c], h, Rows(h))'
BY DEF CallFits

\* An operation that is not syncing fits any account.
LEMMA NotSyncing ==
  ASSUME NEW h, ui'.pc \notin {"token", "session", "list", "flush", "write"}
  PROVE  UiFits(ui, h, Rows(h))'
BY DEF UiFits, Syncing

LEMMA OneRestore ==
  ASSUME Sound, NEW h \in Account, Belongs(h),
         NEW outcome \in RefreshResult, Restore(outcome)
  PROVE  Belongs(h)'
<1> USE SoundSession, Empties
<1>0. /\ UNCHANGED <<cache, gate, entry, verifier, call, server>>
      /\ Rows(h)' = Rows(h)
  BY RowsKept DEF Restore
<1>1. \A c \in Call : CallFits(call[c], h, Rows(h))'
  BY <1>0, CallsKept DEF Belongs
<1>2. CASE keyring = NoUser
  <2>1. ui' = Rest /\ UNCHANGED <<session, keyring>>
    BY <1>2 DEF Restore
  <2> QED
    BY <1>0, <1>1, <2>1, NotSyncing DEF Belongs, DiskFits
<1>3. CASE keyring # NoUser /\ outcome = "ok"
  <2>1. ui' = [Rest EXCEPT !.op = "restore", !.pc = "token",
                           !.user = keyring, !.early = cache]
        /\ UNCHANGED <<session, keyring>>
    BY <1>3 DEF Restore
  <2>2. ui'.pc = "token" /\ ui'.user = keyring /\ ui'.early = cache
    BY <2>1 DEF Rest
  <2>3. keyring = h /\ cache.ents \subseteq Rows(h) \cup Queued(cache, h)
    BY <1>3 DEF Belongs, DiskFits
  <2>4. UiFits(ui, h, Rows(h))'
    BY <1>0, <2>2, <2>3 DEF UiFits
  <2> QED
    BY <1>0, <1>1, <2>1, <2>4 DEF Belongs, DiskFits
<1>4. CASE keyring # NoUser /\ outcome = "expired"
  <2>1. /\ keyring' = NoUser /\ session' = NoSession
        /\ ui' = [Rest EXCEPT !.op = "restore", !.pc = "drop"]
    BY <1>4 DEF Restore, Forgotten
  <2>2. ui'.pc = "drop"
    BY <2>1 DEF Rest
  <2> QED
    BY <1>0, <1>1, <2>1, <2>2, NotSyncing DEF Belongs, DiskFits
<1>5. CASE keyring # NoUser /\ outcome \in {"offline", "error"}
  <2>1. session' = OfflineAs(cache.user) /\ ui' = Rest /\ UNCHANGED keyring
    BY <1>5 DEF Restore
  <2>2. session' = session \/ session'.kind = "offline"
    BY <2>1 DEF OfflineAs, Offline
  <2> QED
    BY <1>0, <1>1, <2>1, <2>2, NotSyncing DEF Belongs, DiskFits
<1> QED
  BY <1>2, <1>3, <1>4, <1>5, Results

\* The device's account changes only where nothing of the last one is left.
LEMMA OneSignIn ==
  ASSUME Sound, NEW h \in Account, Belongs(h), Beyond = {}, NEW u \in User,
         NEW remember \in BOOLEAN, NEW result, SignIn(u, remember, result)
  PROVE  Belongs(u)'
<1> USE SoundSession, Empties
<1>1. /\ ui' = [Rest EXCEPT !.op = "sign_in", !.pc = "token", !.user = u,
                            !.ephemeral = ~remember, !.early = cache]
      /\ UNCHANGED <<session, disk, gate, call, server, kept>>
      /\ session = NoSession /\ Quiet
      /\ cache \in {NoCache, [cache EXCEPT !.user = u]} /\ keyring \in {u, NoUser}
  BY DEF SignIn, MayOperate, Fits
<1>2. ui'.pc = "token" /\ ui'.user = u /\ ui'.early = cache
  BY <1>1 DEF Rest
<1>3. cache = NoCache \/ cache.user = u
  BY <1>1 DEF Cache
<1>4. cache.user = u => h = u
  BY CloudAssumption DEF Belongs, DiskFits
<1>5. /\ cache.user \in {NoUser, u}
      /\ cache.ents \subseteq Rows(u) \cup Queued(cache, u)
  BY <1>3, <1>4 DEF Belongs, DiskFits
<1>6. Rows(u)' = Rows(u) /\ UNCHANGED <<cache, keyring, session, call>>
  BY <1>1 DEF Rows, disk
<1>7. UiFits(ui, u, Rows(u))' /\ DiskFits(u, Rows(u))'
  BY <1>1, <1>2, <1>5, <1>6 DEF UiFits, DiskFits
<1>8. \A c \in Call : call[c] = NoRequest
  BY <1>1 DEF Sound, Shape, Quiet, CallShape
<1>9. \A c \in Call : CallFits(call[c], u, Rows(u))'
  BY <1>6, <1>8 DEF CallFits
<1> QED
  BY <1>1, <1>6, <1>7, <1>9 DEF Belongs

LEMMA OneSync ==
  ASSUME Sound, NEW h \in Account, Belongs(h), Beyond = {},
         \/ SyncToken \/ SyncSession \/ (\E r \in BOOLEAN : SyncList(r))
         \/ (\E a, d \in SUBSET Model : SyncFlush(a, d)) \/ SyncWrite
  PROVE  Belongs(h)'
<1> USE SoundSession, SoundUi, Empties
<1>1. /\ ui.pc \in {"token", "session", "list", "flush", "write"}
      /\ ui.user = h /\ h \in User /\ h # NoUser /\ Rows(h) = server[h]
      /\ UNCHANGED <<gate, entry, verifier, call>>
  BY CloudAssumption DEF SyncToken, SyncSession, SyncList, SyncFlush, SyncWrite, Syncing,
     Belongs, UiFits, Rows, disk, vars
<1>2. CASE SyncToken
  <2>1. /\ ui' = [ui EXCEPT !.pc = "session"] /\ keyring' \in {keyring, h}
        /\ UNCHANGED <<session, cache, server>> /\ ui.pc = "token"
    BY <1>1, <1>2 DEF SyncToken
  <2>2. ui'.pc = "session" /\ ui'.user = ui.user /\ ui'.early = ui.early
    BY <2>1 DEF Ui
  <2>3. Rows(h)' = Rows(h)
    BY <2>1, RowsKept
  <2>4. UiFits(ui, h, Rows(h))' /\ DiskFits(h, Rows(h))'
    BY <1>1, <2>1, <2>2, <2>3 DEF UiFits, DiskFits, Belongs, Syncing
  <2> QED
    BY <1>1, <2>1, <2>3, <2>4, CallsKept DEF Belongs
<1>3. CASE SyncSession
  <2>1. /\ ui' = [ui EXCEPT !.pc = "list"] /\ session' = Online(ui.user, ui.ephemeral)
        /\ UNCHANGED <<keyring, cache, server>> /\ ui.pc = "session"
    BY <1>3 DEF SyncSession, disk
  <2>2. ui'.pc = "list" /\ ui'.user = ui.user /\ ui'.early = ui.early
    BY <2>1 DEF Ui
  <2>3. Rows(h)' = Rows(h)
    BY <2>1, RowsKept
  <2>4. UiFits(ui, h, Rows(h))' /\ DiskFits(h, Rows(h))'
    BY <1>1, <2>1, <2>2, <2>3 DEF UiFits, DiskFits, Belongs, Syncing
  <2>5. session'.user = h
    BY <1>1, <2>1 DEF Online
  <2> QED
    BY <1>1, <2>1, <2>3, <2>4, <2>5, CallsKept DEF Belongs
<1>4. ASSUME NEW r \in BOOLEAN, SyncList(r) PROVE Belongs(h)'
  <2>1. /\ ui.pc = "list" /\ (r \/ ui.early.pending = {})
        /\ UNCHANGED <<keyring, cache, server, session>>
    BY <1>4 DEF SyncList, disk
  <2>2. ui'.pc = "flush" /\ ui'.user = ui.user
        /\ ui'.list = IF r THEN server[ui.user] ELSE ui.early.ents
    BY <1>4 DEF SyncList, Ui
  <2>3. ui.early.pending = {} => Queued(ui.early, h) = {}
    BY DEF Queued
  <2>4. ui'.list \subseteq Rows(h)
    <3>1. CASE r
      BY <1>1, <2>2, <3>1
    <3>2. CASE ~r
      <4>1. ui'.list = ui.early.ents /\ Queued(ui.early, h) = {}
        BY <2>1, <2>2, <2>3, <3>2
      <4>2. ui.early.ents \subseteq Rows(h) \cup Queued(ui.early, h)
        BY <2>1 DEF Belongs, UiFits
      <4> QED
        BY ONLY <4>1, <4>2
    <3> QED
      BY <3>1, <3>2
  <2>5. Rows(h)' = Rows(h)
    BY <2>1, RowsKept
  <2>6. UiFits(ui, h, Rows(h))' /\ DiskFits(h, Rows(h))'
    BY <1>1, <2>1, <2>2, <2>4, <2>5 DEF UiFits, DiskFits, Belongs, Syncing
  <2> QED
    BY <1>1, <2>1, <2>5, <2>6, CallsKept DEF Belongs
<1>5. ASSUME NEW a \in SUBSET Model, NEW d \in SUBSET Model, SyncFlush(a, d)
      PROVE  Belongs(h)'
  <2>1. /\ ui.pc = "flush" /\ d \subseteq a
        /\ ui' = [ui EXCEPT !.pc = "write", !.flushed = d, !.early = NoCache]
        /\ server' = [server EXCEPT ![ui.user] = @ \cup a]
        /\ UNCHANGED <<keyring, cache, session>>
    BY <1>5 DEF SyncFlush, disk
  <2>2. ui'.pc = "write" /\ ui'.user = ui.user /\ ui'.list = ui.list /\ ui'.flushed = d
    BY <2>1 DEF Ui
  <2>3. Rows(h)' = Rows(h) \cup a
    BY <1>1, <2>1 DEF Rows, Sound, TypeOK
  <2>4. UiFits(ui, h, Rows(h))' /\ DiskFits(h, Rows(h))'
    BY <1>1, <2>1, <2>2, <2>3 DEF UiFits, DiskFits, Belongs, Syncing
  <2> QED
    BY <1>1, <2>1, <2>3, <2>4, CallsKept DEF Belongs
<1>6. CASE SyncWrite
  <2> DEFINE merged == Merged(cache, ui.user, ui.list, ui.flushed)
  <2>1. /\ ui.pc = "write" /\ cache' \in {cache, merged}
        /\ UNCHANGED <<keyring, session, server>>
    BY <1>6 DEF SyncWrite
  <2>2. ui'.pc \in {"idle", "enroll"}
    BY <1>6 DEF SyncWrite, Rest
  <2>3. Rows(h)' = Rows(h)
    BY <2>1, RowsKept
  <2>4. ui.list \subseteq Rows(h) /\ ui.flushed \subseteq Rows(h)
    BY <2>1 DEF Belongs, UiFits
  <2>5. merged.user = h /\ merged.ents \subseteq Rows(h) \cup Queued(merged, h)
    BY <1>1, <2>4 DEF Merged, Queued
  <2>6. DiskFits(h, Rows(h))'
    BY <2>1, <2>3, <2>5 DEF DiskFits, Belongs
  <2> QED
    BY <1>1, <2>1, <2>2, <2>3, <2>6, CallsKept, NotSyncing DEF Belongs
<1> QED
  BY <1>2, <1>3, <1>4, <1>5, <1>6

LEMMA OneEnd ==
  ASSUME Sound, NEW h \in Account, Belongs(h),
         \/ Enroll \/ SignOut \/ Purge \/ DropCache \/ (\E u \in User : Remove(u))
         \/ RemovePurge \/ RemoveVerifier \/ RemoveEntry
         \/ \E u, file \in User, result \in SignInResult : OfflineSignIn(u, file, result)
  PROVE  Belongs(h)'
<1> USE SoundSession, SoundUi, Empties
<1>1. UNCHANGED <<call, server>>
  BY DEF Enroll, SignOut, Purge, DropCache, Remove, RemovePurge, RemoveVerifier, RemoveEntry,
     OfflineSignIn, disk
<1>2. cache' \in {cache, NoCache} /\ keyring' \in {keyring, NoUser}
  BY DEF Enroll, SignOut, Purge, DropCache, Remove, RemovePurge, RemoveVerifier, RemoveEntry,
     OfflineSignIn, disk, Forgotten
<1>3. session' = session \/ session'.kind \notin {"online", "stale"}
  <2>1. CASE SignOut \/ \E u \in User : Remove(u)
    BY <2>1 DEF SignOut, Remove, SignsOut
  <2>2. CASE Purge
    BY <2>2 DEF Purge, Forgotten
  <2>3. CASE \E u, file \in User, result \in SignInResult : OfflineSignIn(u, file, result)
    BY <2>3 DEF OfflineSignIn, Offline
  <2>4. CASE Enroll \/ DropCache \/ RemovePurge \/ RemoveVerifier \/ RemoveEntry
    BY <2>4 DEF Enroll, DropCache, RemovePurge, RemoveVerifier, RemoveEntry
  <2> QED
    BY <2>1, <2>2, <2>3, <2>4
<1>4. ui'.pc \notin {"token", "session", "list", "flush", "write"}
  <2>1. CASE Enroll \/ SignOut \/ (\E u \in User : Remove(u)) \/ RemoveEntry
    BY <2>1, ZenonT(60) DEF Enroll, SignOut, Remove, RemoveEntry, SignsOut, Rest
  <2>2. CASE Purge \/ DropCache \/ RemovePurge \/ RemoveVerifier
    BY <2>2 DEF Purge, DropCache, RemovePurge, RemoveVerifier, Rest, Ui
  <2>3. CASE \E u, file \in User, result \in SignInResult : OfflineSignIn(u, file, result)
    BY <2>3 DEF OfflineSignIn, MayOperate
  <2> QED
    BY <2>1, <2>2, <2>3
<1>5. Rows(h)' = Rows(h)
  BY <1>1, RowsKept
<1>6. DiskFits(h, Rows(h))'
  BY <1>2, <1>5 DEF DiskFits, Belongs
<1>7. UiFits(ui, h, Rows(h))'
  BY <1>4, NotSyncing
<1>8. \A c \in Call : CallFits(call[c], h, Rows(h))'
  BY <1>1, <1>5, CallsKept DEF Belongs
<1> QED
  BY <1>3, <1>6, <1>7, <1>8 DEF Belongs

LEMMA OneDialog ==
  ASSUME Sound, OneAccount, Beyond = {}, Dialog
  PROVE  OneAccount'
<1>1. PICK h \in Account : Belongs(h)
  BY DEF OneAccount
<1>2. ASSUME NEW u \in User, NEW remember \in BOOLEAN, NEW result \in SignInResult,
             SignIn(u, remember, result)
      PROVE  OneAccount'
  <2>1. Belongs(u)'
    BY <1>1, <1>2, OneSignIn
  <2> QED
    BY <2>1 DEF OneAccount, Account
<1>3. CASE Belongs(h)'
  BY <1>3 DEF OneAccount
<1> QED
  BY <1>1, <1>2, <1>3, OneRestore, OneSync, OneEnd DEF Dialog

\* A call that takes a step keeps to its account, and so do the others.
LEMMA CallFitsSuffice ==
  ASSUME Sound, NEW h \in Account, Belongs(h), NEW c \in Call, NEW r \in CallState,
         call' = [call EXCEPT ![c] = r], CallFits(r, h, Rows(h))',
         DiskFits(h, Rows(h))', UNCHANGED ui, Rows(h) \subseteq Rows(h)',
         session'.kind \in {"online", "stale"} => session'.user = h
  PROVE  Belongs(h)'
<1>1. call'[c] = r /\ \A d \in Call : d # c => call'[d] = call[d]
  BY SoundCall
<1>2. \A d \in Call : CallFits(call[d], h, Rows(h))'
  BY <1>1 DEF Belongs, CallFits
<1>3. UiFits(ui, h, Rows(h))'
  BY DEF Belongs, UiFits
<1> QED
  BY <1>2, <1>3 DEF Belongs

\* Where a call ends or is queued, nothing of it is bound to an account.
Loose(c) ==
  \E r \in CallState : r.user = NoUser /\ r.pc \in {"idle", "queue", "gate"} /\
                       call' = [call EXCEPT ![c] = r]

LEMMA ReturnsLoose ==
  ASSUME NEW c \in Call, Returns(c)
  PROVE  Loose(c)
BY Empties DEF Returns, Loose

LEMMA GivesUpLoose ==
  ASSUME Sound, NEW c \in Call, NEW o \in Account, GivesUp(c, o)
  PROVE  Loose(c)
<1> USE SoundCall, Empties
<1> DEFINE q == [NoRequest EXCEPT !.op = "grant", !.pc = "queue", !.model = call[c].model,
                                  !.owner = o]
<1>1. q \in CallState /\ q.pc = "queue" /\ q.user = NoUser
  BY DEF CallState, NoRequest
<1>2. CASE call[c].op = "grant"
  <2>1. call' = [call EXCEPT ![c] = q]
    BY <1>2 DEF GivesUp
  <2> QED
    BY <1>1, <2>1 DEF Loose
<1>3. CASE call[c].op # "grant"
  BY <1>3 DEF GivesUp, Loose
<1> QED
  BY <1>2, <1>3

LEMMA RejectedLoose ==
  ASSUME Sound, NEW c \in Call, Rejected(c)
  PROVE  Loose(c)
<1> USE SoundCall, Empties
<1>1. CASE call[c].retried
  BY <1>1, GivesUpLoose DEF Rejected
<1>2. CASE ~call[c].retried
  <2> DEFINE r == [call[c] EXCEPT !.pc = "gate", !.retried = TRUE, !.user = NoUser]
  <2>1. call' = [call EXCEPT ![c] = r]
    BY <1>2 DEF Rejected
  <2>2. r \in CallState /\ r.pc = "gate" /\ r.user = NoUser
    BY DEF CallState
  <2> QED
    BY <2>1, <2>2 DEF Loose
<1> QED
  BY <1>1, <1>2

LEMMA LooseSuffices ==
  ASSUME Sound, NEW h \in Account, Belongs(h), NEW c \in Call, Loose(c),
         DiskFits(h, Rows(h))', UNCHANGED ui, Rows(h) \subseteq Rows(h)',
         session'.kind \in {"online", "stale"} => session'.user = h
  PROVE  Belongs(h)'
<1>1. PICK r \in CallState : /\ r.user = NoUser /\ r.pc \in {"idle", "queue", "gate"}
                             /\ call' = [call EXCEPT ![c] = r]
  BY DEF Loose
<1>2. CallFits(r, h, Rows(h))'
  BY <1>1 DEF CallFits
<1> QED
  BY <1>1, <1>2, CallFitsSuffice

LEMMA OneStart ==
  ASSUME Sound, NEW h \in Account, Belongs(h), NEW c \in Call,
         (\E op \in {"grant", "poll", "mint"}, models \in SUBSET Model :
            Start(c, op, models)) \/ TakeGate(c)
  PROVE  Belongs(h)'
<1> USE SoundCall, SoundSession, Empties
<1>0. UNCHANGED <<session, disk, ui, server>> /\ Rows(h)' = Rows(h)
  BY RowsKept DEF Start, TakeGate
<1>1. DiskFits(h, Rows(h))' /\ (session'.kind \in {"online", "stale"} => session'.user = h)
  BY <1>0 DEF Belongs, DiskFits, disk
<1>2. \A d \in Call : d # c => call'[d] = call[d]
  <2>1. ASSUME NEW op \in {"grant", "poll", "mint"}, NEW models \in SUBSET Model,
               Start(c, op, models)
        PROVE  \A d \in Call : d # c => call'[d] = call[d]
    BY <2>1 DEF Start
  <2>2. CASE TakeGate(c)
    <3>1. CASE session.kind \in {"none", "offline"}
      BY <2>2, <3>1 DEF TakeGate, GivesUp
    <3>2. CASE session.kind = "online"
      BY <2>2, <3>2 DEF TakeGate
    <3>3. CASE session.kind = "stale"
      BY <2>2, <3>3 DEF TakeGate
    <3> QED
      BY <3>1, <3>2, <3>3 DEF Dialogs, Session
  <2> QED
    BY <2>1, <2>2
<1>3. call'[c].user \in {NoUser, h} /\ call'[c].pc \notin {"merge", "record"}
  <2>1. ASSUME NEW op \in {"grant", "poll", "mint"}, NEW models \in SUBSET Model,
               Start(c, op, models)
        PROVE  call'[c].user \in {NoUser, h} /\ call'[c].pc \notin {"merge", "record"}
    <3>1. session.kind = "online" => session.user = h /\ session # NoSession
      BY DEF Belongs
    <3>2. session.kind \in {"none", "offline", "online", "stale"}
      BY DEF Dialogs, Session
    <3>3. call'[c].user = IF session.kind = "online"
                          THEN IF session = NoSession THEN cache.user ELSE session.user
                          ELSE NoUser
      BY <2>1 DEF Start, NoRequest
    <3>4. call'[c].pc = CASE session.kind \in {"none", "offline"} -> "queue"
                          [] session.kind = "online" -> Work(op)
                          [] session.kind = "stale" -> "gate"
      BY <2>1 DEF Start, NoRequest
    <3> QED
      BY <3>1, <3>2, <3>3, <3>4 DEF Work
  <2>2. CASE TakeGate(c)
    <3>1. CASE session.kind \in {"none", "offline"}
      <4>1. GivesUp(c, NoUser)
        BY <2>2, <3>1 DEF TakeGate
      <4> QED
        BY <4>1, GivesUpLoose DEF Loose
    <3>2. CASE session.kind = "online"
      <4>1. call' = [call EXCEPT ![c].pc = Work(call[c].op), ![c].user = session.user]
        BY <2>2, <3>2 DEF TakeGate
      <4>2. call'[c].user = h /\ call'[c].pc = Work(call[c].op)
        BY <3>2, <4>1 DEF CallState, Belongs
      <4> QED
        BY <4>2 DEF Work
    <3>3. CASE session.kind = "stale"
      <4>1. call' = [call EXCEPT ![c].pc = "refresh", ![c].user = session.user,
                                 ![c].ephemeral = session.ephemeral]
        BY <2>2, <3>3 DEF TakeGate
      <4> QED
        BY <3>3, <4>1 DEF CallState, Belongs
    <3> QED
      BY <3>1, <3>2, <3>3 DEF Dialogs, Session
  <2> QED
    BY <2>1, <2>2
<1>4. \A d \in Call : CallFits(call[d], h, Rows(h))'
  BY <1>0, <1>2, <1>3 DEF Belongs, CallFits
<1>5. UiFits(ui, h, Rows(h))'
  BY <1>0 DEF Belongs, UiFits
<1> QED
  BY <1>1, <1>4, <1>5 DEF Belongs

LEMMA OneRefresh ==
  ASSUME Sound, NEW h \in Account, Belongs(h), NEW c \in Call,
         \/ \E result \in RefreshResult : Refreshes(c, result)
         \/ SaveSession(c) \/ RefreshDrops(c)
  PROVE  Belongs(h)'
<1> USE SoundCall, Empties
<1>0. /\ UNCHANGED <<ui, server>> /\ Rows(h)' = Rows(h)
      /\ call[c].pc \in {"refresh", "save"} => call[c].user = h
  <2>1. UNCHANGED <<ui, server>>
    BY DEF Refreshes, Refreshed, RefreshExpired, RefreshFails, SaveSession, RefreshDrops
  <2>2. call[c].pc \in {"refresh", "save"} => call[c].user = h
    BY DEF Belongs, CallFits, CallShape
  <2> QED
    BY <2>1, <2>2, RowsKept
<1>1. CASE Refreshed(c) \/ RefreshExpired(c)
  <2>1. PICK pc \in {"save", "drop"} : Goes(c, pc)
    BY <1>1 DEF Refreshed, RefreshExpired
  <2>2. PICK r \in CallState :
          call' = [call EXCEPT ![c] = r] /\ r.pc = pc /\ r.user = call[c].user
    <3>1. /\ [call[c] EXCEPT !.pc = pc] \in CallState
          /\ call' = [call EXCEPT ![c] = [call[c] EXCEPT !.pc = pc]]
      BY <2>1 DEF Goes, CallState
    <3> QED
      BY <3>1 DEF CallState
  <2>3. CallFits(r, h, Rows(h))'
    BY <1>1, <2>2 DEF CallFits, Belongs
  <2>4. /\ UNCHANGED cache /\ keyring' \in {keyring, h, NoUser}
        /\ session' \in {session, NoSession}
    BY <1>0, <1>1 DEF Refreshed, RefreshExpired, Forgotten
  <2>5. DiskFits(h, Rows(h))' /\ (session'.kind \in {"online", "stale"} => session'.user = h)
    BY <1>0, <2>4 DEF Belongs, DiskFits
  <2> QED
    BY <1>0, <2>2, <2>3, <2>5, CallFitsSuffice
<1>2. ASSUME NEW offline \in BOOLEAN, RefreshFails(c, offline) PROVE Belongs(h)'
  <2>1. Loose(c) /\ UNCHANGED <<cache, keyring, session>>
    BY <1>2, ReturnsLoose, GivesUpLoose DEF RefreshFails, disk
  <2>2. DiskFits(h, Rows(h))' /\ (session'.kind \in {"online", "stale"} => session'.user = h)
    BY <1>0, <2>1 DEF Belongs, DiskFits
  <2> QED
    BY <1>0, <2>1, <2>2, LooseSuffices
<1>3. CASE RefreshDrops(c)
  <2>1. Loose(c) /\ cache' = NoCache /\ UNCHANGED <<keyring, session>>
    BY <1>3, GivesUpLoose DEF RefreshDrops
  <2>2. DiskFits(h, Rows(h))' /\ (session'.kind \in {"online", "stale"} => session'.user = h)
    BY <1>0, <2>1 DEF Belongs, DiskFits
  <2> QED
    BY <1>0, <2>1, <2>2, LooseSuffices
<1>4. CASE SaveSession(c)
  <2>1. /\ call[c].pc = "save" /\ session' = Online(call[c].user, call[c].ephemeral)
        /\ UNCHANGED <<cache, keyring>>
    BY <1>4 DEF SaveSession, disk
  <2>2. DiskFits(h, Rows(h))' /\ session'.user = h
    BY <1>0, <2>1 DEF Belongs, DiskFits, Online
  <2> DEFINE e == call[c].ephemeral /\ call[c].op = "poll"
             q == [call[c] EXCEPT !.pc = Work(call[c].op), !.ephemeral = e]
  <2>3. Work(call[c].op) \in {"insert", "list", "mint"}
    BY DEF Work
  <2>4. PICK r \in CallState : /\ call' = [call EXCEPT ![c] = r] /\ r.user = call[c].user
                               /\ r.pc \in {"insert", "list", "mint"}
    <3>1. call' = [call EXCEPT ![c] = q]
      BY <1>4 DEF SaveSession, CallState
    <3>2. q \in CallState /\ q.pc \in {"insert", "list", "mint"} /\ q.user = call[c].user
      BY <2>3 DEF CallState
    <3> QED
      BY <3>1, <3>2
  <2>5. CallFits(r, h, Rows(h))'
    BY <2>4 DEF CallFits, Belongs
  <2> QED
    BY <1>0, <2>2, <2>4, <2>5, CallFitsSuffice
<1> QED
  BY <1>1, <1>2, <1>3, <1>4 DEF Refreshes

LEMMA OneRequest ==
  ASSUME Sound, NEW h \in Account, Belongs(h), NEW c \in Call, NEW result,
         Inserts(c, result) \/ Reads(c, result)
  PROVE  Belongs(h)'
<1> USE SoundCall, Empties
<1>0. UNCHANGED <<session, cache, keyring, ui>>
  BY DEF Inserts, Reads, Insert, Rejected, CutOff, Ends, List, disk
<1>1. call[c].pc \in {"insert", "list"} => call[c].user = h /\ h \in User /\ h # NoUser
  BY CloudAssumption DEF Belongs, CallFits, CallShape
<1>2. Rows(h) \subseteq Rows(h)'
  <2>1. server \in [User -> SUBSET Model] /\ call[c].model \subseteq Model
    BY SoundStores DEF Stores, CallState
  <2>2. server' \in {server, [server EXCEPT ![call[c].user] = @ \cup call[c].model]}
    BY DEF Inserts, Reads, Insert, Rejected, CutOff, Ends, List
  <2>3. \A u \in User : server[u] \subseteq server'[u]
    BY <2>1, <2>2
  <2> QED
    BY <2>3 DEF Rows, Account
<1>3. DiskFits(h, Rows(h))' /\ (session'.kind \in {"online", "stale"} => session'.user = h)
  BY <1>0, <1>2 DEF Belongs, DiskFits
<1>4. CASE Insert(c)
  <2>1. /\ call' = [call EXCEPT ![c] = [call[c] EXCEPT !.pc = "record"]]
        /\ call[c].pc = "insert"
        /\ server' = [server EXCEPT ![call[c].user] = @ \cup call[c].model]
    BY <1>4 DEF Insert, Goes
  <2>2. PICK r \in CallState : /\ call' = [call EXCEPT ![c] = r] /\ r.pc = "record"
                               /\ r.user = call[c].user /\ r.model = call[c].model
    <3>1. [call[c] EXCEPT !.pc = "record"] \in CallState
      BY DEF CallState
    <3> QED
      BY <2>1, <3>1 DEF CallState
  <2>3. call[c].model \subseteq Rows(h)'
    BY <1>1, <2>1, SoundStores DEF Rows, Stores
  <2>4. CallFits(r, h, Rows(h))'
    BY <1>1, <2>1, <2>2, <2>3 DEF CallFits
  <2> QED
    BY <1>0, <1>2, <1>3, <2>1, <2>2, <2>4, CallFitsSuffice
<1>5. CASE Rejected(c) \/ Ends(c) \/ \E arrived \in BOOLEAN : CutOff(c, arrived)
  <2>1. Loose(c)
    BY <1>5, RejectedLoose, ReturnsLoose, GivesUpLoose DEF Ends, CutOff
  <2> QED
    BY <1>0, <1>2, <1>3, <2>1, LooseSuffices
<1>6. CASE List(c)
  <2> DEFINE q == [call[c] EXCEPT !.pc = "merge", !.list = server[call[c].user]]
  <2>1. call' = [call EXCEPT ![c] = q] /\ call[c].pc = "list" /\ UNCHANGED server
    BY <1>6 DEF List
  <2>2. server[h] \subseteq Model
    BY <1>1, <2>1, SoundStores DEF Stores
  <2>3. PICK r \in CallState : /\ call' = [call EXCEPT ![c] = r] /\ r.pc = "merge"
                               /\ r.user = h /\ r.list = server[h]
    <3>1. q \in CallState /\ q.pc = "merge" /\ q.user = h /\ q.list = server[h]
      BY <1>1, <2>1, <2>2 DEF CallState
    <3> QED
      BY <2>1, <3>1
  <2>4. CallFits(r, h, Rows(h))'
    BY <1>1, <2>1, <2>3 DEF CallFits, Rows
  <2> QED
    BY <1>0, <1>2, <1>3, <2>1, <2>3, <2>4, CallFitsSuffice
<1> QED
  BY <1>4, <1>5, <1>6 DEF Inserts, Reads

LEMMA OneCache ==
  ASSUME Sound, NEW h \in Account, Belongs(h), NEW c \in Call,
         Record(c) \/ QueueGrant(c) \/ MergeList(c)
  PROVE  Belongs(h)'
<1> USE SoundCall, Empties
<1>1. /\ UNCHANGED <<session, keyring, ui, server>> /\ Loose(c) /\ Rows(h)' = Rows(h)
  BY ReturnsLoose, RowsKept DEF Record, QueueGrant, MergeList
<1>2. /\ cache \in Cache /\ \A r \in cache.pending : r.owner = cache.user
      /\ cache.user \in {NoUser, h}
      /\ cache.ents \subseteq Rows(h) \cup Queued(cache, h)
  BY SoundStores DEF Stores, Belongs, DiskFits
<1>3. cache'.user = cache.user /\ cache'.ents \subseteq Rows(h) \cup Queued(cache', h)
  <2>1. CASE Record(c)
    <3>1. call[c].model \subseteq Rows(h)
      BY <2>1 DEF Record, Belongs, CallFits
    <3>2. cache' \in {cache, [cache EXCEPT !.ents = @ \cup call[c].model]}
      BY <2>1 DEF Record
    <3> QED
      BY <1>2, <3>1, <3>2 DEF Cache, Queued
  <2>2. CASE QueueGrant(c)
    <3>1. CASE Refused(call[c].owner)
      BY <1>2, <2>2, <3>1 DEF QueueGrant
    <3>2. CASE ~Refused(call[c].owner)
      <4> DEFINE new == {[model |-> m, owner |-> cache.user] : m \in
                   call[c].model \ (cache.ents \cup {r.model : r \in cache.pending})}
      <4>1. cache' = [cache EXCEPT !.ents = @ \cup call[c].model, !.pending = @ \cup new]
        BY <2>2, <3>2 DEF QueueGrant, QueuedIn
      <4>2. cache.user = h
        BY <1>2, <3>2 DEF Refused
      <4>3. /\ cache'.user = h /\ cache'.ents = cache.ents \cup call[c].model
            /\ cache'.pending = cache.pending \cup new
        BY <1>2, <4>1, <4>2 DEF Cache
      <4>4. Queued(cache', h) = Queued(cache, h) \cup {r.model : r \in new}
        BY <4>2, <4>3 DEF Queued
      <4>5. Queued(cache, h) = {r.model : r \in cache.pending}
        BY <1>2, <4>2 DEF Queued
      <4>6. ASSUME NEW m \in call[c].model,
                   m \notin cache.ents, m \notin {r.model : r \in cache.pending}
            PROVE  m \in {r.model : r \in new}
        <5>1. [model |-> m, owner |-> cache.user] \in new
          BY ONLY <4>6
        <5> HIDE DEF new
        <5> QED
          BY ONLY <5>1
      <4> QED
        BY <1>2, <4>2, <4>3, <4>4, <4>5, <4>6
    <3> QED
      BY <3>1, <3>2
  <2>3. CASE MergeList(c)
    <3>1. call[c].list \subseteq Rows(h) /\ call[c].user = h
      BY <2>3 DEF MergeList, Belongs, CallFits, CallShape
    <3>2. cache' \in {cache, Polled(cache, h, call[c].list)}
      BY <2>3, <3>1 DEF MergeList
    <3> QED
      BY <1>2, <3>1, <3>2 DEF Polled, Cache, Queued
  <2> QED
    BY <2>1, <2>2, <2>3
<1>4. DiskFits(h, Rows(h))' /\ (session'.kind \in {"online", "stale"} => session'.user = h)
  BY <1>1, <1>2, <1>3 DEF Belongs, DiskFits
<1> QED
  BY <1>1, <1>4, LooseSuffices

LEMMA OneExit ==
  ASSUME Sound, NEW h \in Account, Belongs(h), GoesStale \/ Exit \/ UNCHANGED vars
  PROVE  Belongs(h)'
<1> USE Empties
<1>0. UNCHANGED <<cache, keyring, server>> /\ Rows(h)' = Rows(h)
  BY RowsKept DEF GoesStale, Exit, vars, disk
<1>1. DiskFits(h, Rows(h))'
  BY <1>0 DEF Belongs, DiskFits
<1>2. CASE GoesStale \/ UNCHANGED vars
  <2>1. UNCHANGED <<ui, call>>
    BY <1>2 DEF GoesStale, vars
  <2>2. session'.kind \in {"online", "stale"} => session'.user = h
    BY <1>2 DEF GoesStale, vars, Sound, TypeOK, Session, Belongs
  <2>3. UiFits(ui, h, Rows(h))' /\ \A c \in Call : CallFits(call[c], h, Rows(h))'
    BY <1>0, <2>1, CallsKept DEF Belongs, UiFits
  <2> QED
    BY <1>1, <2>2, <2>3 DEF Belongs
<1>3. CASE Exit
  <2>1. ui'.pc = "closed"
    BY <1>3 DEF Exit, Rest
  <2>2. session' = NoSession /\ \A c \in Call : call'[c] = NoRequest
    BY <1>3 DEF Exit
  <2>3. \A c \in Call : CallFits(call[c], h, Rows(h))'
    BY <2>2 DEF CallFits
  <2> QED
    BY <1>1, <2>1, <2>2, <2>3, NotSyncing DEF Belongs
<1> QED
  BY <1>2, <1>3

LEMMA LedgerNext == Beyond = {} /\ LedgerInv /\ [Next]_vars => LedgerInv'
<1> SUFFICES ASSUME Beyond = {}, Sound, OneAccount, [Next]_vars
             PROVE  OneAccount'
  BY SoundNext DEF LedgerInv
<1>1. PICK h \in Account : Belongs(h)
  BY DEF OneAccount
<1>2. ASSUME NEW c \in Call, Requests(c) PROVE Belongs(h)'
  BY <1>1, <1>2, OneStart, OneRefresh, OneRequest, OneCache DEF Requests
<1>3. ASSUME GoesStale \/ Exit \/ UNCHANGED vars PROVE Belongs(h)'
  BY <1>1, <1>3, OneExit
<1>4. CASE Belongs(h)'
  BY <1>4 DEF OneAccount
<1> QED
  BY <1>2, <1>3, <1>4, OneDialog DEF Next

-----------------------------------------------------------------------------
(* The refinement: every step is one of the ledger's, or changes nothing that *)
(* the ledger has.                                                         *)

Held == {r.model : r \in cache.pending}

\* An empty-handed device queues nothing.
LEMMA NoHolder ==
  ASSUME Sound, cache.user = NoUser
  PROVE  cache.pending = {}
BY CloudAssumption DEF Sound, TypeOK, Shape, Cache, Row

LEMMA Stutters ==
  ASSUME UNCHANGED <<cache, server>>
  PROVE  UNCHANGED Ledger!vars
BY DEF Ledger!vars

LEMMA Lands ==
  ASSUME NEW u \in User, NEW models \in SUBSET Model, UNCHANGED cache,
         server' = [server EXCEPT ![u] = @ \cup models]
  PROVE  Ledger!Next
<1>1. Ledger!Land(u, models)
  BY DEF Ledger!Land
<1> QED
  BY <1>1 DEF Ledger!Next

LEMMA LetsGo ==
  ASSUME Sound, cache' = NoCache, UNCHANGED server
  PROVE  [Ledger!Next]_Ledger!vars
<1> USE Empties
<1>1. CASE cache.user = NoUser
  <2>1. cache.pending = {} /\ cache'.pending = {} /\ cache'.user = cache.user
    BY <1>1, NoHolder
  <2> QED
    BY <2>1 DEF Ledger!vars
<1>2. CASE cache.user # NoUser
  <2>1. cache'.user = NoUser /\ {r.model : r \in cache'.pending} = {}
    OBVIOUS
  <2>2. Ledger!Hold(NoUser)
    BY <1>2, <2>1 DEF Ledger!Hold
  <2> QED
    BY <2>2 DEF Ledger!Next
<1> QED
  BY <1>1, <1>2

\* A write takes from the queue what has landed, or takes over for an account
\* that queued nothing yet.
LEMMA Writes ==
  ASSUME Sound, NEW h \in Account, Belongs(h), SyncWrite
  PROVE  [Ledger!Next]_Ledger!vars
<1> USE SoundSession, SoundUi, Empties
<1>1. /\ ui.pc = "write" /\ ui.user = h /\ h \in User /\ h # NoUser
      /\ ui.list \subseteq server[h] /\ ui.flushed \subseteq server[h]
      /\ UNCHANGED server
  BY CloudAssumption DEF SyncWrite, Belongs, UiFits, Syncing, Rows
<1> DEFINE done == ui.list \cup ui.flushed
           merged == Merged(cache, h, ui.list, ui.flushed)
<1>2. cache' \in {cache, merged}
  BY <1>1 DEF SyncWrite
<1>3. CASE cache' = cache
  BY <1>1, <1>3, Stutters
<1>4. CASE cache' = merged
  <2>1. cache'.user = h
    BY <1>4 DEF Merged
  <2>2. cache'.pending = {r \in cache.pending : r.owner = h /\ r.model \notin done}
    BY <1>4 DEF Merged
  <2>3. CASE cache.user = h
    <3>1. \A r \in cache.pending : r.owner = h
      BY <2>3 DEF Sound, Shape
    <3>2. {r.model : r \in cache'.pending} = Held \ done
      BY <2>2, <3>1 DEF Held
    <3>3. PICK models \in SUBSET Model : models = done
      OBVIOUS
    <3>4. Ledger!Retire(models)
      BY <1>1, <2>1, <2>3, <3>2, <3>3 DEF Ledger!Retire, Held
    <3> QED
      BY <3>4 DEF Ledger!Next
  <2>4. CASE cache.user # h
    <3>1. cache.user = NoUser
      BY <2>4 DEF Belongs, DiskFits
    <3>2. {r.model : r \in cache'.pending} = {}
      BY <2>2, <3>1, NoHolder
    <3>3. Ledger!Hold(h)
      BY <1>1, <2>1, <2>4, <3>2 DEF Ledger!Hold
    <3> QED
      BY <1>1, <3>3 DEF Ledger!Next
  <2> QED
    BY <2>3, <2>4
<1> QED
  BY <1>2, <1>3, <1>4

LEMMA QueuesOne ==
  ASSUME Sound, NEW c \in Call, QueueGrant(c)
  PROVE  [Ledger!Next]_Ledger!vars
<1> USE SoundCall, SoundSession, Empties
<1>1. UNCHANGED server /\ \E m \in Model : call[c].model = {m}
  BY DEF QueueGrant, CallShape
<1>2. PICK m \in Model : call[c].model = {m}
  BY <1>1
<1>3. CASE Refused(call[c].owner)
  BY <1>1, <1>3, Stutters DEF QueueGrant
<1>4. CASE ~Refused(call[c].owner)
  <2> DEFINE new == {[model |-> n, owner |-> cache.user] : n \in
               {m} \ (cache.ents \cup {r.model : r \in cache.pending})}
  <2>1. cache' = [cache EXCEPT !.ents = @ \cup {m}, !.pending = @ \cup new]
    BY <1>2, <1>4 DEF QueueGrant, QueuedIn
  <2>2. cache.user # NoUser
    BY <1>4 DEF Refused
  <2>3. cache'.user = cache.user /\ cache'.pending = cache.pending \cup new
    BY <2>1 DEF Cache
  <2>4. CASE m \in cache.ents \cup Held
    <3>1. new = {}
      BY <2>4 DEF Held
    <3> QED
      BY <1>1, <2>3, <3>1 DEF Ledger!vars
  <2>5. CASE m \notin cache.ents \cup Held
    <3> DEFINE row == [model |-> m, owner |-> cache.user]
    <3>1. new = {row} /\ row.model = m
      BY <2>5 DEF Held
    <3> HIDE DEF new, row
    <3>2. {r.model : r \in cache'.pending} = Held \cup {m}
      BY <2>3, <3>1 DEF Held
    <3>3. Ledger!Queue(m)
      BY <1>1, <2>2, <2>3, <3>2 DEF Ledger!Queue, Held
    <3> QED
      BY <3>3 DEF Ledger!Next
  <2> QED
    BY <2>4, <2>5
<1> QED
  BY <1>3, <1>4

LEMMA StepDialog ==
  ASSUME Sound, NEW h \in Account, Belongs(h), Dialog
  PROVE  [Ledger!Next]_Ledger!vars
<1>1. CASE \/ \E outcome \in RefreshResult : Restore(outcome)
           \/ \E u \in User, result \in SignInResult :
                \/ \E remember \in BOOLEAN : SignIn(u, remember, result)
                \/ \E file \in User : OfflineSignIn(u, file, result)
           \/ \E u \in User : Remove(u)
           \/ SyncToken \/ SyncSession \/ (\E r \in BOOLEAN : SyncList(r))
           \/ Enroll \/ SignOut \/ Purge \/ RemoveVerifier \/ RemoveEntry
  <2>1. UNCHANGED <<cache, server>>
    BY <1>1 DEF Restore, SignIn, OfflineSignIn, Remove, SyncToken, SyncSession, SyncList,
       Enroll, SignOut, Purge, RemoveVerifier, RemoveEntry, disk
  <2> QED
    BY <2>1, Stutters
<1>2. ASSUME NEW a \in SUBSET Model, NEW d \in SUBSET Model, SyncFlush(a, d)
      PROVE  Ledger!Next
  <2>1. /\ ui.user \in User /\ UNCHANGED cache
        /\ server' = [server EXCEPT ![ui.user] = @ \cup a]
    BY <1>2, SoundUi DEF SyncFlush, Syncing, disk
  <2> QED
    BY <2>1, Lands
<1>3. CASE SyncWrite
  BY <1>3, Writes
<1>4. CASE DropCache \/ (RemovePurge /\ cache.user = ui.user)
  <2>1. cache' = NoCache /\ UNCHANGED server
    BY <1>4 DEF DropCache, RemovePurge
  <2> QED
    BY <2>1, LetsGo
<1>5. CASE RemovePurge /\ cache.user # ui.user
  BY <1>5, Stutters DEF RemovePurge
<1> QED
  BY <1>1, <1>2, <1>3, <1>4, <1>5 DEF Dialog

LEMMA StepCall ==
  ASSUME Sound, NEW c \in Call, Requests(c)
  PROVE  [Ledger!Next]_Ledger!vars
<1> USE SoundCall
<1>1. CASE \/ \E op \in {"grant", "poll", "mint"}, models \in SUBSET Model :
                Start(c, op, models)
           \/ (\E result \in RefreshResult : Refreshes(c, result))
           \/ (\E result \in ReadResult : Reads(c, result))
           \/ TakeGate(c) \/ SaveSession(c)
  <2>1. UNCHANGED <<cache, server>>
    BY <1>1 DEF Start, Refreshes, Refreshed, RefreshExpired, RefreshFails, Reads, List, Ends,
       Rejected, TakeGate, SaveSession, disk
  <2> QED
    BY <2>1, Stutters
<1>2. ASSUME NEW result \in InsertResult, Inserts(c, result)
      PROVE  [Ledger!Next]_Ledger!vars
  <2>1. call[c].user \in User /\ call[c].model \in SUBSET Model /\ UNCHANGED cache
    BY <1>2 DEF Inserts, CallShape, CallState, Insert, Rejected, CutOff, Ends, disk
  <2>2. server' \in {server, [server EXCEPT ![call[c].user] = @ \cup call[c].model]}
    BY <1>2 DEF Inserts, Insert, Rejected, CutOff, Ends
  <2> QED
    BY <2>1, <2>2, Lands, Stutters
<1>3. CASE RefreshDrops(c)
  <2>1. cache' = NoCache /\ UNCHANGED server
    BY <1>3 DEF RefreshDrops
  <2> QED
    BY <2>1, LetsGo
<1>4. CASE QueueGrant(c)
  BY <1>4, QueuesOne
<1>5. CASE Record(c) \/ MergeList(c)
  <2>1. cache'.user = cache.user /\ cache'.pending = cache.pending /\ UNCHANGED server
    BY <1>5, SoundSession DEF Record, MergeList, Polled, Cache
  <2> QED
    BY <2>1 DEF Ledger!vars
<1> QED
  BY <1>1, <1>2, <1>3, <1>4, <1>5 DEF Requests

LEMMA LedgerStep == Beyond = {} /\ LedgerInv /\ [Next]_vars => [Ledger!Next]_Ledger!vars
<1> SUFFICES ASSUME Beyond = {}, Sound, OneAccount, [Next]_vars
             PROVE  [Ledger!Next]_Ledger!vars
  BY DEF LedgerInv
<1>1. PICK h \in Account : Belongs(h)
  BY DEF OneAccount
<1>2. ASSUME GoesStale \/ Exit \/ UNCHANGED vars PROVE UNCHANGED <<cache, server>>
  BY <1>2 DEF GoesStale, Exit, vars, disk
<1> QED
  BY <1>1, <1>2, StepDialog, StepCall, Stutters DEF Next

LEMMA LedgerStart == Init => LedgerInv /\ Ledger!Init
<1> SUFFICES ASSUME Init PROVE Ledger!Init
  BY SoundInit, OneInit DEF LedgerInv
<1>1. cache.user = NoUser /\ cache.pending = {} /\ server = [u \in User |-> {}]
  BY Empties DEF Init
<1> QED
  BY <1>1 DEF Ledger!Init

\* What cloud/session.rs and cloud/store.rs promise of a grant, for any number
\* of accounts, models and calls: it lands, or waits in the queue for the
\* account whose cache it is, until it has landed or the device lets go.
THEOREM GrantsAreKept == ASSUME Beyond = {} PROVE Spec => GrantsKept
<1>1. Init => LedgerInv /\ Ledger!Init
  BY LedgerStart
<1>2. LedgerInv /\ [Next]_vars => LedgerInv' /\ [Ledger!Next]_Ledger!vars
  BY LedgerNext, LedgerStep
<1> QED
  BY <1>1, <1>2, PTL DEF Spec, GrantsKept, Ledger!Spec

\* A grant is never taken out of an account's queue before it has landed
\* (merge_synced_cache), as long as no sync falls back on a cached list that
\* still shows the queue: where one does, the run cloud_lost loses a grant.
THEOREM QueueOutlives == ASSUME Beyond = {} PROVE Spec => QueueKept
<1> DEFINE Waits == cache'.user = cache.user =>
             \A r \in cache.pending \ cache'.pending : r.model \in server[cache.user]
<1>1. Beyond = {} /\ LedgerInv /\ [Next]_vars => Waits
  <2> SUFFICES ASSUME LedgerInv, LedgerInv', [Ledger!Next]_Ledger!vars,
                      cache'.user = cache.user,
                      NEW r \in cache.pending, r \notin cache'.pending
               PROVE  r.model \in server[cache.user]
    BY LedgerNext, LedgerStep
  <2>1. /\ \A q \in cache'.pending : q.owner = cache'.user /\ q \in Row
        /\ r.owner = cache.user /\ r \in Row
    BY DEF LedgerInv, Sound, TypeOK, Shape, Cache
  <2>2. \A q \in cache'.pending : q.model # r.model
    <3> SUFFICES ASSUME NEW q \in cache'.pending, q.model = r.model PROVE q = r
      OBVIOUS
    <3> QED
      BY <2>1 DEF Row
  <2>3. r.model \in Held /\ r.model \notin {q.model : q \in cache'.pending}
    BY <2>2 DEF Held
  <2>4. PICK done \in SUBSET Model : Ledger!Retire(done)
    BY <2>3 DEF Held, Ledger!Next, Ledger!vars, Ledger!Queue, Ledger!Land, Ledger!Hold
  <2> QED
    BY <2>3, <2>4 DEF Held, Ledger!Retire
<1>2. Init => LedgerInv
  BY LedgerStart
<1>3. LedgerInv /\ [Next]_vars => LedgerInv' /\ [Waits]_vars
  BY <1>1, LedgerNext
<1> QED
  BY <1>2, <1>3, PTL DEF Spec, QueueKept

-----------------------------------------------------------------------------
(* The keyring. A purge is for the account that the keyring remembers: the  *)
(* operations that purge run alone, and one call at a time refreshes.      *)

Alone == {"token", "session", "logout", "drop", "purge", "verifier", "entry", "closed"}
UiKeyed ==
  /\ ui.pc \in Alone => Quiet
  /\ ui.pc \in {"token", "session", "drop"} => session = NoSession
  /\ ui.pc = "session" /\ ~ui.ephemeral => keyring = ui.user
  /\ ui.pc = "logout" => ui.user = session.user /\ session.kind \in {"online", "stale"}
  /\ ui.pc = "drop" /\ ui.op = "remove" => ui.user # NoUser
  /\ ui.pc = "purge" =>
       ui.user # NoUser /\ (session.kind \in {"online", "stale"} => session.user # ui.user)
CallsKeyed ==
  \A c \in Call :
    /\ call[c].pc \in {"refresh", "save", "drop"} => gate = c
    /\ call[c].pc \in {"refresh", "save"} /\ ~call[c].ephemeral => keyring = call[c].user
SessionKeyed ==
  session.kind \in {"online", "stale"} /\ ~session.ephemeral => keyring = session.user
Keyed == Remembered /\ UiKeyed /\ CallsKeyed /\ SessionKeyed

LEMMA KeyedInit == Init => Keyed
<1> SUFFICES ASSUME Init PROVE Keyed
  OBVIOUS
<1> USE Empties
<1>1. UiKeyed
  BY DEF Init, UiKeyed, Alone
<1> QED
  BY <1>1 DEF Init, Keyed, Remembered, CallsKeyed, SessionKeyed

\* Where no call runs, none has the gate or is refreshing.
LEMMA QuietKeyed ==
  ASSUME Sound, Quiet, UNCHANGED call
  PROVE  CallsKeyed' /\ Quiet'
BY DEF CallsKeyed, Quiet

\* The account that is forgotten is the one that is remembered, if any is.
LEMMA ForgetsRemembered ==
  ASSUME Sound, NEW h \in Account, Belongs(h), Keyed, NEW u, u \in {h, keyring}, Forgotten(u)
  PROVE  keyring' = NoUser /\ Remembered' /\ SessionKeyed' /\ session' = NoSession
<1>1. keyring' = NoUser /\ kept' = NoUser /\ session' = NoSession
  BY DEF Forgotten, Keyed, Remembered, Belongs, DiskFits
<1> QED
  BY <1>1, Empties DEF Remembered, SessionKeyed

LEMMA KeyedDialog ==
  ASSUME Sound, NEW h \in Account, Belongs(h), Keyed, Beyond = {}, Dialog
  PROVE  Keyed'
<1> USE SoundSession, SoundUi, Empties
\* the operations that begin where no call runs
<1>1. ASSUME NEW outcome \in RefreshResult, Restore(outcome) PROVE Keyed'
  <2>1. Quiet /\ UNCHANGED call /\ session = NoSession
    BY <1>1 DEF Restore, MayOperate, Keyed, UiKeyed, Alone, Sound, Shape
  <2>2. CallsKeyed' /\ Quiet'
    BY <2>1, QuietKeyed
  <2>3. CASE keyring = NoUser
    <3>1. ui' = Rest /\ UNCHANGED <<session, keyring, kept>>
      BY <1>1, <2>3 DEF Restore
    <3> QED
      BY <2>1, <2>2, <3>1 DEF Keyed, Remembered, UiKeyed, SessionKeyed
  <2>4. CASE keyring # NoUser /\ outcome = "ok"
    <3>1. ui' = [Rest EXCEPT !.op = "restore", !.pc = "token",
                             !.user = keyring, !.early = cache]
          /\ UNCHANGED <<session, keyring, kept>>
      BY <1>1, <2>4 DEF Restore
    <3>2. ui'.pc = "token"
      BY <3>1 DEF Rest
    <3> QED
      BY <2>1, <2>2, <3>1, <3>2 DEF Keyed, Remembered, UiKeyed, SessionKeyed
  <2>5. CASE keyring # NoUser /\ outcome = "expired"
    <3>1. Forgotten(keyring) /\ ui' = [Rest EXCEPT !.op = "restore", !.pc = "drop"]
      BY <1>1, <2>5 DEF Restore
    <3>2. ui'.pc = "drop" /\ ui'.op = "restore"
      BY <3>1 DEF Rest
    <3> QED
      BY <2>2, <3>1, <3>2, ForgetsRemembered DEF Keyed, UiKeyed
  <2>6. CASE keyring # NoUser /\ outcome \in {"offline", "error"}
    <3>1. session' = OfflineAs(cache.user) /\ ui' = Rest /\ UNCHANGED <<keyring, kept>>
      BY <1>1, <2>6 DEF Restore
    <3>2. session'.kind \in {"none", "offline"}
      BY <2>1, <3>1 DEF OfflineAs, Offline
    <3> QED
      BY <2>2, <3>1, <3>2 DEF Keyed, Remembered, UiKeyed, SessionKeyed
  <2> QED
    BY <2>3, <2>4, <2>5, <2>6, Results
<1>2. ASSUME NEW u \in User, NEW remember \in BOOLEAN, NEW result \in SignInResult,
             SignIn(u, remember, result)
      PROVE  Keyed'
  <2>1. /\ ui' = [Rest EXCEPT !.op = "sign_in", !.pc = "token", !.user = u,
                              !.ephemeral = ~remember, !.early = cache]
        /\ UNCHANGED <<session, keyring, kept, call>> /\ Quiet /\ session = NoSession
    BY <1>2 DEF SignIn, MayOperate, disk
  <2>2. ui'.pc = "token"
    BY <2>1 DEF Rest
  <2>3. CallsKeyed' /\ Quiet'
    BY <2>1, QuietKeyed
  <2> QED
    BY <2>1, <2>2, <2>3 DEF Keyed, Remembered, UiKeyed, SessionKeyed
<1>3. ASSUME NEW u \in User, NEW file \in User, NEW result \in SignInResult,
             OfflineSignIn(u, file, result)
      PROVE  Keyed'
  <2>1. /\ session'.kind = "offline" /\ ui.pc = "idle" /\ Quiet
        /\ UNCHANGED <<ui, keyring, kept, call>>
    BY <1>3 DEF OfflineSignIn, MayOperate, Offline, disk
  <2>2. CallsKeyed' /\ Quiet'
    BY <2>1, QuietKeyed
  <2> QED
    BY <2>1, <2>2 DEF Keyed, Remembered, UiKeyed, SessionKeyed
<1>4. ASSUME NEW op \in {"sign_out", "remove"}, SignsOut(op), MayOperate,
             session # NoSession, UNCHANGED <<disk, gate, call, server, kept>>
      PROVE  Keyed'
  <2>1. Quiet /\ UNCHANGED <<keyring, kept, call>>
    BY <1>4 DEF MayOperate, disk
  <2>2. CallsKeyed' /\ Quiet'
    BY <2>1, QuietKeyed
  <2>3. CASE session.kind = "offline"
    <3>1. session' = NoSession
          /\ ui' \in {Rest, [Rest EXCEPT !.op = op, !.pc = "purge", !.user = session.user]}
      BY <1>4, <2>3 DEF SignsOut
    <3>2. session.user # NoUser
      BY <2>3 DEF Dialogs
    <3>3. ui'.pc = "idle" \/ (ui'.pc = "purge" /\ ui'.user # NoUser)
      BY <3>1, <3>2 DEF Rest
    <3> QED
      BY <2>1, <2>2, <3>1, <3>3 DEF Keyed, Remembered, UiKeyed, SessionKeyed
  <2>4. CASE session.kind # "offline"
    <3>1. ui' = [Rest EXCEPT !.op = op, !.pc = "logout", !.user = session.user]
          /\ UNCHANGED session
      BY <1>4, <2>4 DEF SignsOut
    <3>2. ui'.pc = "logout" /\ ui'.user = session.user
      BY <3>1 DEF Rest
    <3>3. session.kind \in {"online", "stale"}
      BY <1>4, <2>4 DEF Dialogs, Session
    <3> QED
      BY <2>1, <2>2, <3>1, <3>2, <3>3 DEF Keyed, Remembered, UiKeyed, SessionKeyed
  <2> QED
    BY <2>3, <2>4
<1>5. CASE SignOut
  BY <1>4, <1>5 DEF SignOut
<1>6. ASSUME NEW u \in User, Remove(u) PROVE Keyed'
  <2>1. CASE session.user = u
    <3>1. session # NoSession
      BY <2>1, CloudAssumption
    <3> QED
      BY <1>4, <1>6, <2>1, <3>1 DEF Remove
  <2>2. CASE session.user # u
    <3>1. /\ ui' = [Rest EXCEPT !.op = "remove", !.pc = "purge", !.user = u]
          /\ UNCHANGED <<session, keyring, kept, call>> /\ Quiet
      BY <1>6, <2>2 DEF Remove, MayOperate, disk
    <3>2. ui'.pc = "purge" /\ ui'.user = u
      BY <3>1 DEF Rest
    <3>3. CallsKeyed' /\ Quiet'
      BY <3>1, QuietKeyed
    <3> QED
      BY <2>2, <3>1, <3>2, <3>3, CloudAssumption
      DEF Keyed, Remembered, UiKeyed, SessionKeyed
  <2> QED
    BY <2>1, <2>2
\* the steps of a sync
<1>7. CASE SyncToken
  <2>1. /\ ui.pc = "token" /\ ui' = [ui EXCEPT !.pc = "session"]
        /\ UNCHANGED <<session, call>> /\ Quiet /\ session = NoSession
        /\ IF ui.ephemeral THEN UNCHANGED <<keyring, kept>>
           ELSE keyring' = ui.user /\ kept' = ui.user
    BY <1>7 DEF SyncToken, Keyed, UiKeyed, Alone
  <2>2. ui'.pc = "session" /\ ui'.user = ui.user /\ ui'.ephemeral = ui.ephemeral
    BY <2>1 DEF Ui
  <2>3. CallsKeyed' /\ Quiet'
    BY <2>1, QuietKeyed
  <2> QED
    BY <2>1, <2>2, <2>3 DEF Keyed, Remembered, UiKeyed, SessionKeyed
<1>8. CASE SyncSession
  <2>1. /\ ui.pc = "session" /\ ui' = [ui EXCEPT !.pc = "list"]
        /\ session' = Online(ui.user, ui.ephemeral)
        /\ UNCHANGED <<keyring, kept, call>> /\ Quiet
        /\ ~ui.ephemeral => keyring = ui.user
    BY <1>8 DEF SyncSession, Keyed, UiKeyed, Alone, disk
  <2>2. ui'.pc = "list"
    BY <2>1 DEF Ui
  <2>3. CallsKeyed' /\ Quiet'
    BY <2>1, QuietKeyed
  <2>4. SessionKeyed'
    BY <2>1 DEF SessionKeyed, Online
  <2> QED
    BY <2>1, <2>2, <2>3, <2>4 DEF Keyed, Remembered, UiKeyed, Alone
<1>9. CASE \/ (\E r \in BOOLEAN : SyncList(r)) \/ (\E a, d \in SUBSET Model : SyncFlush(a, d))
           \/ SyncWrite \/ Enroll
  <2>1. UNCHANGED <<session, keyring, kept, call, gate>>
    BY <1>9 DEF SyncList, SyncFlush, SyncWrite, Enroll, disk
  <2>2. ui'.pc \in {"flush", "write", "enroll", "idle"}
    BY <1>9 DEF SyncList, SyncFlush, SyncWrite, Enroll, Rest, Ui
  <2> QED
    BY <2>1, <2>2 DEF Keyed, Remembered, UiKeyed, CallsKeyed, SessionKeyed, Alone
\* the steps of a sign-out and of a removal
<1>10. CASE Purge
  <2>1. /\ Forgotten(ui.user) /\ ui' = [ui EXCEPT !.pc = "drop"]
        /\ UNCHANGED call /\ Quiet /\ ui.user = h /\ ui.user # NoUser
    BY <1>10 DEF Purge, Keyed, UiKeyed, Alone, Belongs, Dialogs
  <2>2. ui'.pc = "drop" /\ ui'.user = ui.user
    BY <2>1 DEF Ui
  <2>3. CallsKeyed' /\ Quiet'
    BY <2>1, QuietKeyed
  <2> QED
    BY <2>1, <2>2, <2>3, ForgetsRemembered DEF Keyed, UiKeyed
<1>11. CASE DropCache
  <2>1. /\ UNCHANGED <<session, keyring, kept, call>> /\ Quiet /\ session = NoSession
        /\ ui.op = "remove" => ui.user # NoUser
        /\ ui' = IF ui.op = "remove" THEN [ui EXCEPT !.pc = "purge"] ELSE Rest
    BY <1>11 DEF DropCache, Keyed, UiKeyed, Alone
  <2>2. ui'.pc = "idle" \/ (ui'.pc = "purge" /\ ui'.user # NoUser)
    BY <2>1 DEF Ui
  <2>3. CallsKeyed' /\ Quiet'
    BY <2>1, QuietKeyed
  <2> QED
    BY <2>1, <2>2, <2>3 DEF Keyed, Remembered, UiKeyed, SessionKeyed
<1>12. CASE RemovePurge
  <2>1. /\ ui' = [ui EXCEPT !.pc = "verifier"] /\ UNCHANGED <<session, call>> /\ Quiet
        /\ ui.user # NoUser
        /\ session.kind \in {"online", "stale"} => session.user # ui.user
    BY <1>12 DEF RemovePurge, Keyed, UiKeyed, Alone
  <2>2. ui'.pc = "verifier"
    BY <2>1 DEF Ui
  <2>3. CallsKeyed' /\ Quiet'
    BY <2>1, QuietKeyed
  <2>4. Remembered' /\ SessionKeyed'
    <3>1. CASE cache.user = ui.user
      <4>1. ui.user = h /\ keyring' = NoUser /\ kept' = NoUser
        BY <1>12, <2>1, <3>1 DEF RemovePurge, Keyed, Remembered, Belongs, DiskFits
      <4>2. session.kind \notin {"online", "stale"}
        BY <2>1, <4>1 DEF Belongs
      <4> QED
        BY <2>1, <4>1, <4>2 DEF Remembered, SessionKeyed
    <3>2. CASE cache.user # ui.user
      BY <1>12, <2>1, <3>2 DEF RemovePurge, Keyed, Remembered, SessionKeyed
    <3> QED
      BY <3>1, <3>2
  <2> QED
    BY <2>2, <2>3, <2>4 DEF Keyed, UiKeyed
<1>13. CASE RemoveVerifier \/ RemoveEntry
  <2>1. UNCHANGED <<session, keyring, kept, call>> /\ Quiet
    BY <1>13 DEF RemoveVerifier, RemoveEntry, Keyed, UiKeyed, Alone
  <2>2. ui'.pc \in {"entry", "idle"}
    BY <1>13 DEF RemoveVerifier, RemoveEntry, Ui
  <2>3. CallsKeyed' /\ Quiet'
    BY <2>1, QuietKeyed
  <2> QED
    BY <2>1, <2>2, <2>3 DEF Keyed, Remembered, UiKeyed, SessionKeyed
<1> QED
  BY <1>1, <1>2, <1>3, <1>5, <1>6, <1>7, <1>8, <1>9, <1>10, <1>11, <1>12, <1>13 DEF Dialog

\* A call's step that leaves the keyring and the session alone.
LEMMA KeyedCalls ==
  ASSUME Sound, Keyed, Beyond = {}, NEW c \in Call,
         UNCHANGED <<session, keyring, kept, ui>>, ui.pc \notin Alone,
         \A d \in Call : d # c => call'[d] = call[d],
         gate' = gate \/ gate = NoCall \/ gate = c,
         call'[c].pc \in {"refresh", "save", "drop"} =>
           /\ gate' = c
           /\ call'[c].pc # "drop" /\ ~call'[c].ephemeral => keyring = call'[c].user
  PROVE  Keyed'
<1>1. CallsKeyed'
  BY CloudAssumption DEF Keyed, CallsKeyed
<1> QED
  BY <1>1 DEF Keyed, Remembered, UiKeyed, SessionKeyed

LEMMA KeyedRequests ==
  ASSUME Sound, NEW h \in Account, Belongs(h), Keyed, Beyond = {},
         NEW c \in Call, Requests(c)
  PROVE  Keyed'
<1> USE SoundCall, SoundSession, Empties, Results
<1>0. UNCHANGED ui /\ ui.pc \notin Alone
  <2>1. CASE \E op \in {"grant", "poll", "mint"}, models \in SUBSET Model :
               Start(c, op, models)
    BY <2>1 DEF Start, MayCall, Alone
  <2>2. CASE ~ \E op \in {"grant", "poll", "mint"}, models \in SUBSET Model :
               Start(c, op, models)
    <3>1. UNCHANGED ui /\ call[c].pc # "idle"
      BY <2>2 DEF Requests, Refreshes, Refreshed, RefreshExpired, RefreshFails, Inserts, Reads,
         Insert, Rejected, CutOff, Ends, List, TakeGate, SaveSession, RefreshDrops, Record,
         QueueGrant, MergeList
    <3> QED
      BY <3>1 DEF Keyed, UiKeyed, Quiet
  <2> QED
    BY <2>1, <2>2
<1>1. ASSUME NEW op \in {"grant", "poll", "mint"}, NEW models \in SUBSET Model,
             Start(c, op, models)
      PROVE  Keyed'
  <2>1. /\ UNCHANGED <<session, keyring, kept, gate>>
        /\ \A d \in Call : d # c => call'[d] = call[d]
    BY <1>1 DEF Start, disk
  <2>2. call'[c].pc = CASE session.kind \in {"none", "offline"} -> "queue"
                        [] session.kind = "online" -> Work(op)
                        [] session.kind = "stale" -> "gate"
    BY <1>1 DEF Start, NoRequest
  <2>3. call'[c].pc \in {"queue", "gate", "insert", "list", "mint"}
    BY <2>2 DEF Work, Dialogs, Session
  <2> QED
    BY <1>0, <2>1, <2>3, KeyedCalls
<1>2. CASE TakeGate(c)
  <2>1. UNCHANGED <<session, keyring, kept>> /\ gate = NoCall
    BY <1>2 DEF TakeGate, disk
  <2>2. CASE session.kind \in {"none", "offline"}
    <3>1. Loose(c) /\ UNCHANGED gate
      BY <1>2, <2>2, GivesUpLoose DEF TakeGate
    <3> QED
      BY <1>0, <2>1, <3>1, KeyedCalls DEF Loose
  <2>3. CASE session.kind = "online"
    <3>1. call' = [call EXCEPT ![c].pc = Work(call[c].op), ![c].user = session.user]
          /\ UNCHANGED gate
      BY <1>2, <2>3 DEF TakeGate
    <3>2. /\ \A d \in Call : d # c => call'[d] = call[d]
          /\ call'[c].pc = Work(call[c].op)
      BY <3>1 DEF CallState
    <3>3. call'[c].pc \in {"insert", "list", "mint"}
      BY <3>2 DEF Work
    <3> QED
      BY <1>0, <2>1, <3>1, <3>2, <3>3, KeyedCalls
  <2>4. CASE session.kind = "stale"
    <3>1. call' = [call EXCEPT ![c].pc = "refresh", ![c].user = session.user,
                               ![c].ephemeral = session.ephemeral] /\ gate' = c
      BY <1>2, <2>4 DEF TakeGate
    <3>2. /\ \A d \in Call : d # c => call'[d] = call[d]
          /\ call'[c].user = session.user /\ call'[c].ephemeral = session.ephemeral
      BY <3>1 DEF CallState
    <3>3. ~session.ephemeral => keyring = session.user
      BY <2>4 DEF Keyed, SessionKeyed
    <3> QED
      BY <1>0, <2>1, <3>1, <3>2, <3>3, KeyedCalls
  <2> QED
    BY <2>2, <2>3, <2>4 DEF Dialogs, Session
<1>3. CASE Refreshed(c)
  <2>1. /\ call' = [call EXCEPT ![c].pc = "save"] /\ UNCHANGED <<session, kept, gate>>
        /\ gate = c
    BY <1>3 DEF Refreshed, Goes, Keyed, CallsKeyed
  <2>2. keyring' = keyring
    BY <1>3, <2>1 DEF Refreshed, Keyed, CallsKeyed
  <2>3. /\ \A d \in Call : d # c => call'[d] = call[d]
        /\ call'[c].user = call[c].user /\ call'[c].ephemeral = call[c].ephemeral
    BY <2>1 DEF CallState
  <2>4. ~call[c].ephemeral => keyring = call[c].user
    BY <1>3 DEF Refreshed, Keyed, CallsKeyed
  <2> QED
    BY <1>0, <2>1, <2>2, <2>3, <2>4, KeyedCalls
\* What c does with the gate in its hands concerns no other call.
<1>4. ASSUME call[c].pc \in {"refresh", "save", "drop"},
             \A d \in Call : d # c => call'[d] = call[d]
      PROVE  gate = c /\ \A d \in Call : d # c => call'[d].pc \notin {"refresh", "save", "drop"}
  BY <1>4 DEF Keyed, CallsKeyed
<1>5. CASE RefreshExpired(c)
  <2>1. /\ call[c].pc = "refresh" /\ Forgotten(call[c].user) /\ UNCHANGED gate
        /\ call' = [call EXCEPT ![c].pc = "drop"] /\ call[c].user \in {h, keyring}
    BY <1>5 DEF RefreshExpired, Goes, Belongs, CallFits, CallShape
  <2>2. /\ \A d \in Call : d # c => call'[d] = call[d]
        /\ call'[c].pc = "drop"
    BY <2>1 DEF CallState
  <2>3. CallsKeyed'
    BY <1>4, <2>1, <2>2 DEF CallsKeyed
  <2>4. Remembered' /\ SessionKeyed' /\ session' = NoSession
    BY <2>1, ForgetsRemembered
  <2>5. UiKeyed'
    BY <1>0, <2>4 DEF UiKeyed, Alone
  <2> QED
    BY <2>3, <2>4, <2>5 DEF Keyed
<1>6. ASSUME NEW offline \in BOOLEAN, RefreshFails(c, offline) PROVE Keyed'
  <2>1. Loose(c) /\ UNCHANGED <<session, keyring, kept>> /\ call[c].pc = "refresh"
    BY <1>6, ReturnsLoose, GivesUpLoose DEF RefreshFails, disk
  <2>2. /\ \A d \in Call : d # c => call'[d] = call[d]
        /\ call'[c].pc \notin {"refresh", "save", "drop"}
    BY <2>1 DEF Loose
  <2> QED
    BY <1>0, <1>4, <2>1, <2>2, KeyedCalls
<1>7. CASE RefreshDrops(c)
  <2>1. Loose(c) /\ UNCHANGED <<session, keyring, kept>> /\ call[c].pc = "drop"
    BY <1>7, GivesUpLoose DEF RefreshDrops
  <2>2. /\ \A d \in Call : d # c => call'[d] = call[d]
        /\ call'[c].pc \notin {"refresh", "save", "drop"}
    BY <2>1 DEF Loose
  <2> QED
    BY <1>0, <1>4, <2>1, <2>2, KeyedCalls
<1>8. CASE SaveSession(c)
  <2>1. /\ call[c].pc = "save" /\ session' = Online(call[c].user, call[c].ephemeral)
        /\ UNCHANGED <<keyring, kept>>
    BY <1>8 DEF SaveSession, disk
  <2>2. /\ \A d \in Call : d # c => call'[d] = call[d]
        /\ call'[c].pc = Work(call[c].op)
    BY <1>8 DEF SaveSession, CallState
  <2>3. call'[c].pc \notin {"refresh", "save", "drop"}
    BY <2>2 DEF Work
  <2>4. CallsKeyed'
    BY <1>4, <2>1, <2>2, <2>3 DEF CallsKeyed
  <2>5. SessionKeyed'
    BY <2>1 DEF Keyed, CallsKeyed, SessionKeyed, Online
  <2>6. UiKeyed' /\ Remembered'
    BY <1>0, <2>1 DEF Keyed, UiKeyed, Alone, Remembered
  <2> QED
    BY <2>4, <2>5, <2>6 DEF Keyed
<1>9. CASE \/ (\E result \in InsertResult : Inserts(c, result))
           \/ (\E result \in ReadResult : Reads(c, result))
           \/ Record(c) \/ QueueGrant(c) \/ MergeList(c)
  <2>1. UNCHANGED <<session, keyring, kept, gate>>
    BY <1>9 DEF Inserts, Reads, Insert, Rejected, CutOff, Ends, List, Record, QueueGrant,
       MergeList, disk
  <2>2. \/ Loose(c)
        \/ call' = [call EXCEPT ![c].pc = "record"]
        \/ call' = [call EXCEPT ![c].pc = "merge", ![c].list = server[call[c].user]]
    BY <1>9, ReturnsLoose, GivesUpLoose, RejectedLoose
    DEF Inserts, Reads, Insert, CutOff, Ends, List, Record, QueueGrant, MergeList, Goes
  <2>3. /\ \A d \in Call : d # c => call'[d] = call[d]
        /\ call'[c].pc \notin {"refresh", "save", "drop"}
    BY <2>2 DEF Loose, CallState
  <2> QED
    BY <1>0, <2>1, <2>3, KeyedCalls
<1> QED
  BY <1>1, <1>2, <1>3, <1>5, <1>6, <1>7, <1>8, <1>9 DEF Requests, Refreshes

LEMMA KeyedExit ==
  ASSUME Sound, Keyed, GoesStale \/ Exit \/ UNCHANGED vars
  PROVE  Keyed'
<1> USE SoundSession, Empties
<1>1. CASE UNCHANGED vars
  BY <1>1 DEF vars, Keyed, Remembered, UiKeyed, CallsKeyed, SessionKeyed, Quiet
<1>2. CASE GoesStale
  <2>1. session.kind = "online" /\ UNCHANGED <<disk, gate, ui, call, server, kept>>
    BY <1>2 DEF GoesStale
  <2>2. session'.kind = "stale" /\ session'.user = session.user
        /\ session'.ephemeral = session.ephemeral
    BY <1>2 DEF GoesStale, Dialogs, Session
  <2> QED
    BY <2>1, <2>2 DEF disk, Keyed, Remembered, UiKeyed, CallsKeyed, SessionKeyed, Quiet
<1>3. CASE Exit
  <2>1. ui'.pc = "closed" /\ session' = NoSession /\ UNCHANGED <<keyring, kept>>
        /\ \A c \in Call : call'[c] = NoRequest
    BY <1>3 DEF Exit, Rest, disk
  <2> QED
    BY <2>1 DEF Keyed, Remembered, UiKeyed, CallsKeyed, SessionKeyed, Quiet
<1> QED
  BY <1>1, <1>2, <1>3

\* The keyring remembers an account from the sign-in that asked for it until it
\* signs out, expires, is removed or another is remembered (session.rs:
\* apply_and_sync, sign_out, refresh_via_gate), for any accounts and calls.
THEOREM KeyringRemembers == ASSUME Beyond = {} PROVE Spec => []Remembered
<1>1. Init => LedgerInv /\ Keyed
  BY LedgerStart, KeyedInit
<1>2. LedgerInv /\ Keyed /\ [Next]_vars => LedgerInv' /\ Keyed'
  <2> SUFFICES ASSUME Sound, OneAccount, Keyed, [Next]_vars PROVE Keyed'
    BY LedgerNext DEF LedgerInv
  <2>1. PICK h \in Account : Belongs(h)
    BY DEF OneAccount
  <2> QED
    BY <2>1, KeyedDialog, KeyedRequests, KeyedExit DEF Next
<1>3. Keyed => Remembered
  BY DEF Keyed
<1> QED
  BY <1>1, <1>2, <1>3, PTL DEF Spec

-----------------------------------------------------------------------------
(* What an account is shown. *)

\* Nothing that belongs to the device's account is of another's models, and the
\* entries and rows of the others are of their own.
WantedBy(h) == IF h = NoUser THEN {} ELSE Wants[h]
CallOwned(r, h) ==
  /\ r.model \subseteq WantedBy(IF r.owner = NoUser THEN h ELSE r.owner)
  /\ r.owner # NoUser => r.pc = "queue"
TablesOwned ==
  \A u \in User : server[u] \subseteq Wants[u] /\ entry[u].ents \subseteq Wants[u]
UiOwned(r, h) ==
  /\ r.pc \in {"token", "session", "list", "flush"} =>
       r.early.ents \cup {p.model : p \in r.early.pending} \subseteq WantedBy(h)
  /\ r.pc = "enroll" => r.list \subseteq WantedBy(h)
Owned(h) ==
  /\ TablesOwned /\ UiOwned(ui, h)
  /\ cache.ents \cup Held \subseteq WantedBy(h)
  /\ ui.pc \in {"list", "flush", "write", "enroll"} => session.kind # "offline"
  /\ \A c \in Call : CallOwned(call[c], h)
OwnAccount == \E h \in Account : Belongs(h) /\ Owned(h)

LEMMA OwnedInit == Init => OwnAccount
<1> SUFFICES ASSUME Init PROVE OwnAccount
  OBVIOUS
<1> USE Empties
<1>1. PICK h \in Account : Belongs(h)
  BY OneInit DEF OneAccount
<1>2. TablesOwned /\ \A c \in Call : CallOwned(call[c], h)
  BY DEF Init, TablesOwned, CallOwned, NoEntry, NoRequest
<1>3. UiOwned(ui, h) /\ cache.ents \cup Held \subseteq WantedBy(h) /\ ui.pc = "idle"
  BY DEF Init, UiOwned, Held
<1> QED
  BY <1>1, <1>2, <1>3 DEF OwnAccount, Owned

\* What a call goes on with is what it was asked for.
LEMMA OwnedCalls ==
  ASSUME Sound, NEW h \in Account, Belongs(h), Owned(h), NEW c \in Call, Requests(c)
  PROVE  \A d \in Call : CallOwned(call[d], h)'
<1> USE SoundCall, SoundSession, Empties
<1>1. ASSUME NEW op \in {"grant", "poll", "mint"}, NEW models \in SUBSET Model,
             Start(c, op, models)
      PROVE  \A d \in Call : CallOwned(call[d], h)'
  <2> DEFINE who == IF session = NoSession THEN cache.user ELSE session.user
             o == IF session.kind = "offline" THEN who ELSE NoUser
  <2>1. /\ \A d \in Call : d # c => call'[d] = call[d]
        /\ op = "grant" => models \subseteq Wants[who]
        /\ op # "grant" => models = {}
        /\ session = NoSession => op = "grant" /\ cache.user # NoUser
        /\ session.kind \in {"none", "offline", "online", "stale"}
    BY <1>1 DEF Start, Dialogs, Session
  <2>2. call'[c].model = models /\ call'[c].owner = o
    BY <1>1 DEF Start, NoRequest
  <2>3. call'[c].pc = CASE session.kind \in {"none", "offline"} -> "queue"
                        [] session.kind = "online" -> Work(op)
                        [] session.kind = "stale" -> "gate"
    BY <1>1 DEF Start, NoRequest
  <2>4. o # NoUser => call'[c].pc = "queue" /\ o = who
    BY <2>3
  <2>5. o = NoUser /\ op = "grant" => who = h /\ h # NoUser
    BY <2>1 DEF Belongs, DiskFits, Dialogs
  <2>6. models \subseteq WantedBy(IF o = NoUser THEN h ELSE o)
    BY <2>1, <2>4, <2>5 DEF WantedBy
  <2> HIDE DEF o
  <2>7. CallOwned(call[c], h)'
    BY <2>2, <2>4, <2>6 DEF CallOwned
  <2> QED
    BY <2>1, <2>7 DEF Owned, CallOwned
<1>2. CASE ~ \E op \in {"grant", "poll", "mint"}, models \in SUBSET Model :
               Start(c, op, models)
  <2> DEFINE Same == /\ call'[c].model = call[c].model /\ call'[c].owner = call[c].owner
                     /\ call[c].pc # "queue" /\ \A d \in Call : d # c => call'[d] = call[d]
             Over == \E r \in CallState :
                       /\ r.model \subseteq call[c].model /\ r.owner = NoUser
                       /\ call[c].pc # "queue" \/ r.model = {}
                       /\ call' = [call EXCEPT ![c] = r]
  <2>1. Returns(c) => Over
    <3>1. NoRequest.model = {} /\ NoRequest.owner = NoUser
      BY DEF NoRequest
    <3> QED
      BY <3>1 DEF Returns
  <2>2. GivesUp(c, NoUser) /\ call[c].pc # "queue" => Over
    <3> SUFFICES ASSUME GivesUp(c, NoUser), call[c].pc # "queue" PROVE Over
      OBVIOUS
    <3> DEFINE q == [NoRequest EXCEPT !.op = "grant", !.pc = "queue", !.model = call[c].model,
                                      !.owner = NoUser]
    <3>1. q \in CallState /\ q.model = call[c].model /\ q.owner = NoUser
      BY DEF CallState, NoRequest
    <3>2. NoRequest.model = {} /\ NoRequest.owner = NoUser
      BY DEF NoRequest
    <3>3. CASE call[c].op = "grant"
      <4>1. call' = [call EXCEPT ![c] = q]
        BY <3>3 DEF GivesUp
      <4> QED
        BY <3>1, <4>1
    <3>4. CASE call[c].op # "grant"
      BY <3>2, <3>4 DEF GivesUp
    <3> QED
      BY <3>3, <3>4
  <2> HIDE DEF Over
  <2>3. Over \/ Same
    <3>1. CASE TakeGate(c)
      <4>1. CASE session.kind \in {"none", "offline"}
        BY <2>2, <3>1, <4>1 DEF TakeGate
      <4>2. CASE session.kind = "online"
        BY <3>1, <4>2 DEF TakeGate, CallState
      <4>3. CASE session.kind = "stale"
        BY <3>1, <4>3 DEF TakeGate, CallState
      <4> QED
        BY <4>1, <4>2, <4>3 DEF Dialogs, Session
    <3>2. CASE Refreshed(c) \/ RefreshExpired(c) \/ Insert(c)
      BY <3>2 DEF Refreshed, RefreshExpired, Insert, Goes, CallState
    <3>3. CASE SaveSession(c) \/ List(c)
      BY <3>3 DEF SaveSession, List, CallState
    <3>4. CASE \/ (\E b \in BOOLEAN : RefreshFails(c, b) \/ CutOff(c, b))
               \/ RefreshDrops(c) \/ Ends(c)
      BY <2>1, <2>2, <3>4 DEF RefreshFails, CutOff, RefreshDrops, Ends
    <3>5. CASE Rejected(c)
      <4>1. CASE call[c].retried
        BY <2>2, <3>5, <4>1 DEF Rejected
      <4>2. CASE ~call[c].retried
        BY <3>5, <4>2 DEF Rejected, CallState
      <4> QED
        BY <4>1, <4>2
    <3>6. CASE Record(c) \/ QueueGrant(c) \/ MergeList(c)
      BY <2>1, <3>6 DEF Record, QueueGrant, MergeList
    <3> QED
      BY <1>2, <3>1, <3>2, <3>3, <3>4, <3>5, <3>6 DEF Requests, Refreshes, Inserts, Reads
  <2>4. CASE Over
    <3>1. PICK r \in CallState :
            /\ r.model \subseteq call[c].model /\ r.owner = NoUser
            /\ call[c].pc # "queue" \/ r.model = {}
            /\ call' = [call EXCEPT ![c] = r]
      BY <2>4 DEF Over
    <3>2. call'[c] = r /\ \A d \in Call : d # c => call'[d] = call[d]
      BY <3>1
    <3>3. r.model \subseteq WantedBy(h)
      BY <3>1 DEF Owned, CallOwned
    <3> QED
      BY <3>1, <3>2, <3>3 DEF Owned, CallOwned
  <2>5. CASE Same
    <3>1. call[c].owner = NoUser
      BY <2>5 DEF Owned, CallOwned
    <3> QED
      BY <2>5, <3>1 DEF Owned, CallOwned
  <2> QED
    BY <2>3, <2>4, <2>5
<1> QED
  BY <1>1, <1>2

LEMMA OwnedRequests ==
  ASSUME Sound, NEW h \in Account, Belongs(h), Owned(h), NEW c \in Call, Requests(c)
  PROVE  Owned(h)'
<1> USE SoundCall, SoundSession, Empties
<1>1. /\ UNCHANGED <<ui, entry>>
      /\ \/ session' = session
         \/ session'.kind # "offline"
      /\ \/ server' = server
         \/ /\ call[c].pc = "insert"
            /\ server' = [server EXCEPT ![call[c].user] = @ \cup call[c].model]
  <2>1. UNCHANGED <<ui, entry>>
    BY ZenonT(60) DEF Requests, Start, Refreshes, Refreshed, RefreshExpired, RefreshFails, Inserts, Reads,
       Insert, Rejected, CutOff, Ends, List, TakeGate, SaveSession, RefreshDrops, Record,
       QueueGrant, MergeList, disk
  <2>2. session' = session \/ session'.kind # "offline"
    <3>1. CASE SaveSession(c)
      BY <3>1 DEF SaveSession, Online
    <3>2. CASE ~SaveSession(c)
      BY <3>2, ZenonT(60) DEF Requests, Start, Refreshes, Refreshed, RefreshExpired, RefreshFails, Inserts,
         Reads, Insert, Rejected, CutOff, Ends, List, TakeGate, RefreshDrops, Record,
         QueueGrant, MergeList, Forgotten
    <3> QED
      BY <3>1, <3>2
  <2>3. \/ server' = server
        \/ /\ call[c].pc = "insert"
           /\ server' = [server EXCEPT ![call[c].user] = @ \cup call[c].model]
    BY DEF Requests, Start, Refreshes, Refreshed, RefreshExpired, RefreshFails, Inserts, Reads,
       Insert, Rejected, CutOff, Ends, List, TakeGate, SaveSession, RefreshDrops, Record,
       QueueGrant, MergeList
  <2> QED
    BY <2>1, <2>2, <2>3
<1>2. UiOwned(ui, h)'
  BY <1>1 DEF Owned, UiOwned
<1>3. ui'.pc \in {"list", "flush", "write", "enroll"} => session'.kind # "offline"
  BY <1>1 DEF Owned
<1>4. TablesOwned'
  <2>1. CASE server' = server
    BY <1>1, <2>1 DEF Owned, TablesOwned
  <2>2. CASE /\ call[c].pc = "insert"
             /\ server' = [server EXCEPT ![call[c].user] = @ \cup call[c].model]
    <3>1. call[c].user = h /\ h \in User /\ h # NoUser
      BY <2>2, CloudAssumption DEF Belongs, CallFits, CallShape
    <3>2. call[c].model \subseteq Wants[h]
      BY <2>2, <3>1 DEF Owned, CallOwned, WantedBy
    <3>3. server \in [User -> SUBSET Model]
      BY SoundStores DEF Stores
    <3> QED
      BY <1>1, <2>2, <3>1, <3>2, <3>3 DEF Owned, TablesOwned
  <2> QED
    BY <1>1, <2>1, <2>2
<1>5. (cache.ents \cup Held)' \subseteq WantedBy(h)
  <2>1. CASE UNCHANGED cache
    BY <2>1 DEF Owned, Held
  <2>2. CASE RefreshDrops(c)
    BY <2>2 DEF RefreshDrops, Held
  <2>3. CASE Record(c)
    <3>1. call[c].model \subseteq WantedBy(h)
      BY <2>3 DEF Record, Owned, CallOwned
    <3>2. cache'.ents \subseteq cache.ents \cup call[c].model /\ cache'.pending = cache.pending
      BY <2>3 DEF Record, Cache
    <3> QED
      BY <3>1, <3>2 DEF Owned, Held
  <2>4. CASE QueueGrant(c) /\ ~Refused(call[c].owner)
    <3> DEFINE new == {[model |-> m, owner |-> cache.user] : m \in
                 call[c].model \ (cache.ents \cup {r.model : r \in cache.pending})}
    <3>1. cache' = [cache EXCEPT !.ents = @ \cup call[c].model, !.pending = @ \cup new]
      BY <2>4 DEF QueueGrant, QueuedIn
    <3>2. cache'.ents = cache.ents \cup call[c].model /\ cache'.pending = cache.pending \cup new
      BY <3>1 DEF Cache
    <3>3. \A r \in new : r.model \in call[c].model
      OBVIOUS
    <3>4. call[c].model \subseteq WantedBy(h)
      BY <2>4 DEF Refused, Belongs, DiskFits, Owned, CallOwned
    <3> HIDE DEF new
    <3> QED
      BY <3>2, <3>3, <3>4 DEF Owned, Held
  <2>5. CASE MergeList(c) /\ ~call[c].ephemeral
    <3>1. call[c].user = h /\ h \in User /\ h # NoUser /\ call[c].list \subseteq Rows(h)
      BY <2>5, CloudAssumption DEF MergeList, Belongs, CallFits, CallShape
    <3>2. call[c].list \subseteq WantedBy(h)
      BY <3>1 DEF Rows, WantedBy, Owned, TablesOwned
    <3>3. cache' = Polled(cache, h, call[c].list)
      BY <2>5, <3>1 DEF MergeList
    <3>4. cache'.ents \subseteq cache.ents \cup call[c].list /\ cache'.pending = cache.pending
      BY <3>3 DEF Polled, Cache
    <3> QED
      BY <3>2, <3>4 DEF Owned, Held
  <2>6. \/ UNCHANGED cache \/ RefreshDrops(c) \/ Record(c)
        \/ (QueueGrant(c) /\ ~Refused(call[c].owner))
        \/ (MergeList(c) /\ ~call[c].ephemeral)
    <3>1. CASE QueueGrant(c) \/ MergeList(c)
      BY <3>1, SMTT(60) DEF QueueGrant, MergeList
    <3>2. CASE ~(QueueGrant(c) \/ MergeList(c))
      BY <3>2 DEF Requests, Start, Refreshes, Refreshed, RefreshExpired, RefreshFails, Inserts,
         Reads, Insert, Rejected, CutOff, Ends, List, TakeGate, SaveSession, disk
    <3> QED
      BY <3>1, <3>2
  <2> QED
    BY <2>1, <2>2, <2>3, <2>4, <2>5, <2>6
<1> QED
  BY <1>2, <1>3, <1>4, <1>5, OwnedCalls DEF Owned

LEMMA OwnedSync ==
  ASSUME Sound, NEW h \in Account, Belongs(h), Owned(h),
         \/ SyncToken \/ SyncSession \/ (\E r \in BOOLEAN : SyncList(r))
         \/ (\E a, d \in SUBSET Model : SyncFlush(a, d)) \/ SyncWrite \/ Enroll
  PROVE  Owned(h)'
<1> USE SoundSession, SoundUi, Empties
<1>0. /\ UNCHANGED call
      /\ Syncing(ui) => ui.user = h /\ h \in User /\ h # NoUser /\ WantedBy(h) = Wants[h]
  BY CloudAssumption DEF SyncToken, SyncSession, SyncList, SyncFlush, SyncWrite, Enroll, Belongs,
     UiFits, WantedBy
<1>1. \A c \in Call : CallOwned(call[c], h)'
  BY <1>0 DEF Owned, CallOwned
<1>2. CASE SyncToken \/ SyncSession \/ \E r \in BOOLEAN : SyncList(r)
  <2>1. UNCHANGED <<server, entry, cache>>
    BY <1>2 DEF SyncToken, SyncSession, SyncList, disk
  <2>2. ui.pc \in {"token", "session", "list"} /\ ui'.pc \in {"session", "list", "flush"}
    BY <1>2 DEF SyncToken, SyncSession, SyncList, Ui
  <2>3. ui'.early.ents \subseteq ui.early.ents /\ ui'.early.pending = ui.early.pending
    <3>1. CASE SyncToken \/ SyncSession
      BY <3>1 DEF SyncToken, SyncSession, Ui
    <3>2. ASSUME NEW r \in BOOLEAN, SyncList(r)
          PROVE  ui'.early.ents \subseteq ui.early.ents /\ ui'.early.pending = ui.early.pending
      <4>1. ui'.early = [ui.early EXCEPT !.ents = {}]
        BY <3>2 DEF SyncList, Ui
      <4> QED
        BY <4>1 DEF Cache
    <3> QED
      BY <1>2, <3>1, <3>2
  <2>4. ui'.pc \in {"list", "flush"} => session'.kind # "offline"
    <3>1. CASE SyncToken
      BY <2>2, <3>1 DEF SyncToken, Ui
    <3>2. CASE SyncSession
      BY <3>2 DEF SyncSession, Online
    <3>3. CASE \E r \in BOOLEAN : SyncList(r)
      BY <3>3 DEF SyncList, Owned
    <3> QED
      BY <1>2, <3>1, <3>2, <3>3
  <2>5. UiOwned(ui, h)'
    BY <2>2, <2>3 DEF Owned, UiOwned
  <2>6. TablesOwned' /\ (cache.ents \cup Held)' \subseteq WantedBy(h)
    BY <2>1 DEF Owned, TablesOwned, Held
  <2> QED
    BY <1>1, <2>2, <2>4, <2>5, <2>6 DEF Owned
<1>3. ASSUME NEW a \in SUBSET Model, NEW d \in SUBSET Model, SyncFlush(a, d)
      PROVE  Owned(h)'
  <2>1. /\ ui.pc = "flush" /\ ui.user = h /\ h \in User /\ WantedBy(h) = Wants[h]
        /\ a \subseteq Queued(ui.early, h)
        /\ server' = [server EXCEPT ![h] = @ \cup a]
        /\ UNCHANGED <<session, cache, entry>>
    BY <1>0, <1>3 DEF SyncFlush, Syncing, disk
  <2>2. a \subseteq Wants[h]
    BY <2>1 DEF Owned, UiOwned, Queued
  <2>3. TablesOwned'
    BY <2>1, <2>2, SoundStores DEF Owned, TablesOwned, Stores
  <2>4. ui'.pc = "write"
    BY <1>3 DEF SyncFlush, Ui
  <2>5. (cache.ents \cup Held)' \subseteq WantedBy(h) /\ session'.kind # "offline"
    BY <2>1 DEF Owned, Held
  <2> QED
    BY <1>1, <2>3, <2>4, <2>5 DEF Owned, UiOwned
<1>4. CASE SyncWrite
  <2> DEFINE merged == Merged(cache, ui.user, ui.list, ui.flushed)
  <2>1. /\ ui.pc = "write" /\ ui.user = h /\ h \in User /\ h # NoUser /\ WantedBy(h) = Wants[h]
        /\ UNCHANGED <<session, server, entry>>
    BY <1>0, <1>4 DEF SyncWrite, Syncing
  <2>2. ui.list \subseteq WantedBy(h) /\ ui.flushed \subseteq WantedBy(h)
    BY <2>1 DEF Belongs, UiFits, Rows, Owned, TablesOwned
  <2>3. /\ merged.ents \subseteq ui.list \cup ui.flushed \cup cache.ents
        /\ merged.pending \subseteq cache.pending
    BY DEF Merged
  <2>4. cache' \in {cache, merged}
    BY <1>4 DEF SyncWrite
  <2>5. merged.ents \subseteq WantedBy(h)
    BY <2>2, <2>3 DEF Owned
  <2>6. (cache.ents \cup Held)' \subseteq WantedBy(h)
    <3>1. cache'.ents \subseteq WantedBy(h) /\ cache'.pending \subseteq cache.pending
      BY <2>3, <2>4, <2>5 DEF Owned
    <3> QED
      BY <3>1 DEF Owned, Held
  <2>7. ui' = Rest \/ (ui'.pc = "enroll" /\ ui'.list = merged.ents)
    BY <1>4 DEF SyncWrite, Rest
  <2> HIDE DEF merged
  <2>8. UiOwned(ui, h)' /\ ui'.pc \in {"idle", "enroll"}
    BY <2>5, <2>7 DEF UiOwned
  <2>9. TablesOwned' /\ session'.kind # "offline"
    BY <2>1 DEF Owned, TablesOwned
  <2> QED
    BY <1>1, <2>6, <2>8, <2>9 DEF Owned
<1>5. CASE Enroll
  <2>1. /\ ui.pc = "enroll" /\ ui' = Rest /\ UNCHANGED <<session, server, cache>>
        /\ session.user \in {NoUser, h}
    BY <1>5 DEF Enroll, Owned, Belongs, Dialogs, Session
  <2>2. entry' = entry \/ entry' = [entry EXCEPT ![session.user] =
                                      [mail |-> session.user, ents |-> ui.list]]
    BY <1>5 DEF Enroll
  <2>3. \A u \in User : entry'[u].ents = entry[u].ents \/
                        (u = h /\ entry'[u].ents = ui.list)
    BY <2>1, <2>2, CloudAssumption DEF Sound, TypeOK
  <2>4. h \in User => ui.list \subseteq Wants[h]
    BY <2>1, CloudAssumption DEF Owned, UiOwned, WantedBy
  <2>5. TablesOwned'
    BY <2>1, <2>3, <2>4 DEF Owned, TablesOwned
  <2> QED
    BY <1>1, <2>1, <2>5 DEF Owned, UiOwned, Held
<1> QED
  BY <1>2, <1>3, <1>4, <1>5

\* The operations that end at rest, or on their way to forget an account.
LEMMA OwnedEnd ==
  ASSUME Sound, NEW h \in Account, Belongs(h), Owned(h),
         \/ SignOut \/ Purge \/ DropCache \/ (\E u \in User : Remove(u))
         \/ RemovePurge \/ RemoveVerifier \/ RemoveEntry
         \/ \E u, file \in User, result \in SignInResult : OfflineSignIn(u, file, result)
  PROVE  Owned(h)'
<1> USE SoundSession, SoundUi, Empties
<1>1. UNCHANGED <<call, server>> /\ cache' \in {cache, NoCache}
  BY DEF SignOut, Purge, DropCache, Remove, RemovePurge, RemoveVerifier, RemoveEntry,
     OfflineSignIn, disk
<1>2. \A u \in User : entry'[u] \in {entry[u], NoEntry}
  <2>1. entry' \in {entry, [entry EXCEPT ![ui.user] = NoEntry]}
    BY DEF SignOut, Purge, DropCache, Remove, RemovePurge, RemoveVerifier, RemoveEntry,
       OfflineSignIn, disk
  <2> QED
    BY <2>1 DEF Sound, TypeOK
<1>3. ui'.pc \in {"idle", "logout", "drop", "purge", "verifier", "entry"}
  <2>1. CASE SignOut \/ (\E u \in User : Remove(u)) \/ RemoveEntry
    BY <2>1 DEF SignOut, Remove, RemoveEntry, SignsOut, Rest
  <2>2. CASE Purge \/ DropCache \/ RemovePurge \/ RemoveVerifier
    BY <2>2 DEF Purge, DropCache, RemovePurge, RemoveVerifier, Rest, Ui
  <2>3. CASE \E u, file \in User, result \in SignInResult : OfflineSignIn(u, file, result)
    BY <2>3 DEF OfflineSignIn, MayOperate
  <2> QED
    BY <2>1, <2>2, <2>3
<1>4. TablesOwned'
  <2>1. NoEntry.ents = {}
    BY DEF NoEntry
  <2> QED
    BY <1>1, <1>2, <2>1 DEF Owned, TablesOwned
<1>5. (cache.ents \cup Held)' \subseteq WantedBy(h)
  <2>1. CASE cache' = cache
    BY <2>1 DEF Owned, Held
  <2>2. CASE cache' = NoCache
    BY <2>2 DEF Held
  <2> QED
    BY <1>1, <2>1, <2>2
<1>6. \A c \in Call : CallOwned(call[c], h)'
  BY <1>1 DEF Owned, CallOwned
<1> QED
  BY <1>3, <1>4, <1>5, <1>6 DEF Owned, UiOwned

LEMMA OwnedRestore ==
  ASSUME Sound, NEW h \in Account, Belongs(h), Owned(h),
         NEW outcome \in RefreshResult, Restore(outcome)
  PROVE  Owned(h)'
<1> USE Empties
<1>1. UNCHANGED <<cache, entry, call, server>>
  BY DEF Restore
<1>2. \/ ui'.pc \in {"idle", "drop"}
      \/ ui'.pc = "token" /\ ui'.early = cache
  <2>1. CASE keyring = NoUser
    BY <2>1 DEF Restore
  <2>2. CASE keyring # NoUser /\ outcome = "ok"
    BY <2>2 DEF Restore, Rest
  <2>3. CASE keyring # NoUser /\ outcome = "expired"
    BY <2>3 DEF Restore, Rest
  <2>4. CASE keyring # NoUser /\ outcome \in {"offline", "error"}
    BY <2>4 DEF Restore
  <2> QED
    BY <2>1, <2>2, <2>3, <2>4, Results
<1>3. UiOwned(ui, h)' /\ ui'.pc \notin {"list", "flush", "write", "enroll"}
  BY <1>1, <1>2 DEF UiOwned, Owned, Held
<1>4. TablesOwned' /\ (cache.ents \cup Held)' \subseteq WantedBy(h)
  BY <1>1 DEF Owned, TablesOwned, Held
<1>5. \A c \in Call : CallOwned(call[c], h)'
  BY <1>1 DEF Owned, CallOwned
<1> QED
  BY <1>3, <1>4, <1>5 DEF Owned

LEMMA OwnedSignIn ==
  ASSUME Sound, NEW h \in Account, Belongs(h), Owned(h), Beyond = {}, NEW u \in User,
         NEW remember \in BOOLEAN, NEW result, SignIn(u, remember, result)
  PROVE  Owned(u)'
<1> USE SoundSession, Empties
<1>1. /\ ui' = [Rest EXCEPT !.op = "sign_in", !.pc = "token", !.user = u,
                            !.ephemeral = ~remember, !.early = cache]
      /\ UNCHANGED <<session, disk, gate, call, server, kept>> /\ Quiet
      /\ cache \in {NoCache, [cache EXCEPT !.user = u]}
  BY DEF SignIn, MayOperate, Fits
<1>2. ui'.pc = "token" /\ ui'.early = cache
  BY <1>1 DEF Rest
<1>3. cache = NoCache \/ cache.user = u
  BY <1>1 DEF Cache
<1>4. cache.user = u => h = u
  BY CloudAssumption DEF Belongs, DiskFits
<1>5. cache.ents \cup Held \subseteq WantedBy(u)
  BY <1>3, <1>4 DEF Owned, Held
<1>6. UNCHANGED <<cache, entry, server, call>>
  BY <1>1 DEF disk
<1>7. \A c \in Call : call[c] = NoRequest
  BY <1>1 DEF Sound, Shape, Quiet, CallShape
<1>8. \A c \in Call : CallOwned(call[c], u)'
  BY <1>6, <1>7 DEF CallOwned, NoRequest
<1>9. TablesOwned' /\ UiOwned(ui, u)' /\ (cache.ents \cup Held)' \subseteq WantedBy(u)
  BY <1>2, <1>5, <1>6 DEF Owned, TablesOwned, UiOwned, Held
<1> QED
  BY <1>2, <1>8, <1>9 DEF Owned

LEMMA OwnedExit ==
  ASSUME Sound, NEW h \in Account, Belongs(h), Owned(h), GoesStale \/ Exit \/ UNCHANGED vars
  PROVE  Owned(h)'
<1> USE Empties
<1>1. UNCHANGED <<cache, entry, server>>
  BY DEF GoesStale, Exit, vars, disk
<1>2. TablesOwned' /\ (cache.ents \cup Held)' \subseteq WantedBy(h)
  BY <1>1 DEF Owned, TablesOwned, Held
<1>3. CASE GoesStale \/ UNCHANGED vars
  <2>1. UNCHANGED <<ui, call>>
    BY <1>3 DEF GoesStale, vars
  <2>2. session' = session \/ session'.kind = "stale"
    BY <1>3 DEF GoesStale, vars, Sound, TypeOK, Session
  <2>3. UiOwned(ui, h)' /\ \A c \in Call : CallOwned(call[c], h)'
    BY <2>1 DEF Owned, UiOwned, CallOwned
  <2> QED
    BY <1>2, <2>1, <2>2, <2>3 DEF Owned
<1>4. CASE Exit
  <2>1. ui'.pc = "closed" /\ \A c \in Call : call'[c] = NoRequest
    BY <1>4 DEF Exit, Rest
  <2>2. UiOwned(ui, h)' /\ \A c \in Call : CallOwned(call[c], h)'
    BY <2>1 DEF UiOwned, CallOwned, NoRequest
  <2> QED
    BY <1>2, <2>1, <2>2 DEF Owned
<1> QED
  BY <1>3, <1>4

LEMMA OwnedNext == Beyond = {} /\ Sound /\ OwnAccount /\ [Next]_vars => OwnAccount'
<1> SUFFICES ASSUME Beyond = {}, Sound, OwnAccount, [Next]_vars
             PROVE  OwnAccount'
  OBVIOUS
<1>1. PICK h \in Account : Belongs(h) /\ Owned(h)
  BY DEF OwnAccount
<1>2. CASE Belongs(h)' /\ Owned(h)'
  BY <1>2 DEF OwnAccount
<1>3. ASSUME NEW c \in Call, Requests(c) PROVE Belongs(h)' /\ Owned(h)'
  BY <1>1, <1>3, OneStart, OneRefresh, OneRequest, OneCache, OwnedRequests DEF Requests
<1>4. ASSUME GoesStale \/ Exit \/ UNCHANGED vars PROVE Belongs(h)' /\ Owned(h)'
  BY <1>1, <1>4, OneExit, OwnedExit
<1>5. ASSUME NEW u \in User, NEW remember \in BOOLEAN, NEW result \in SignInResult,
             SignIn(u, remember, result)
      PROVE  OwnAccount'
  <2>1. Belongs(u)' /\ Owned(u)'
    BY <1>1, <1>5, OneSignIn, OwnedSignIn
  <2> QED
    BY <2>1 DEF OwnAccount, Account
<1>6. ASSUME NEW outcome \in RefreshResult, Restore(outcome) PROVE Belongs(h)' /\ Owned(h)'
  BY <1>1, <1>6, OneRestore, OwnedRestore
<1>7. ASSUME \/ SyncToken \/ SyncSession \/ (\E r \in BOOLEAN : SyncList(r))
             \/ (\E a, d \in SUBSET Model : SyncFlush(a, d)) \/ SyncWrite \/ Enroll
      PROVE  Belongs(h)' /\ Owned(h)'
  BY <1>1, <1>7, OneSync, OneEnd, OwnedSync
<1>8. ASSUME \/ SignOut \/ Purge \/ DropCache \/ (\E u \in User : Remove(u))
             \/ RemovePurge \/ RemoveVerifier \/ RemoveEntry
             \/ \E u, file \in User, result \in SignInResult : OfflineSignIn(u, file, result)
      PROVE  Belongs(h)' /\ Owned(h)'
  BY <1>1, <1>8, OneEnd, OwnedEnd
<1> QED
  BY <1>2, <1>3, <1>4, <1>5, <1>6, <1>7, <1>8 DEF Next, Dialog

\* No session is shown a model that its account never asked for: neither by the
\* cache another account left, nor by the entry of an offline sign-in
\* (session.rs, entitlements), for any accounts and calls.
THEOREM ListsAreOwn == ASSUME Beyond = {} PROVE Spec => []ShownIsOwn
<1>1. Init => Sound /\ OwnAccount
  BY SoundInit, OwnedInit
<1>2. Sound /\ OwnAccount /\ [Next]_vars => Sound' /\ OwnAccount'
  BY SoundNext, OwnedNext
<1>3. Sound /\ OwnAccount => ShownIsOwn
  <2> SUFFICES ASSUME Sound, OwnAccount, session.user # NoUser
               PROVE  Shown \subseteq Wants[session.user]
    BY DEF ShownIsOwn
  <2>1. PICK h \in Account : Belongs(h) /\ Owned(h)
    BY DEF OwnAccount
  <2>2. session.user \in User /\ session.kind \in {"online", "stale", "offline"}
    BY SoundSession DEF Dialogs, Session
  <2>3. CASE session.user = h
    <3>1. cache.ents \subseteq Wants[h] /\ entry[h].ents \subseteq Wants[h]
      BY <2>1, <2>2, <2>3, CloudAssumption DEF Owned, WantedBy, TablesOwned
    <3> QED
      BY <2>3, <3>1 DEF Shown
  <2>4. CASE session.user # h
    <3>1. session.kind = "offline" /\ cache.user # session.user
      BY <2>1, <2>2, <2>4, CloudAssumption DEF Belongs, DiskFits
    <3> QED
      BY <2>1, <2>2, <3>1 DEF Shown, Owned, TablesOwned
  <2> QED
    BY <2>3, <2>4
<1> QED
  BY <1>1, <1>2, <1>3, PTL DEF Spec
=============================================================================
