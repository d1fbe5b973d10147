---------------------------- MODULE CloudSession ----------------------------
(* The cloud session (cloud/session.rs, cloud/store.rs): one account signed in
   in memory, the refresh token the keyring remembers, the cache file with the
   account's entitlements and its queue of grants made offline, and the offline
   sign-in of the accounts known to this device. One operation of the account
   dialog runs at a time (ui), beside the page's calls (grant_entitlement,
   list_entitlements, the token users), each on a thread of its own. A model's
   entitlement is the model, a refresh token or a password is its account. *)
EXTENDS FiniteSets

CONSTANTS User, Model, Call, NoUser, NoCall,
          Wants,   \* the models that an account ever asks for
          Beyond   \* what a run goes beyond: "foreign", "straddle", "fallback"
ASSUME CloudAssumption ==
  NoUser \notin User /\ NoCall \notin Call /\ Wants \in [User -> SUBSET Model]

VARIABLES
  session,   \* Cloud.session: the account in memory
  keyring,   \* the account whose refresh token is in the keyring
  cache,     \* cloud-cache.json
  gate,      \* the holder of refresh_gate
  entry,     \* auth-cache/<user>.json: the e-mail's account and a snapshot
  verifier,  \* the account whose password the keyring's verifier accepts
  ui,        \* the account dialog's operation
  call,      \* the page's calls
  server,    \* the entitlements table
  kept       \* history: the account that this device was asked to remember

disk == <<keyring, cache, entry, verifier>>
memory == <<session, gate, ui, call>>
vars == <<session, keyring, cache, gate, entry, verifier, ui, call, server,
          kept>>

Account == User \cup {NoUser}
Row == [model : Model, owner : User]
Cache == [user : Account, ents : SUBSET Model, pending : SUBSET Row]
NoCache == [user |-> NoUser, ents |-> {}, pending |-> {}]
Session == [user : Account, kind : {"none", "online", "stale", "offline"},
            ephemeral : BOOLEAN]
NoSession == [user |-> NoUser, kind |-> "none", ephemeral |-> FALSE]
Online(u, e) == [user |-> u, kind |-> "online", ephemeral |-> e]
Offline(u) == [user |-> u, kind |-> "offline", ephemeral |-> FALSE]
Entry == [mail : Account, ents : SUBSET Model]
NoEntry == [mail |-> NoUser, ents |-> {}]
Ui == [op : {"none", "restore", "sign_in", "sign_out", "remove"},
       pc : {"closed", "idle", "token", "session", "list", "flush", "write",
             "enroll", "logout", "drop", "purge", "verifier", "entry"},
       user : Account, ephemeral : BOOLEAN, early : Cache,
       list : SUBSET Model, flushed : SUBSET Model]
Rest == [op |-> "none", pc |-> "idle", user |-> NoUser, ephemeral |-> FALSE,
         early |-> NoCache, list |-> {}, flushed |-> {}]
CallState == [op : {"none", "grant", "poll", "mint"},
              pc : {"idle", "gate", "refresh", "save", "drop", "insert",
                    "record", "queue", "list", "merge", "mint"},
              user : Account, ephemeral : BOOLEAN, model : SUBSET Model,
              list : SUBSET Model, owner : Account, retried : BOOLEAN]
NoRequest == [op |-> "none", pc |-> "idle", user |-> NoUser,
              ephemeral |-> FALSE, model |-> {}, list |-> {},
              owner |-> NoUser, retried |-> FALSE]

Queued(file, u) == {r.model : r \in {p \in file.pending : p.owner = u}}

Init ==
  /\ session = NoSession /\ keyring = NoUser /\ cache = NoCache
  /\ gate = NoCall
  /\ entry = [u \in User |-> NoEntry] /\ verifier = [u \in User |-> NoUser]
  /\ ui = Rest /\ call = [c \in Call |-> NoRequest]
  /\ server = [u \in User |-> {}] /\ kept = NoUser

-----------------------------------------------------------------------------
(* How far a run goes: an account is signed in over what another one left on
   the device ("foreign"), an operation of the dialog runs beside calls of an
   earlier session ("straddle"), and a sync falls back on a cached list that
   still has queued grants in it ("fallback"). *)
Quiet == \A c \in Call : call[c].pc = "idle"
MayOperate == /\ ui.pc = "idle"
              /\ Quiet \/ "straddle" \in Beyond
MayCall == ui.pc \in {"idle", "list", "flush", "write"} \/
             (ui.pc # "closed" /\ "straddle" \in Beyond)
Fits(u) == \/ cache \in {NoCache, [cache EXCEPT !.user = u]}
              /\ keyring \in {u, NoUser}
           \/ "foreign" \in Beyond

-----------------------------------------------------------------------------
(* What the servers answer, as the session is told it. Only a connection that
   fails counts as offline, and only a refusal of the refresh itself, but for a
   rate limit, ends a session. *)
Answer == {"ok", "malformed", "unauthorized", "refused", "rate_limited",
           "broken", "unreachable"}
\* auth.rs: request_token and map_status_error
AuthResult(answer, is_refresh) ==
  CASE answer = "ok" -> "ok"
    [] answer = "unreachable" -> "offline"
    [] is_refresh /\ answer \in {"unauthorized", "refused"} -> "expired"
    [] OTHER -> "error"
\* rest.rs: get_json and post_json, which reads no body, and map_status_error
RestResult(answer, reads_body) ==
  CASE answer = "ok" \/ (answer = "malformed" /\ ~reads_body) -> "ok"
    [] answer = "unreachable" -> "offline"
    [] answer = "unauthorized" -> "expired"
    [] OTHER -> "error"
SignInResult == {AuthResult(a, FALSE) : a \in Answer}
RefreshResult == {AuthResult(a, TRUE) : a \in Answer}
ReadResult == {RestResult(a, TRUE) : a \in Answer}
InsertResult == {RestResult(a, FALSE) : a \in Answer}

-----------------------------------------------------------------------------
(* The account dialog *)

\* The purge of u's sign_out or removal, of restore and of a refresh that found
\* u's token expired: the token and the memory here, the cache file at "drop".
Forgotten(u) ==
  /\ keyring' = NoUser /\ session' = NoSession
  /\ kept' = IF u = kept THEN NoUser ELSE kept

OfflineAs(owner) == IF owner = NoUser THEN session ELSE Offline(owner)
Restore(outcome) ==
  /\ ui.pc = "closed" \/ (MayOperate /\ session = NoSession)
  /\ CASE keyring = NoUser ->
            ui' = Rest /\ UNCHANGED <<session, keyring, kept>>
       [] keyring # NoUser /\ outcome = "ok" ->
            /\ ui' = [Rest EXCEPT !.op = "restore", !.pc = "token",
                                  !.user = keyring, !.early = cache]
            /\ UNCHANGED <<session, keyring, kept>>
       [] keyring # NoUser /\ outcome = "expired" ->
            /\ Forgotten(keyring)
            /\ ui' = [Rest EXCEPT !.op = "restore", !.pc = "drop"]
       [] keyring # NoUser /\ outcome \in {"offline", "error"} ->
            /\ session' = OfflineAs(cache.user)
            /\ ui' = Rest /\ UNCHANGED <<keyring, kept>>
  /\ UNCHANGED <<cache, gate, entry, verifier, call, server>>

\* sign_in and sign_up, once the server has accepted the password
SignIn(u, remember, result) ==
  /\ result = "ok"
  /\ MayOperate /\ session = NoSession /\ Fits(u)
  /\ ui' = [Rest EXCEPT !.op = "sign_in", !.pc = "token", !.user = u,
                        !.ephemeral = ~remember, !.early = cache]
  /\ UNCHANGED <<session, disk, gate, call, server, kept>>

\* sign_in with the server out of reach and the right password: the entry is
\* found by its e-mail, the verifier and the session are those of its file
OfflineSignIn(u, file, result) ==
  /\ result = "offline"
  /\ MayOperate /\ session = NoSession
  /\ entry[file].mail = u /\ verifier[file] = u
  /\ session' = Offline(file)
  /\ UNCHANGED <<disk, gate, ui, call, server, kept>>

(* apply_and_sync, step by step *)
SyncToken ==
  /\ ui.pc = "token"
  /\ ui' = [ui EXCEPT !.pc = "session"]
  /\ IF ui.ephemeral THEN UNCHANGED <<keyring, kept>>
     ELSE keyring' = ui.user /\ kept' = ui.user
  /\ UNCHANGED <<session, cache, gate, entry, verifier, call, server>>

SyncSession ==
  /\ ui.pc = "session"
  /\ session' = Online(ui.user, ui.ephemeral)
  /\ ui' = [ui EXCEPT !.pc = "list"]
  /\ UNCHANGED <<disk, gate, call, server, kept>>

SyncList(reached) ==
  /\ ui.pc = "list"
  /\ reached \/ ui.early.pending = {} \/ "fallback" \in Beyond
  /\ ui' = [ui EXCEPT !.pc = "flush", !.early.ents = {},
                      !.list = IF reached THEN server[ui.user]
                               ELSE ui.early.ents]
  /\ UNCHANGED <<session, disk, gate, call, server, kept>>

\* The rows of the early snapshot that are this account's are inserted: those
\* that arrive, and of these the ones whose answer comes back.
SyncFlush(arrived, done) ==
  /\ ui.pc = "flush"
  /\ done \subseteq arrived /\ arrived \subseteq Queued(ui.early, ui.user)
  /\ server' = [server EXCEPT ![ui.user] = @ \cup arrived]
  /\ ui' = [ui EXCEPT !.pc = "write", !.flushed = done, !.early = NoCache]
  /\ UNCHANGED <<session, disk, gate, call, kept>>

\* merge_synced_cache
\* Mutant: a sync clears the whole queue.
Merged_Cleared(fresh, u, list, flushed) ==
  [user |-> u, ents |-> list \cup (fresh.ents \cap Queued(fresh, u)), pending |-> {}]
Merged(fresh, u, list, flushed) ==
  LET own == Queued(fresh, u)
  IN [user |-> u,
      ents |-> list \cup (flushed \cap (fresh.ents \cup own))
                    \cup (fresh.ents \cap own),
      pending |-> {r \in fresh.pending :
                     r.owner = u /\ r.model \notin flushed \cup list}]

SyncWrite ==
  /\ ui.pc = "write"
  /\ LET merged == Merged(cache, ui.user, ui.list, ui.flushed)
     IN /\ cache' = IF ui.ephemeral THEN cache ELSE merged
        /\ ui' = IF ui.op = "restore" THEN Rest
                 ELSE [Rest EXCEPT !.op = ui.op, !.pc = "enroll",
                                   !.user = ui.user, !.list = merged.ents]
  /\ UNCHANGED <<session, keyring, gate, entry, verifier, call, server,
                 kept>>

\* enroll_verifier, for whoever is signed in by now
Enroll ==
  /\ ui.pc = "enroll"
  /\ IF session.user = NoUser THEN UNCHANGED <<entry, verifier>>
     ELSE /\ verifier' = [verifier EXCEPT ![session.user] = ui.user]
          /\ entry' = [entry EXCEPT ![session.user] =
                         [mail |-> session.user, ents |-> ui.list]]
  /\ ui' = Rest
  /\ UNCHANGED <<session, keyring, cache, gate, call, server, kept>>

\* An offline session is only forgotten; the others log out and purge.
\* Mutant: an offline session logs out and purges.
SignsOut_Always(op) ==
  /\ ui' = [Rest EXCEPT !.op = op, !.pc = "logout", !.user = session.user]
  /\ UNCHANGED session
SignsOut(op) ==
  IF session.kind = "offline"
  THEN /\ session' = NoSession
       /\ ui' = IF op = "remove"
                THEN [Rest EXCEPT !.op = op, !.pc = "purge",
                                  !.user = session.user]
                ELSE Rest
  ELSE /\ ui' = [Rest EXCEPT !.op = op, !.pc = "logout", !.user = session.user]
       /\ UNCHANGED session

SignOut ==
  /\ MayOperate /\ session # NoSession
  /\ SignsOut("sign_out")
  /\ UNCHANGED <<disk, gate, call, server, kept>>

Purge ==
  /\ ui.pc = "logout"
  /\ Forgotten(ui.user)
  /\ ui' = [ui EXCEPT !.pc = "drop"]
  /\ UNCHANGED <<cache, gate, entry, verifier, call, server>>

DropCache ==
  /\ ui.pc = "drop"
  /\ cache' = NoCache
  /\ ui' = IF ui.op = "remove" THEN [ui EXCEPT !.pc = "purge"] ELSE Rest
  /\ UNCHANGED <<session, keyring, gate, entry, verifier, call, server,
                 kept>>

(* remove_account_auth of an account this device knows *)
Remove(u) ==
  /\ MayOperate /\ entry[u] # NoEntry
  /\ IF session.user = u THEN SignsOut("remove")
     ELSE /\ ui' = [Rest EXCEPT !.op = "remove", !.pc = "purge", !.user = u]
          /\ UNCHANGED session
  /\ UNCHANGED <<disk, gate, call, server, kept>>

RemovePurge ==
  /\ ui.pc = "purge"
  /\ IF cache.user = ui.user
     THEN /\ keyring' = NoUser /\ cache' = NoCache
          /\ kept' = IF kept = ui.user THEN NoUser ELSE kept
     ELSE UNCHANGED <<keyring, cache, kept>>
  /\ ui' = [ui EXCEPT !.pc = "verifier"]
  /\ UNCHANGED <<session, gate, entry, verifier, call, server>>

RemoveVerifier ==
  /\ ui.pc = "verifier"
  /\ verifier' = [verifier EXCEPT ![ui.user] = NoUser]
  /\ ui' = [ui EXCEPT !.pc = "entry"]
  /\ UNCHANGED <<session, keyring, cache, gate, entry, call, server,
                 kept>>

RemoveEntry ==
  /\ ui.pc = "entry"
  /\ entry' = [entry EXCEPT ![ui.user] = NoEntry]
  /\ ui' = Rest
  /\ UNCHANGED <<session, keyring, cache, gate, verifier, call, server,
                 kept>>

-----------------------------------------------------------------------------
(* The page's calls *)

Goes(c, pc) == call' = [call EXCEPT ![c].pc = pc]
Returns(c) == call' = [call EXCEPT ![c] = NoRequest]
\* where a call goes on with a usable token
Work(op) == CASE op = "grant" -> "insert" [] op = "poll" -> "list"
              [] OTHER -> "mint"
\* and without one: a grant is queued, the others return
GivesUp(c, owner) ==
  call' = [call EXCEPT ![c] =
    IF @.op = "grant"
    THEN [NoRequest EXCEPT !.op = "grant", !.pc = "queue", !.model = call[c].model,
                           !.owner = owner]
    ELSE NoRequest]

\* ensure_fresh at the head of grant, entitlements and the token users; for a
\* grant the account in memory, or the cache's when there is none, asks.
Start(c, op, models) ==
  LET who == IF session = NoSession THEN cache.user ELSE session.user
  IN /\ MayCall /\ call[c].pc = "idle"
     /\ IF session = NoSession THEN op = "grant" /\ cache.user # NoUser
        ELSE session.kind = "offline" => op = "grant"
     /\ IF op = "grant" THEN \E m \in Wants[who] : models = {m}
        ELSE models = {}
     /\ call' = [call EXCEPT ![c] =
          [NoRequest EXCEPT
             !.op = op, !.model = models,
             !.user = IF session.kind = "online" THEN who ELSE NoUser,
             !.ephemeral = op = "poll" /\ session.ephemeral,
             !.owner = IF session.kind = "offline" THEN who ELSE NoUser,
             !.pc = CASE session.kind \in {"none", "offline"} -> "queue"
                      [] session.kind = "online" -> Work(op)
                      [] session.kind = "stale" -> "gate"]]
     /\ UNCHANGED <<session, disk, gate, ui, server, kept>>

\* refresh_via_gate, up to its network call
TakeGate(c) ==
  /\ call[c].pc = "gate" /\ gate = NoCall
  /\ CASE session.kind \in {"none", "offline"} ->
            GivesUp(c, NoUser) /\ UNCHANGED gate
       [] session.kind = "online" ->
            /\ call' = [call EXCEPT ![c].pc = Work(call[c].op),
                                    ![c].user = session.user]
            /\ UNCHANGED gate
       [] session.kind = "stale" ->
            /\ call' = [call EXCEPT ![c].pc = "refresh",
                                    ![c].user = session.user,
                                    ![c].ephemeral = session.ephemeral]
            /\ gate' = c
  /\ UNCHANGED <<session, disk, ui, server, kept>>

\* The token is rotated: the keyring first, then the session.
Refreshed(c) ==
  /\ call[c].pc = "refresh"
  /\ keyring' = IF call[c].ephemeral THEN keyring ELSE call[c].user
  /\ Goes(c, "save")
  /\ UNCHANGED <<session, cache, gate, entry, verifier, ui, server,
                 kept>>

SaveSession(c) ==
  /\ call[c].pc = "save"
  /\ session' = Online(call[c].user, call[c].ephemeral)
  /\ gate' = NoCall
  /\ call' = [call EXCEPT ![c].pc = Work(call[c].op),
                          ![c].ephemeral = @ /\ call[c].op = "poll"]
  /\ UNCHANGED <<disk, ui, server, kept>>

RefreshExpired(c) ==
  /\ call[c].pc = "refresh"
  /\ Forgotten(call[c].user)
  /\ Goes(c, "drop")
  /\ UNCHANGED <<cache, gate, entry, verifier, ui, server>>

RefreshDrops(c) ==
  /\ call[c].pc = "drop"
  /\ cache' = NoCache /\ gate' = NoCall
  /\ GivesUp(c, NoUser)
  /\ UNCHANGED <<session, keyring, entry, verifier, ui, server, kept>>

\* Out of reach: a grant is queued; any other error returns.
RefreshFails(c, offline) ==
  /\ call[c].pc = "refresh"
  /\ gate' = NoCall
  /\ IF offline THEN GivesUp(c, NoUser) ELSE Returns(c)
  /\ UNCHANGED <<session, disk, ui, server, kept>>

Refreshes(c, result) ==
  \/ result = "ok" /\ Refreshed(c)
  \/ result = "expired" /\ RefreshExpired(c)
  \/ result \in {"offline", "error"} /\ RefreshFails(c, result = "offline")

(* grant_with_access *)
Insert(c) ==
  /\ call[c].pc = "insert"
  /\ server' = [server EXCEPT ![call[c].user] = @ \cup call[c].model]
  /\ Goes(c, "record")
  /\ UNCHANGED <<session, disk, gate, ui, kept>>

\* A rejected token is refreshed once, through the gate.
Rejected(c) ==
  /\ call[c].pc \in {"insert", "mint"}
  /\ IF call[c].retried THEN GivesUp(c, NoUser)
     ELSE call' = [call EXCEPT ![c].pc = "gate", ![c].retried = TRUE,
                               ![c].user = NoUser]
  /\ UNCHANGED <<session, disk, gate, ui, server, kept>>

\* The network fails, on the way there or on the way back.
CutOff(c, arrived) ==
  /\ call[c].pc = "insert"
  /\ server' = IF arrived
               THEN [server EXCEPT ![call[c].user] = @ \cup call[c].model]
               ELSE server
  /\ GivesUp(c, NoUser)
  /\ UNCHANGED <<session, disk, gate, ui, kept>>

\* an error of the server, and the end of a token user
Ends(c) ==
  /\ call[c].pc \in {"insert", "list", "mint"}
  /\ Returns(c)
  /\ UNCHANGED <<session, disk, gate, ui, server, kept>>

\* record_grant
Record(c) ==
  /\ call[c].pc = "record"
  /\ cache' = IF cache.user = NoUser THEN cache
              ELSE [cache EXCEPT !.ents = @ \cup call[c].model]
  /\ Returns(c)
  /\ UNCHANGED <<session, keyring, gate, entry, verifier, ui, server,
                 kept>>

Refused(owner) == cache.user = NoUser \/ owner \notin {NoUser, cache.user}
QueuedIn(file, models) ==
  LET known == file.ents \cup {r.model : r \in file.pending}
  IN [file EXCEPT
        !.ents = @ \cup models,
        !.pending = @ \cup {[model |-> m, owner |-> file.user] :
                              m \in models \ known}]
QueueGrant(c) ==
  /\ call[c].pc = "queue"
  /\ cache' = IF Refused(call[c].owner) THEN cache
              ELSE QueuedIn(cache, call[c].model)
  /\ Returns(c)
  /\ UNCHANGED <<session, keyring, gate, entry, verifier, ui, server,
                 kept>>

(* entitlements *)
List(c) ==
  /\ call[c].pc = "list"
  /\ call' = [call EXCEPT ![c].pc = "merge",
                          ![c].list = server[call[c].user]]
  /\ UNCHANGED <<session, disk, gate, ui, server, kept>>

Inserts(c, result) ==
  /\ call[c].pc = "insert"
  /\ \/ result = "ok" /\ Insert(c)
     \/ result = "expired" /\ Rejected(c)
     \/ result = "offline" /\ (\E b \in BOOLEAN : CutOff(c, b))
     \/ result = "error" /\ Ends(c)
\* A list that is out of reach is the cached one, and a mint changes nothing here.
Reads(c, result) ==
  \/ call[c].pc = "list" /\ IF result = "ok" THEN List(c) ELSE Ends(c)
  \/ call[c].pc = "mint" /\ IF result = "expired" THEN Rejected(c) ELSE Ends(c)

\* merge_pending_synthetics, written back unless the session is ephemeral
\* Mutant: a poll rewrites the cache without its queue.
Polled_Clears(file, u, list) == [file EXCEPT !.ents = list, !.pending = {}]
Polled(file, u, list) ==
  [file EXCEPT !.ents = list \cup (@ \cap Queued(file, u))]
MergeList(c) ==
  /\ call[c].pc = "merge"
  /\ cache' = IF call[c].ephemeral THEN cache
              ELSE Polled(cache, call[c].user, call[c].list)
  /\ Returns(c)
  /\ UNCHANGED <<session, keyring, gate, entry, verifier, ui, server,
                 kept>>

\* What entitlements() answers now if the network is down
\* Mutant: an offline session is shown the cache of its owner.
Shown_Cache == cache.ents
Shown == IF session.kind # "offline" \/ cache.user = session.user
         THEN cache.ents ELSE entry[session.user].ents

-----------------------------------------------------------------------------
\* the access token comes within a minute of its end
GoesStale ==
  /\ session.kind = "online"
  /\ session' = [session EXCEPT !.kind = "stale"]
  /\ UNCHANGED <<disk, gate, ui, call, server, kept>>

\* the app ends at any point; what is on disk stays
Exit ==
  /\ ui.pc # "closed"
  /\ session' = NoSession /\ gate' = NoCall
  /\ ui' = [Rest EXCEPT !.pc = "closed"]
  /\ call' = [c \in Call |-> NoRequest]
  /\ UNCHANGED <<disk, server, kept>>

Dialog ==
  \/ \E outcome \in RefreshResult : Restore(outcome)
  \/ \E u \in User, result \in SignInResult :
       \/ \E remember \in BOOLEAN : SignIn(u, remember, result)
       \/ \E file \in User : OfflineSignIn(u, file, result)
  \/ \E u \in User : Remove(u)
  \/ SyncToken \/ SyncSession \/ (\E r \in BOOLEAN : SyncList(r))
  \/ (\E a, d \in SUBSET Model : SyncFlush(a, d)) \/ SyncWrite \/ Enroll
  \/ SignOut \/ Purge \/ DropCache
  \/ RemovePurge \/ RemoveVerifier \/ RemoveEntry

Requests(c) ==
  \/ \E op \in {"grant", "poll", "mint"}, models \in SUBSET Model :
       Start(c, op, models)
  \/ (\E result \in RefreshResult : Refreshes(c, result))
  \/ (\E result \in InsertResult : Inserts(c, result))
  \/ (\E result \in ReadResult : Reads(c, result))
  \/ TakeGate(c) \/ SaveSession(c) \/ RefreshDrops(c) \/ Record(c)
  \/ QueueGrant(c) \/ MergeList(c)

Next == Dialog \/ (\E c \in Call : Requests(c)) \/ GoesStale \/ Exit
Spec == Init /\ [][Next]_vars

-----------------------------------------------------------------------------
(* Properties *)

TypeOK ==
  /\ session \in Session /\ (session.user = NoUser <=> session.kind = "none")
  /\ keyring \in Account /\ cache \in Cache
  /\ gate \in Call \cup {NoCall}
  /\ entry \in [User -> Entry] /\ verifier \in [User -> Account]
  /\ ui \in Ui /\ call \in [Call -> CallState]
  /\ server \in [User -> SUBSET Model]
  /\ kept \in Account

\* entitlements() never answers a session with another account's list.
ShownIsOwn ==
  session.user # NoUser /\ ui.pc = "idle" =>
    Shown \subseteq Wants[session.user]

\* The keyring remembers an account from the sign-in that asked for it until
\* that account signs out, expires, is removed or another one is remembered:
\* never less (an offline session signing out) and never more (a refresh).
Remembered == keyring = kept

\* A queued grant stays queued until it has landed, or the cache changes hands.
QueueKept ==
  [][cache'.user = cache.user =>
       \A r \in cache.pending \ cache'.pending :
         r.model \in server[cache.user]]_vars

\* The abstract specification of the grants: they land or wait, for the account
\* that the cache belongs to.
Ledger == INSTANCE GrantLedger WITH
  landed <- server, queue <- {r.model : r \in cache.pending},
  holder <- cache.user
GrantsKept == Ledger!Spec
=============================================================================
