--------------------------- MODULE Conversations ---------------------------
(* The conversation store (convstore.rs) and the page that fills it (app.js):
   one database per account, whose statements run without a transaction, a
   full-text row beside every chat, chat ids that SQLite gives again once the
   last chat is deleted, and the page's turn, which saves its messages and its
   generated title by id, in commands that nobody awaits. A message is known by
   the conversation it was said in (conv, a history value) and by its role. *)
EXTENDS Integers, FiniteSets, Functions

CONSTANTS User, Folder, NoUser,
          Filer,    \* bound: the accounts that make folders
          MaxChat,  \* bound: chats of one account at a time
          MaxConv,  \* bound: conversations ever begun
          MaxCmd,   \* bound: commands in flight that nobody awaits
          Beyond    \* what a run goes beyond: "cut", "outlive", "late"
ASSUME ConvAssumption ==
  NoUser \notin User /\ MaxChat \in Nat /\ MaxConv \in Nat /\ MaxCmd \in Nat

VARIABLES
  db,      \* an account's chats, chat_fts and folders tables
  conn,    \* conns: an account's connection, "gone" if its file is
  user,    \* the signed-in account
  page,    \* state.chat
  turn,    \* the turn being streamed (sendCompletion, finishStream)
  title,   \* the request for a generated title (maybeAutoTitle)
  ui,      \* the user's own command
  cmds,    \* append_message and auto_title_chat under way
  begun,   \* history: conversations begun
  wiped    \* history: conversations of a wiped account
page_vars == <<page, turn, title, ui, cmds>>
vars == <<db, conn, user, page_vars, begun, wiped>>

Id == 1..MaxChat
Conv == 1..MaxConv
None == 0
Said == [conv : Conv, role : {"user", "assistant"}]
\* A title is the conversation's first line, generated from it, or the user's.
Title == [by : {"page", "model", "user"}, conv : Conv \cup {None}]
ByUser == [by |-> "user", conv |-> None]
By(whom, v) == [by |-> whom, conv |-> v]
Chat == [conv : Conv, title : Title, title_auto : BOOLEAN,
         folder : SUBSET Folder, messages : SUBSET Said]
Fts == [title : Title, content : SUBSET Said]
Empty == [chats |-> << >>, fts |-> << >>, folders |-> {}]
Ids(u) == DOMAIN db[u].chats

Blank == [chat |-> None, conv |-> None, fresh |-> TRUE]
NoTurn == [pc |-> "none", chat |-> None, conv |-> None, first |-> FALSE,
           user |-> NoUser]
NoAsk == [chat |-> None, conv |-> None]
Idle == [op |-> "none", pc |-> "idle", user |-> NoUser, chat |-> None,
         conv |-> None]
Command == [op : {"append", "auto_title"}, user : User, chat : Id,
            conv : Conv, role : {"user", "assistant"}]

Init ==
  /\ db = [u \in User |-> Empty] /\ conn = [u \in User |-> "file"]
  /\ user = NoUser /\ page = Blank /\ turn = NoTurn /\ title = NoAsk
  /\ ui = Idle /\ cmds = {} /\ begun = 0 /\ wiped = {}

-----------------------------------------------------------------------------
(* How far a run goes: a statement fails, or the app ends, between two of one
   command ("cut"); a chat is deleted or its account leaves while a turn
   or a title of it is under way ("outlive"); an account is wiped while
   commands of it are ("late"). *)
Cuts == IF "cut" \in Beyond THEN BOOLEAN ELSE {FALSE}
Pending(u, i) ==
  \/ turn # NoTurn /\ turn.chat = i
  \/ title.chat = i
  \/ \E c \in cmds : c.user = u /\ c.chat = i
Settled == turn = NoTurn /\ title = NoAsk /\ cmds = {}

-----------------------------------------------------------------------------
(* ConvStore's operations on one account's database, cut short or not *)

\* conn_for; until a wipe forgets a connection it is as good as opened
Opened(u) == conn' = [conn EXCEPT ![u] = IF @ = "none" THEN "file" ELSE @]

\* SQLite's id for a new row, one more than the largest
IsNewId(d, i) ==
  /\ i = 1 \/ i - 1 \in DOMAIN d.chats
  /\ \A j \in DOMAIN d.chats : j < i
\* a table with one row more, or with that row replaced
With(table, i, row) ==
  [j \in DOMAIN table \cup {i} |-> IF j = i THEN row ELSE table[j]]
\* An index row left behind under the new id makes the second insert fail.
Indexed(d, i, cut) == ~cut /\ i \notin DOMAIN d.fts
Created(d, i, v, cut) ==
  [d EXCEPT
     !.chats = With(@, i, [conv |-> v, title |-> By("page", v),
                           title_auto |-> TRUE, folder |-> {}, messages |-> {}]),
     !.fts = IF ~Indexed(d, i, cut) THEN @
             ELSE With(@, i, [title |-> By("page", v), content |-> {}])]

Titled(d, i, new, auto, cut) ==
  [d EXCEPT
     !.chats = With(@, i, [d.chats[i] EXCEPT !.title = new,
                                           !.title_auto = auto]),
     !.fts = IF cut \/ i \notin DOMAIN @ THEN @
             ELSE With(@, i, [d.fts[i] EXCEPT !.title = new])]
RenamedChat(d, i, cut) ==
  IF i \in DOMAIN d.chats THEN Titled(d, i, ByUser, FALSE, cut) ELSE d
\* Mutant: a generated title replaces the user's.
AutoTitled_Always(d, i, v, cut) ==
  IF i \in DOMAIN d.chats
  THEN Titled(d, i, By("model", v), d.chats[i].title_auto, cut) ELSE d
AutoTitled(d, i, v, cut) ==
  IF i \in DOMAIN d.chats /\ d.chats[i].title_auto
  THEN Titled(d, i, By("model", v), TRUE, cut) ELSE d

\* The messages go with their chat (ON DELETE CASCADE), its index row does not.
\* Mutant: the index row stays when its chat is deleted.
Deleted_NoIndex(d, i, cut) == [d EXCEPT !.chats = Restrict(@, DOMAIN @ \ {i})]
Deleted(d, i, cut) ==
  [d EXCEPT !.chats = Restrict(@, DOMAIN @ \ {i}),
            !.fts = IF cut THEN @ ELSE Restrict(@, DOMAIN @ \ {i})]

\* A message of a chat that is gone violates its foreign key.
Appended(d, i, said, cut) ==
  IF i \notin DOMAIN d.chats THEN d
  ELSE [d EXCEPT
          !.chats = With(@, i, [d.chats[i] EXCEPT !.messages = @ \cup {said}]),
          !.fts = IF cut \/ i \notin DOMAIN @ THEN @
                  ELSE With(@, i, [d.fts[i] EXCEPT !.content = @ \cup {said}])]

Moved(d, i, folder) ==
  IF i \in DOMAIN d.chats /\ folder \subseteq d.folders
  THEN [d EXCEPT !.chats = With(@, i, [d.chats[i] EXCEPT !.folder = folder])]
  ELSE d

\* delete_folder unfiles the folder's chats first.
\* Mutant: a folder takes its chats with it.
FolderDeleted_Chats(d, f, cut) ==
  [d EXCEPT !.chats = [i \in {j \in DOMAIN @ : f \notin @[j].folder} |-> @[i]],
            !.folders = @ \ {f}]
FolderDeleted(d, f, cut) ==
  [d EXCEPT !.chats = [i \in DOMAIN @ |-> [d.chats[i] EXCEPT !.folder = @ \ {f}]],
            !.folders = IF cut THEN @ ELSE @ \ {f}]

-----------------------------------------------------------------------------
(* The page's turn *)

Issue(c) == IF user = NoUser \/ c.chat = None THEN cmds' = cmds
            ELSE cmds' = cmds \cup {[c EXCEPT !.user = user]}
Append(chat, v, role) ==
  [op |-> "append", user |-> user, chat |-> chat, conv |-> v, role |-> role]

\* sendMessage or a retry chip, which has nothing of the user's to save
Send(retry) ==
  /\ user # NoUser /\ ui.op \notin {"sign_out", "remove"}
  /\ ui.op = "delete" /\ ui.chat = page.chat => "outlive" \in Beyond
  /\ turn = NoTurn /\ Cardinality(cmds) < MaxCmd
  /\ IF page.chat = None /\ ~retry
     THEN /\ begun < MaxConv /\ begun' = begun + 1
          /\ turn' = [pc |-> "create", chat |-> None, conv |-> begun',
                      first |-> page.fresh, user |-> user]
          /\ UNCHANGED cmds
     ELSE /\ turn' = [pc |-> "stream", chat |-> page.chat,
                      conv |-> page.conv, first |-> page.fresh /\ ~retry,
                      user |-> NoUser]
          /\ IF retry THEN UNCHANGED cmds
             ELSE Issue(Append(page.chat, page.conv, "user"))
          /\ UNCHANGED begun
  /\ UNCHANGED <<db, conn, user, page, title, ui, wiped>>

\* The turn's create_chat runs; the turn goes on without a chat if it failed.
TurnCreate(cut) ==
  /\ turn.pc = "create"
  /\ LET u == turn.user
     IN \E i \in Id :
        /\ IsNewId(db[u], i)
        /\ db' = [db EXCEPT ![u] = Created(@, i, turn.conv, cut)]
        /\ Opened(u)
        /\ turn' = [turn EXCEPT
             !.pc = "created", !.user = NoUser,
             !.chat = IF Indexed(db[u], i, cut) THEN i ELSE None]
  /\ UNCHANGED <<user, page, title, ui, cmds, begun, wiped>>

\* Its answer: the page adopts the chat unless it shows another one by now.
\* Mutant: the turn goes on with the chat that is shown by now.
TurnCreated_Reread ==
  /\ turn.pc = "created" /\ Cardinality(cmds) < MaxCmd
  /\ page' = IF page.chat = None /\ turn.chat # None
             THEN [page EXCEPT !.chat = turn.chat, !.conv = turn.conv]
             ELSE page
  /\ Issue(Append(page'.chat, turn.conv, "user"))
  /\ turn' = [turn EXCEPT !.pc = "stream", !.chat = page'.chat]
  /\ UNCHANGED <<db, conn, user, title, ui, begun, wiped>>
TurnCreated ==
  /\ turn.pc = "created" /\ Cardinality(cmds) < MaxCmd
  /\ page' = IF page.chat = None /\ turn.chat # None
             THEN [page EXCEPT !.chat = turn.chat, !.conv = turn.conv]
             ELSE page
  /\ Issue(Append(turn.chat, turn.conv, "user"))
  /\ turn' = [turn EXCEPT !.pc = "stream"]
  /\ UNCHANGED <<db, conn, user, title, ui, begun, wiped>>

\* finishStream: the end of the stream, or its abort, which keeps what came
Finish(answered) ==
  /\ turn.pc = "stream" /\ Cardinality(cmds) < MaxCmd
  /\ turn' = NoTurn
  /\ IF answered
     THEN /\ Issue(Append(turn.chat, turn.conv, "assistant"))
          /\ title' = IF turn.first /\ turn.chat # None /\ title = NoAsk
                      THEN [chat |-> turn.chat, conv |-> turn.conv] ELSE title
          /\ page' = [page EXCEPT !.fresh = @ /\ turn.chat # page.chat]
     ELSE UNCHANGED <<cmds, title, page>>
  /\ UNCHANGED <<db, conn, user, ui, begun, wiped>>

\* maybeAutoTitle: the engine's answer, up to ten seconds later, or none
TitleAnswers(usable) ==
  /\ title # NoAsk /\ Cardinality(cmds) < MaxCmd
  /\ IF usable
     THEN Issue([op |-> "auto_title", user |-> user, chat |-> title.chat,
                 conv |-> title.conv, role |-> "assistant"])
     ELSE UNCHANGED cmds
  /\ title' = NoAsk
  /\ UNCHANGED <<db, conn, user, page, turn, ui, begun, wiped>>

\* append_message or auto_title_chat runs on its thread
Run(c, cut) ==
  /\ c \in cmds
  /\ db' = [db EXCEPT ![c.user] =
       IF c.op = "append"
       THEN Appended(@, c.chat, [conv |-> c.conv, role |-> c.role], cut)
       ELSE AutoTitled(@, c.chat, c.conv, cut)]
  /\ Opened(c.user)
  /\ cmds' = cmds \ {c}
  /\ UNCHANGED <<user, page, turn, title, ui, begun, wiped>>

-----------------------------------------------------------------------------
(* The user's own commands, one at a time: none is asked for, nor the account
   left, before the one before it has been answered. *)

Operate(new) ==
  /\ user # NoUser /\ ui = Idle
  /\ db' = [db EXCEPT ![user] = new]
  /\ Opened(user)
  /\ UNCHANGED <<user, page, turn, title, cmds, wiped>>
Answers(op, i, v) == ui' = [op |-> op, pc |-> "answer", user |-> user,
                            chat |-> i, conv |-> v]

Rename(i, cut) ==
  i \in Ids(user) /\ Operate(RenamedChat(db[user], i, cut)) /\ UNCHANGED <<ui, begun>>
Move(i, folder) ==
  i \in Ids(user) /\ Operate(Moved(db[user], i, folder)) /\ UNCHANGED <<ui, begun>>
CreateFolder(f) ==
  /\ user \in Filer
  /\ Operate([db[user] EXCEPT !.folders = @ \cup {f}])
  /\ UNCHANGED <<ui, begun>>
DeleteFolder(f, cut) ==
  /\ f \in db[user].folders
  /\ Operate(FolderDeleted(db[user], f, cut)) /\ UNCHANGED <<ui, begun>>

NewChat(cut) ==
  \E i \in Id :
    /\ IsNewId(db[user], i)
    /\ begun < MaxConv /\ begun' = begun + 1
    /\ Operate(Created(db[user], i, begun', cut))
    /\ Answers("new", IF Indexed(db[user], i, cut) THEN i ELSE None, begun')

Open(i) ==
  /\ i \in Ids(user)
  /\ Operate(db[user]) /\ Answers("open", i, db[user].chats[i].conv)
  /\ UNCHANGED begun

Delete(i, cut) ==
  /\ i \in Ids(user)
  /\ Pending(user, i) => "outlive" \in Beyond
  /\ Operate(Deleted(db[user], i, cut)) /\ Answers("delete", i, None)
  /\ UNCHANGED begun

\* newChat, openChat and the sidebar's delete go on; an abort ends in Finish.
UiAnswer ==
  /\ ui.pc = "answer"
  /\ page' =
       CASE ui.op = "new" ->
              [Blank EXCEPT !.chat = ui.chat,
                            !.conv = IF ui.chat = None THEN None ELSE ui.conv]
         [] ui.op = "open" ->
              [chat |-> ui.chat, conv |-> ui.conv,
               fresh |-> \A s \in db[ui.user].chats[ui.chat].messages :
                          s.role = "user"]
         [] ui.op = "delete" /\ page.chat = ui.chat -> Blank
         [] OTHER -> page
  /\ ui' = Idle
  /\ UNCHANGED <<db, conn, user, turn, title, cmds, begun, wiped>>

-----------------------------------------------------------------------------
(* Accounts *)

SignIn(u) ==
  /\ user = NoUser /\ ui = Idle
  /\ Settled \/ "outlive" \in Beyond
  /\ user' = u
  /\ UNCHANGED <<db, conn, page_vars, begun, wiped>>

\* sign_out, or remove_current_account_from_device with a wipe: the session
\* ends first, then the data goes, and last the page leaves the chat.
SignOut(op) ==
  /\ user # NoUser /\ ui = Idle
  /\ turn.pc \notin {"create", "created"} \/ "outlive" \in Beyond
  /\ op = "sign_out" \/ cmds = {} \/ "late" \in Beyond
  /\ ui' = [Idle EXCEPT !.op = op, !.user = user,
                        !.pc = IF op = "remove" THEN "forget" ELSE "leave"]
  /\ user' = NoUser
  /\ UNCHANGED <<db, conn, page, turn, title, cmds, begun, wiped>>

\* delete_account_conversations: the connection is forgotten, then the file
\* removed, under a connection opened in between, if the system allows it
\* Mutant: the cached connection survives the wipe.
Forget_Keeps ==
  /\ ui.pc = "forget"
  /\ ui' = [ui EXCEPT !.pc = "unlink"]
  /\ UNCHANGED <<db, conn, user, page, turn, title, cmds, begun, wiped>>
Forget ==
  /\ ui.pc = "forget"
  /\ conn' = [conn EXCEPT ![ui.user] = "none"]
  /\ ui' = [ui EXCEPT !.pc = "unlink"]
  /\ UNCHANGED <<db, user, page, turn, title, cmds, begun, wiped>>

Unlink ==
  /\ ui.pc = "unlink"
  /\ LET u == ui.user
     IN \/ /\ conn' = [conn EXCEPT ![u] = IF @ = "none" THEN "file" ELSE "gone"]
           /\ db' = IF conn[u] = "none" THEN [db EXCEPT ![u] = Empty] ELSE db
           /\ wiped' = wiped \cup {db[u].chats[i].conv : i \in Ids(u)}
        \/ conn[u] # "none" /\ UNCHANGED <<db, conn, wiped>>
  /\ ui' = [ui EXCEPT !.pc = "leave"]
  /\ UNCHANGED <<user, page, turn, title, cmds, begun>>

\* exitChat and the reset of state.chat
Leave ==
  /\ ui.pc = "leave"
  /\ page' = Blank /\ ui' = Idle
  /\ UNCHANGED <<db, conn, user, turn, title, cmds, begun, wiped>>

\* the app ends; a database that was only an open file is no more
Exit ==
  /\ db' = [u \in User |-> IF conn[u] = "gone" THEN Empty ELSE db[u]]
  /\ conn' = [u \in User |-> "file"]
  /\ user' = NoUser /\ page' = Blank /\ turn' = NoTurn /\ title' = NoAsk
  /\ ui' = Idle /\ cmds' = {}
  /\ UNCHANGED <<begun, wiped>>

Next ==
  \/ \E b \in BOOLEAN : Send(b) \/ Finish(b) \/ TitleAnswers(b)
  \/ \E cut \in Cuts :
       \/ TurnCreate(cut) \/ \E c \in cmds : Run(c, cut)
       \/ user # NoUser /\
            \/ NewChat(cut) \/ \E i \in Id : Rename(i, cut) \/ Delete(i, cut)
            \/ \E f \in Folder : DeleteFolder(f, cut)
  \/ user # NoUser /\
       \/ \E f \in Folder : CreateFolder(f)
       \/ \E i \in Id : Open(i) \/
            \E folder \in {{}} \cup {{f} : f \in Folder} : Move(i, folder)
  \/ TurnCreated \/ UiAnswer \/ Forget \/ Unlink \/ Leave \/ Exit
  \/ \E u \in User : SignIn(u)
  \/ \E op \in {"sign_out", "remove"} : SignOut(op)

Spec == Init /\ [][Next]_vars

-----------------------------------------------------------------------------
(* Properties *)

\* Types; a database's ids are within the bound and at most one command is the
\* user's own.
TypeOK ==
  /\ \A u \in User :
       /\ db[u].chats \in [Ids(u) -> Chat] /\ Ids(u) \subseteq Id
       /\ db[u].fts \in [DOMAIN db[u].fts -> Fts]
       /\ db[u].folders \subseteq Folder
  /\ conn \in [User -> {"none", "file", "gone"}]
  /\ user \in User \cup {NoUser}
  /\ page \in [chat : {None} \cup Id, conv : {None} \cup Conv, fresh : BOOLEAN]
  /\ turn.pc \in {"none", "create", "created", "stream"}
  /\ title \in [chat : {None} \cup Id, conv : {None} \cup Conv]
  /\ cmds \subseteq Command /\ Cardinality(cmds) <= MaxCmd
  /\ begun \in 0..MaxConv /\ wiped \subseteq Conv

\* A turn is saved in the chat it belongs to (sendCompletion's comment on
\* turnChatId), and a generated title is of its chat's conversation: no other
\* chat, nor another account's, ever has a message or a title of it.
TurnsStay ==
  \A u \in User : \A i \in Ids(u) :
    LET chat == db[u].chats[i]
    IN /\ \A s \in chat.messages : s.conv = chat.conv
       /\ chat.title.conv \in {None, chat.conv}

\* chat_fts has exactly one row per chat, with its title and the words of its
\* messages: a search finds each chat by all it says, and nothing deleted.
IndexMatches ==
  \A u \in User :
    /\ DOMAIN db[u].fts = Ids(u)
    /\ \A i \in Ids(u) :
         db[u].fts[i] = [title |-> db[u].chats[i].title,
                         content |-> db[u].chats[i].messages]

\* A user's title stays the user's, in the list and in the index, whenever a
\* generated one arrives; a title the user never touched is the chat's own.
RenameWins ==
  \A u \in User : \A i \in Ids(u) :
    (db[u].chats[i].title = ByUser) <=> ~db[u].chats[i].title_auto

\* What a wipe removed is gone: no chat of it can be listed or found.
WipedIsGone ==
  \A u \in User : \A i \in Ids(u) : db[u].chats[i].conv \notin wiped

\* A chat leaves the store, or a message leaves it, only by the user's own
\* delete_chat of that chat or by the wipe of its account.
KeptUntilDeleted ==
  [][\A u \in User : \A i \in Ids(u) :
       \/ /\ i \in Ids(u)' /\ db'[u].chats[i].conv = db[u].chats[i].conv
          /\ db[u].chats[i].messages \subseteq db'[u].chats[i].messages
       \/ ui = Idle /\ ui'.op = "delete" /\ ui'.user = u /\ ui'.chat = i
       \/ ui.pc = "unlink" /\ ui.user = u]_vars
=============================================================================
