------------------------ MODULE ConversationsProofs ------------------------
(* Theorems about the conversation store: what a step may do to one account's
   database (Grows, Keeps, Replaces), and the invariants that follow from it.
   A hypothesis on Beyond names the one way of going wrong that the property
   does not survive; the others stay allowed. *)
EXTENDS Conversations, FiniteSetTheorems, TLAPS

-----------------------------------------------------------------------------
(* Tables of one database *)

Table(Row) == UNION {[S -> Row] : S \in SUBSET Id}
Store == [chats : Table(Chat), fts : Table(Fts), folders : SUBSET Folder]

LEMMA IsTable ==
  ASSUME NEW Row, NEW t
  PROVE  t \in Table(Row) <=> DOMAIN t \subseteq Id /\ t \in [DOMAIN t -> Row]
  BY DEF Table

LEMMA WithTable ==
  ASSUME NEW Row, NEW t \in Table(Row), NEW i \in Id, NEW row \in Row
  PROVE  With(t, i, row) \in Table(Row)
<1>1. DOMAIN t \subseteq Id /\ t \in [DOMAIN t -> Row]
  BY IsTable
<1>2. DOMAIN t \cup {i} \subseteq Id /\ With(t, i, row) \in [DOMAIN t \cup {i} -> Row]
  BY <1>1 DEF With
<1> QED BY <1>1, <1>2 DEF Table

LEMMA RestrictTable ==
  ASSUME NEW Row, NEW t \in Table(Row), NEW i
  PROVE  Restrict(t, DOMAIN t \ {i}) \in Table(Row)
<1>1. DOMAIN t \subseteq Id /\ t \in [DOMAIN t -> Row]
  BY IsTable
<1> DEFINE S == DOMAIN t \ {i}
           r == [j \in S |-> t[j]]
<1>2. S \subseteq Id /\ r \in [S -> Row]
  BY <1>1
<1>3. r \in Table(Row)
  BY <1>2 DEF Table
<1> QED BY <1>3 DEF Restrict

-----------------------------------------------------------------------------
(* The operations on one database *)

\* The three properties of one database that its operations keep.
StaysIn(d) ==
  \A i \in DOMAIN d.chats :
    /\ \A s \in d.chats[i].messages : s.conv = d.chats[i].conv
    /\ d.chats[i].title.conv \in {None, d.chats[i].conv}
Indexes(d) ==
  /\ DOMAIN d.fts = DOMAIN d.chats
  /\ \A i \in DOMAIN d.chats :
       d.fts[i] = [title |-> d.chats[i].title, content |-> d.chats[i].messages]
Renames(d) ==
  \A i \in DOMAIN d.chats :
    (d.chats[i].title = ByUser) <=> ~d.chats[i].title_auto

\* No chat is lost, none changes its conversation, none loses a message.
Grows(d, e) ==
  \A i \in DOMAIN d.chats :
    /\ i \in DOMAIN e.chats
    /\ e.chats[i].conv = d.chats[i].conv
    /\ d.chats[i].messages \subseteq e.chats[i].messages

LEMMA EmptyStore ==
  Empty \in Store /\ StaysIn(Empty) /\ Indexes(Empty) /\ Renames(Empty)
<1>1. DOMAIN << >> = {}
  OBVIOUS
<1>2. << >> \in [{} -> Chat] /\ << >> \in [{} -> Fts]
  OBVIOUS
<1>3. << >> \in Table(Chat) /\ << >> \in Table(Fts)
  BY <1>2 DEF Table
<1> QED BY <1>1, <1>3 DEF Empty, Store, StaysIn, Indexes, Renames

LEMMA RowFacts ==
  ASSUME NEW d \in Store, NEW i \in DOMAIN d.chats
  PROVE  /\ i \in Id /\ d.chats[i] \in Chat
         /\ d.chats[i].conv \in Conv /\ d.chats[i].title \in Title
         /\ d.chats[i].title_auto \in BOOLEAN
         /\ d.chats[i].folder \subseteq Folder
         /\ d.chats[i].messages \subseteq Said
<1>1. d.chats \in Table(Chat)
  BY DEF Store
<1>2. i \in Id /\ d.chats[i] \in Chat
  BY <1>1, IsTable
<1> QED BY <1>2 DEF Chat

\* The same chats, by id, in both.
SameIds(d, e) == DOMAIN e.chats = DOMAIN d.chats

\* What every operation on one database but a delete keeps.
Keeps(d, e, cut) ==
  /\ e \in Store
  /\ Grows(d, e)
  /\ Renames(d) => Renames(e)
  /\ ~cut /\ Indexes(d) => Indexes(e)

\* create_chat
LEMMA CreatedFacts ==
  \A d \in Store, i \in Id, v \in Conv, cut \in BOOLEAN :
    IsNewId(d, i) =>
      /\ Created(d, i, v, cut) \in Store
      /\ i \notin DOMAIN d.chats
      /\ DOMAIN Created(d, i, v, cut).chats = DOMAIN d.chats \cup {i}
      /\ Created(d, i, v, cut).chats[i].conv = v
      /\ Grows(d, Created(d, i, v, cut))
      /\ StaysIn(d) => StaysIn(Created(d, i, v, cut))
      /\ Renames(d) => Renames(Created(d, i, v, cut))
      /\ ~cut /\ Indexes(d) => Indexes(Created(d, i, v, cut))
<1> SUFFICES ASSUME NEW d \in Store, NEW i \in Id, NEW v \in Conv,
                    NEW cut \in BOOLEAN, IsNewId(d, i)
             PROVE  /\ Created(d, i, v, cut) \in Store
                    /\ i \notin DOMAIN d.chats
                    /\ DOMAIN Created(d, i, v, cut).chats = DOMAIN d.chats \cup {i}
                    /\ Created(d, i, v, cut).chats[i].conv = v
                    /\ Grows(d, Created(d, i, v, cut))
                    /\ StaysIn(d) => StaysIn(Created(d, i, v, cut))
                    /\ Renames(d) => Renames(Created(d, i, v, cut))
                    /\ ~cut /\ Indexes(d) => Indexes(Created(d, i, v, cut))
  OBVIOUS
<1> DEFINE row == [conv |-> v, title |-> By("page", v), title_auto |-> TRUE,
                   folder |-> {}, messages |-> {}]
           key == [title |-> By("page", v), content |-> {}]
           e == Created(d, i, v, cut)
<1>1. row \in Chat /\ key \in Fts /\ row.title # ByUser
  BY DEF Chat, Fts, By, Title, ByUser
<1>2. i \notin DOMAIN d.chats
  BY DEF IsNewId, Id
<1>3. /\ With(d.chats, i, row) \in Table(Chat)
      /\ DOMAIN With(d.chats, i, row) = DOMAIN d.chats \cup {i}
      /\ With(d.chats, i, row)[i] = row
      /\ \A j \in DOMAIN d.chats : With(d.chats, i, row)[j] = d.chats[j]
  <2> HIDE DEF row, e
  <2>1. With(d.chats, i, row) \in Table(Chat)
    BY <1>1, WithTable DEF Store
  <2> QED BY <1>2, <2>1 DEF With
<1>4. /\ With(d.fts, i, key) \in Table(Fts)
      /\ DOMAIN With(d.fts, i, key) = DOMAIN d.fts \cup {i}
      /\ With(d.fts, i, key)[i] = key
      /\ \A j \in DOMAIN d.fts : j # i => With(d.fts, i, key)[j] = d.fts[j]
  <2> HIDE DEF key, e
  <2>1. With(d.fts, i, key) \in Table(Fts)
    BY <1>1, WithTable DEF Store
  <2> QED BY <2>1 DEF With
<1>5. /\ e.chats = With(d.chats, i, row)
      /\ e.fts = IF ~Indexed(d, i, cut) THEN d.fts ELSE With(d.fts, i, key)
      /\ e.folders = d.folders
      /\ e = [chats |-> e.chats, fts |-> e.fts, folders |-> e.folders]
  <2>1. e = [d EXCEPT !.chats = With(d.chats, i, row),
                      !.fts = IF ~Indexed(d, i, cut) THEN d.fts
                              ELSE With(d.fts, i, key)]
    BY Zenon DEF Created
  <2> HIDE DEF e, row, key
  <2> QED BY <2>1 DEF Store
<1>6. e \in Store
  <2> HIDE DEF e, row, key
  <2>1. e.fts \in Table(Fts)
    BY <1>4, <1>5 DEF Store
  <2> QED BY <1>3, <1>5, <2>1 DEF Store
<1>7. Grows(d, e)
  <2> HIDE DEF e
  <2> QED BY <1>3, <1>5 DEF Grows
<1>8. StaysIn(d) => StaysIn(e)
  <2> HIDE DEF e, row
  <2>1. row.messages = {} /\ row.title.conv = row.conv
    BY DEF row, By
  <2> SUFFICES ASSUME StaysIn(d), NEW j \in DOMAIN e.chats
               PROVE  /\ \A s \in e.chats[j].messages : s.conv = e.chats[j].conv
                      /\ e.chats[j].title.conv \in {None, e.chats[j].conv}
    BY DEF StaysIn
  <2>2. CASE j = i
    BY <1>3, <1>5, <2>1, <2>2
  <2>3. CASE j \in DOMAIN d.chats
    BY <1>3, <1>5, <2>3 DEF StaysIn
  <2> QED BY <1>3, <1>5, <2>2, <2>3
<1>9. Renames(d) => Renames(e)
  <2> HIDE DEF e, row
  <2>1. row.title_auto = TRUE
    BY DEF row
  <2> SUFFICES ASSUME Renames(d), NEW j \in DOMAIN e.chats
               PROVE  (e.chats[j].title = ByUser) <=> ~e.chats[j].title_auto
    BY DEF Renames
  <2>2. CASE j = i
    BY <1>1, <1>3, <1>5, <2>1, <2>2
  <2>3. CASE j \in DOMAIN d.chats
    BY <1>3, <1>5, <2>3 DEF Renames
  <2> QED BY <1>3, <1>5, <2>2, <2>3
<1>10. ~cut /\ Indexes(d) => Indexes(e)
  <2> HIDE DEF e
  <2> SUFFICES ASSUME ~cut, Indexes(d) PROVE Indexes(e)
    OBVIOUS
  <2>1. e.fts = With(d.fts, i, key)
    BY <1>2, <1>5 DEF Indexes, Indexed
  <2>2. key = [title |-> row.title, content |-> row.messages]
    OBVIOUS
  <2> HIDE DEF row, key
  <2>3. DOMAIN e.fts = DOMAIN e.chats
    BY <1>3, <1>4, <1>5, <2>1 DEF Indexes
  <2> SUFFICES ASSUME NEW j \in DOMAIN e.chats
               PROVE  e.fts[j] = [title |-> e.chats[j].title,
                                  content |-> e.chats[j].messages]
    BY <2>3 DEF Indexes
  <2>4. CASE j = i
    BY <1>3, <1>4, <1>5, <2>1, <2>2, <2>4
  <2>5. CASE j \in DOMAIN d.chats
    <3>1. j # i /\ j \in DOMAIN d.fts
      BY <1>2, <2>5 DEF Indexes
    <3>2. e.fts[j] = d.fts[j] /\ e.chats[j] = d.chats[j]
      BY <1>3, <1>4, <1>5, <2>1, <2>5, <3>1
    <3> QED BY <2>5, <3>2 DEF Indexes
  <2> QED BY <1>3, <1>5, <2>4, <2>5
<1> QED
  <2> HIDE DEF e, row
  <2>1. e.chats[i].conv = v
    BY <1>3, <1>5 DEF row
  <2>2. DOMAIN e.chats = DOMAIN d.chats \cup {i}
    BY <1>3, <1>5
  <2> QED BY <1>2, <1>6, <1>7, <1>8, <1>9, <1>10, <2>1, <2>2 DEF e


\* A chat's row replaced by another of its conversation, which loses none of
\* its messages, and its index row, if there is one, by a key.
Put(d, i, row, key, cut) ==
  [d EXCEPT !.chats = With(d.chats, i, row),
            !.fts = IF cut \/ i \notin DOMAIN d.fts THEN d.fts
                    ELSE With(d.fts, i, key)]
Replaces(d, e, i, row) ==
  /\ e \in Store /\ Grows(d, e)
  /\ DOMAIN e.chats = DOMAIN d.chats
  /\ e.chats[i] = row
  /\ \A j \in DOMAIN d.chats : j # i => e.chats[j] = d.chats[j]
LEMMA PutFacts ==
  \A d \in Store, row \in Chat, key \in Fts, cut \in BOOLEAN :
    \A i \in DOMAIN d.chats :
      /\ row.conv = d.chats[i].conv
      /\ d.chats[i].messages \subseteq row.messages
      =>
      /\ Replaces(d, Put(d, i, row, key, cut), i, row)
      /\ ~cut /\ Indexes(d)
           /\ key = [title |-> row.title, content |-> row.messages]
         => Indexes(Put(d, i, row, key, cut))
<1> TAKE d \in Store, row \in Chat, key \in Fts, cut \in BOOLEAN
<1> TAKE i \in DOMAIN d.chats
<1> HAVE /\ row.conv = d.chats[i].conv
         /\ d.chats[i].messages \subseteq row.messages
<1> DEFINE f == IF cut \/ i \notin DOMAIN d.fts THEN d.fts
                ELSE With(d.fts, i, key)
           e == Put(d, i, row, key, cut)
<1>1. /\ e.chats = With(d.chats, i, row) /\ e.fts = f
      /\ e = [chats |-> e.chats, fts |-> f, folders |-> d.folders]
  <2>1. e = [d EXCEPT !.chats = With(d.chats, i, row), !.fts = f]
    BY Zenon DEF Put
  <2> HIDE DEF e, f
  <2> QED BY <2>1 DEF Store
<1> HIDE DEF e
<1>2. i \in Id
  BY RowFacts
<1>3. e.chats \in Table(Chat)
  BY <1>1, <1>2, WithTable DEF Store
<1>4. f \in Table(Fts)
  BY <1>2, WithTable DEF Store
<1>5. e \in Store
  <2> HIDE DEF f
  <2> QED BY <1>1, <1>3, <1>4 DEF Store
<1>6. /\ DOMAIN e.chats = DOMAIN d.chats
      /\ e.chats[i] = row
      /\ \A j \in DOMAIN d.chats : j # i => e.chats[j] = d.chats[j]
  BY <1>1 DEF With
<1>7. Grows(d, e)
  BY <1>6 DEF Grows
<1>8. ASSUME ~cut, Indexes(d),
             key = [title |-> row.title, content |-> row.messages]
      PROVE  Indexes(e)
  <2>1. i \in DOMAIN d.fts
    BY <1>8 DEF Indexes
  <2>2. e.fts = With(d.fts, i, key)
    BY <1>1, <1>8, <2>1
  <2>3. /\ DOMAIN e.fts = DOMAIN d.fts
        /\ e.fts[i] = key
        /\ \A j \in DOMAIN d.fts : j # i => e.fts[j] = d.fts[j]
    BY <2>1, <2>2 DEF With
  <2> QED BY <1>6, <1>8, <2>3 DEF Indexes
<1> QED BY <1>5, <1>6, <1>7, <1>8 DEF e, Replaces

LEMMA KeyFacts ==
  ASSUME NEW d \in Store, NEW i \in DOMAIN d.fts
  PROVE  /\ d.fts[i] \in Fts
         /\ d.fts[i] = [title |-> d.fts[i].title, content |-> d.fts[i].content]
         /\ d.fts[i].title \in Title /\ d.fts[i].content \subseteq Said
<1>1. d.fts[i] \in Fts
  <2>1. d.fts \in Table(Fts)
    BY DEF Store
  <2> QED BY <2>1, IsTable
<1> QED BY <1>1 DEF Fts

\* A title set, by the user or by a generated one.
LEMMA TitledFacts ==
  \A d \in Store, new \in Title, auto \in BOOLEAN, cut \in BOOLEAN :
    \A i \in DOMAIN d.chats :
      /\ Titled(d, i, new, auto, cut) \in Store
      /\ Grows(d, Titled(d, i, new, auto, cut))
      /\ SameIds(d, Titled(d, i, new, auto, cut))
      /\ StaysIn(d) /\ new.conv \in {None, d.chats[i].conv}
         => StaysIn(Titled(d, i, new, auto, cut))
      /\ Renames(d) /\ (new = ByUser <=> ~auto)
         => Renames(Titled(d, i, new, auto, cut))
      /\ ~cut /\ Indexes(d) => Indexes(Titled(d, i, new, auto, cut))
<1> TAKE d \in Store, new \in Title, auto \in BOOLEAN, cut \in BOOLEAN
<1> TAKE i \in DOMAIN d.chats
<1> DEFINE e == Titled(d, i, new, auto, cut)
           row == [d.chats[i] EXCEPT !.title = new, !.title_auto = auto]
           old == [d.fts[i] EXCEPT !.title = new]
           key == IF i \in DOMAIN d.fts THEN old ELSE [title |-> new, content |-> {}]
<1>1. /\ row \in Chat /\ row.conv = d.chats[i].conv
      /\ row.messages = d.chats[i].messages
      /\ row.title = new /\ row.title_auto = auto
  BY RowFacts DEF Chat
<1>2. key \in Fts
  <2>1. i \in DOMAIN d.fts => old \in Fts
    BY KeyFacts DEF Fts
  <2> QED BY <2>1 DEF Fts
<1>3. Indexes(d) => key = [title |-> row.title, content |-> row.messages]
  <2> SUFFICES ASSUME Indexes(d)
               PROVE  key = [title |-> row.title, content |-> row.messages]
    OBVIOUS
  <2>1. /\ i \in DOMAIN d.fts
        /\ d.fts[i] = [title |-> d.chats[i].title, content |-> d.chats[i].messages]
    BY DEF Indexes
  <2>2. old = [title |-> new, content |-> d.chats[i].messages]
    BY <2>1
  <2> HIDE DEF row, old
  <2> QED BY <1>1, <2>1, <2>2
<1>4. e = Put(d, i, row, key, cut)
  <2>1. e = Put(d, i, row, old, cut)
    BY Zenon DEF Titled, Put
  <2> HIDE DEF row, old, e
  <2> QED BY <2>1 DEF Put
<1> HIDE DEF row, key, e
<1>5. /\ e \in Store /\ DOMAIN e.chats = DOMAIN d.chats
      /\ e.chats[i] = row
      /\ \A j \in DOMAIN d.chats : j # i => e.chats[j] = d.chats[j]
      /\ Grows(d, e)
      /\ ~cut /\ Indexes(d)
           /\ key = [title |-> row.title, content |-> row.messages]
         => Indexes(e)
  <2>1. d.chats[i].messages \subseteq row.messages
    BY <1>1
  <2>2. Replaces(d, e, i, row)
    BY <1>1, <1>2, <1>4, <2>1, PutFacts
  <2>3. ~cut /\ Indexes(d)
           /\ key = [title |-> row.title, content |-> row.messages]
         => Indexes(e)
    BY <1>1, <1>2, <1>4, <2>1, PutFacts
  <2> QED BY <2>2, <2>3 DEF Replaces
<1>6. StaysIn(d) /\ new.conv \in {None, d.chats[i].conv} => StaysIn(e)
  BY <1>1, <1>5 DEF StaysIn
<1>7. Renames(d) /\ (new = ByUser <=> ~auto) => Renames(e)
  BY <1>1, <1>5 DEF Renames
<1> QED BY <1>3, <1>5, <1>6, <1>7 DEF e, SameIds

\* rename_chat and auto_title_chat
LEMMA RenamedFacts ==
  \A d \in Store, i \in Id, cut \in BOOLEAN :
    /\ Keeps(d, RenamedChat(d, i, cut), cut)
    /\ SameIds(d, RenamedChat(d, i, cut))
    /\ StaysIn(d) => StaysIn(RenamedChat(d, i, cut))
<1> TAKE d \in Store, i \in Id, cut \in BOOLEAN
<1>1. ByUser \in Title /\ ByUser.conv = None
  BY DEF ByUser, Title
<1>2. CASE i \in DOMAIN d.chats
  <2> PICK auto \in BOOLEAN : auto = FALSE
    OBVIOUS
  <2> DEFINE e == Titled(d, i, ByUser, auto, cut)
  <2> HIDE DEF ByUser
  <2>1. /\ e \in Store /\ Grows(d, e) /\ SameIds(d, e)
        /\ StaysIn(d) /\ ByUser.conv \in {None, d.chats[i].conv} => StaysIn(e)
        /\ Renames(d) /\ (ByUser = ByUser <=> ~auto) => Renames(e)
        /\ ~cut /\ Indexes(d) => Indexes(e)
    BY <1>1, <1>2, TitledFacts
  <2>2. RenamedChat(d, i, cut) = e
    BY <1>2 DEF RenamedChat
  <2> HIDE DEF e
  <2> QED BY <1>1, <2>1, <2>2 DEF Keeps
<1>3. CASE i \notin DOMAIN d.chats
  BY <1>3 DEF RenamedChat, Keeps, Grows, SameIds
<1> QED BY <1>2, <1>3

LEMMA AutoTitledFacts ==
  \A d \in Store, i \in Id, v \in Conv, cut \in BOOLEAN :
    /\ Keeps(d, AutoTitled(d, i, v, cut), cut)
    /\ SameIds(d, AutoTitled(d, i, v, cut))
    /\ StaysIn(d) /\ (i \in DOMAIN d.chats => d.chats[i].conv = v)
       => StaysIn(AutoTitled(d, i, v, cut))
<1> TAKE d \in Store, i \in Id, v \in Conv, cut \in BOOLEAN
<1> DEFINE t == By("model", v)
<1>1. t \in Title /\ t.conv = v /\ t # ByUser
  BY DEF By, ByUser, Title
<1>2. CASE i \in DOMAIN d.chats /\ d.chats[i].title_auto
  <2> PICK auto \in BOOLEAN : auto = TRUE
    OBVIOUS
  <2> DEFINE e == Titled(d, i, t, auto, cut)
  <2> HIDE DEF t
  <2>1. /\ e \in Store /\ Grows(d, e) /\ SameIds(d, e)
        /\ StaysIn(d) /\ t.conv \in {None, d.chats[i].conv} => StaysIn(e)
        /\ Renames(d) /\ (t = ByUser <=> ~auto) => Renames(e)
        /\ ~cut /\ Indexes(d) => Indexes(e)
    <3>1. i \in DOMAIN d.chats
      BY <1>2
    <3>2. e \in Store /\ Grows(d, e) /\ SameIds(d, e)
      BY <1>1, <3>1, TitledFacts
    <3>3. StaysIn(d) /\ t.conv \in {None, d.chats[i].conv} => StaysIn(e)
      BY <1>1, <3>1, TitledFacts
    <3>4. Renames(d) /\ (t = ByUser <=> ~auto) => Renames(e)
      BY <1>1, <3>1, TitledFacts
    <3>5. ~cut /\ Indexes(d) => Indexes(e)
      BY <1>1, <3>1, TitledFacts
    <3> QED BY <3>2, <3>3, <3>4, <3>5
  <2>2. AutoTitled(d, i, v, cut) = e
    BY <1>2 DEF AutoTitled, t
  <2> HIDE DEF e
  <2> QED BY <1>1, <1>2, <2>1, <2>2 DEF Keeps
<1>3. CASE ~(i \in DOMAIN d.chats /\ d.chats[i].title_auto)
  BY <1>3 DEF AutoTitled, Keeps, Grows, SameIds
<1> QED BY <1>2, <1>3

\* append_message
LEMMA AppendedFacts ==
  \A d \in Store, said \in Said, cut \in BOOLEAN : \A i \in DOMAIN d.chats :
    /\ Keeps(d, Appended(d, i, said, cut), cut)
    /\ SameIds(d, Appended(d, i, said, cut))
    /\ StaysIn(d) /\ d.chats[i].conv = said.conv
       => StaysIn(Appended(d, i, said, cut))
<1> TAKE d \in Store, said \in Said, cut \in BOOLEAN
<1> TAKE i \in DOMAIN d.chats
<1> DEFINE e == Appended(d, i, said, cut)
           row == [d.chats[i] EXCEPT !.messages = d.chats[i].messages \cup {said}]
           old == [d.fts[i] EXCEPT !.content = d.fts[i].content \cup {said}]
           key == IF i \in DOMAIN d.fts THEN old
                  ELSE [title |-> d.chats[i].title, content |-> {}]
<1>1. /\ row \in Chat /\ row.conv = d.chats[i].conv
      /\ row.messages = d.chats[i].messages \cup {said}
      /\ row.title = d.chats[i].title
      /\ row.title_auto = d.chats[i].title_auto
  BY RowFacts DEF Chat
<1>2. key \in Fts
  <2>1. i \in DOMAIN d.fts => old \in Fts
    BY KeyFacts DEF Fts
  <2> QED BY <2>1, RowFacts DEF Fts
<1>3. Indexes(d) => key = [title |-> row.title, content |-> row.messages]
  <2> SUFFICES ASSUME Indexes(d)
               PROVE  key = [title |-> row.title, content |-> row.messages]
    OBVIOUS
  <2>1. /\ i \in DOMAIN d.fts
        /\ d.fts[i] = [title |-> d.chats[i].title, content |-> d.chats[i].messages]
    BY DEF Indexes
  <2>2. old = [title |-> d.chats[i].title,
               content |-> d.chats[i].messages \cup {said}]
    BY <2>1
  <2> HIDE DEF row, old
  <2> QED BY <1>1, <2>1, <2>2
<1>4. e = Put(d, i, row, key, cut)
  <2>1. e = Put(d, i, row, old, cut)
    BY Zenon DEF Appended, Put
  <2> HIDE DEF row, old, e
  <2> QED BY <2>1 DEF Put
<1> HIDE DEF row, key, e
<1>5. /\ e \in Store /\ DOMAIN e.chats = DOMAIN d.chats
      /\ e.chats[i] = row
      /\ \A j \in DOMAIN d.chats : j # i => e.chats[j] = d.chats[j]
      /\ Grows(d, e)
      /\ ~cut /\ Indexes(d)
           /\ key = [title |-> row.title, content |-> row.messages]
         => Indexes(e)
  <2>1. d.chats[i].messages \subseteq row.messages
    BY <1>1
  <2>2. Replaces(d, e, i, row)
    BY <1>1, <1>2, <1>4, <2>1, PutFacts
  <2>3. ~cut /\ Indexes(d)
           /\ key = [title |-> row.title, content |-> row.messages]
         => Indexes(e)
    BY <1>1, <1>2, <1>4, <2>1, PutFacts
  <2> QED BY <2>2, <2>3 DEF Replaces
<1>6. StaysIn(d) /\ said.conv = d.chats[i].conv => StaysIn(e)
  BY <1>1, <1>5 DEF StaysIn
<1>7. Renames(d) => Renames(e)
  BY <1>1, <1>5 DEF Renames
<1> QED BY <1>3, <1>5, <1>6, <1>7 DEF Keeps, e, SameIds

\* a message of a chat that is gone
LEMMA AppendedToNone ==
  \A d \in Store, i \in Id, said \in Said, cut \in BOOLEAN :
    i \notin DOMAIN d.chats => Appended(d, i, said, cut) = d
  BY DEF Appended

\* A row of which only the folder changes, as in move_chat and delete_folder.
Refiled(d, e) ==
  /\ e.fts = d.fts
  /\ DOMAIN e.chats = DOMAIN d.chats
  /\ \A i \in DOMAIN d.chats :
       /\ e.chats[i].conv = d.chats[i].conv
       /\ e.chats[i].title = d.chats[i].title
       /\ e.chats[i].title_auto = d.chats[i].title_auto
       /\ e.chats[i].messages = d.chats[i].messages
LEMMA RefiledFacts ==
  \A d, e \in Store, cut \in BOOLEAN :
    Refiled(d, e) => Keeps(d, e, cut) /\ (StaysIn(d) => StaysIn(e))
  BY DEF Refiled, Keeps, Grows, StaysIn, Renames, Indexes

LEMMA MovedFacts ==
  \A d \in Store, i \in Id, folder \in SUBSET Folder :
    Moved(d, i, folder) \in Store /\ Refiled(d, Moved(d, i, folder))
<1> TAKE d \in Store, i \in Id, folder \in SUBSET Folder
<1> DEFINE e == Moved(d, i, folder)
           row == [d.chats[i] EXCEPT !.folder = folder]
<1>1. CASE ~(i \in DOMAIN d.chats /\ folder \subseteq d.folders)
  BY <1>1 DEF Moved, Refiled
<1>2. CASE i \in DOMAIN d.chats /\ folder \subseteq d.folders
  <2>1. /\ row \in Chat /\ row.conv = d.chats[i].conv
        /\ row.messages = d.chats[i].messages
        /\ row.title = d.chats[i].title
        /\ row.title_auto = d.chats[i].title_auto
    BY <1>2, RowFacts DEF Chat
  <2>2. e = [d EXCEPT !.chats = With(d.chats, i, row)]
    BY <1>2 DEF Moved
  <2> HIDE DEF row, e
  <2>3. /\ e.chats = With(d.chats, i, row) /\ e.fts = d.fts
        /\ e = [chats |-> e.chats, fts |-> d.fts, folders |-> d.folders]
    BY <2>2 DEF Store
  <2>4. e \in Store
    <3>1. e.chats \in Table(Chat)
      BY <2>1, <2>3, WithTable DEF Store
    <3> QED BY <2>3, <3>1 DEF Store
  <2>5. /\ DOMAIN e.chats = DOMAIN d.chats
        /\ e.chats[i] = row
        /\ \A j \in DOMAIN d.chats : j # i => e.chats[j] = d.chats[j]
    BY <1>2, <2>3 DEF With
  <2>6. Refiled(d, e)
    BY <2>1, <2>3, <2>5 DEF Refiled
  <2> QED BY <2>4, <2>6 DEF e
<1> QED BY <1>1, <1>2

LEMMA FolderDeletedFacts ==
  \A d \in Store, f \in Folder, cut \in BOOLEAN :
    FolderDeleted(d, f, cut) \in Store /\ Refiled(d, FolderDeleted(d, f, cut))
<1> TAKE d \in Store, f \in Folder, cut \in BOOLEAN
<1> DEFINE e == FolderDeleted(d, f, cut)
           c == [i \in DOMAIN d.chats |->
                   [d.chats[i] EXCEPT !.folder = d.chats[i].folder \ {f}]]
           g == IF cut THEN d.folders ELSE d.folders \ {f}
<1>1. \A i \in DOMAIN d.chats :
        /\ c[i] \in Chat /\ c[i].conv = d.chats[i].conv
        /\ c[i].messages = d.chats[i].messages
        /\ c[i].title = d.chats[i].title
        /\ c[i].title_auto = d.chats[i].title_auto
  BY RowFacts DEF Chat
<1>2. DOMAIN c = DOMAIN d.chats /\ c \in [DOMAIN d.chats -> Chat]
  BY <1>1
<1>3. e = [d EXCEPT !.chats = c, !.folders = g]
  BY Zenon DEF FolderDeleted
<1> HIDE DEF c, e
<1>4. e.chats = c /\ e.fts = d.fts
      /\ e = [chats |-> c, fts |-> d.fts, folders |-> g]
  BY <1>3 DEF Store
<1>5. c \in Table(Chat)
  <2>1. DOMAIN d.chats \subseteq Id
    BY RowFacts
  <2> QED BY <1>2, <2>1 DEF Table
<1>6. e \in Store
  BY <1>4, <1>5 DEF Store
<1>7. Refiled(d, e)
  BY <1>1, <1>2, <1>4 DEF Refiled
<1> QED BY <1>6, <1>7 DEF e

LEMMA FolderAddedFacts ==
  \A d \in Store, f \in Folder :
    LET e == [d EXCEPT !.folders = @ \cup {f}]
    IN e \in Store /\ Refiled(d, e)
  BY DEF Store, Refiled

\* delete_chat
LEMMA DeletedFacts ==
  \A d \in Store, i \in Id, cut \in BOOLEAN :
    /\ Deleted(d, i, cut) \in Store
    /\ DOMAIN Deleted(d, i, cut).chats = DOMAIN d.chats \ {i}
    /\ \A j \in DOMAIN d.chats : j # i => Deleted(d, i, cut).chats[j] = d.chats[j]
    /\ StaysIn(d) => StaysIn(Deleted(d, i, cut))
    /\ Renames(d) => Renames(Deleted(d, i, cut))
    /\ ~cut /\ Indexes(d) => Indexes(Deleted(d, i, cut))
<1> TAKE d \in Store, i \in Id, cut \in BOOLEAN
<1> DEFINE e == Deleted(d, i, cut)
           c == Restrict(d.chats, DOMAIN d.chats \ {i})
           f == IF cut THEN d.fts ELSE Restrict(d.fts, DOMAIN d.fts \ {i})
<1>1. c \in Table(Chat) /\ f \in Table(Fts)
  BY RestrictTable DEF Store
<1>2. e = [d EXCEPT !.chats = c, !.fts = f]
  BY Zenon DEF Deleted
<1> HIDE DEF c, f, e
<1>3. e.chats = c /\ e.fts = f
      /\ e = [chats |-> c, fts |-> f, folders |-> d.folders]
  BY <1>2 DEF Store
<1>4. e \in Store
  BY <1>1, <1>3 DEF Store
<1>5. /\ DOMAIN e.chats = DOMAIN d.chats \ {i}
      /\ \A j \in DOMAIN e.chats : e.chats[j] = d.chats[j]
  BY <1>3 DEF c, Restrict
<1>6. ~cut => /\ DOMAIN e.fts = DOMAIN d.fts \ {i}
              /\ \A j \in DOMAIN e.fts : e.fts[j] = d.fts[j]
  BY <1>3 DEF f, Restrict
<1>7. ~cut /\ Indexes(d) => Indexes(e)
  BY <1>5, <1>6 DEF Indexes
<1>8. (StaysIn(d) => StaysIn(e)) /\ (Renames(d) => Renames(e))
  BY <1>5 DEF StaysIn, Renames
<1> QED BY <1>4, <1>5, <1>7, <1>8 DEF e

-----------------------------------------------------------------------------
(* The invariant, in parts *)

\* The types of every variable; what is held for a chat has its conversation,
\* and who waits for what.
Page == [chat : {None} \cup Id, conv : {None} \cup Conv, fresh : BOOLEAN]
Turn == [pc : {"none", "create", "created", "stream"}, chat : {None} \cup Id,
         conv : {None} \cup Conv, first : BOOLEAN, user : User \cup {NoUser}]
Ask == [chat : {None} \cup Id, conv : {None} \cup Conv]
Ui == [op : {"none", "new", "open", "delete", "sign_out", "remove"},
       pc : {"idle", "answer", "forget", "unlink", "leave"},
       user : User \cup {NoUser}, chat : {None} \cup Id, conv : {None} \cup Conv]
TypeInv ==
  /\ db \in [User -> Store]
  /\ conn \in [User -> {"none", "file", "gone"}]
  /\ user \in User \cup {NoUser}
  /\ page \in Page /\ turn \in Turn /\ title \in Ask /\ ui \in Ui
  /\ cmds \subseteq Command
  /\ IsFiniteSet(cmds) /\ Cardinality(cmds) <= MaxCmd
  /\ begun \in 0..MaxConv /\ wiped \subseteq Conv
Paired ==
  /\ page.chat # None => page.conv # None
  /\ turn.chat # None \/ turn.pc \in {"create", "created"} => turn.conv # None
  /\ turn.pc = "create" => turn.user \in User /\ turn.chat = None
  /\ title.chat # None => title.conv # None
  /\ ui.op \in {"new", "open"} /\ ui.chat # None => ui.conv # None
  /\ ui.pc = "answer" =>
       ui.op \in {"new", "open", "delete"} /\ ui.user = user /\ user \in User
  /\ ui.op \in {"new", "open", "delete"} => ui.pc = "answer"
  /\ ui.op = "delete" \/ ui.op = "open" => ui.chat # None
  /\ ui.pc \in {"forget", "unlink"} => ui.op = "remove" /\ ui.user \in User
  /\ ui.op = "remove" => ui.pc \in {"forget", "unlink", "leave"}
  /\ ui.pc \in {"forget", "unlink", "leave"} => user = NoUser

\* Chat i of account u is of conversation v.
Names(u, i, v) == i \in Ids(u) /\ db[u].chats[i].conv = v
\* Whatever the page holds of the signed-in account is that account's, and
\* names a chat by its conversation; a command left over from an account that
\* has gone can only reach a chat of its own conversation, or none.
Refs ==
  /\ turn.pc \in {"create", "created"} => user # NoUser
  /\ turn.pc = "create" => turn.user = user
  /\ user = NoUser /\ ui = Idle => page.chat = None
  /\ \A c \in cmds : c.chat \in Ids(c.user) => Names(c.user, c.chat, c.conv)
  /\ user # NoUser =>
       /\ \A c \in cmds : c.user = user /\ Names(user, c.chat, c.conv)
       /\ turn.chat # None => Names(user, turn.chat, turn.conv)
       /\ title.chat # None => Names(user, title.chat, title.conv)
       /\ page.chat # None => \/ Names(user, page.chat, page.conv)
                              \/ ui.op = "delete" /\ ui.chat = page.chat
       /\ ui.op \in {"new", "open"} /\ ui.chat # None =>
            Names(user, ui.chat, ui.conv)

\* Nothing is under way while an account is wiped, so its connection is not
\* opened again in between and its file goes.
Alone ==
  /\ ui.op = "remove" => cmds = {}
  /\ ui.pc = "unlink" => conn[ui.user] = "none"
  /\ \A u \in User : conn[u] # "gone"

\* A conversation is one chat of one account, and none that was wiped.
Unique ==
  /\ \A u, w \in User : \A i \in Ids(u), j \in Ids(w) :
       db[u].chats[i].conv = db[w].chats[j].conv => u = w /\ i = j
  /\ \A u \in User : \A i \in Ids(u) : db[u].chats[i].conv <= begun
  /\ \A v \in wiped : v <= begun
  /\ turn.pc = "create" =>
       /\ turn.conv <= begun /\ turn.conv \notin wiped
       /\ \A u \in User : \A i \in Ids(u) : db[u].chats[i].conv # turn.conv

-----------------------------------------------------------------------------
(* Types *)

LEMMA CutsAreBoolean == Cuts \subseteq BOOLEAN
  BY DEF Cuts

LEMMA TypeInit == Init => TypeInv /\ Paired
<1> SUFFICES ASSUME Init PROVE TypeInv /\ Paired
  OBVIOUS
<1>1. db \in [User -> Store]
  BY EmptyStore DEF Init
<1>2. IsFiniteSet(cmds) /\ Cardinality(cmds) = 0
  BY FS_EmptySet DEF Init
<1>3. page \in Page /\ turn \in Turn /\ title \in Ask /\ ui \in Ui
  BY DEF Init, Blank, NoTurn, NoAsk, Idle, Page, Turn, Ask, Ui
<1> QED
  BY <1>1, <1>2, <1>3, ConvAssumption
     DEF Init, TypeInv, Paired, Blank, NoTurn, NoAsk, Idle, None

LEMMA IssueFacts ==
  ASSUME TypeInv, NEW c, Issue(c), Cardinality(cmds) < MaxCmd,
         user # NoUser /\ c.chat # None => [c EXCEPT !.user = user] \in Command
  PROVE  /\ cmds' \subseteq Command
         /\ IsFiniteSet(cmds') /\ Cardinality(cmds') <= MaxCmd
<1>1. CASE cmds' = cmds
  BY <1>1 DEF TypeInv
<1>2. CASE user # NoUser /\ c.chat # None
  <2> DEFINE x == [c EXCEPT !.user = user]
  <2>1. cmds' = cmds \cup {x} /\ x \in Command
    BY <1>2 DEF Issue
  <2> HIDE DEF x
  <2>2. /\ IsFiniteSet(cmds \cup {x})
        /\ Cardinality(cmds \cup {x}) =
             IF x \in cmds THEN Cardinality(cmds) ELSE Cardinality(cmds) + 1
    BY FS_AddElement DEF TypeInv
  <2>3. Cardinality(cmds) \in Nat
    BY FS_CardinalityType DEF TypeInv
  <2> QED BY <2>1, <2>2, <2>3, ConvAssumption DEF TypeInv
<1> QED BY <1>1, <1>2 DEF Issue

LEMMA TypeStep ==
  ASSUME TypeInv, Paired, [Next]_vars
  PROVE  TypeInv' /\ Paired'
<1> USE DEF page_vars
<1>1. ASSUME NEW b \in BOOLEAN, Send(b) PROVE TypeInv' /\ Paired'
  <2>1. CASE page.chat = None /\ ~b
    <3>1. /\ begun < MaxConv /\ begun' = begun + 1 /\ cmds' = cmds
          /\ turn' = [pc |-> "create", chat |-> None, conv |-> begun + 1,
                      first |-> page.fresh, user |-> user]
      BY <1>1, <2>1 DEF Send
    <3>2. begun' \in Conv /\ begun' # None /\ begun' \in 0..MaxConv
      BY <3>1, ConvAssumption DEF TypeInv, Conv, None
    <3>3. turn' \in Turn
      BY <1>1, <3>1, <3>2 DEF Send, Turn, TypeInv, Page
    <3> QED BY <1>1, <3>1, <3>2, <3>3 DEF Send, TypeInv, Paired
  <2>2. CASE ~(page.chat = None /\ ~b)
    <3>1. /\ turn' = [pc |-> "stream", chat |-> page.chat, conv |-> page.conv,
                      first |-> page.fresh /\ ~b, user |-> NoUser]
          /\ begun' = begun
      BY <1>1, <2>2 DEF Send
    <3>2. turn' \in Turn
      BY <1>1, <3>1 DEF Send, Turn, TypeInv, Page
    <3>3. /\ cmds' \subseteq Command
          /\ IsFiniteSet(cmds') /\ Cardinality(cmds') <= MaxCmd
      <4>1. CASE cmds' = cmds
        BY <4>1 DEF TypeInv
      <4>2. CASE Issue(Append(page.chat, page.conv, "user"))
        <5> DEFINE c == Append(page.chat, page.conv, "user")
        <5>1. user # NoUser /\ c.chat # None => [c EXCEPT !.user = user] \in Command
          BY DEF TypeInv, Page, Paired, Command, Append, None
        <5> HIDE DEF c
        <5> QED BY <1>1, <4>2, <5>1, IssueFacts DEF Send, c
      <4> QED BY <1>1, <2>2, <4>1, <4>2 DEF Send
    <3> QED BY <1>1, <3>1, <3>2, <3>3 DEF Send, TypeInv, Paired
  <2> QED BY <2>1, <2>2
<1>2. ASSUME NEW b \in BOOLEAN, Finish(b) PROVE TypeInv' /\ Paired'
  <2>1. turn' = NoTurn /\ turn' \in Turn
    BY <1>2 DEF Finish, NoTurn, Turn
  <2>2. CASE b
    <3> DEFINE c == Append(turn.chat, turn.conv, "assistant")
    <3>1. user # NoUser /\ c.chat # None => [c EXCEPT !.user = user] \in Command
      BY DEF TypeInv, Turn, Paired, Command, Append, None
    <3> HIDE DEF c
    <3>2. /\ cmds' \subseteq Command
          /\ IsFiniteSet(cmds') /\ Cardinality(cmds') <= MaxCmd
      BY <1>2, <2>2, <3>1, IssueFacts DEF Finish, c
    <3>3. page' \in Page /\ page'.chat = page.chat /\ page'.conv = page.conv
      <4> DEFINE x == page.fresh /\ turn.chat # page.chat
      <4>1. page' = [page EXCEPT !.fresh = x]
        BY <1>2, <2>2 DEF Finish
      <4>2. x \in BOOLEAN
        OBVIOUS
      <4> HIDE DEF x
      <4> QED BY <4>1, <4>2 DEF TypeInv, Page
    <3>4. title' \in Ask /\ (title'.chat # None => title'.conv # None)
      BY <1>2, <2>2 DEF Finish, TypeInv, Turn, Ask, Paired
    <3> QED BY <1>2, <2>1, <3>2, <3>3, <3>4 DEF Finish, NoTurn, TypeInv, Paired
  <2>3. CASE ~b
    BY <1>2, <2>1, <2>3 DEF Finish, NoTurn, TypeInv, Paired
  <2> QED BY <2>2, <2>3
<1>3. ASSUME NEW b \in BOOLEAN, TitleAnswers(b) PROVE TypeInv' /\ Paired'
  <2>1. title' = NoAsk /\ title' \in Ask
    BY <1>3 DEF TitleAnswers, NoAsk, Ask
  <2>2. /\ cmds' \subseteq Command
        /\ IsFiniteSet(cmds') /\ Cardinality(cmds') <= MaxCmd
    <3>1. CASE b
      <4> DEFINE c == [op |-> "auto_title", user |-> user, chat |-> title.chat,
                       conv |-> title.conv, role |-> "assistant"]
      <4>1. user # NoUser /\ c.chat # None => [c EXCEPT !.user = user] \in Command
        BY DEF TypeInv, Ask, Paired, Command, None
      <4> HIDE DEF c
      <4> QED BY <1>3, <3>1, <4>1, IssueFacts DEF TitleAnswers, c
    <3>2. CASE ~b
      BY <1>3, <3>2 DEF TitleAnswers, TypeInv
    <3> QED BY <3>1, <3>2
  <2> QED BY <1>3, <2>1, <2>2 DEF TitleAnswers, NoAsk, TypeInv, Paired
<1>4. ASSUME NEW cut \in BOOLEAN, TurnCreate(cut) PROVE TypeInv' /\ Paired'
  <2> DEFINE u == turn.user
  <2>1. u \in User /\ turn.conv \in Conv
    BY <1>4 DEF TurnCreate, Paired, TypeInv, Turn, None
  <2>2. PICK i \in Id : /\ IsNewId(db[u], i)
                        /\ db' = [db EXCEPT ![u] = Created(@, i, turn.conv, cut)]
                        /\ turn' = [turn EXCEPT
                               !.pc = "created", !.user = NoUser,
                               !.chat = IF Indexed(db[u], i, cut) THEN i ELSE None]
    BY <1>4 DEF TurnCreate
  <2>3. db' \in [User -> Store]
    BY <2>1, <2>2, CreatedFacts DEF TypeInv
  <2>4. turn' \in Turn /\ turn'.pc = "created" /\ turn'.conv # None
    BY <1>4, <2>1, <2>2 DEF TypeInv, Turn, None, Paired, Conv, TurnCreate
  <2>5. conn' \in [User -> {"none", "file", "gone"}]
    BY <1>4 DEF TurnCreate, Opened, TypeInv
  <2> QED BY <1>4, <2>3, <2>4, <2>5 DEF TurnCreate, TypeInv, Paired
<1>5. ASSUME NEW cut \in BOOLEAN, NEW c \in cmds, Run(c, cut)
      PROVE  TypeInv' /\ Paired'
  <2>1. /\ c \in Command /\ c.user \in User /\ c.chat \in Id /\ c.conv \in Conv
        /\ [conv |-> c.conv, role |-> c.role] \in Said
    BY DEF TypeInv, Command, Said
  <2>2. db' \in [User -> Store]
    <3>1. CASE c.op = "append"
      <4> DEFINE said == [conv |-> c.conv, role |-> c.role]
      <4>1. db' = [db EXCEPT ![c.user] = Appended(@, c.chat, said, cut)]
        BY <1>5, <3>1 DEF Run
      <4> HIDE DEF said
      <4>2. db[c.user] \in Store
        BY <2>1 DEF TypeInv
      <4>3. Appended(db[c.user], c.chat, said, cut) \in Store
        <5>1. CASE c.chat \in DOMAIN db[c.user].chats
          <6>1. Keeps(db[c.user], Appended(db[c.user], c.chat, said, cut), cut)
            BY <2>1, <4>2, <5>1, AppendedFacts DEF said
          <6> QED BY <6>1 DEF Keeps
        <5>2. CASE c.chat \notin DOMAIN db[c.user].chats
          BY <2>1, <4>2, <5>2, AppendedToNone DEF said
        <5> QED BY <5>1, <5>2
      <4> QED BY <2>1, <4>1, <4>3 DEF TypeInv
    <3>2. CASE c.op # "append"
      <4>1. db' = [db EXCEPT ![c.user] = AutoTitled(@, c.chat, c.conv, cut)]
        BY <1>5, <3>2 DEF Run
      <4>2. Keeps(db[c.user], AutoTitled(db[c.user], c.chat, c.conv, cut), cut)
        BY <2>1, AutoTitledFacts DEF TypeInv
      <4> QED BY <2>1, <4>1, <4>2 DEF TypeInv, Keeps
    <3> QED BY <3>1, <3>2
  <2>3. conn' \in [User -> {"none", "file", "gone"}]
    BY <1>5 DEF Run, Opened, TypeInv
  <2>4. /\ cmds' \subseteq Command
        /\ IsFiniteSet(cmds') /\ Cardinality(cmds') <= MaxCmd
    <3>1. cmds' = cmds \ {c}
      BY <1>5 DEF Run
    <3>2. /\ IsFiniteSet(cmds \ {c})
          /\ Cardinality(cmds \ {c}) = Cardinality(cmds) - 1
      BY FS_RemoveElement DEF TypeInv
    <3>3. Cardinality(cmds) \in Nat
      BY FS_CardinalityType DEF TypeInv
    <3> QED BY <3>1, <3>2, <3>3, ConvAssumption DEF TypeInv
  <2> QED BY <1>5, <2>2, <2>3, <2>4 DEF Run, TypeInv, Paired
<1>6. ASSUME user # NoUser, NEW new \in Store, Operate(new), begun' \in 0..MaxConv,
             ui' \in Ui,
             \/ ui' = ui
             \/ /\ ui'.pc = "answer" /\ ui'.op \in {"new", "open", "delete"}
                /\ ui'.user = user
                /\ ui'.op \in {"open", "delete"} => ui'.chat # None
                /\ ui'.op \in {"new", "open"} => ui'.conv # None
      PROVE  TypeInv' /\ Paired'
  <2>1. db' \in [User -> Store] /\ user \in User
    BY <1>6 DEF Operate, TypeInv
  <2>2. conn' \in [User -> {"none", "file", "gone"}]
    BY <1>6 DEF Operate, Opened, TypeInv
  <2>3. TypeInv'
    BY <1>6, <2>1, <2>2 DEF Operate, TypeInv
  <2> QED BY <1>6, <2>1, <2>3 DEF Operate, Paired
<1>7. user # NoUser => user \in User /\ db[user] \in Store
  BY DEF TypeInv
<1>8. ASSUME user # NoUser, NEW cut \in BOOLEAN, NewChat(cut)
      PROVE  TypeInv' /\ Paired'
  <2>1. PICK i \in Id :
          /\ IsNewId(db[user], i)
          /\ begun < MaxConv /\ begun' = begun + 1
          /\ Operate(Created(db[user], i, begun', cut))
          /\ Answers("new", IF Indexed(db[user], i, cut) THEN i ELSE None, begun')
    BY <1>8 DEF NewChat
  <2>2. begun' \in Conv /\ begun' \in 0..MaxConv /\ begun' # None
    BY <2>1, ConvAssumption DEF TypeInv, Conv, None
  <2>3. Created(db[user], i, begun', cut) \in Store
    BY <1>7, <1>8, <2>1, <2>2, CreatedFacts
  <2>4. /\ ui' \in Ui /\ ui'.pc = "answer" /\ ui'.op = "new" /\ ui'.user = user
        /\ ui'.conv # None
    BY <1>7, <2>1, <2>2 DEF Answers, Ui, TypeInv
  <2> QED BY <1>6, <1>8, <2>1, <2>2, <2>3, <2>4
<1>9. ASSUME user # NoUser, NEW cut \in BOOLEAN, NEW i \in Id, Rename(i, cut)
      PROVE  TypeInv' /\ Paired'
  <2>1. Keeps(db[user], RenamedChat(db[user], i, cut), cut)
    BY <1>7, <1>9, RenamedFacts
  <2>2. RenamedChat(db[user], i, cut) \in Store
    BY <2>1 DEF Keeps
  <2> QED BY <1>6, <1>9, <2>2 DEF Rename, TypeInv
<1>10. ASSUME user # NoUser, NEW cut \in BOOLEAN, NEW i \in Id, Delete(i, cut)
       PROVE  TypeInv' /\ Paired'
  <2>1. Deleted(db[user], i, cut) \in Store
    BY <1>7, <1>10, DeletedFacts
  <2>2. /\ ui' \in Ui /\ ui'.pc = "answer" /\ ui'.op = "delete"
        /\ ui'.user = user /\ ui'.chat # None
    BY <1>7, <1>10 DEF Delete, Answers, Ui, TypeInv, Id, None
  <2> QED BY <1>6, <1>10, <2>1, <2>2 DEF Delete, TypeInv
<1>11. ASSUME user # NoUser, NEW cut \in BOOLEAN, NEW f \in Folder,
              DeleteFolder(f, cut)
       PROVE  TypeInv' /\ Paired'
  <2>1. FolderDeleted(db[user], f, cut) \in Store
    BY <1>7, <1>11, FolderDeletedFacts
  <2> QED BY <1>6, <1>11, <2>1 DEF DeleteFolder, TypeInv
<1>12. ASSUME user # NoUser, NEW f \in Folder, CreateFolder(f)
       PROVE  TypeInv' /\ Paired'
  <2> DEFINE e == [db[user] EXCEPT !.folders = @ \cup {f}]
  <2>1. e \in Store
    BY <1>7, <1>12, FolderAddedFacts
  <2>2. Operate(e) /\ UNCHANGED <<ui, begun>>
    BY <1>12 DEF CreateFolder
  <2> HIDE DEF e
  <2> QED BY <1>6, <1>12, <2>1, <2>2 DEF TypeInv
<1>13. ASSUME user # NoUser, NEW i \in Id, Open(i) PROVE TypeInv' /\ Paired'
  <2>1. db[user].chats[i].conv \in Conv
    BY <1>7, <1>13, RowFacts DEF Open, Ids
  <2>2. /\ ui' \in Ui /\ ui'.pc = "answer" /\ ui'.op = "open" /\ ui'.user = user
        /\ ui'.chat # None /\ ui'.conv # None
    BY <1>7, <1>13, <2>1 DEF Open, Answers, Ui, TypeInv, Id, Conv, None
  <2> QED BY <1>6, <1>7, <1>13, <2>2 DEF Open, TypeInv
<1>14. ASSUME user # NoUser, NEW i \in Id, NEW folder \in SUBSET Folder,
              Move(i, folder)
       PROVE  TypeInv' /\ Paired'
  <2>1. Moved(db[user], i, folder) \in Store
    BY <1>7, <1>14, MovedFacts
  <2> QED BY <1>6, <1>14, <2>1 DEF Move, TypeInv
<1>15. ASSUME TurnCreated PROVE TypeInv' /\ Paired'
  <2> DEFINE c == Append(turn.chat, turn.conv, "user")
  <2>1. user # NoUser /\ c.chat # None => [c EXCEPT !.user = user] \in Command
    BY DEF TypeInv, Turn, Paired, Command, Append, None
  <2> HIDE DEF c
  <2>2. /\ cmds' \subseteq Command
        /\ IsFiniteSet(cmds') /\ Cardinality(cmds') <= MaxCmd
    BY <1>15, <2>1, IssueFacts DEF TurnCreated, c
  <2>3. page' \in Page /\ (page'.chat # None => page'.conv # None)
    BY <1>15 DEF TurnCreated, TypeInv, Page, Turn, Paired
  <2>4. /\ turn' \in Turn /\ turn'.pc = "stream" /\ turn'.chat = turn.chat
        /\ turn'.conv = turn.conv
    BY <1>15 DEF TurnCreated, TypeInv, Turn
  <2> QED BY <1>15, <2>2, <2>3, <2>4 DEF TurnCreated, TypeInv, Paired
<1>16. ASSUME UiAnswer PROVE TypeInv' /\ Paired'
  <2>1. ui' = Idle /\ Idle \in Ui
    BY <1>16 DEF UiAnswer, Idle, Ui
  <2>2. page' \in Page /\ (page'.chat # None => page'.conv # None)
    <3>1. CASE ui.op = "new"
      BY <1>16, <3>1 DEF UiAnswer, TypeInv, Ui, Page, Paired, Blank
    <3>2. CASE ui.op = "open"
      <4>1. page' = [chat |-> ui.chat, conv |-> ui.conv,
                     fresh |-> \A s \in db[ui.user].chats[ui.chat].messages :
                                 s.role = "user"]
        BY <1>16, <3>2 DEF UiAnswer
      <4> DEFINE b == \A s \in db[ui.user].chats[ui.chat].messages : s.role = "user"
      <4>2. b \in BOOLEAN
        OBVIOUS
      <4> HIDE DEF b
      <4>3. page' = [chat |-> ui.chat, conv |-> ui.conv, fresh |-> b]
        BY <4>1 DEF b
      <4> QED BY <3>2, <4>2, <4>3 DEF TypeInv, Ui, Page, Paired
    <3>3. CASE ui.op \notin {"new", "open"}
      <4>1. page' = Blank \/ page' = page
        BY <1>16, <3>3 DEF UiAnswer
      <4>2. Blank \in Page /\ Blank.chat = None
        BY DEF Page, Blank
      <4> QED BY <4>1, <4>2 DEF TypeInv, Paired
    <3> QED BY <3>1, <3>2, <3>3
  <2> QED BY <1>16, <2>1, <2>2 DEF UiAnswer, TypeInv, Paired, Idle
<1>17. ASSUME Forget PROVE TypeInv' /\ Paired'
  <2>1. conn' \in [User -> {"none", "file", "gone"}]
    BY <1>17 DEF Forget, TypeInv
  <2>2. ui' \in Ui /\ ui'.pc = "unlink" /\ ui'.op = ui.op /\ ui'.user = ui.user
    BY <1>17 DEF Forget, TypeInv, Ui
  <2> QED BY <1>17, <2>1, <2>2 DEF Forget, TypeInv, Paired
<1>18. ASSUME Unlink PROVE TypeInv' /\ Paired'
  <2>1. ui' \in Ui /\ ui'.pc = "leave" /\ ui'.op = ui.op /\ ui'.user = ui.user
    BY <1>18 DEF Unlink, TypeInv, Ui
  <2>2. db' \in [User -> Store]
    BY <1>18, EmptyStore DEF Unlink, TypeInv
  <2>3. conn' \in [User -> {"none", "file", "gone"}]
    BY <1>18 DEF Unlink, TypeInv
  <2>4. wiped' \subseteq Conv
    <3>1. ui.user \in User
      BY <1>18 DEF Unlink, Paired
    <3>2. {db[ui.user].chats[i].conv : i \in Ids(ui.user)} \subseteq Conv
      BY <3>1, RowFacts DEF TypeInv, Ids
    <3> QED BY <1>18, <3>2 DEF Unlink, TypeInv
  <2> QED BY <1>18, <2>1, <2>2, <2>3, <2>4 DEF Unlink, TypeInv, Paired
<1>19. ASSUME Leave PROVE TypeInv' /\ Paired'
  <2>1. page' \in Page /\ ui' \in Ui /\ page'.chat = None
    BY <1>19 DEF Leave, Blank, Idle, Page, Ui
  <2> QED BY <1>19, <2>1 DEF Leave, TypeInv, Paired, Idle
<1>20. ASSUME Exit PROVE TypeInv' /\ Paired'
  <2>1. db' \in [User -> Store]
    BY <1>20, EmptyStore DEF Exit, TypeInv
  <2>2. IsFiniteSet(cmds') /\ Cardinality(cmds') = 0
    BY <1>20, FS_EmptySet DEF Exit
  <2>3. page' \in Page /\ turn' \in Turn /\ title' \in Ask /\ ui' \in Ui
    BY <1>20 DEF Exit, Blank, NoTurn, NoAsk, Idle, Page, Turn, Ask, Ui
  <2>4. Paired'
    BY <1>20 DEF Exit, Paired, Blank, NoTurn, NoAsk, Idle, None
  <2> QED BY <1>20, <2>1, <2>2, <2>3, <2>4, ConvAssumption DEF Exit, TypeInv
<1>21. ASSUME NEW u \in User, SignIn(u) PROVE TypeInv' /\ Paired'
  BY <1>21 DEF SignIn, TypeInv, Paired, Idle
<1>22. ASSUME NEW op \in {"sign_out", "remove"}, SignOut(op)
       PROVE  TypeInv' /\ Paired'
  <2>1. /\ ui' \in Ui /\ ui'.op = op /\ ui'.user = user
        /\ ui'.pc = IF op = "remove" THEN "forget" ELSE "leave"
    BY <1>22 DEF SignOut, Idle, Ui, TypeInv
  <2> QED BY <1>22, <2>1 DEF SignOut, TypeInv, Paired
<1>23. CASE UNCHANGED vars
  BY <1>23 DEF vars, TypeInv, Paired
<1> QED
  BY <1>1, <1>2, <1>3, <1>4, <1>5, <1>8, <1>9, <1>10, <1>11, <1>12, <1>13, <1>14,
     <1>15, <1>16, <1>17, <1>18, <1>19, <1>20, <1>21, <1>22, <1>23, CutsAreBoolean
     DEF Next

-----------------------------------------------------------------------------
(* What a step may do to the databases *)

\* Every account keeps its chats, by their ids, and no other is added.
Quiet(cut) ==
  \A w \in User : Keeps(db[w], db'[w], cut) /\ SameIds(db[w], db'[w])
\* A command that the page sent without waiting for it.
Runs(cut) == \E c \in cmds : Run(c, cut)
\* A new chat of u, for the conversation v.
Makes(u, i, v, cut) ==
  /\ IsNewId(db[u], i)
  /\ db' = [db EXCEPT ![u] = Created(db[u], i, v, cut)]
  /\ wiped' = wiped
  /\ \/ turn.pc = "create" /\ turn.conv = v /\ turn'.pc = "created" /\ begun' = begun
     \/ v = begun + 1 /\ begun' = begun + 1 /\ turn' = turn
\* The user deletes one.
Drops(i, cut) ==
  /\ user \in User /\ ui = Idle /\ Delete(i, cut)
  /\ db' = [db EXCEPT ![user] = Deleted(db[user], i, cut)]
  /\ ui'.op = "delete" /\ ui'.user = user /\ ui'.chat = i

LEMMA KeepsItself ==
  \A d \in Store, cut \in BOOLEAN : Keeps(d, d, cut) /\ SameIds(d, d)
  BY DEF Keeps, Grows, SameIds

LEMMA RunFacts ==
  ASSUME TypeInv, NEW cut \in BOOLEAN, NEW c \in cmds, Run(c, cut)
  PROVE  /\ Quiet(cut)
         /\ \A w \in User :
              /\ StaysIn(db[w])
              /\ c.chat \in Ids(c.user) => Names(c.user, c.chat, c.conv)
              => StaysIn(db'[w])
<1>1. /\ c \in Command /\ c.user \in User /\ c.chat \in Id /\ c.conv \in Conv
      /\ [conv |-> c.conv, role |-> c.role] \in Said
  BY DEF TypeInv, Command, Said
<1> PICK d \in Store : d = db[c.user]
  BY <1>1 DEF TypeInv
<1>2. \A w \in User : db[w] \in Store
  BY DEF TypeInv
<1> DEFINE said == [conv |-> c.conv, role |-> c.role]
           e == db'[c.user]
<1>3. /\ Keeps(d, e, cut) /\ SameIds(d, e)
      /\ StaysIn(d) /\ (c.chat \in DOMAIN d.chats => d.chats[c.chat].conv = c.conv)
         => StaysIn(e)
  <2>1. CASE c.op = "append"
    <3>0. db' = [db EXCEPT ![c.user] = Appended(@, c.chat, said, cut)]
      BY <2>1 DEF Run
    <3>1. e = Appended(d, c.chat, said, cut)
      BY <1>1, <3>0 DEF TypeInv
    <3>2. said.conv = c.conv
      OBVIOUS
    <3> HIDE DEF said, e
    <3>3. CASE c.chat \in DOMAIN d.chats
      <4>1. Keeps(d, e, cut) /\ SameIds(d, e)
        BY <1>1, <3>1, <3>3, AppendedFacts DEF said
      <4>2. StaysIn(d) /\ d.chats[c.chat].conv = said.conv => StaysIn(e)
        BY <1>1, <3>1, <3>3, AppendedFacts DEF said
      <4> QED BY <3>2, <3>3, <4>1, <4>2
    <3>4. CASE c.chat \notin DOMAIN d.chats
      BY <1>1, <3>1, <3>4, AppendedToNone, KeepsItself DEF said
    <3> QED BY <3>3, <3>4
  <2>2. CASE c.op # "append"
    <3>0. db' = [db EXCEPT ![c.user] = AutoTitled(@, c.chat, c.conv, cut)]
      BY <2>2 DEF Run
    <3>1. e = AutoTitled(d, c.chat, c.conv, cut)
      BY <1>1, <3>0 DEF TypeInv
    <3> HIDE DEF e
    <3> QED BY <1>1, <3>1, AutoTitledFacts
  <2> QED BY <2>1, <2>2
<1>4. \A w \in User : w # c.user => db'[w] = db[w]
  BY <1>1 DEF Run, TypeInv
<1> HIDE DEF e, said
<1>5. Quiet(cut)
  BY <1>2, <1>3, <1>4, KeepsItself DEF Quiet, e
<1>6. ASSUME NEW w \in User, StaysIn(db[w]),
             c.chat \in Ids(c.user) => Names(c.user, c.chat, c.conv)
      PROVE  StaysIn(db'[w])
  BY <1>3, <1>4, <1>6 DEF e, Ids, Names
<1> QED BY <1>5, <1>6

LEMMA OperateFacts ==
  ASSUME TypeInv, user # NoUser, NEW new, NEW cut \in BOOLEAN, Operate(new),
         Keeps(db[user], new, cut), SameIds(db[user], new),
         StaysIn(db[user]) => StaysIn(new)
  PROVE  /\ Quiet(cut)
         /\ \A w \in User : StaysIn(db[w]) => StaysIn(db'[w])
<1>1. user \in User
  BY DEF TypeInv
<1>2. db'[user] = new /\ \A w \in User : w # user => db'[w] = db[w]
  BY <1>1 DEF Operate, TypeInv
<1>3. \A w \in User : db[w] \in Store
  BY DEF TypeInv
<1>4. Quiet(cut)
  BY <1>2, <1>3, KeepsItself DEF Quiet
<1> QED BY <1>2, <1>4

\* The user's commands that leave every chat where it is.
Edits(cut) ==
  \/ \E i \in Id : Rename(i, cut) \/ Open(i)
  \/ \E f \in Folder : DeleteFolder(f, cut) \/ CreateFolder(f)
  \/ \E i \in Id, folder \in SUBSET Folder : Move(i, folder)
LEMMA EditFacts ==
  ASSUME TypeInv, user # NoUser, NEW cut \in BOOLEAN, Edits(cut)
  PROVE  /\ Quiet(cut)
         /\ \A w \in User : StaysIn(db[w]) => StaysIn(db'[w])
<1> DEFINE Goal == /\ Quiet(cut)
                   /\ \A w \in User : StaysIn(db[w]) => StaysIn(db'[w])
<1>1. user \in User /\ db[user] \in Store
  BY DEF TypeInv
<1>2. ASSUME NEW i \in Id, Rename(i, cut) PROVE Goal
  <2>1. /\ Keeps(db[user], RenamedChat(db[user], i, cut), cut)
        /\ SameIds(db[user], RenamedChat(db[user], i, cut))
        /\ StaysIn(db[user]) => StaysIn(RenamedChat(db[user], i, cut))
    BY <1>1, RenamedFacts
  <2>2. Operate(RenamedChat(db[user], i, cut))
    BY <1>2 DEF Rename
  <2> QED BY <2>1, <2>2, OperateFacts
<1>3. ASSUME NEW e \in Store, Operate(e), Refiled(db[user], e) PROVE Goal
  <2>1. Keeps(db[user], e, cut) /\ (StaysIn(db[user]) => StaysIn(e))
    BY <1>1, <1>3, RefiledFacts
  <2>2. SameIds(db[user], e)
    BY <1>3 DEF Refiled, SameIds
  <2> QED BY <1>3, <2>1, <2>2, OperateFacts
<1> HIDE DEF Goal
<1>4. ASSUME NEW f \in Folder, DeleteFolder(f, cut) PROVE Goal
  <2>1. /\ FolderDeleted(db[user], f, cut) \in Store
        /\ Refiled(db[user], FolderDeleted(db[user], f, cut))
    BY <1>1, FolderDeletedFacts
  <2> QED BY <1>3, <1>4, <2>1 DEF DeleteFolder
<1>5. ASSUME NEW f \in Folder, CreateFolder(f) PROVE Goal
  <2> DEFINE e == [db[user] EXCEPT !.folders = @ \cup {f}]
  <2>1. e \in Store /\ Refiled(db[user], e)
    BY <1>1, FolderAddedFacts
  <2>2. Operate(e)
    BY <1>5 DEF CreateFolder
  <2> HIDE DEF e
  <2> QED BY <1>3, <2>1, <2>2
<1>6. ASSUME NEW i \in Id, NEW folder \in SUBSET Folder, Move(i, folder) PROVE Goal
  <2>1. /\ Moved(db[user], i, folder) \in Store
        /\ Refiled(db[user], Moved(db[user], i, folder))
    BY <1>1, MovedFacts
  <2> QED BY <1>3, <1>6, <2>1 DEF Move
<1>7. ASSUME NEW i \in Id, Open(i) PROVE Goal
  <2>1. Operate(db[user])
    BY <1>7 DEF Open
  <2>2. Refiled(db[user], db[user])
    BY DEF Refiled
  <2> QED BY <1>1, <1>3, <2>1, <2>2
<1>8. Goal
  BY <1>2, <1>4, <1>5, <1>6, <1>7 DEF Edits
<1> QED BY <1>8 DEF Goal

\* Every step: it keeps all the chats, or makes one, drops one at the user's
\* wish, wipes an account, or ends the app.
LEMMA StepKinds ==
  ASSUME TypeInv, Paired, [Next]_vars
  PROVE  \/ \E cut \in Cuts :
              /\ Quiet(cut)
              /\ \/ Runs(cut)
                 \/ \A w \in User : StaysIn(db[w]) => StaysIn(db'[w])
         \/ \E u \in User, i \in Id, v \in Conv, cut \in Cuts : Makes(u, i, v, cut)
         \/ \E i \in Id, cut \in Cuts : Drops(i, cut)
         \/ Unlink
         \/ Exit
<1> USE DEF page_vars
<1> DEFINE Kind1 == \E cut \in Cuts :
              /\ Quiet(cut)
              /\ \/ Runs(cut)
                 \/ \A w \in User : StaysIn(db[w]) => StaysIn(db'[w])
           Kind2 == \E u \in User, i \in Id, v \in Conv, cut \in Cuts : Makes(u, i, v, cut)
           Kind3 == \E i \in Id, cut \in Cuts : Drops(i, cut)
<1>0. FALSE \in Cuts /\ Cuts \subseteq BOOLEAN
  BY DEF Cuts
<1>1. ASSUME db' = db PROVE Kind1
  <2>1. \A w \in User : db[w] \in Store
    BY DEF TypeInv
  <2>2. Quiet(FALSE)
    BY <1>0, <1>1, <2>1, KeepsItself DEF Quiet
  <2> QED BY <1>0, <1>1, <2>2
<1>2. user # NoUser => user \in User /\ db[user] \in Store
  BY DEF TypeInv
<1>3. ASSUME user # NoUser, NEW cut \in Cuts, Edits(cut) PROVE Kind1
  BY <1>0, <1>3, EditFacts
<1>4. ASSUME NEW cut \in Cuts, TurnCreate(cut) PROVE Kind2
  <2>1. turn.user \in User /\ turn.conv \in Conv
    BY <1>4 DEF TurnCreate, Paired, TypeInv, Turn, None
  <2>2. PICK i \in Id :
           /\ IsNewId(db[turn.user], i)
           /\ db' = [db EXCEPT ![turn.user] = Created(@, i, turn.conv, cut)]
           /\ turn' = [turn EXCEPT
                !.pc = "created", !.user = NoUser,
                !.chat = IF Indexed(db[turn.user], i, cut) THEN i ELSE None]
    BY <1>4 DEF TurnCreate
  <2>3. turn'.pc = "created"
    BY <2>2 DEF TypeInv, Turn
  <2>4. Makes(turn.user, i, turn.conv, cut)
    BY <1>4, <2>1, <2>2, <2>3 DEF Makes, TurnCreate, TypeInv
  <2> QED BY <1>4, <2>1, <2>4
<1>5. ASSUME NEW cut \in Cuts, NEW c \in cmds, Run(c, cut) PROVE Kind1
  <2>1. Quiet(cut)
    BY <1>0, <1>5, RunFacts
  <2>2. Runs(cut)
    BY <1>5 DEF Runs
  <2> QED BY <1>5, <2>1, <2>2
<1>6. ASSUME user # NoUser, NEW cut \in Cuts, NewChat(cut) PROVE Kind2
  <2>1. PICK i \in Id :
          /\ IsNewId(db[user], i)
          /\ begun < MaxConv /\ begun' = begun + 1
          /\ Operate(Created(db[user], i, begun', cut))
    BY <1>6 DEF NewChat
  <2>2. begun' \in Conv
    BY <2>1, ConvAssumption DEF TypeInv, Conv
  <2>3. Makes(user, i, begun', cut)
    BY <1>2, <1>6, <2>1 DEF Makes, Operate, TypeInv
  <2> QED BY <1>2, <1>6, <2>2, <2>3
<1>8. ASSUME user # NoUser, NEW cut \in Cuts, NEW i \in Id, Delete(i, cut)
      PROVE  Kind3
  <2>1. Drops(i, cut)
    BY <1>2, <1>8 DEF Drops, Delete, Operate, Answers
  <2> QED BY <1>8, <2>1
<1> HIDE DEF Kind1, Kind2, Kind3
<1>14. ASSUME \/ \E b \in BOOLEAN : Send(b) \/ Finish(b) \/ TitleAnswers(b)
              \/ TurnCreated \/ UiAnswer \/ Forget \/ Leave
              \/ \E u \in User : SignIn(u)
              \/ \E op \in {"sign_out", "remove"} : SignOut(op)
              \/ UNCHANGED vars
       PROVE  Kind1
  <2>1. db' = db
    BY <1>14 DEF Send, Finish, TitleAnswers, TurnCreated, UiAnswer, Forget, Leave,
                 SignIn, SignOut, vars
  <2> QED BY <1>1, <2>1
<1> QED
  <2>1. Kind1 \/ Kind2 \/ Kind3 \/ Unlink \/ Exit
    BY <1>0, <1>3, <1>4, <1>5, <1>6, <1>8, <1>14 DEF Next, Edits
  <2> QED BY <2>1 DEF Kind1, Kind2, Kind3

-----------------------------------------------------------------------------
(* Titles and the full-text index *)

LEMMA StoresStay ==
  ASSUME TypeInv, Paired, [Next]_vars
  PROVE  \A u \in User : \/ \E cut \in Cuts : Keeps(db[u], db'[u], cut)
                         \/ \E i \in Id, cut \in Cuts : db'[u] = Deleted(db[u], i, cut)
                         \/ db'[u] = Empty \/ db'[u] = db[u]
<1>1. \A u \in User : db[u] \in Store
  BY DEF TypeInv
<1>2. CASE \E cut \in Cuts : Quiet(cut)
  BY <1>2 DEF Quiet
<1>3. ASSUME NEW u \in User, NEW i \in Id, NEW v \in Conv, NEW cut \in Cuts,
             Makes(u, i, v, cut)
      PROVE  \A w \in User : Keeps(db[w], db'[w], cut) \/ db'[w] = db[w]
  <2>1. db'[u] = Created(db[u], i, v, cut) /\ \A w \in User : w # u => db'[w] = db[w]
    BY <1>3 DEF Makes, TypeInv
  <2>2. Keeps(db[u], Created(db[u], i, v, cut), cut)
    BY <1>1, <1>3, CreatedFacts, CutsAreBoolean DEF Keeps, Makes
  <2> QED BY <2>1, <2>2
<1>4. ASSUME NEW i \in Id, NEW cut \in Cuts, Drops(i, cut)
      PROVE  \A w \in User : db'[w] = Deleted(db[w], i, cut) \/ db'[w] = db[w]
  BY <1>4 DEF Drops, TypeInv
<1>5. ASSUME Unlink PROVE \A w \in User : db'[w] = Empty \/ db'[w] = db[w]
  BY <1>5 DEF Unlink, TypeInv
<1>6. ASSUME Exit PROVE \A w \in User : db'[w] = Empty \/ db'[w] = db[w]
  BY <1>6 DEF Exit
<1> QED BY <1>2, <1>3, <1>4, <1>5, <1>6, StepKinds

LEMMA RenameStep ==
  ASSUME TypeInv, Paired, [Next]_vars, RenameWins PROVE RenameWins'
<1>1. \A u \in User : db[u] \in Store /\ Renames(db[u])
  BY DEF TypeInv, RenameWins, Renames, Ids
<1>2. ASSUME NEW u \in User PROVE Renames(db'[u])
  <2>1. \A cut \in Cuts : Keeps(db[u], db'[u], cut) => Renames(db'[u])
    BY <1>1 DEF Keeps
  <2>2. \A i \in Id, cut \in Cuts :
          db'[u] = Deleted(db[u], i, cut) => Renames(db'[u])
    BY <1>1, CutsAreBoolean, DeletedFacts
  <2> QED BY <1>1, <2>1, <2>2, StoresStay, EmptyStore
<1> QED BY <1>2 DEF RenameWins, Renames, Ids

LEMMA IndexStep ==
  ASSUME "cut" \notin Beyond, TypeInv, Paired, [Next]_vars, IndexMatches
  PROVE  IndexMatches'
<1>1. \A u \in User : db[u] \in Store /\ Indexes(db[u])
  BY DEF TypeInv, IndexMatches, Indexes, Ids
<1>2. \A cut \in Cuts : cut \in BOOLEAN /\ ~cut
  BY DEF Cuts
<1>3. ASSUME NEW u \in User PROVE Indexes(db'[u])
  <2>1. \A cut \in Cuts : Keeps(db[u], db'[u], cut) => Indexes(db'[u])
    BY <1>1, <1>2 DEF Keeps
  <2>2. \A i \in Id, cut \in Cuts :
          db'[u] = Deleted(db[u], i, cut) => Indexes(db'[u])
    BY <1>1, <1>2, DeletedFacts
  <2> QED BY <1>1, <2>1, <2>2, StoresStay, EmptyStore
<1> QED BY <1>3 DEF IndexMatches, Indexes, Ids

LEMMA DatabasesEmpty ==
  Init => RenameWins /\ IndexMatches /\ TurnsStay /\ WipedIsGone
<1>1. DOMAIN << >> = {}
  OBVIOUS
<1> QED BY <1>1 DEF Init, Empty, Ids, RenameWins, IndexMatches, TurnsStay, WipedIsGone

\* Every variable keeps its type, whatever the run goes beyond.
THEOREM TypesHold == Spec => [](TypeInv /\ Paired)
<1>1. Init => TypeInv /\ Paired
  BY TypeInit
<1>2. TypeInv /\ Paired /\ [Next]_vars => (TypeInv /\ Paired)'
  BY TypeStep
<1> QED BY <1>1, <1>2, PTL DEF Spec

\* RenameWins: a title the user gave is never replaced by a generated one,
\* whichever commands are cut short, outlive their chat or come late.
THEOREM RenameHolds == Spec => []RenameWins
<1>1. Init => RenameWins
  BY DatabasesEmpty
<1>2. TypeInv /\ Paired /\ RenameWins /\ [Next]_vars => RenameWins'
  BY RenameStep
<1> QED BY <1>1, <1>2, TypesHold, PTL DEF Spec

\* IndexMatches: unless a command is cut short between its statements, the
\* full-text index says of every chat what the chat says.
THEOREM IndexHolds == "cut" \notin Beyond => (Spec => []IndexMatches)
<1> SUFFICES ASSUME "cut" \notin Beyond PROVE Spec => []IndexMatches
  OBVIOUS
<1>1. Init => IndexMatches
  BY DatabasesEmpty
<1>2. TypeInv /\ Paired /\ IndexMatches /\ [Next]_vars => IndexMatches'
  BY IndexStep
<1> QED BY <1>1, <1>2, TypesHold, PTL DEF Spec

-----------------------------------------------------------------------------
(* Wipes *)

LEMMA AloneInit == Init => Alone
  BY DEF Init, Alone, Idle

LEMMA AloneStep ==
  ASSUME "outlive" \notin Beyond, "late" \notin Beyond,
         TypeInv, Paired, Refs, Alone, [Next]_vars
  PROVE  Alone'
<1> USE DEF page_vars
<1>1. ASSUME user # NoUser PROVE ui.op # "remove" /\ ui.pc # "unlink"
  BY <1>1 DEF Paired
<1>2. ASSUME NEW u \in User, Opened(u) PROVE \A w \in User : conn'[w] # "gone"
  BY <1>2 DEF Opened, Alone, TypeInv
<1>3. ASSUME user # NoUser, ui' = ui, \A w \in User : conn'[w] # "gone"
      PROVE  Alone'
  BY <1>1, <1>3 DEF Alone
<1>4. ASSUME NEW c, Issue(c), UNCHANGED <<ui, conn>> PROVE Alone'
  <2>1. CASE user = NoUser
    BY <1>4, <2>1 DEF Issue, Alone
  <2>2. CASE user # NoUser
    BY <1>3, <1>4, <2>2 DEF Alone
  <2> QED BY <2>1, <2>2
<1>5. ASSUME UNCHANGED <<ui, conn, cmds>> PROVE Alone'
  BY <1>5 DEF Alone
<1>6. ASSUME NEW b \in BOOLEAN, Send(b) PROVE Alone'
  BY <1>3, <1>6 DEF Send, Alone
<1>7. ASSUME NEW b \in BOOLEAN, Finish(b) PROVE Alone'
  <2>1. CASE b
    BY <1>4, <1>7, <2>1 DEF Finish
  <2>2. CASE ~b
    BY <1>5, <1>7, <2>2 DEF Finish
  <2> QED BY <2>1, <2>2
<1>8. ASSUME NEW b \in BOOLEAN, TitleAnswers(b) PROVE Alone'
  <2>1. CASE b
    BY <1>4, <1>8, <2>1 DEF TitleAnswers
  <2>2. CASE ~b
    BY <1>5, <1>8, <2>2 DEF TitleAnswers
  <2> QED BY <2>1, <2>2
<1>9. ASSUME NEW cut \in BOOLEAN, TurnCreate(cut) PROVE Alone'
  <2>1. user # NoUser /\ turn.user \in User /\ ui' = ui
    BY <1>9 DEF TurnCreate, Refs, Paired
  <2>2. \A w \in User : conn'[w] # "gone"
    BY <1>2, <1>9, <2>1 DEF TurnCreate
  <2> QED BY <1>3, <2>1, <2>2
<1>10. ASSUME NEW cut \in BOOLEAN, NEW c \in cmds, Run(c, cut) PROVE Alone'
  <2>1. ui.op # "remove" /\ ui.pc # "unlink" /\ ui' = ui
    BY <1>10 DEF Alone, Paired, Run
  <2>2. c.user \in User
    BY DEF TypeInv, Command
  <2>3. \A w \in User : conn'[w] # "gone"
    BY <1>2, <1>10, <2>2 DEF Run
  <2> QED BY <2>1, <2>3 DEF Alone
<1>11. ASSUME user # NoUser, Opened(user), cmds' = cmds,
              ui' = ui \/ (ui'.op \in {"new", "open", "delete"} /\ ui'.pc = "answer")
       PROVE  Alone'
  <2>1. \A w \in User : conn'[w] # "gone"
    BY <1>2, <1>11 DEF TypeInv
  <2> QED BY <1>3, <1>11, <2>1 DEF Alone
<1>12. ASSUME user # NoUser, NEW cut \in BOOLEAN,
              \/ NewChat(cut)
              \/ \E i \in Id : Rename(i, cut) \/ Delete(i, cut)
              \/ \E f \in Folder : DeleteFolder(f, cut)
       PROVE  Alone'
  <2>1. /\ Opened(user) /\ cmds' = cmds
        /\ ui' = ui \/ (ui'.op \in {"new", "open", "delete"} /\ ui'.pc = "answer")
    BY <1>12 DEF NewChat, Rename, Delete, DeleteFolder, Answers, Operate
  <2> QED BY <1>11, <1>12, <2>1
<1>13. ASSUME user # NoUser,
              \/ \E f \in Folder : CreateFolder(f)
              \/ \E i \in Id : Open(i)
              \/ \E i \in Id, folder \in SUBSET Folder : Move(i, folder)
       PROVE  Alone'
  <2>1. /\ Opened(user) /\ cmds' = cmds
        /\ ui' = ui \/ (ui'.op \in {"new", "open", "delete"} /\ ui'.pc = "answer")
    BY <1>13 DEF CreateFolder, Open, Move, Answers, Operate
  <2> QED BY <1>11, <1>13, <2>1
<1>14. ASSUME TurnCreated PROVE Alone'
  BY <1>4, <1>14 DEF TurnCreated
<1>15. ASSUME UiAnswer PROVE Alone'
  BY <1>15 DEF UiAnswer, Idle, Alone
<1>16. ASSUME Forget PROVE Alone'
  <2>1. ui.user \in User /\ conn' = [conn EXCEPT ![ui.user] = "none"]
    BY <1>16 DEF Forget, Paired
  <2>2. ui'.op = ui.op /\ ui'.user = ui.user
    BY <1>16 DEF Forget, TypeInv, Ui
  <2> QED BY <1>16, <2>1, <2>2 DEF Forget, Alone, TypeInv
<1>17. ASSUME Unlink PROVE Alone'
  <2>1. ui.user \in User /\ conn[ui.user] = "none"
    BY <1>17 DEF Unlink, Paired, Alone
  <2>2. conn' = [conn EXCEPT ![ui.user] = "file"]
    BY <1>17, <2>1 DEF Unlink
  <2>3. ui'.op = ui.op /\ ui'.pc = "leave" /\ cmds' = cmds
    BY <1>17 DEF Unlink, TypeInv, Ui
  <2> QED BY <2>1, <2>2, <2>3 DEF Alone, TypeInv
<1>18. ASSUME Leave PROVE Alone'
  BY <1>18 DEF Leave, Idle, Alone
<1>19. ASSUME Exit PROVE Alone'
  BY <1>19 DEF Exit, Idle, Alone
<1>20. ASSUME NEW u \in User, SignIn(u) PROVE Alone'
  BY <1>5, <1>20 DEF SignIn
<1>21. ASSUME NEW op \in {"sign_out", "remove"}, SignOut(op) PROVE Alone'
  <2>1. ui'.op = op /\ ui'.pc # "unlink"
    BY <1>21 DEF SignOut, Idle
  <2> QED BY <1>21, <2>1 DEF SignOut, Alone
<1>22. CASE UNCHANGED vars
  BY <1>5, <1>22 DEF vars
<1> QED
  BY <1>6, <1>7, <1>8, <1>9, <1>10, <1>12, <1>13, <1>14, <1>15, <1>16, <1>17, <1>18,
     <1>19, <1>20, <1>21, <1>22, CutsAreBoolean DEF Next

-----------------------------------------------------------------------------
(* Who holds which chat *)

LEMMA RefsInit == Init => Refs
  BY DEF Init, Refs, Idle, Blank, NoTurn, None

\* What is named by its conversation stays so while its chat is kept.
LEMMA NamesKept ==
  ASSUME NEW u \in User, NEW i, NEW v, Names(u, i, v), Grows(db[u], db'[u])
  PROVE  Names(u, i, v)'
  BY DEF Names, Ids, Grows

CmdRefs ==
  /\ \A c \in cmds : c.chat \in Ids(c.user) => Names(c.user, c.chat, c.conv)
  /\ user # NoUser => \A c \in cmds : c.user = user /\ Names(user, c.chat, c.conv)

LEMMA IssueRefs ==
  ASSUME TypeInv, Refs, NEW c, Issue(c), UNCHANGED <<user, db>>,
         c.chat # None => [c EXCEPT !.user = user]
                            = [op |-> c.op, user |-> user, chat |-> c.chat,
                               conv |-> c.conv, role |-> c.role],
         user # NoUser /\ c.chat # None => Names(user, c.chat, c.conv)
  PROVE  CmdRefs'
<1>1. CASE cmds' = cmds
  BY <1>1 DEF Refs, CmdRefs, Names, Ids
<1>2. CASE user # NoUser /\ c.chat # None
  <2> DEFINE x == [c EXCEPT !.user = user]
  <2>1. cmds' = cmds \cup {x}
    BY <1>2 DEF Issue
  <2>2. x.user = user /\ x.chat = c.chat /\ x.conv = c.conv
    BY <1>2
  <2> HIDE DEF x
  <2>3. \A y \in cmds' : y.user = user /\ Names(user, y.chat, y.conv)
    BY <1>2, <2>1, <2>2 DEF Refs
  <2> QED BY <2>3 DEF CmdRefs, Names, Ids
<1> QED BY <1>1, <1>2 DEF Issue

\* What the page holds of the signed-in account.
PageRefs ==
  /\ turn.chat # None => Names(user, turn.chat, turn.conv)
  /\ title.chat # None => Names(user, title.chat, title.conv)
  /\ page.chat # None => \/ Names(user, page.chat, page.conv)
                         \/ ui.op = "delete" /\ ui.chat = page.chat
  /\ ui.op \in {"new", "open"} /\ ui.chat # None => Names(user, ui.chat, ui.conv)

LEMMA RefsParts ==
  Refs <=> /\ turn.pc \in {"create", "created"} => user # NoUser
           /\ turn.pc = "create" => turn.user = user
           /\ user = NoUser /\ ui = Idle => page.chat = None
           /\ CmdRefs
           /\ user # NoUser => PageRefs
  BY DEF Refs, CmdRefs, PageRefs

\* While every chat is kept, so is every name of one.
LEMMA NamesStay ==
  ASSUME TypeInv, Refs, UNCHANGED user, cmds' \subseteq cmds,
         \A w \in User : Grows(db[w], db'[w]),
         user = NoUser => \A w \in User : SameIds(db[w], db'[w])
  PROVE  /\ CmdRefs'
         /\ \A i, v : user # NoUser /\ Names(user, i, v) => Names(user, i, v)'
<1>1. \A i, v : user # NoUser /\ Names(user, i, v) => Names(user, i, v)'
  <2>1. user # NoUser => user \in User
    BY DEF TypeInv
  <2> QED BY <2>1, NamesKept
<1>2. CASE user # NoUser
  <2>1. \A c \in cmds' : c.user = user' /\ Names(user, c.chat, c.conv)'
    BY <1>1, <1>2 DEF Refs
  <2> QED BY <1>1, <2>1 DEF CmdRefs, Names, Ids
<1>3. CASE user = NoUser
  <2> SUFFICES ASSUME NEW c \in cmds', c.chat \in Ids(c.user)'
               PROVE  Names(c.user, c.chat, c.conv)'
    BY <1>1, <1>3 DEF CmdRefs
  <2>1. c \in cmds /\ c.user \in User
    BY DEF TypeInv, Command
  <2>2. c.chat \in Ids(c.user)
    BY <1>3, <2>1 DEF SameIds, Ids
  <2>3. Names(c.user, c.chat, c.conv)
    BY <2>1, <2>2 DEF Refs
  <2> QED BY <2>1, <2>3, NamesKept
<1> QED BY <1>1, <1>2, <1>3

LEMMA RefsStep ==
  ASSUME "outlive" \notin Beyond, TypeInv, Paired, Refs, [Next]_vars
  PROVE  Refs'
<1> USE DEF page_vars
<1>0. /\ Idle.op = "none" /\ NoTurn.pc = "none" /\ NoTurn.chat = None
      /\ NoAsk.chat = None /\ Blank.chat = None
  BY DEF Idle, NoTurn, NoAsk, Blank
<1>a. user # NoUser => user \in User /\ db[user] \in Store
  BY DEF TypeInv
<1>1. ASSUME NEW b \in BOOLEAN, Send(b) PROVE Refs'
  <2>1. /\ user # NoUser /\ UNCHANGED <<db, user, page, title, ui>>
        /\ ~(ui.op = "delete" /\ ui.chat = page.chat)
    BY <1>1 DEF Send
  <2>2. CASE page.chat = None /\ ~b
    <3>1. /\ turn'.pc = "create" /\ turn'.chat = None /\ turn'.user = user
          /\ cmds' = cmds
      BY <1>1, <2>2 DEF Send
    <3> QED BY <2>1, <3>1 DEF Refs, Names, Ids
  <2>3. CASE ~(page.chat = None /\ ~b)
    <3>1. /\ turn'.pc = "stream" /\ turn'.chat = page.chat
          /\ turn'.conv = page.conv
      BY <1>1, <2>3 DEF Send
    <3>2. page.chat # None => Names(user, page.chat, page.conv)
      BY <2>1 DEF Refs
    <3>3. CmdRefs'
      <4>1. CASE b
        BY <1>1, <2>1, <2>3, <4>1 DEF Send, Refs, CmdRefs, Names, Ids
      <4>2. CASE ~b
        <5> DEFINE c == Append(page.chat, page.conv, "user")
        <5>1. /\ Issue(c)
              /\ c.chat = page.chat /\ c.conv = page.conv
              /\ [c EXCEPT !.user = user]
                   = [op |-> c.op, user |-> user, chat |-> c.chat,
                      conv |-> c.conv, role |-> c.role]
          BY <1>1, <2>3, <4>2 DEF Send, Append
        <5> HIDE DEF c
        <5> QED BY <2>1, <3>2, <5>1, IssueRefs
      <4> QED BY <4>1, <4>2
    <3>4. PageRefs'
      BY <2>1, <3>1, <3>2 DEF Refs, PageRefs, Names, Ids
    <3> QED BY <2>1, <3>1, <3>3, <3>4 DEF Refs, CmdRefs, PageRefs
  <2> QED BY <2>2, <2>3
<1>2. ASSUME NEW b \in BOOLEAN, Finish(b) PROVE Refs'
  <2>1. /\ UNCHANGED <<db, user, ui>> /\ turn' = NoTurn
        /\ page'.chat = page.chat /\ page'.conv = page.conv
    BY <1>2 DEF Finish, TypeInv, Page
  <2>2. CASE b
    <3> DEFINE c == Append(turn.chat, turn.conv, "assistant")
    <3>1. /\ Issue(c)
          /\ c.chat = turn.chat /\ c.conv = turn.conv
          /\ [c EXCEPT !.user = user]
               = [op |-> c.op, user |-> user, chat |-> c.chat,
                  conv |-> c.conv, role |-> c.role]
      BY <1>2, <2>2 DEF Finish, Append
    <3> HIDE DEF c
    <3>2. CmdRefs'
      BY <2>1, <3>1, IssueRefs DEF Refs
    <3>3. \/ title' = title
          \/ title'.chat = turn.chat /\ title'.conv = turn.conv
      BY <1>2, <2>2 DEF Finish
    <3>4. user # NoUser => PageRefs'
      BY <1>0, <2>1, <3>3 DEF Refs, PageRefs, Names, Ids
    <3> QED BY <1>0, <2>1, <3>2, <3>4 DEF Refs, CmdRefs, PageRefs
  <2>3. CASE ~b
    <3>1. UNCHANGED <<cmds, title, page>>
      BY <1>2, <2>3 DEF Finish
    <3> QED BY <1>0, <2>1, <3>1 DEF Refs, Names, Ids
  <2> QED BY <2>2, <2>3
<1>3. ASSUME NEW b \in BOOLEAN, TitleAnswers(b) PROVE Refs'
  <2>1. UNCHANGED <<db, user, ui, page, turn>> /\ title' = NoAsk
    BY <1>3 DEF TitleAnswers
  <2>2. CmdRefs'
    <3>1. CASE b
      <4> DEFINE c == [op |-> "auto_title", user |-> user, chat |-> title.chat,
                       conv |-> title.conv, role |-> "assistant"]
      <4>1. /\ Issue(c)
            /\ c.chat = title.chat /\ c.conv = title.conv
            /\ [c EXCEPT !.user = user]
                 = [op |-> c.op, user |-> user, chat |-> c.chat,
                    conv |-> c.conv, role |-> c.role]
        BY <1>3, <3>1 DEF TitleAnswers
      <4> HIDE DEF c
      <4> QED BY <2>1, <4>1, IssueRefs DEF Refs
    <3>2. CASE ~b
      BY <1>3, <2>1, <3>2 DEF TitleAnswers, Refs, CmdRefs, Names, Ids
    <3> QED BY <3>1, <3>2
  <2>3. user # NoUser => PageRefs'
    BY <1>0, <2>1 DEF Refs, PageRefs, Names, Ids
  <2> QED BY <2>1, <2>2, <2>3 DEF Refs, CmdRefs, PageRefs
<1>4. ASSUME NEW cut \in BOOLEAN, TurnCreate(cut) PROVE Refs'
  <2>1. /\ user # NoUser /\ turn.user = user /\ turn.conv \in Conv
        /\ UNCHANGED <<user, page, title, ui, cmds>>
    BY <1>4 DEF TurnCreate, Refs, Paired, TypeInv, Turn, None
  <2>2. PICK i \in Id :
           /\ IsNewId(db[user], i)
           /\ db' = [db EXCEPT ![user] = Created(@, i, turn.conv, cut)]
           /\ turn' = [turn EXCEPT
                !.pc = "created", !.user = NoUser,
                !.chat = IF Indexed(db[user], i, cut) THEN i ELSE None]
    BY <1>4, <2>1 DEF TurnCreate
  <2>3. /\ turn'.pc = "created" /\ turn'.conv = turn.conv
        /\ turn'.chat \in {i, None}
    BY <2>2 DEF TypeInv, Turn
  <2>4. /\ db'[user] = Created(db[user], i, turn.conv, cut)
        /\ \A w \in User : w # user => db'[w] = db[w]
    BY <1>a, <2>1, <2>2 DEF TypeInv
  <2>5. /\ Grows(db[user], db'[user])
        /\ i \in DOMAIN db'[user].chats /\ db'[user].chats[i].conv = turn.conv
    BY <1>a, <2>1, <2>2, <2>4, CreatedFacts
  <2>6. \A w \in User : Grows(db[w], db'[w])
    BY <2>4, <2>5 DEF Grows
  <2>7. /\ CmdRefs'
        /\ \A j, v : Names(user, j, v) => Names(user, j, v)'
    BY <2>1, <2>6, NamesStay
  <2>8. PageRefs'
    BY <2>1, <2>3, <2>5, <2>7 DEF Refs, PageRefs, Names, Ids
  <2> QED BY <2>1, <2>3, <2>7, <2>8 DEF Refs, CmdRefs, PageRefs
<1>5. ASSUME NEW cut \in BOOLEAN, Quiet(cut), UNCHANGED <<user, turn, title, page>>,
             cmds' \subseteq cmds,
             \/ ui' = ui
             \/ /\ user # NoUser /\ ui = Idle /\ ui'.op = "open"
                /\ Names(user, ui'.chat, ui'.conv)
      PROVE  Refs'
  <2>1. \A w \in User : Grows(db[w], db'[w]) /\ SameIds(db[w], db'[w])
    BY <1>5 DEF Quiet, Keeps
  <2>2. /\ CmdRefs'
        /\ \A j, v : user # NoUser /\ Names(user, j, v) => Names(user, j, v)'
    BY <1>5, <2>1, NamesStay
  <2>3. user # NoUser => PageRefs'
    BY <1>0, <1>5, <2>2 DEF Refs, PageRefs
  <2> QED BY <1>5, <2>2, <2>3 DEF Refs, CmdRefs, PageRefs
<1>6. ASSUME NEW cut \in BOOLEAN, NEW c \in cmds, Run(c, cut) PROVE Refs'
  <2>1. Quiet(cut)
    BY <1>6, RunFacts
  <2> QED BY <1>5, <1>6, <2>1 DEF Run
<1>7. ASSUME user # NoUser, NEW cut \in BOOLEAN, NewChat(cut) PROVE Refs'
  <2>1. PICK i \in Id :
          /\ IsNewId(db[user], i)
          /\ begun < MaxConv /\ begun' = begun + 1
          /\ Operate(Created(db[user], i, begun', cut))
          /\ Answers("new", IF Indexed(db[user], i, cut) THEN i ELSE None, begun')
    BY <1>7 DEF NewChat
  <2>2. begun' \in Conv
    BY <2>1, ConvAssumption DEF TypeInv, Conv
  <2>3. /\ db'[user] = Created(db[user], i, begun', cut)
        /\ \A w \in User : w # user => db'[w] = db[w]
        /\ UNCHANGED <<user, page, turn, title, cmds>> /\ ui = Idle
        /\ ui'.op = "new" /\ ui'.chat \in {i, None} /\ ui'.conv = begun'
    BY <1>a, <1>7, <2>1 DEF Operate, Answers, TypeInv
  <2>4. /\ Grows(db[user], db'[user])
        /\ i \in DOMAIN db'[user].chats /\ db'[user].chats[i].conv = begun'
    BY <1>a, <1>7, <2>1, <2>2, <2>3, CreatedFacts
  <2>5. \A w \in User : Grows(db[w], db'[w])
    BY <2>3, <2>4 DEF Grows
  <2>6. /\ CmdRefs'
        /\ \A j, v : Names(user, j, v) => Names(user, j, v)'
    BY <1>7, <2>3, <2>5, NamesStay
  <2>7. PageRefs'
    BY <1>0, <1>7, <2>3, <2>4, <2>6 DEF Refs, PageRefs, Names, Ids
  <2> QED BY <1>7, <2>3, <2>6, <2>7 DEF Refs, CmdRefs, PageRefs
<1>8. ASSUME user # NoUser, NEW cut \in BOOLEAN, Edits(cut) PROVE Refs'
  <2>1. Quiet(cut)
    BY <1>8, EditFacts
  <2>2. UNCHANGED <<user, turn, title, page, cmds>>
    BY <1>8 DEF Edits, Rename, Open, DeleteFolder, CreateFolder, Move, Operate
  <2>3. \/ ui' = ui
        \/ ui = Idle /\ ui'.op = "open" /\ Names(user, ui'.chat, ui'.conv)
    BY <1>8 DEF Edits, Rename, Open, DeleteFolder, CreateFolder, Move, Operate,
                Answers, Names
  <2> QED BY <1>5, <1>8, <2>1, <2>2, <2>3
<1>9. ASSUME user # NoUser, NEW cut \in BOOLEAN, NEW i \in Id, Delete(i, cut)
      PROVE  Refs'
  <2>1. /\ ~Pending(user, i) /\ ui = Idle
        /\ UNCHANGED <<user, page, turn, title, cmds>>
        /\ ui'.op = "delete" /\ ui'.chat = i
    BY <1>9 DEF Delete, Operate, Answers
  <2>2. /\ db'[user] = Deleted(db[user], i, cut)
        /\ \A w \in User : w # user => db'[w] = db[w]
    BY <1>a, <1>9 DEF Delete, Operate, TypeInv
  <2>3. /\ DOMAIN db'[user].chats = DOMAIN db[user].chats \ {i}
        /\ \A j \in DOMAIN db[user].chats : j # i => db'[user].chats[j] = db[user].chats[j]
    BY <1>a, <1>9, <2>2, DeletedFacts
  <2>4. \A j, v : j # i /\ Names(user, j, v) => Names(user, j, v)'
    BY <2>1, <2>3 DEF Names, Ids
  <2>5. CmdRefs'
    <3>1. \A c \in cmds : c.user = user /\ Names(user, c.chat, c.conv) /\ c.chat # i
      BY <1>9, <2>1 DEF Refs, Pending
    <3>2. \A c \in cmds' : c.user = user' /\ Names(user, c.chat, c.conv)'
      BY <2>1, <2>4, <3>1
    <3> QED BY <3>2 DEF CmdRefs, Names, Ids
  <2>6. PageRefs'
    <3>1. turn'.chat # None => Names(user, turn.chat, turn.conv)'
      BY <1>0, <1>9, <2>1, <2>4 DEF Pending, Refs
    <3>2. title'.chat # None => Names(user, title.chat, title.conv)'
      BY <1>9, <2>1, <2>4 DEF Pending, Refs
    <3>3. page'.chat # None /\ page'.chat # i => Names(user, page.chat, page.conv)'
      BY <1>0, <1>9, <2>1, <2>4 DEF Refs
    <3> QED BY <2>1, <3>1, <3>2, <3>3 DEF PageRefs, Names, Ids
  <2> QED BY <1>9, <2>1, <2>5, <2>6 DEF Refs, CmdRefs, PageRefs
<1>10. ASSUME TurnCreated PROVE Refs'
  <2>1. /\ user # NoUser /\ UNCHANGED <<db, user, title, ui>>
        /\ turn'.pc = "stream" /\ turn'.chat = turn.chat /\ turn'.conv = turn.conv
    BY <1>10 DEF TurnCreated, Refs, TypeInv, Turn
  <2> DEFINE c == Append(turn.chat, turn.conv, "user")
  <2>2. /\ Issue(c)
        /\ c.chat = turn.chat /\ c.conv = turn.conv
        /\ [c EXCEPT !.user = user]
             = [op |-> c.op, user |-> user, chat |-> c.chat,
                conv |-> c.conv, role |-> c.role]
    BY <1>10 DEF TurnCreated, Append
  <2> HIDE DEF c
  <2>3. CmdRefs'
    BY <2>1, <2>2, IssueRefs DEF Refs
  <2>4. \/ page' = page
        \/ /\ turn.chat # None
           /\ page'.chat = turn.chat /\ page'.conv = turn.conv
    BY <1>10 DEF TurnCreated, TypeInv, Page
  <2>5. PageRefs'
    BY <2>1, <2>4 DEF Refs, PageRefs, Names, Ids
  <2> QED BY <2>1, <2>3, <2>5 DEF Refs, CmdRefs, PageRefs
<1>11. ASSUME UiAnswer PROVE Refs'
  <2>1. /\ user # NoUser /\ ui' = Idle /\ UNCHANGED <<db, user, turn, title, cmds>>
    BY <1>11, ConvAssumption DEF UiAnswer, Paired
  <2>2. page'.chat # None => Names(user, page'.chat, page'.conv)
    <3>1. CASE ui.op = "new"
      <4>1. /\ page'.chat = ui.chat
            /\ ui.chat # None => page'.conv = ui.conv
        BY <1>11, <3>1 DEF UiAnswer, Blank
      <4> QED BY <2>1, <3>1, <4>1 DEF Refs
    <3>2. CASE ui.op = "open"
      <4>1. page'.chat = ui.chat /\ page'.conv = ui.conv
        BY <1>11, <3>2 DEF UiAnswer
      <4> QED BY <2>1, <3>2, <4>1 DEF Refs
    <3>3. CASE ui.op = "delete"
      <4>1. IF page.chat = ui.chat THEN page' = Blank ELSE page' = page
        BY <1>11, <3>3 DEF UiAnswer
      <4> QED BY <1>0, <2>1, <4>1 DEF Refs
    <3> QED BY <1>11, <3>1, <3>2, <3>3 DEF UiAnswer, Paired
  <2>3. PageRefs'
    BY <1>0, <2>1, <2>2 DEF Refs, PageRefs, Names, Ids
  <2> QED BY <2>1, <2>3 DEF Refs, PageRefs, Names, Ids
<1>12. ASSUME Forget PROVE Refs'
  <2>1. /\ user = NoUser /\ ui'.pc = "unlink"
        /\ UNCHANGED <<db, user, page, turn, title, cmds>>
    BY <1>12 DEF Forget, Paired, TypeInv, Ui
  <2>2. ui' # Idle
    BY <2>1 DEF Idle
  <2> QED BY <2>1, <2>2 DEF Refs, Names, Ids
<1>13. ASSUME Unlink PROVE Refs'
  <2>1. /\ user = NoUser /\ ui'.pc = "leave"
        /\ UNCHANGED <<user, page, turn, title, cmds>>
    BY <1>13 DEF Unlink, Paired, TypeInv, Ui
  <2>2. ui' # Idle
    BY <2>1 DEF Idle
  <2>3. \A w \in User : db'[w] = db[w] \/ db'[w] = Empty
    BY <1>13 DEF Unlink, TypeInv
  <2>4. DOMAIN Empty.chats = {}
    BY DEF Empty
  <2>5. \A c \in cmds' : c.chat \in Ids(c.user)' => Names(c.user, c.chat, c.conv)'
    <3> SUFFICES ASSUME NEW c \in cmds', c.chat \in Ids(c.user)'
                 PROVE  Names(c.user, c.chat, c.conv)'
      OBVIOUS
    <3>1. c \in cmds /\ c.user \in User
      BY <2>1 DEF TypeInv, Command
    <3>2. db'[c.user] = db[c.user]
      BY <2>3, <2>4, <3>1 DEF Ids
    <3> QED BY <3>1, <3>2 DEF Refs, Names, Ids
  <2> QED BY <2>1, <2>2, <2>5 DEF Refs
<1>14. ASSUME Leave PROVE Refs'
  <2>1. user = NoUser /\ UNCHANGED <<db, user, turn, title, cmds>> /\ page' = Blank
    BY <1>14 DEF Leave, Paired
  <2> QED BY <1>0, <2>1 DEF Refs, Names, Ids
<1>15. ASSUME Exit PROVE Refs'
  BY <1>0, <1>15 DEF Exit, Refs
<1>16. ASSUME NEW u \in User, SignIn(u) PROVE Refs'
  <2>1. /\ user = NoUser /\ ui = Idle /\ cmds = {} /\ turn = NoTurn /\ title = NoAsk
        /\ user' = u /\ u # NoUser /\ UNCHANGED <<db, page, turn, title, ui, cmds>>
    BY <1>16, ConvAssumption DEF SignIn, Settled
  <2> QED BY <1>0, <2>1 DEF Refs
<1>17. ASSUME NEW op \in {"sign_out", "remove"}, SignOut(op) PROVE Refs'
  <2>1. /\ user' = NoUser /\ turn.pc \notin {"create", "created"}
        /\ ui'.op = op /\ UNCHANGED <<db, page, turn, title, cmds>>
    BY <1>17 DEF SignOut, Idle
  <2>2. ui' # Idle
    BY <1>0, <2>1
  <2> QED BY <2>1, <2>2 DEF Refs, Names, Ids
<1>18. CASE UNCHANGED vars
  BY <1>18 DEF vars, Refs, Names, Ids
<1> QED
  BY <1>1, <1>2, <1>3, <1>4, <1>6, <1>7, <1>8, <1>9, <1>10, <1>11, <1>12, <1>13,
     <1>14, <1>15, <1>16, <1>17, <1>18, CutsAreBoolean DEF Next, Edits

\* The names hold in every state, unless a chat or an account is left while
\* something of it is under way.
LEMMA RefsHold == "outlive" \notin Beyond => (Spec => []Refs)
<1> SUFFICES ASSUME "outlive" \notin Beyond PROVE Spec => []Refs
  OBVIOUS
<1>1. Init => Refs
  BY RefsInit
<1>2. TypeInv /\ Paired /\ Refs /\ [Next]_vars => Refs'
  BY RefsStep
<1> QED BY <1>1, <1>2, TypesHold, PTL DEF Spec

LEMMA TurnsStep ==
  ASSUME TypeInv, Paired, Refs, TurnsStay, [Next]_vars PROVE TurnsStay'
<1>1. \A u \in User : db[u] \in Store /\ StaysIn(db[u])
  BY DEF TypeInv, TurnsStay, StaysIn, Ids
<1> DEFINE Goal == \A u \in User : StaysIn(db'[u])
<1>2. ASSUME NEW cut \in Cuts, Runs(cut) PROVE Goal
  <2>1. PICK c \in cmds : Run(c, cut)
    BY <1>2 DEF Runs
  <2>2. c.chat \in Ids(c.user) => Names(c.user, c.chat, c.conv)
    BY DEF Refs
  <2> QED BY <1>1, <2>1, <2>2, CutsAreBoolean, RunFacts
<1>3. ASSUME NEW u \in User, NEW i \in Id, NEW v \in Conv, NEW cut \in Cuts,
             Makes(u, i, v, cut)
      PROVE  Goal
  <2>1. db'[u] = Created(db[u], i, v, cut) /\ \A w \in User : w # u => db'[w] = db[w]
    BY <1>3 DEF Makes, TypeInv
  <2>2. StaysIn(Created(db[u], i, v, cut))
    BY <1>1, <1>3, CreatedFacts, CutsAreBoolean DEF Makes
  <2> QED BY <1>1, <2>1, <2>2
<1>4. ASSUME NEW i \in Id, NEW cut \in Cuts, Drops(i, cut) PROVE Goal
  <2>1. \A w \in User : db'[w] = Deleted(db[w], i, cut) \/ db'[w] = db[w]
    BY <1>4 DEF Drops, TypeInv
  <2> QED BY <1>1, <2>1, DeletedFacts, CutsAreBoolean
<1>5. ASSUME Unlink \/ Exit PROVE Goal
  <2>1. \A w \in User : db'[w] = Empty \/ db'[w] = db[w]
    BY <1>5 DEF Unlink, Exit, TypeInv
  <2> QED BY <1>1, <2>1, EmptyStore
<1> HIDE DEF Goal
<1>6. ASSUME \A w \in User : StaysIn(db[w]) => StaysIn(db'[w]) PROVE Goal
  BY <1>1, <1>6 DEF Goal
<1>7. Goal
  BY <1>2, <1>3, <1>4, <1>5, <1>6, StepKinds
<1> QED BY <1>7 DEF Goal, TurnsStay, StaysIn, Ids

\* TurnsStay: unless a chat or its account is left while something of it is
\* under way, every message and generated title is in its conversation's chat.
THEOREM TurnsHold == "outlive" \notin Beyond => (Spec => []TurnsStay)
<1> SUFFICES ASSUME "outlive" \notin Beyond PROVE Spec => []TurnsStay
  OBVIOUS
<1>1. Init => TurnsStay
  BY DatabasesEmpty
<1>2. TypeInv /\ Paired /\ Refs /\ TurnsStay /\ [Next]_vars => TurnsStay'
  BY TurnsStep
<1> QED BY <1>1, <1>2, TypesHold, RefsHold, PTL DEF Spec

-----------------------------------------------------------------------------
(* A conversation is one chat until it is wiped *)

LEMMA UniqueInit == Init => Unique
<1>1. DOMAIN << >> = {}
  OBVIOUS
<1> QED BY <1>1 DEF Init, Unique, Empty, Ids, NoTurn

\* How the histories, and the conversation of a turn that has no chat yet,
\* go on in a step that does not wipe an account.
LEMMA HistoryStep ==
  ASSUME TypeInv, Paired, [Next]_vars, ~Unlink
  PROVE  /\ wiped' = wiped /\ begun' \in Nat /\ begun <= begun'
         /\ turn'.pc = "create" =>
              \/ turn' = turn
              \/ turn'.conv = begun + 1 /\ begun' = begun + 1 /\ db' = db
<1> USE DEF page_vars
<1>1. begun \in Nat
  BY ConvAssumption DEF TypeInv
<1>2. ASSUME NEW b \in BOOLEAN, Send(b)
      PROVE  /\ wiped' = wiped /\ begun' \in Nat /\ begun <= begun'
             /\ turn'.pc = "create" =>
                  turn'.conv = begun + 1 /\ begun' = begun + 1 /\ db' = db
  BY <1>1, <1>2 DEF Send
<1>3. ASSUME \/ \E b \in BOOLEAN : Finish(b)
             \/ \E cut \in BOOLEAN : TurnCreate(cut)
             \/ TurnCreated \/ Exit
      PROVE  wiped' = wiped /\ begun' = begun /\ turn'.pc # "create"
  <2>1. turn \in Turn /\ NoTurn.pc = "none"
    BY DEF TypeInv, NoTurn
  <2>2. ASSUME NEW b \in BOOLEAN, Finish(b)
        PROVE  wiped' = wiped /\ begun' = begun /\ turn'.pc # "create"
    BY <2>1, <2>2 DEF Finish
  <2>3. ASSUME NEW cut \in BOOLEAN, TurnCreate(cut)
        PROVE  wiped' = wiped /\ begun' = begun /\ turn'.pc # "create"
    BY <2>1, <2>3 DEF TurnCreate, Turn
  <2>4. ASSUME TurnCreated
        PROVE  wiped' = wiped /\ begun' = begun /\ turn'.pc # "create"
    BY <2>1, <2>4 DEF TurnCreated, Turn
  <2>5. ASSUME Exit
        PROVE  wiped' = wiped /\ begun' = begun /\ turn'.pc # "create"
    BY <2>1, <2>5 DEF Exit
  <2> QED BY <1>3, <2>2, <2>3, <2>4, <2>5
<1>4. ASSUME \/ \E b \in BOOLEAN : TitleAnswers(b)
             \/ \E c \in cmds, cut \in BOOLEAN : Run(c, cut)
             \/ \E cut \in BOOLEAN : Edits(cut)
             \/ \E i \in Id, cut \in BOOLEAN : Delete(i, cut)
             \/ UiAnswer \/ Forget \/ Leave
             \/ \E u \in User : SignIn(u)
             \/ \E op \in {"sign_out", "remove"} : SignOut(op)
             \/ UNCHANGED vars
      PROVE  wiped' = wiped /\ begun' = begun /\ turn' = turn
  BY <1>4 DEF TitleAnswers, Run, Edits, Rename, Open, DeleteFolder, CreateFolder,
              Move, Delete, Operate, UiAnswer, Forget, Leave, SignIn, SignOut, vars
<1>5. ASSUME NEW cut \in BOOLEAN, NewChat(cut)
      PROVE  wiped' = wiped /\ begun' = begun + 1 /\ turn' = turn
  BY <1>5 DEF NewChat, Operate
<1> DEFINE Goal == /\ wiped' = wiped /\ begun' \in Nat /\ begun <= begun'
                   /\ turn'.pc = "create" =>
                        \/ turn' = turn
                        \/ turn'.conv = begun + 1 /\ begun' = begun + 1 /\ db' = db
<1>6. ASSUME NEW b \in BOOLEAN, Send(b) PROVE Goal
  BY <1>2, <1>6
<1>7. ASSUME \/ \E b \in BOOLEAN : Finish(b)
             \/ \E cut \in BOOLEAN : TurnCreate(cut)
             \/ TurnCreated \/ Exit
      PROVE  Goal
  BY <1>1, <1>3, <1>7
<1>8. ASSUME \/ \E b \in BOOLEAN : TitleAnswers(b)
             \/ \E c \in cmds, cut \in BOOLEAN : Run(c, cut)
             \/ \E cut \in BOOLEAN : Edits(cut)
             \/ \E i \in Id, cut \in BOOLEAN : Delete(i, cut)
             \/ UiAnswer \/ Forget \/ Leave
             \/ \E u \in User : SignIn(u)
             \/ \E op \in {"sign_out", "remove"} : SignOut(op)
             \/ UNCHANGED vars
      PROVE  Goal
  BY <1>1, <1>4, <1>8
<1>9. ASSUME NEW cut \in BOOLEAN, NewChat(cut) PROVE Goal
  BY <1>1, <1>5, <1>9
<1> HIDE DEF Goal
<1>10. Goal
  BY <1>6, <1>7, <1>8, <1>9, CutsAreBoolean DEF Next, Edits
<1> QED BY <1>10 DEF Goal

LEMMA UniqueStep ==
  ASSUME TypeInv, Paired, Refs, Alone, Unique, WipedIsGone, [Next]_vars
  PROVE  Unique' /\ WipedIsGone'
<1>1. CASE Unlink
  <2>1. /\ ui.user \in User /\ conn[ui.user] = "none" /\ user = NoUser
        /\ turn' = turn /\ begun' = begun
    BY <1>1 DEF Unlink, Paired, Alone
  <2> PICK u \in User : u = ui.user
    BY <2>1
  <2>2. /\ db'[u] = Empty /\ \A w \in User : w # u => db'[w] = db[w]
        /\ wiped' = wiped \cup {db[u].chats[i].conv : i \in Ids(u)}
    BY <1>1, <2>1 DEF Unlink, TypeInv
  <2>3. Ids(u)' = {} /\ \A w \in User : w # u => Ids(w)' = Ids(w)
    <3>1. DOMAIN << >> = {}
      OBVIOUS
    <3> QED BY <2>2, <3>1 DEF Ids, Empty
  <2>4. turn'.pc # "create"
    BY <2>1 DEF Refs
  <2>5. Unique'
    BY <2>1, <2>2, <2>3, <2>4 DEF Unique
  <2>6. WipedIsGone'
    BY <2>2, <2>3 DEF Unique, WipedIsGone
  <2> QED BY <2>5, <2>6
<1> SUFFICES ASSUME ~Unlink PROVE Unique' /\ WipedIsGone'
  BY <1>1
<1>2. /\ wiped' = wiped /\ begun' \in Nat /\ begun <= begun' /\ begun \in Nat
      /\ turn'.pc = "create" =>
           \/ turn' = turn
           \/ turn'.conv = begun + 1 /\ begun' = begun + 1 /\ db' = db
  BY HistoryStep, ConvAssumption DEF TypeInv
<1>3. \A u \in User : \A i \in Ids(u) : db[u].chats[i].conv \in Nat
  BY RowFacts DEF TypeInv, Conv, Ids
<1>4. \A v \in wiped : v \in Nat
  BY DEF TypeInv, Conv
<1>5. ASSUME \A u \in User : \A i \in Ids(u)' :
               i \in Ids(u) /\ db'[u].chats[i].conv = db[u].chats[i].conv
      PROVE  Unique' /\ WipedIsGone'
  <2>1. /\ \A u \in User : \A i \in Ids(u)' : db'[u].chats[i].conv <= begun'
        /\ \A v \in wiped' : v <= begun'
    BY <1>2, <1>3, <1>4, <1>5 DEF Unique
  <2>2. \A u, w \in User : \A i \in Ids(u)', j \in Ids(w)' :
          db'[u].chats[i].conv = db'[w].chats[j].conv => u = w /\ i = j
    BY <1>5 DEF Unique
  <2>3. turn'.pc = "create" =>
          /\ turn'.conv <= begun' /\ turn'.conv \notin wiped'
          /\ \A u \in User : \A i \in Ids(u)' : db'[u].chats[i].conv # turn'.conv
    <3>1. CASE turn' = turn
      <4>1. turn.pc = "create" => turn.conv \in Nat
        BY DEF TypeInv, Turn, Conv, None
      <4> QED BY <1>2, <1>5, <3>1, <4>1 DEF Unique
    <3>2. CASE turn'.conv = begun + 1 /\ begun' = begun + 1
      BY <1>2, <1>3, <1>4, <1>5, <3>2 DEF Unique
    <3> QED BY <1>2, <3>1, <3>2
  <2>4. WipedIsGone'
    BY <1>2, <1>5 DEF WipedIsGone
  <2> QED BY <2>1, <2>2, <2>3, <2>4 DEF Unique
<1>6. ASSUME NEW cut \in Cuts, Quiet(cut) PROVE Unique' /\ WipedIsGone'
  BY <1>5, <1>6 DEF Quiet, Keeps, Grows, SameIds, Ids
<1>7. ASSUME NEW i \in Id, NEW cut \in Cuts, Drops(i, cut)
      PROVE  Unique' /\ WipedIsGone'
  <2>1. \A w \in User : db'[w] = Deleted(db[w], i, cut) \/ db'[w] = db[w]
    BY <1>7 DEF Drops, TypeInv
  <2>2. \A w \in User : db[w] \in Store
    BY DEF TypeInv
  <2>3. \A w \in User :
          /\ DOMAIN Deleted(db[w], i, cut).chats = DOMAIN db[w].chats \ {i}
          /\ \A j \in DOMAIN db[w].chats :
               j # i => Deleted(db[w], i, cut).chats[j] = db[w].chats[j]
    BY <1>7, <2>2, DeletedFacts, CutsAreBoolean
  <2> QED BY <1>5, <2>1, <2>3 DEF Ids
<1>8. CASE Exit
  <2>1. \A w \in User : db'[w] = db[w]
    BY <1>8 DEF Exit, Alone
  <2> QED BY <1>5, <2>1 DEF Ids
<1>9. ASSUME NEW u \in User, NEW i \in Id, NEW v \in Conv, NEW cut \in Cuts,
             Makes(u, i, v, cut)
      PROVE  Unique' /\ WipedIsGone'
  <2>1. db'[u] = Created(db[u], i, v, cut) /\ \A w \in User : w # u => db'[w] = db[w]
    BY <1>9 DEF Makes, TypeInv
  <2>2. /\ i \notin Ids(u) /\ Ids(u)' = Ids(u) \cup {i}
        /\ db'[u].chats[i].conv = v
        /\ \A j \in Ids(u) : db'[u].chats[j].conv = db[u].chats[j].conv
    <3>1. db[u] \in Store /\ cut \in BOOLEAN /\ IsNewId(db[u], i)
      BY <1>9, CutsAreBoolean DEF TypeInv, Makes
    <3> PICK d \in Store : d = db[u]
      BY <3>1
    <3> PICK e : e = db'[u]
      OBVIOUS
    <3>2. /\ i \notin DOMAIN d.chats
          /\ DOMAIN e.chats = DOMAIN d.chats \cup {i}
          /\ e.chats[i].conv = v /\ Grows(d, e)
      BY <2>1, <3>1, CreatedFacts
    <3> QED BY <3>2 DEF Ids, Grows
  <2>3. /\ v <= begun' /\ v \notin wiped
        /\ \A w \in User : \A j \in Ids(w) : db[w].chats[j].conv # v
    BY <1>2, <1>3, <1>4, <1>9 DEF Makes, Unique
  <2>4. \A w \in User : w # u => Ids(w)' = Ids(w)
    BY <2>1 DEF Ids
  <2>5. \A w \in User : \A j \in Ids(w)' :
          \/ w = u /\ j = i
          \/ j \in Ids(w) /\ db'[w].chats[j].conv = db[w].chats[j].conv
    BY <2>1, <2>2, <2>4
  <2>6. /\ \A w \in User : \A j \in Ids(w)' : db'[w].chats[j].conv <= begun'
        /\ \A x \in wiped' : x <= begun'
    BY <1>2, <1>3, <1>4, <2>2, <2>3, <2>5 DEF Unique
  <2>7. \A w, x \in User : \A j \in Ids(w)', k \in Ids(x)' :
          db'[w].chats[j].conv = db'[x].chats[k].conv => w = x /\ j = k
    BY <2>2, <2>3, <2>5 DEF Unique
  <2>8. turn'.pc = "create" =>
          /\ turn'.conv <= begun' /\ turn'.conv \notin wiped'
          /\ \A w \in User : \A j \in Ids(w)' : db'[w].chats[j].conv # turn'.conv
    <3>1. turn'.pc = "create" => turn' = turn /\ v = begun + 1 /\ begun' = begun + 1
      BY <1>9 DEF Makes
    <3>2. turn.pc = "create" => turn.conv \in Nat
      BY DEF TypeInv, Turn, Conv, None
    <3> QED BY <1>2, <2>2, <2>5, <3>1, <3>2 DEF Unique
  <2>9. WipedIsGone'
    BY <1>2, <2>2, <2>3, <2>5 DEF WipedIsGone
  <2> QED BY <2>6, <2>7, <2>8, <2>9 DEF Unique
<1> QED BY <1>6, <1>7, <1>8, <1>9, StepKinds

LEMMA KeptStep ==
  ASSUME TypeInv, Paired, Alone, [Next]_vars
  PROVE  \A u \in User : \A i \in Ids(u) :
           \/ /\ i \in Ids(u)' /\ db'[u].chats[i].conv = db[u].chats[i].conv
              /\ db[u].chats[i].messages \subseteq db'[u].chats[i].messages
           \/ ui = Idle /\ ui'.op = "delete" /\ ui'.user = u /\ ui'.chat = i
           \/ ui.pc = "unlink" /\ ui.user = u
<1> SUFFICES ASSUME NEW u \in User, NEW i \in Ids(u)
             PROVE  \/ /\ i \in Ids(u)' /\ db'[u].chats[i].conv = db[u].chats[i].conv
                       /\ db[u].chats[i].messages \subseteq db'[u].chats[i].messages
                    \/ ui = Idle /\ ui'.op = "delete" /\ ui'.user = u /\ ui'.chat = i
                    \/ ui.pc = "unlink" /\ ui.user = u
  OBVIOUS
<1> DEFINE Kept == /\ i \in Ids(u)' /\ db'[u].chats[i].conv = db[u].chats[i].conv
                   /\ db[u].chats[i].messages \subseteq db'[u].chats[i].messages
<1>1. Grows(db[u], db'[u]) => Kept
  BY DEF Grows, Ids
<1>2. db'[u] = db[u] => Kept
  BY DEF Ids
<1>3. ASSUME NEW cut \in Cuts, Quiet(cut) PROVE Kept
  BY <1>1, <1>3 DEF Quiet, Keeps
<1>4. ASSUME NEW w \in User, NEW j \in Id, NEW v \in Conv, NEW cut \in Cuts,
             Makes(w, j, v, cut)
      PROVE  Kept
  <2>1. db'[w] = Created(db[w], j, v, cut) /\ (w # u => db'[u] = db[u])
    BY <1>4 DEF Makes, TypeInv
  <2>2. Grows(db[w], Created(db[w], j, v, cut))
    BY <1>4, CreatedFacts, CutsAreBoolean DEF Makes, TypeInv
  <2> QED BY <1>1, <1>2, <2>1, <2>2
<1>5. ASSUME NEW j \in Id, NEW cut \in Cuts, Drops(j, cut)
      PROVE  \/ Kept
             \/ ui = Idle /\ ui'.op = "delete" /\ ui'.user = u /\ ui'.chat = i
  <2>1. CASE u = user /\ i = j
    BY <1>5, <2>1 DEF Drops
  <2>2. CASE u # user
    <3>1. db'[u] = db[u]
      BY <1>5, <2>2 DEF Drops, TypeInv
    <3> QED BY <1>2, <3>1
  <2>3. CASE u = user /\ i # j
    <3>1. db'[u] = Deleted(db[u], j, cut) /\ db[u] \in Store
      BY <1>5, <2>3 DEF Drops, TypeInv
    <3>2. i \in DOMAIN db'[u].chats /\ db'[u].chats[i] = db[u].chats[i]
      BY <1>5, <2>3, <3>1, DeletedFacts, CutsAreBoolean DEF Ids
    <3> QED BY <3>2 DEF Ids
  <2> QED BY <2>1, <2>2, <2>3
<1>6. ASSUME Unlink PROVE Kept \/ (ui.pc = "unlink" /\ ui.user = u)
  <2>1. ui.user # u => db'[u] = db[u]
    BY <1>6 DEF Unlink, TypeInv
  <2> QED BY <1>2, <1>6, <2>1 DEF Unlink
<1>7. ASSUME Exit PROVE Kept
  BY <1>2, <1>7 DEF Exit, Alone
<1> HIDE DEF Kept
<1>8. \/ Kept
      \/ ui = Idle /\ ui'.op = "delete" /\ ui'.user = u /\ ui'.chat = i
      \/ ui.pc = "unlink" /\ ui.user = u
  BY <1>3, <1>4, <1>5, <1>6, <1>7, StepKinds
<1> QED BY <1>8 DEF Kept

\* Nothing is left over from an account that is wiped.
LEMMA AloneHolds == {"outlive", "late"} \cap Beyond = {} => (Spec => []Alone)
<1> SUFFICES ASSUME "outlive" \notin Beyond, "late" \notin Beyond
             PROVE  Spec => []Alone
  OBVIOUS
<1>1. Init => Alone
  BY AloneInit
<1>2. TypeInv /\ Paired /\ Refs /\ Alone /\ [Next]_vars => Alone'
  BY AloneStep
<1> QED BY <1>1, <1>2, TypesHold, RefsHold, PTL DEF Spec

\* WipedIsGone: no chat of a wiped account comes back, unless something of the
\* account was under way while it was wiped.
THEOREM WipeHolds ==
  {"outlive", "late"} \cap Beyond = {} => (Spec => []WipedIsGone)
<1> SUFFICES ASSUME "outlive" \notin Beyond, "late" \notin Beyond
             PROVE  Spec => []WipedIsGone
  OBVIOUS
<1>1. Init => Unique /\ WipedIsGone
  BY UniqueInit, DatabasesEmpty
<1>2. TypeInv /\ Paired /\ Refs /\ Alone /\ Unique /\ WipedIsGone /\ [Next]_vars
        => (Unique /\ WipedIsGone)'
  BY UniqueStep
<1>3. (Spec => []Refs) /\ (Spec => []Alone)
  BY RefsHold, AloneHolds
<1> QED BY <1>1, <1>2, <1>3, TypesHold, PTL DEF Spec

\* KeptUntilDeleted: a chat, or a message of it, goes only by the user's own
\* delete_chat or the wipe of its account, under the same hypothesis.
THEOREM KeptHolds ==
  {"outlive", "late"} \cap Beyond = {} => (Spec => KeptUntilDeleted)
<1> SUFFICES ASSUME "outlive" \notin Beyond, "late" \notin Beyond
             PROVE  Spec => KeptUntilDeleted
  OBVIOUS
<1>1. TypeInv /\ Paired /\ Alone /\ [Next]_vars =>
        [\A u \in User : \A i \in Ids(u) :
           \/ /\ i \in Ids(u)' /\ db'[u].chats[i].conv = db[u].chats[i].conv
              /\ db[u].chats[i].messages \subseteq db'[u].chats[i].messages
           \/ ui = Idle /\ ui'.op = "delete" /\ ui'.user = u /\ ui'.chat = i
           \/ ui.pc = "unlink" /\ ui.user = u]_vars
  BY KeptStep
<1>2. Spec => []Alone
  BY AloneHolds
<1> QED BY <1>1, <1>2, TypesHold, PTL DEF Spec, KeptUntilDeleted
=============================================================================
