----------------------------- MODULE Transcripts -----------------------------
(* What is read back of a conversation (convstore.rs): its messages and their
   export. A message is stamped with the local time and its offset as a text, and
   it is by that text that messages are put in order, wherever the clock was set
   when they were written. A citation is exported as it was stored with its
   message, unless it has no number. Reading changes no row, so a behaviour is
   read once, at its end. *)
EXTENDS Integers, Sequences, SequencesExt, Ordering

CONSTANTS
  Shelf,       \* the account's chats
  Zones,       \* the offsets that the local clock is set to
  DayLength,   \* instants of a day
  MaxInstant,  \* bound: how far time runs
  MaxNotes,    \* bound: messages
  Cites        \* an answer's stored citations, sequences of numbers, 0 for none
ASSUME TranscriptAssumption ==
  /\ Zones \subseteq Int /\ DayLength \in Nat \ {0}
  /\ MaxInstant \in Nat /\ MaxNotes \in Nat /\ Cites \subseteq Seq(Nat)

VARIABLES
  instant, zone,  \* the clock
  notes,          \* table messages, by id
  reading,        \* the messages of the chat that is exported
  reached,        \* export_markdown: the one that the loop is at
  export,         \* the lines of the Markdown
  setBack         \* history: has the local clock ever gone back
bookvars == <<instant, zone, notes, reading, reached, export, setBack>>
Unread == <<"unread">>

\* now_iso. As texts, equal times are told apart by their offsets, + before -.
Stamp == [local |-> instant + zone, offset |-> zone]
Earlier(s, t) ==
  \/ s.local < t.local
  \/ s.local = t.local /\ (\/ 0 <= s.offset /\ (t.offset < 0 \/ s.offset < t.offset)
                           \/ t.offset < s.offset /\ s.offset < 0)
DateOf(s) == s.local \div DayLength

BookInit ==
  /\ instant = DayLength /\ zone \in Zones /\ notes = <<>>
  /\ reading = <<>> /\ reached = 1 /\ export = Unread /\ setBack = FALSE

\* append_message; only an answer has citations
Note(chat, role, cites) ==
  /\ role = "user" => cites = <<>>
  /\ export = Unread /\ Len(notes) < MaxNotes
  /\ notes' = Append(notes, [chat |-> chat, role |-> role, at |-> Stamp, cites |-> cites])
  /\ UNCHANGED <<instant, zone, reading, reached, export, setBack>>

\* get_chat: a chat's messages by created_at, then by id
\* Mutant: by id alone, the order in which they were written.
Precedes(j, k) == \/ Earlier(notes[j].at, notes[k].at)
                  \/ ~Earlier(notes[k].at, notes[j].at) /\ j < k
Messages_ById(chat) == Ordered({k \in DOMAIN notes : notes[k].chat = chat}, <)
Messages(chat) ==
  Ordered({k \in DOMAIN notes : notes[k].chat = chat}, LAMBDA j, k : Precedes(j, k))

\* A header where the date changes
DateHeader(m, k) ==
  IF k > 1 /\ DateOf(notes[m[k - 1]].at) = DateOf(notes[m[k]].at) THEN <<>>
  ELSE <<[line |-> "date", of |-> DateOf(notes[m[k]].at)]>>

\* format_citation_footnote: a citation without a number has none
Footnotes(cites) ==
  LET numbered == Ordered({j \in DOMAIN cites : cites[j] # 0}, <)
  IN [j \in DOMAIN numbered |-> [line |-> "footnote", of |-> cites[numbered[j]]]]

\* export_chat as Markdown; the other formats have the messages without these
Export(chat) ==
  /\ export = Unread /\ export' = <<>>
  /\ reading' = Messages(chat) /\ reached' = 1
  /\ UNCHANGED <<instant, zone, notes, setBack>>
ExportTurn ==
  /\ export # Unread /\ reached <= Len(reading)
  /\ LET note == notes[reading[reached]]
     IN export' = export \o DateHeader(reading, reached)
                    \o <<[line |-> note.role, of |-> reading[reached]]>>
                    \o Footnotes(note.cites)
  /\ reached' = reached + 1
  /\ UNCHANGED <<instant, zone, notes, reading, setBack>>

\* Time passes, and the device travels or its summer ends.
Clock(i, z) ==
  /\ export = Unread /\ i <= MaxInstant /\ instant' = i /\ zone' = z
  /\ setBack' = (\/ setBack \/ i + z < instant + zone
               \/ (i + z = instant + zone /\ z # zone))
  /\ UNCHANGED <<notes, reading, reached, export>>

BookNext ==
  \/ \E chat \in Shelf :
       \/ \E role \in {"user", "assistant"}, cites \in {<<>>} \cup Cites :
            Note(chat, role, cites)
       \/ Export(chat)
  \/ ExportTurn
  \/ \E i \in instant..(instant + 1), z \in Zones : Clock(i, z)
BookSpec == BookInit /\ [][BookNext]_bookvars

-----------------------------------------------------------------------------
\* An export reads like a log, wherever the clock was set: a day is headed once
\* and each of its turns is under that header, a turn's footnotes directly under
\* it; and, while the clock has not gone back, the turns are in the order in
\* which they were said.
ReadsLikeALog ==
  LET Lines(kinds) == {k \in DOMAIN export : export[k].line \in kinds}
      turns == Lines({"user", "assistant"})
  IN export # Unread =>
     /\ \A j, k \in Lines({"date"}) : export[j] = export[k] => j = k
     /\ \A k \in turns :
          LET note == notes[export[k].of]
          IN /\ export[Max({j \in Lines({"date"}) : j < k})].of = DateOf(note.at)
             /\ IsPrefix(Footnotes(note.cites), SubSeq(export, k + 1, Len(export)))
     /\ ~setBack => \A j, k \in turns : j < k => export[j].of < export[k].of
=============================================================================
