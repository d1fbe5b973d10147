----------------------------- MODULE DownloadProofs -----------------------------
(***************************************************************************)
(* Theorems about Download, for any flows and artifacts, any size of a     *)
(* file and any retry budget, whatever the server sends, whatever is left  *)
(* in the .part files and wherever the app dies.                           *)
(***************************************************************************)
EXTENDS Download, SequenceTheorems, TLAPS

\* The part of TypeOK that speaks of the worker.
WorkerOK(t) ==
  /\ t \in Worker
  /\ t.pc # "off" => t.art \in Artifacts
  /\ t.pc \notin {"report", "clear"} => t.failures < Limit

FlowOK(fl) ==
  /\ fl \in [Flows -> [pc : {"idle", "check", "acquire", "installed", "refused", "wait"},
                       i : Nat \ {0}]]
  /\ \A f \in Flows : fl[f].i <= Len(Needs[f])

Promises == {NoPromise} \cup [flow : Flows, art : Artifacts]
Events == [art : Artifacts, phase : {"done", "failed", "cancelled"}]

-----------------------------------------------------------------------------
(* Files *)

LEMMA ChunkSeqs == <<>> \in Seq(Chunks) /\ Genuine \in Seq(Chunks)
<1>1. 1 .. Size \subseteq Chunks
  BY DownloadConstants DEF Chunks
<1>2. \A i \in 1 .. Size : i \in Chunks
  BY <1>1
<1>3. Genuine \in [1 .. Size -> Chunks]
  BY <1>2 DEF Genuine
<1> QED
  BY <1>3, DownloadConstants

LEMMA WrongSeq == ASSUME NEW n \in Nat PROVE Wrong(n) \in Seq(Chunks)
<1>1. 0 \in Chunks
  BY DownloadConstants DEF Chunks
<1>2. Wrong(n) \in [1 .. n -> Chunks]
  BY <1>1 DEF Wrong
<1> QED
  BY <1>2

LEMMA PrefixSeq == ASSUME NEW n \in Chunks PROVE SubSeq(Genuine, 1, n) \in Seq(Chunks)
<1>1. n \in 0 .. Size /\ Size \in Nat
  BY DownloadConstants DEF Chunks
<1>2. Len(Genuine) = Size
  BY <1>1, ChunkSeqs DEF Genuine
<1>3. \A i \in 1 .. n : Genuine[i] \in Chunks
  BY <1>1, <1>2 DEF Genuine, Chunks
<1>4. SubSeq(Genuine, 1, n) \in Seq(Chunks)
  BY <1>1, <1>2, <1>3, ChunkSeqs, SubSeqProperties
<1> QED
  BY <1>4

LEMMA LeftoversType == Leftovers \subseteq Seq(Chunks)
<1>1. 0 .. Size + 1 \subseteq Nat
  BY DownloadConstants
<1>2. \A n \in 0 .. Size + 1 : Wrong(n) \in Seq(Chunks)
  BY <1>1, WrongSeq
<1> QED
  BY <1>2, PrefixSeq DEF Leftovers

\* Whatever a .part is, it is resumed or emptied.
LEMMA ResumableType ==
  ASSUME NEW file \in Seq(Chunks)
  PROVE  Resumable(file) \in Seq(Chunks) /\ Len(Resumable(file)) \in Nat
BY ChunkSeqs, LenProperties DEF Resumable

\* The files a response leaves.
LEMMA ResponseType ==
  ASSUME TypeOK, worker.pc # "off", NEW n \in Nat
  PROVE  /\ Response(n).file \in Seq(Chunks)
         /\ Response(n).hash \in Seq(Chunks)
         /\ Response(n).bytes \in Nat
         /\ Response(n).at \in Nat
<1>1. part[worker.art] \in Seq(Chunks) /\ worker.hash \in Seq(Chunks)
  BY DEF TypeOK, Worker
<1> QED
  BY <1>1, ChunkSeqs DEF Response

\* Every flow needs something, and only artifacts.
LEMMA NeedsType ==
  ASSUME NEW f \in Flows
  PROVE  /\ Len(Needs[f]) \in Nat
         /\ 1 <= Len(Needs[f])
         /\ \A i \in 1 .. Len(Needs[f]) : Needs[f][i] \in Artifacts
<1>1. Needs[f] \in Seq(Artifacts) /\ Needs[f] # <<>>
  BY DownloadConstants
<1>2. Len(Needs[f]) \in Nat \ {0}
  BY <1>1, EmptySeq
<1>3. \A i \in 1 .. Len(Needs[f]) : Needs[f][i] \in Artifacts
  BY <1>1, ElementOfSeq
<1> QED
  BY <1>2, <1>3

LEMMA TypeInit == Init => TypeOK
<1> SUFFICES ASSUME Init PROVE TypeOK
  OBVIOUS
<1>1. part \in [Artifacts -> Seq(Chunks)]
  BY LeftoversType DEF Init
<1>2. WorkerOK(worker)
  BY ChunkSeqs, DownloadConstants DEF Init, WorkerOK, Worker, Off
<1>3. FlowOK(flow)
  <2>1. \A f \in Flows : 1 <= Len(Needs[f])
    BY NeedsType
  <2> QED
    BY <2>1 DEF Init, FlowOK, FlowIdle
<1> QED
  BY <1>1, <1>2, <1>3 DEF Init, TypeOK, WorkerOK, FlowOK

-----------------------------------------------------------------------------
(* The worker                                                              *)

\* A failure is counted within the budget, or it is the last.
LEMMA FailsType ==
  ASSUME TypeOK, worker.pc \in {"connect", "stream", "mint"},
         NEW kind \in Kinds, Fails(kind)
  PROVE  WorkerOK(worker') /\ dry' \in Seq(Kinds)
<1> DEFINE n == (IF Progressed THEN 0 ELSE worker.failures) + 1
           last == IF Progressed THEN "none" ELSE worker.last
           t == [NoAttempt EXCEPT !.failures = n, !.mark = worker.bytes, !.last = kind]
<1>0. /\ worker \in Worker
      /\ worker.art \in Artifacts
      /\ worker.failures < Limit
      /\ worker.failures \in Nat
      /\ Limit \in Nat \ {0}
  BY DownloadConstants DEF TypeOK, Worker
<1>1. n \in 0 .. Limit
  BY <1>0
<1>2. NoAttempt \in Worker /\ NoAttempt.art = worker.art
  BY <1>0, ChunkSeqs DEF Worker, NoAttempt
<1>3. t \in Worker /\ t.failures = n /\ t.art = worker.art
  <2> HIDE DEF n
  <2>1. \A w \in Worker : /\ [w EXCEPT !.failures = n, !.mark = worker.bytes, !.last = kind] \in Worker
                          /\ [w EXCEPT !.failures = n, !.mark = worker.bytes, !.last = kind].failures = n
                          /\ [w EXCEPT !.failures = n, !.mark = worker.bytes, !.last = kind].art = w.art
    BY <1>0, <1>1 DEF Worker, Kinds
  <2> QED
    BY <1>2, <2>1
<1>4. ASSUME GivesUp(n, kind, last) PROVE WorkerOK(worker')
  <2>1. worker' = [t EXCEPT !.pc = "report", !.out = "gaveUp"]
    BY <1>4 DEF Fails
  <2> HIDE DEF t
  <2>2. worker' \in Worker /\ worker'.pc = "report" /\ worker'.art = t.art
    BY <2>1, <1>3 DEF Worker
  <2> QED
    BY <2>2, <1>0, <1>3 DEF WorkerOK
<1>5. ASSUME ~GivesUp(n, kind, last) PROVE WorkerOK(worker')
  <2>1. worker' = [t EXCEPT !.pc = "backoff"]
    BY <1>5 DEF Fails
  <2>2. n < Limit
    BY <1>0, <1>1, <1>5 DEF GivesUp
  <2> HIDE DEF t, n
  <2>3. worker' \in Worker /\ worker'.failures = n /\ worker'.art = t.art
    BY <2>1, <1>3 DEF Worker
  <2> QED
    BY <2>2, <2>3, <1>0, <1>3 DEF WorkerOK
<1>6. dry' \in Seq(Kinds)
  <2>1. dry \in Seq(Kinds) /\ Len(dry) \in Nat /\ dry' = Append(IF Len(dry) < Limit THEN dry ELSE Tail(dry), kind)
    BY LenProperties DEF TypeOK, Fails
  <2>2. Len(dry) >= Limit => Tail(dry) \in Seq(Kinds)
    BY <2>1, <1>0, EmptySeq, HeadTailProperties
  <2> QED
    BY <2>1, <2>2, <1>0
<1> QED
  BY <1>4, <1>5, <1>6

LEMMA EndsType ==
  ASSUME TypeOK, worker.pc # "off", NEW out \in {"ok", "corrupted", "gaveUp", "failed"}, Ends(out)
  PROVE  WorkerOK(worker')
<1>1. worker \in Worker /\ worker.art \in Artifacts
  BY DEF TypeOK
<1>2. NoAttempt \in Worker /\ NoAttempt.art = worker.art
  BY <1>1, ChunkSeqs DEF Worker, NoAttempt
<1>3. worker' = [NoAttempt EXCEPT !.pc = "report", !.out = out]
  BY DEF Ends
<1>4. worker' \in Worker /\ worker'.pc = "report" /\ worker'.art = worker.art
  BY <1>2, <1>3 DEF Worker
<1> QED
  BY <1>1, <1>4 DEF WorkerOK

\* A worker that moves on without failing.
LEMMA GotoType ==
  ASSUME TypeOK, worker.pc \notin {"off", "report", "clear"},
         NEW pc \in {"attempt", "verify", "rename", "mint"}, Goto(pc)
  PROVE  WorkerOK(worker')
<1>1. worker \in Worker /\ worker.art \in Artifacts /\ worker.failures < Limit
  BY DEF TypeOK
<1> QED
  BY <1>1 DEF Goto, WorkerOK, Worker

\* A worker that starts.
LEMMA StartedType ==
  ASSUME NEW a \in Artifacts, NEW minted \in BOOLEAN
  PROVE  WorkerOK(Started(a, minted))
<1>1. Off \in Worker /\ Off.failures = 0
  BY ChunkSeqs, DownloadConstants DEF Off, Worker
<1>2. Started(a, minted) = [Off EXCEPT !.pc = "request", !.art = a, !.minted = minted]
  BY DEF Started
<1>3. /\ Started(a, minted) \in Worker
      /\ Started(a, minted).art = a
      /\ Started(a, minted).failures = 0
  BY <1>1, <1>2 DEF Worker
<1> QED
  BY <1>3, DownloadConstants DEF WorkerOK

LEMMA WorkWorker == ASSUME TypeOK, Work PROVE WorkerOK(worker')
<1>0. worker \in Worker /\ WorkerOK(worker)
  BY DEF TypeOK, WorkerOK
<1>1. CASE WRequest \/ WBackoff
  BY <1>1, GotoType DEF WRequest, WBackoff
<1>2. CASE WAttempt
  <2>0. worker.pc = "attempt" /\ worker.art \in Artifacts
    BY <1>2 DEF WAttempt, TypeOK
  <2>1. CASE Cancelled
    BY <2>0, <2>1, EndsType DEF Cancelled
  <2>2. CASE ~Cancelled
    <3> DEFINE file == Resumable(part[worker.art])
    <3>1. worker' = [worker EXCEPT !.pc = "connect", !.bytes = Len(file), !.hash = file]
      BY <1>2, <2>2 DEF WAttempt, Rehashed
    <3>2. file \in Seq(Chunks) /\ Len(file) \in Nat
      BY <2>0, ResumableType DEF TypeOK
    <3> HIDE DEF file
    <3> QED
      BY <3>1, <3>2, <2>0, <1>0 DEF WorkerOK, Worker
  <2> QED
    BY <2>1, <2>2
<1>3. CASE WConnectError \/ WReadError
  BY <1>3, FailsType DEF WConnectError, WReadError, Kinds
<1>4. CASE WConnect
  <2> DEFINE r == Response(worker.bytes)
  <2>1. worker' = [worker EXCEPT !.pc = "stream", !.hash = r.hash, !.bytes = r.bytes, !.at = r.at]
    BY <1>4 DEF WConnect
  <2>2. worker.pc = "connect" /\ worker.bytes \in Nat
    BY <1>4, <1>0 DEF WConnect, Worker
  <2>3. r.hash \in Seq(Chunks) /\ r.bytes \in Nat /\ r.at \in Nat
    BY <2>2, ResponseType
  <2> HIDE DEF r
  <2> QED
    BY <2>1, <2>2, <2>3, <1>0 DEF WorkerOK, Worker
<1>5. CASE WChunk
  <2>1. PICK c \in NextChunks :
          worker' = [worker EXCEPT !.hash = Append(@, c), !.bytes = @ + 1, !.at = @ + 1]
    BY <1>5 DEF WChunk
  <2>2. c \in Chunks
    BY DEF NextChunks
  <2>3. Append(worker.hash, c) \in Seq(Chunks) /\ worker.bytes + 1 \in Nat /\ worker.at + 1 \in Nat
    BY <2>2, <1>0 DEF Worker
  <2> QED
    BY <2>1, <2>3, <1>0, <1>5 DEF WorkerOK, Worker, WChunk
<1>6. CASE WEndOfBody
  BY <1>6, GotoType DEF WEndOfBody
<1>7. CASE WCancelled
  BY <1>7, EndsType DEF WCancelled, Cancelled
<1>8. CASE WMint
  BY <1>8, GotoType, FailsType DEF WMint
<1>9. CASE WVerify
  BY <1>9, GotoType, EndsType DEF WVerify
<1>10. CASE WRename \/ WFatal
  BY <1>10, EndsType DEF WRename, WFatal, LocalError, Refused
<1>11. CASE WReport
  BY <1>11, <1>0 DEF WReport, Goto, WorkerOK, Worker
<1>12. CASE WClear
  BY <1>12, ChunkSeqs, DownloadConstants DEF WClear, WorkerOK, Worker, Off
<1> QED
  BY <1>1, <1>2, <1>3, <1>4, <1>5, <1>6, <1>7, <1>8, <1>9, <1>10, <1>11, <1>12 DEF Work

LEMMA WorkDisk ==
  ASSUME TypeOK, Work
  PROVE  /\ final' \in [Artifacts -> Seq(Chunks) \cup {NoFile}]
         /\ part' \in [Artifacts -> Seq(Chunks)]
<1>0. /\ final \in [Artifacts -> Seq(Chunks) \cup {NoFile}]
      /\ part \in [Artifacts -> Seq(Chunks)]
  BY DEF TypeOK
<1>1. CASE WAttempt
  <2>1. worker.art \in Artifacts
    BY <1>1 DEF WAttempt, TypeOK
  <2>2. Resumable(part[worker.art]) \in Seq(Chunks)
    BY <1>0, <2>1, ResumableType
  <2>3. UNCHANGED part \/ part' = [part EXCEPT ![worker.art] = Resumable(part[worker.art])]
    BY <1>1 DEF WAttempt
  <2>4. UNCHANGED final
    BY <1>1 DEF WAttempt
  <2> QED
    BY <1>0, <2>2, <2>3, <2>4
<1>2. CASE WConnect
  <2>1. worker.pc # "off" /\ worker.bytes \in Nat
    BY <1>2 DEF WConnect, TypeOK, Worker
  <2> QED
    BY <1>0, <1>2, <2>1, ResponseType DEF WConnect
<1>3. CASE WChunk
  <2>1. worker.art \in Artifacts
    BY <1>3 DEF WChunk, TypeOK
  <2>2. PICK c \in NextChunks : part' = [part EXCEPT ![worker.art] = Append(@, c)]
    BY <1>3 DEF WChunk
  <2>3. c \in Chunks
    BY DEF NextChunks
  <2> QED
    BY <1>0, <1>3, <2>1, <2>2, <2>3 DEF WChunk
<1>4. CASE WVerify \/ WRename
  <2>1. worker.art \in Artifacts
    BY <1>4 DEF WVerify, WRename, TypeOK
  <2> QED
    BY <1>0, <1>4, <2>1, ChunkSeqs DEF WVerify, WRename
<1> QED
  BY <1>0, <1>1, <1>2, <1>3, <1>4
  DEF Work, WRequest, WConnectError, WEndOfBody, WReadError, WCancelled, WBackoff, WMint,
      WFatal, WReport, WClear, disk

LEMMA WorkEvents ==
  ASSUME TypeOK, Work
  PROVE  events' \in Seq(Events) /\ dry' \in Seq(Kinds)
<1>0. events \in Seq(Events) /\ dry \in Seq(Kinds)
  BY DEF TypeOK, Events
<1>1. \A phase \in {"done", "failed", "cancelled"} :
        worker.pc # "off" /\ Emit(phase) => events' \in Seq(Events)
  <2> SUFFICES ASSUME NEW phase \in {"done", "failed", "cancelled"},
                      worker.pc # "off", Emit(phase)
               PROVE  events' \in Seq(Events)
    OBVIOUS
  <2>1. [art |-> worker.art, phase |-> phase] \in Events
    BY DEF TypeOK, Events
  <2>2. Append(events, [art |-> worker.art, phase |-> phase]) \in Seq(Events)
    BY <1>0, <2>1
  <2> QED
    BY <1>0, <2>2 DEF Emit
<1>2. CASE WAttempt \/ WCancelled \/ WReport
  BY <1>0, <1>1, <1>2 DEF WAttempt, WCancelled, WReport, Cancelled
<1>3. CASE WConnectError \/ WReadError \/ WMint
  BY <1>0, <1>3, FailsType DEF WConnectError, WReadError, WMint, Kinds
<1> QED
  BY <1>0, <1>2, <1>3, EmptySeq
  DEF Work, WRequest, WConnect, WChunk, WEndOfBody, WBackoff, WVerify, WRename, WFatal, WClear

LEMMA WorkPage == Work => UNCHANGED <<flow, artDl, server>>
BY DEF Work, WRequest, WAttempt, WConnectError, WConnect, WChunk, WEndOfBody, WReadError,
       WCancelled, WBackoff, WMint, WVerify, WRename, WFatal, WReport, WClear, page

LEMMA TypeWork == TypeOK /\ Work => TypeOK'
BY WorkWorker, WorkDisk, WorkEvents, WorkPage DEF TypeOK, WorkerOK, Events

-----------------------------------------------------------------------------
(* The page                                                                *)

\* Only a flow's promise names an artifact.
LEMMA PromiseFlow ==
  ASSUME TypeOK, artDl.art \in Artifacts
  PROVE  artDl.flow \in Flows
BY DownloadConstants DEF TypeOK, NoPromise

LEMMA RegisterType ==
  ASSUME TypeOK, NEW f \in Flows, NEW i \in 1 .. Len(Needs[f]), Register(f, i)
  PROVE  FlowOK(flow') /\ artDl' \in Promises
<1>1. flow' = [flow EXCEPT ![f] = [pc |-> "check", i |-> i]]
  BY DEF Register
<1>2. i \in Nat \ {0} /\ i <= Len(Needs[f])
  BY NeedsType
<1>3. FlowOK(flow')
  BY <1>1, <1>2 DEF TypeOK, FlowOK
<1>4. artDl' \in Promises
  BY NeedsType DEF Register, Promises
<1> QED
  BY <1>3, <1>4

LEMMA EndType ==
  ASSUME TypeOK, NEW f \in Flows, End(f)
  PROVE  FlowOK(flow') /\ artDl' \in Promises
BY NeedsType DEF TypeOK, End, FlowOK, FlowIdle, Promises

LEMMA AdvanceType ==
  ASSUME TypeOK, NEW f \in Flows, Advance(f)
  PROVE  FlowOK(flow') /\ artDl' \in Promises
<1>1. flow[f].i \in Nat \ {0}
  BY DEF TypeOK
<1>2. flow[f].i < Len(Needs[f]) => flow[f].i + 1 \in 1 .. Len(Needs[f])
  BY <1>1, NeedsType
<1> QED
  BY <1>2, RegisterType, EndType DEF Advance

LEMMA TypeBegin == ASSUME TypeOK, NEW f \in Flows, Begin(f) PROVE TypeOK'
<1>1. 1 \in 1 .. Len(Needs[f])
  BY NeedsType
<1>2. FlowOK(flow') /\ artDl' \in Promises
  BY <1>1, RegisterType, EndType DEF Begin
<1> QED
  BY <1>2 DEF TypeOK, FlowOK, Promises, Begin, disk

LEMMA TypePage == ASSUME TypeOK, NEW f \in Flows, Page(f) PROVE TypeOK'
<1>0. FlowOK(flow) /\ artDl \in Promises /\ WorkerOK(worker)
  BY DEF TypeOK, FlowOK, Promises, WorkerOK
<1>1. \A pc \in {"installed", "acquire", "refused", "wait"} :
        flow' = [flow EXCEPT ![f].pc = pc] => FlowOK(flow')
  BY <1>0 DEF FlowOK
<1>2. CASE Check(f)
  <2>1. FlowOK(flow')
    BY <1>1, <1>2 DEF Check
  <2> QED
    BY <1>2, <2>1 DEF TypeOK, FlowOK, Check, disk
<1>3. CASE Acquire(f)
  <2>1. FlowOK(flow')
    BY <1>1, <1>3 DEF Acquire
  <2>2. flow[f].i \in 1 .. Len(Needs[f])
    BY <1>0, NeedsType DEF FlowOK
  <2>3. Needed(f) \in Artifacts
    BY <2>2, NeedsType DEF Needed
  <2>4. WorkerOK(worker')
    BY <1>0, <1>3, <2>3, StartedType DEF Acquire
  <2> QED
    BY <1>3, <2>1, <2>4 DEF TypeOK, FlowOK, WorkerOK, Acquire, disk
<1>4. CASE Rejected(f)
  <2>1. FlowOK(flow') /\ artDl' \in Promises
    BY <1>0, <1>1, <1>4, AdvanceType, EndType DEF Rejected
  <2> QED
    BY <1>4, <2>1 DEF TypeOK, FlowOK, Promises, Rejected, disk
<1> QED
  BY <1>2, <1>3, <1>4 DEF Page

LEMMA TypeSettle == ASSUME TypeOK, Settle PROVE TypeOK'
<1> DEFINE e == Head(events)
<1>1. events \in Seq(Events) /\ events # <<>>
  BY DEF TypeOK, Events, Settle
<1>2. e \in Events /\ events' \in Seq(Events)
  BY <1>1, HeadTailProperties DEF Settle
<1>3. CASE artDl.art # e.art
  BY <1>2, <1>3 DEF Settle, TypeOK, page, disk, Events
<1>4. CASE artDl.art = e.art
  <2>1. artDl.flow \in Flows
    BY <1>2, <1>4, PromiseFlow DEF Events
  <2>2. FlowOK(flow') /\ artDl' \in Promises
    BY <1>4, <2>1, AdvanceType, EndType DEF Settle
  <2> QED
    BY <1>2, <2>2 DEF Settle, TypeOK, FlowOK, Promises, disk, Events
<1> QED
  BY <1>3, <1>4

-----------------------------------------------------------------------------
(* The other commands                                                      *)

LEMMA TypeCommands ==
  ASSUME TypeOK, (\E a \in Minted : DownloadModel(a)) \/ RequestCancel \/ AppExit
  PROVE  TypeOK'
<1>1. CASE \E a \in Minted : DownloadModel(a)
  <2>1. WorkerOK(worker')
    BY <1>1, StartedType, DownloadConstants DEF DownloadModel
  <2> QED
    BY <1>1, <2>1 DEF TypeOK, WorkerOK, DownloadModel, disk, page
<1>2. CASE RequestCancel
  <2>1. WorkerOK(worker')
    BY <1>2 DEF TypeOK, WorkerOK, Worker, RequestCancel
  <2> QED
    BY <1>2, <2>1 DEF TypeOK, WorkerOK, RequestCancel, disk, page
<1>3. CASE AppExit
  <2>1. WorkerOK(worker')
    BY <1>3, ChunkSeqs, DownloadConstants DEF AppExit, WorkerOK, Worker, Off
  <2>2. FlowOK(flow') /\ artDl' \in Promises
    BY <1>3, NeedsType DEF AppExit, FlowOK, FlowIdle, Promises
  <2>3. events' \in Seq(Events) /\ dry' \in Seq(Kinds)
    BY <1>3, EmptySeq DEF AppExit
  <2> QED
    BY <1>3, <2>1, <2>2, <2>3 DEF TypeOK, WorkerOK, FlowOK, Promises, Events, AppExit, disk
<1> QED
  BY <1>1, <1>2, <1>3

LEMMA TypeNext == TypeOK /\ [Next]_vars => TypeOK'
<1> SUFFICES ASSUME TypeOK, [Next]_vars PROVE TypeOK'
  OBVIOUS
<1>1. CASE UNCHANGED vars
  BY <1>1 DEF TypeOK, vars, disk, page
<1> QED
  BY <1>1, TypeWork, TypeBegin, TypePage, TypeSettle, TypeCommands DEF Next

\* Every reachable state is well typed, and no worker ever runs on with its
\* retry budget spent, whatever fails and in whatever order.
THEOREM Typing == Spec => []TypeOK
BY TypeInit, TypeNext, PTL DEF Spec

-----------------------------------------------------------------------------
(* Integrity                                                               *)

\* Between the verification and the rename nothing touches the .part.
RenamesGenuine == worker.pc = "rename" => part[worker.art] = Genuine

\* The inductive invariant of integrity: InstalledIsGenuine alone does not say
\* what is being renamed, nor why the digest that was compared is the file's.
IntegrityInv == TypeOK /\ HashIsOfFile /\ RenamesGenuine /\ InstalledIsGenuine

LEMMA IntegrityInit == Init => IntegrityInv
BY TypeInit DEF Init, IntegrityInv, HashIsOfFile, RenamesGenuine, InstalledIsGenuine, Off

\* A worker that has just started or ended has nothing hashed.
LEMMA IntegrityOff ==
  ASSUME IntegrityInv, TypeOK', UNCHANGED disk,
         worker'.pc \in {"off", "request", "attempt", "backoff", "mint", "report", "clear"}
  PROVE  IntegrityInv'
BY DEF IntegrityInv, HashIsOfFile, RenamesGenuine, InstalledIsGenuine, disk

LEMMA IntegritySame ==
  ASSUME IntegrityInv, TypeOK', UNCHANGED disk,
         worker'.pc = worker.pc, worker'.art = worker.art, worker'.hash = worker.hash
  PROVE  IntegrityInv'
BY DEF IntegrityInv, HashIsOfFile, RenamesGenuine, InstalledIsGenuine, disk

LEMMA IntegrityWork == ASSUME IntegrityInv, Work PROVE IntegrityInv'
<1>0. /\ TypeOK /\ TypeOK' /\ HashIsOfFile /\ RenamesGenuine /\ InstalledIsGenuine
      /\ worker \in Worker
  BY TypeWork DEF IntegrityInv, TypeOK
<1>1. \A out \in {"ok", "corrupted", "gaveUp", "failed"} : Ends(out) => worker'.pc = "report"
  BY <1>0 DEF Ends, NoAttempt, Worker
<1>2. \A pc : Goto(pc) => worker'.pc = pc /\ worker'.art = worker.art /\ worker'.hash = worker.hash
  BY <1>0 DEF Goto, Worker
<1>3. \A kind \in Kinds : Fails(kind) => worker'.pc \in {"report", "backoff"}
  BY <1>0 DEF Fails, NoAttempt, Worker
<1>4. CASE WRequest \/ WBackoff \/ WMint \/ WConnectError \/ WReadError \/ WCancelled
           \/ WFatal \/ WReport \/ WClear
  <2>1. worker'.pc \in {"off", "request", "attempt", "backoff", "mint", "report", "clear"}
    <3>1. CASE WRequest \/ WBackoff \/ WReport
      <4>1. \E pc \in {"attempt", "mint", "clear"} : Goto(pc)
        BY <3>1 DEF WRequest, WBackoff, WReport
      <4> QED
        BY <4>1, <1>2
    <3>2. CASE WConnectError \/ WReadError \/ WMint
      <4>1. Goto("attempt") \/ \E kind \in Kinds : Fails(kind)
        BY <3>2 DEF WConnectError, WReadError, WMint, Kinds
      <4> QED
        BY <4>1, <1>2, <1>3
    <3>3. CASE WCancelled \/ WFatal
      <4>1. \E out \in {"ok", "failed"} : Ends(out)
        BY <3>3 DEF WCancelled, Cancelled, WFatal, LocalError, Refused
      <4> QED
        BY <4>1, <1>1
    <3>4. CASE WClear
      BY <3>4 DEF WClear, Off
    <3> QED
      BY <1>4, <3>1, <3>2, <3>3, <3>4
  <2>2. UNCHANGED disk
    BY <1>4 DEF WRequest, WBackoff, WMint, WConnectError, WReadError, WCancelled, WFatal, LocalError, Refused,
                WReport, WClear
  <2> QED
    BY <1>0, <2>1, <2>2, IntegrityOff
<1>5. CASE WAttempt
  <2>1. UNCHANGED final /\ worker.pc = "attempt" /\ worker.art \in Artifacts
    BY <1>0, <1>5 DEF WAttempt, TypeOK
  <2>2. CASE Cancelled
    <3>1. worker'.pc = "report"
      BY <1>1, <2>2 DEF Cancelled
    <3> QED
      BY <1>0, <2>1, <3>1 DEF IntegrityInv, HashIsOfFile, RenamesGenuine, InstalledIsGenuine
  <2>3. CASE ~Cancelled
    <3> DEFINE file == Resumable(part[worker.art])
    <3>1. /\ worker' = [worker EXCEPT !.pc = "connect", !.bytes = Len(file), !.hash = file]
          /\ part' = [part EXCEPT ![worker.art] = file]
      BY <1>5, <2>3 DEF WAttempt, Rehashed
    <3> HIDE DEF file
    <3>2. worker'.pc = "connect" /\ worker'.art = worker.art /\ worker'.hash = file
      BY <1>0, <3>1 DEF Worker
    <3>3. part'[worker.art] = file
      BY <1>0, <2>1, <3>1 DEF TypeOK
    <3> QED
      BY <1>0, <2>1, <3>2, <3>3 DEF IntegrityInv, HashIsOfFile, RenamesGenuine, InstalledIsGenuine
  <2> QED
    BY <2>2, <2>3
<1>6. CASE WConnect
  <2> DEFINE r == Response(worker.bytes)
  <2>1. UNCHANGED final /\ worker.pc = "connect" /\ worker.art \in Artifacts
    BY <1>0, <1>6 DEF WConnect, TypeOK
  <2>2. r.hash = r.file
    BY <1>0, <2>1 DEF Response, HashIsOfFile
  <2>3. /\ worker' = [worker EXCEPT !.pc = "stream", !.hash = r.hash, !.bytes = r.bytes, !.at = r.at]
        /\ part' = [part EXCEPT ![worker.art] = r.file]
    BY <1>6 DEF WConnect
  <2> HIDE DEF r
  <2>4. worker'.pc = "stream" /\ worker'.art = worker.art /\ worker'.hash = r.hash
    BY <1>0, <2>3 DEF Worker
  <2>5. part'[worker.art] = r.file
    BY <1>0, <2>1, <2>3 DEF TypeOK
  <2> QED
    BY <1>0, <2>1, <2>2, <2>4, <2>5 DEF IntegrityInv, HashIsOfFile, RenamesGenuine, InstalledIsGenuine
<1>7. CASE WChunk
  <2>1. UNCHANGED final /\ worker.pc = "stream" /\ worker.art \in Artifacts
    BY <1>0, <1>7 DEF WChunk, TypeOK
  <2>2. PICK c \in NextChunks :
          /\ worker' = [worker EXCEPT !.hash = Append(@, c), !.bytes = @ + 1, !.at = @ + 1]
          /\ part' = [part EXCEPT ![worker.art] = Append(@, c)]
    BY <1>7 DEF WChunk
  <2>3. worker'.pc = "stream" /\ worker'.art = worker.art /\ worker'.hash = Append(worker.hash, c)
    BY <1>0, <2>1, <2>2 DEF Worker
  <2>4. part'[worker.art] = Append(part[worker.art], c)
    BY <1>0, <2>1, <2>2 DEF TypeOK
  <2> QED
    BY <1>0, <2>1, <2>3, <2>4 DEF IntegrityInv, HashIsOfFile, RenamesGenuine, InstalledIsGenuine
<1>8. CASE WEndOfBody
  <2>1. worker'.pc = "verify" /\ worker'.art = worker.art /\ worker'.hash = worker.hash
    BY <1>2, <1>8 DEF WEndOfBody
  <2> QED
    BY <1>0, <1>8, <2>1
    DEF WEndOfBody, disk, IntegrityInv, HashIsOfFile, RenamesGenuine, InstalledIsGenuine
<1>9. CASE WVerify
  <2>1. UNCHANGED final /\ worker.pc = "verify"
    BY <1>9 DEF WVerify
  <2>2. CASE Intact(part[worker.art], worker.hash)
    <3>1. /\ worker'.pc = "rename" /\ worker'.art = worker.art /\ worker'.hash = worker.hash
          /\ UNCHANGED part
      BY <1>2, <1>9, <2>2 DEF WVerify
    <3>2. part[worker.art] = Genuine
      BY <1>0, <2>1, <2>2 DEF Intact, HashIsOfFile
    <3> QED
      BY <1>0, <2>1, <3>1, <3>2 DEF IntegrityInv, HashIsOfFile, RenamesGenuine, InstalledIsGenuine
  <2>3. CASE ~Intact(part[worker.art], worker.hash)
    <3>1. worker'.pc = "report"
      BY <1>1, <1>9, <2>3 DEF WVerify
    <3> QED
      BY <1>0, <2>1, <3>1 DEF IntegrityInv, HashIsOfFile, RenamesGenuine, InstalledIsGenuine
  <2> QED
    BY <2>2, <2>3
<1>10. CASE WRename
  <2>1. worker.pc = "rename" /\ worker.art \in Artifacts /\ worker'.pc = "report"
    BY <1>0, <1>1, <1>10 DEF WRename, TypeOK
  <2>2. \A a \in Artifacts : final'[a] = IF a = worker.art THEN Genuine ELSE final[a]
    BY <1>0, <1>10, <2>1 DEF WRename, RenamesGenuine, TypeOK
  <2> QED
    BY <1>0, <2>1, <2>2 DEF IntegrityInv, HashIsOfFile, RenamesGenuine, InstalledIsGenuine
<1> QED
  BY <1>4, <1>5, <1>6, <1>7, <1>8, <1>9, <1>10 DEF Work

LEMMA IntegrityNext == IntegrityInv /\ [Next]_vars => IntegrityInv'
<1> SUFFICES ASSUME IntegrityInv, [Next]_vars PROVE IntegrityInv'
  OBVIOUS
<1>0. TypeOK /\ TypeOK' /\ worker \in Worker
  BY TypeNext DEF IntegrityInv, TypeOK
<1>1. CASE Work
  BY <1>1, IntegrityWork
<1>2. CASE (\E f \in Flows : Begin(f) \/ Check(f) \/ Rejected(f)) \/ Settle \/ UNCHANGED vars
  <2>1. UNCHANGED <<disk, worker>>
    BY <1>2 DEF Begin, Check, Rejected, Settle, vars
  <2> QED
    BY <1>0, <2>1, IntegritySame
<1>3. CASE \E f \in Flows : Acquire(f)
  <2>1. UNCHANGED disk
    BY <1>3 DEF Acquire
  <2>2. UNCHANGED worker \/ worker'.pc = "request"
    BY <1>3 DEF Acquire, Started, Off
  <2> QED
    BY <1>0, <2>1, <2>2, IntegritySame, IntegrityOff
<1>4. CASE \E a \in Minted : DownloadModel(a)
  <2>1. UNCHANGED disk /\ worker'.pc = "request"
    BY <1>4 DEF DownloadModel, Started, Off
  <2> QED
    BY <1>0, <2>1, IntegrityOff
<1>5. CASE RequestCancel
  <2>1. /\ UNCHANGED disk
        /\ worker'.pc = worker.pc /\ worker'.art = worker.art /\ worker'.hash = worker.hash
    BY <1>0, <1>5 DEF RequestCancel, Worker
  <2> QED
    BY <1>0, <2>1, IntegritySame
<1>6. CASE AppExit
  <2>1. UNCHANGED disk /\ worker'.pc = "off"
    BY <1>6 DEF AppExit, Off
  <2> QED
    BY <1>0, <2>1, IntegrityOff
<1> QED
  BY <1>1, <1>2, <1>3, <1>4, <1>5, <1>6 DEF Next, Page

\* The digest that is compared is the digest of the file that is renamed,
\* across resumes, restarts from zero, retries and restarts of the app.
THEOREM DigestCovers == Spec => []HashIsOfFile
BY IntegrityInit, IntegrityNext, PTL DEF Spec, IntegrityInv

\* Whatever the server sends and whatever was left on disk, nothing but the
\* genuine file ever gets its final name.
THEOREM OnlyGenuine == Spec => []InstalledIsGenuine
BY IntegrityInit, IntegrityNext, PTL DEF Spec, IntegrityInv

-----------------------------------------------------------------------------
(* The retry loop ends: with a server that honours Range and serves the     *)
(* genuine file, every step of the worker brings it nearer its end.         *)

Honest == server.ranges /\ server.genuine
OnDisk == Len(part[worker.art])

\* What record_failure_and_backoff may count on: bytes_counter never falls below
\* the mark the last failure left, and never goes beyond the file.
Counted ==
  /\ worker.mark <= worker.bytes
  /\ worker.bytes <= Size
  /\ worker.pc \in {"request", "attempt", "mint", "backoff"} =>
       \/ worker.bytes = 0
       \/ worker.bytes = OnDisk /\ OnDisk < Size
  /\ worker.pc = "connect" => worker.bytes = OnDisk /\ OnDisk < Size
  /\ worker.pc = "stream" => worker.bytes = OnDisk /\ worker.at = OnDisk
CountedBytes == Honest => Counted

\* How far the worker still is from the end, the first of these that changes
\* deciding: its stage, the bytes it has yet to put beyond its last failure,
\* the failures it has to spare, its place in an attempt, and the bytes the
\* response has yet to bring.
Stage(pc) == IF pc = "off" THEN 0 ELSE IF pc = "clear" THEN 1 ELSE IF pc = "report" THEN 2 ELSE 3
Turn == [off |-> 0, clear |-> 0, report |-> 0, rename |-> 1, verify |-> 2, stream |-> 3,
         connect |-> 4, attempt |-> 5, mint |-> 6, backoff |-> 7, request |-> 8]
SameStage == Stage(worker'.pc) = Stage(worker.pc)
SameMark == SameStage /\ worker'.mark = worker.mark
SameCount == SameMark /\ worker'.failures = worker.failures
Nearer ==
  \/ Stage(worker'.pc) < Stage(worker.pc)
  \/ SameStage /\ worker'.mark > worker.mark
  \/ SameMark /\ worker'.failures > worker.failures
  \/ SameCount /\ Turn[worker'.pc] < Turn[worker.pc]
  \/ SameCount /\ Turn[worker'.pc] = Turn[worker.pc] /\ worker'.at > worker.at
Headway == Honest /\ Work => Nearer

EndsInv == TypeOK /\ CountedBytes

LEMMA EndsInit == Init => EndsInv
BY TypeInit, DownloadConstants DEF Init, EndsInv, CountedBytes, Counted, Off

\* What a step that only moves on, one that ends and one that fails leave.
LEMMA Moves ==
  ASSUME TypeOK
  PROVE  /\ \A pc : Goto(pc) => /\ worker'.pc = pc
                                /\ worker'.art = worker.art /\ worker'.bytes = worker.bytes
                                /\ worker'.mark = worker.mark /\ worker'.at = worker.at
                                /\ worker'.failures = worker.failures
         /\ \A out : Ends(out) => /\ worker'.pc = "report" /\ worker'.bytes = worker.bytes
                                  /\ worker'.mark = worker.mark
         /\ \A kind : Fails(kind) =>
              /\ worker'.pc \in {"report", "backoff"}
              /\ worker'.art = worker.art /\ worker'.bytes = worker.bytes
              /\ worker'.mark = worker.bytes
              /\ worker'.failures = (IF worker.bytes > worker.mark THEN 0 ELSE worker.failures) + 1
<1>0. worker \in Worker
  BY DEF TypeOK
<1>1. NoAttempt \in Worker /\ NoAttempt.art = worker.art /\ NoAttempt.bytes = worker.bytes
      /\ NoAttempt.mark = worker.mark
  BY <1>0, ChunkSeqs DEF NoAttempt, Worker
<1>2. ASSUME NEW pc, Goto(pc)
      PROVE  /\ worker'.pc = pc
             /\ worker'.art = worker.art /\ worker'.bytes = worker.bytes
             /\ worker'.mark = worker.mark /\ worker'.at = worker.at
             /\ worker'.failures = worker.failures
  BY <1>0, <1>2 DEF Goto, Worker
<1>3. ASSUME NEW out, Ends(out)
      PROVE  worker'.pc = "report" /\ worker'.bytes = worker.bytes /\ worker'.mark = worker.mark
  BY <1>1, <1>3 DEF Ends, Worker
<1>4. ASSUME NEW kind, Fails(kind)
      PROVE  /\ worker'.pc \in {"report", "backoff"}
             /\ worker'.art = worker.art /\ worker'.bytes = worker.bytes
             /\ worker'.mark = worker.bytes
             /\ worker'.failures = (IF worker.bytes > worker.mark THEN 0 ELSE worker.failures) + 1
  <2> DEFINE n == (IF Progressed THEN 0 ELSE worker.failures) + 1
             t == [NoAttempt EXCEPT !.failures = n, !.mark = worker.bytes, !.last = kind]
  <2>1. \/ worker' = [t EXCEPT !.pc = "report", !.out = "gaveUp"]
        \/ worker' = [t EXCEPT !.pc = "backoff"]
    BY <1>4 DEF Fails
  <2>2. n = (IF worker.bytes > worker.mark THEN 0 ELSE worker.failures) + 1
    BY DEF Progressed
  <2> HIDE DEF n
  <2>3. t.failures = n /\ t.mark = worker.bytes /\ t.art = worker.art /\ t.bytes = worker.bytes
    BY <1>1 DEF Worker
  <2>4. DOMAIN t = DOMAIN NoAttempt
    OBVIOUS
  <2>5. {"failures", "mark", "art", "bytes", "pc", "out"} \subseteq DOMAIN NoAttempt
    BY <1>1 DEF Worker
  <2> HIDE DEF t
  <2>6. /\ worker'.pc \in {"report", "backoff"}
        /\ worker'.failures = t.failures /\ worker'.mark = t.mark
        /\ worker'.art = t.art /\ worker'.bytes = t.bytes
    BY <2>1, <2>4, <2>5
  <2> QED
    BY <2>2, <2>3, <2>6
<1> QED
  BY <1>2, <1>3, <1>4

LEMMA EndsWork ==
  ASSUME EndsInv, Honest, Work
  PROVE  Counted' /\ Nearer
<1>0. /\ TypeOK /\ TypeOK' /\ Counted /\ worker \in Worker /\ worker' \in Worker
      /\ worker.bytes \in Nat /\ worker.mark \in Nat /\ worker.at \in Nat
      /\ worker.failures \in Nat /\ Size \in Nat \ {0} /\ OnDisk \in Nat
  <2>1. TypeOK /\ TypeOK' /\ Counted /\ worker \in Worker /\ worker' \in Worker
    BY TypeWork DEF EndsInv, CountedBytes, TypeOK
  <2>2. worker.pc # "off"
    BY DEF Work, WRequest, WAttempt, WConnectError, WConnect, WChunk, WEndOfBody, WReadError,
       WCancelled, WBackoff, WMint, WVerify, WRename, WFatal, LocalError, Refused, WReport, WClear
  <2>3. part[worker.art] \in Seq(Chunks)
    BY <2>1, <2>2 DEF TypeOK
  <2>4. OnDisk \in Nat
    BY <2>3, LenProperties DEF OnDisk
  <2> QED
    BY <2>1, <2>4, DownloadConstants DEF Worker
\* What ends comes nearer its end, and keeps its count.
<1>1. ASSUME NEW out, Ends(out), worker.pc \notin {"off", "clear", "report"}
      PROVE  Counted' /\ Nearer
  <2>1. /\ worker'.pc = "report"
        /\ worker'.bytes = worker.bytes /\ worker'.mark = worker.mark
    BY <1>0, <1>1, Moves
  <2> QED
    BY <1>0, <1>1, <2>1 DEF Counted, Nearer, Stage
\* A failure after a byte raises the mark; any other is counted.
<1>2. ASSUME NEW kind, Fails(kind), worker.pc \in {"connect", "stream", "mint"}, UNCHANGED disk,
             worker.pc = "stream" => worker.at < Size
      PROVE  Counted' /\ Nearer
  <2>1. /\ worker'.pc \in {"report", "backoff"}
        /\ worker'.art = worker.art /\ worker'.bytes = worker.bytes
        /\ worker'.mark = worker.bytes
        /\ worker'.failures = (IF worker.bytes > worker.mark THEN 0 ELSE worker.failures) + 1
    BY <1>0, <1>2, Moves
  <2>2. OnDisk' = OnDisk
    BY <1>2, <2>1 DEF disk, OnDisk
  <2>3. worker.bytes = 0 \/ (worker.bytes = OnDisk /\ OnDisk < Size)
    BY <1>0, <1>2 DEF Counted
  <2>4. Counted'
    BY <1>0, <2>1, <2>2, <2>3 DEF Counted
  <2>5. Nearer
    <3>1. CASE worker'.pc = "report"
      BY <1>2, <3>1 DEF Nearer, Stage
    <3>2. CASE worker'.pc = "backoff"
      <4>1. SameStage
        BY <1>2, <3>2 DEF SameStage, Stage
      <4>2. worker'.mark > worker.mark
            \/ (worker'.mark = worker.mark /\ worker'.failures > worker.failures)
        BY <1>0, <2>1 DEF Counted
      <4> QED BY <4>1, <4>2 DEF Nearer, SameMark
    <3> QED BY <2>1, <3>1, <3>2
  <2> QED BY <2>4, <2>5
\* What moves on within an attempt.
<1>3. ASSUME NEW pc, Goto(pc), UNCHANGED disk, Turn[pc] < Turn[worker.pc],
             Stage(pc) = 3, Stage(worker.pc) = 3,
             pc \in {"attempt", "mint"} => worker.pc \in {"request", "backoff", "mint"},
             pc \in {"attempt", "mint", "verify", "rename"}
      PROVE  Counted' /\ Nearer
  <2>1. /\ worker'.pc = pc
        /\ worker'.art = worker.art /\ worker'.bytes = worker.bytes
        /\ worker'.mark = worker.mark /\ worker'.at = worker.at
        /\ worker'.failures = worker.failures
    BY <1>0, <1>3, Moves
  <2>2. OnDisk' = OnDisk
    BY <1>3, <2>1 DEF disk, OnDisk
  <2>3. Counted'
    BY <1>0, <1>3, <2>1, <2>2 DEF Counted
  <2>4. Nearer
    BY <1>3, <2>1 DEF Nearer, SameStage, SameMark, SameCount
  <2> QED BY <2>3, <2>4
<1>4. CASE WRequest
  <2>1. worker.pc = "request" /\ Goto("attempt") /\ UNCHANGED disk
    BY <1>4 DEF WRequest
  <2> QED BY <1>3, <2>1 DEF Turn, Stage
<1>5. CASE WAttempt
  <2>1. worker.pc = "attempt" /\ worker.art \in Artifacts
    BY <1>0, <1>5 DEF WAttempt, TypeOK
  <2>2. CASE Cancelled
    BY <1>1, <2>1, <2>2 DEF Cancelled
  <2>3. CASE ~Cancelled
    <3> DEFINE file == Resumable(part[worker.art])
    <3>1. /\ worker' = [worker EXCEPT !.pc = "connect", !.bytes = Len(file), !.hash = file]
          /\ part' = [part EXCEPT ![worker.art] = file]
      BY <1>5, <2>3 DEF WAttempt, Rehashed
    <3>2. /\ Len(file) \in Nat /\ Len(file) < Size
          /\ OnDisk < Size => Len(file) = OnDisk
      BY <1>0, EmptySeq DEF Resumable, OnDisk
    <3> HIDE DEF file
    <3>3. /\ worker'.pc = "connect" /\ worker'.art = worker.art /\ worker'.bytes = Len(file)
          /\ worker'.mark = worker.mark /\ worker'.failures = worker.failures
      BY <1>0, <3>1 DEF Worker
    <3>4. OnDisk' = Len(file)
      BY <1>0, <2>1, <3>1, <3>3 DEF TypeOK, OnDisk
    <3>5. Counted'
      BY <1>0, <2>1, <3>2, <3>3, <3>4 DEF Counted
    <3>6. Nearer
      BY <2>1, <3>3 DEF Nearer, SameStage, SameMark, SameCount, Stage, Turn
    <3> QED BY <3>5, <3>6
  <2> QED BY <2>2, <2>3
<1>6. CASE WConnectError
  <2>1. /\ worker.pc = "connect" /\ UNCHANGED disk
        /\ \E kind \in Kinds : Fails(kind)
    BY <1>6 DEF WConnectError
  <2> QED BY <1>2, <2>1
<1>7. CASE WConnect
  <2> DEFINE r == Response(worker.bytes)
  <2>1. /\ worker.pc = "connect" /\ worker.art \in Artifacts
        /\ worker' = [worker EXCEPT !.pc = "stream", !.hash = r.hash, !.bytes = r.bytes, !.at = r.at]
        /\ part' = [part EXCEPT ![worker.art] = r.file]
    BY <1>0, <1>7 DEF WConnect, TypeOK
  <2>2. r.file = part[worker.art] /\ r.bytes = worker.bytes /\ r.at = worker.bytes
    BY DEF Response, Honest
  <2> HIDE DEF r
  <2>3. /\ worker'.pc = "stream" /\ worker'.art = worker.art
        /\ worker'.bytes = worker.bytes /\ worker'.at = worker.bytes
        /\ worker'.mark = worker.mark /\ worker'.failures = worker.failures
    BY <1>0, <2>1, <2>2 DEF Worker
  <2>4. OnDisk' = OnDisk
    BY <1>0, <2>1, <2>2, <2>3 DEF TypeOK, OnDisk
  <2>5. Counted'
    BY <1>0, <2>1, <2>3, <2>4 DEF Counted
  <2>6. Nearer
    BY <2>1, <2>3 DEF Nearer, SameStage, SameMark, SameCount, Stage, Turn
  <2> QED BY <2>5, <2>6
<1>8. CASE WChunk
  <2>1. PICK c \in NextChunks :
          /\ worker' = [worker EXCEPT !.hash = Append(@, c), !.bytes = @ + 1, !.at = @ + 1]
          /\ part' = [part EXCEPT ![worker.art] = Append(@, c)]
    BY <1>8 DEF WChunk
  <2>2. worker.pc = "stream" /\ worker.art \in Artifacts
    BY <1>0, <1>8 DEF WChunk, TypeOK
  <2>3. worker.at + 1 <= Size /\ c \in Chunks
    BY <1>0, <2>1 DEF NextChunks, Honest, Chunks
  <2>4. /\ worker'.pc = "stream" /\ worker'.art = worker.art
        /\ worker'.bytes = worker.bytes + 1 /\ worker'.at = worker.at + 1
        /\ worker'.mark = worker.mark /\ worker'.failures = worker.failures
    BY <1>0, <2>1, <2>2 DEF Worker
  <2>5. OnDisk' = OnDisk + 1
    <3>1. part[worker.art] \in Seq(Chunks)
      BY <1>0, <2>2 DEF TypeOK
    <3>2. part'[worker.art] = Append(part[worker.art], c)
      BY <1>0, <2>1, <2>2 DEF TypeOK
    <3> QED BY <2>3, <2>4, <3>1, <3>2, AppendProperties DEF OnDisk
  <2>6. Counted'
    BY <1>0, <2>2, <2>3, <2>4, <2>5 DEF Counted
  <2>7. Nearer
    <3>1. SameCount /\ Turn[worker'.pc] = Turn[worker.pc]
      BY <2>2, <2>4 DEF SameStage, SameMark, SameCount
    <3>2. worker'.at > worker.at
      BY <1>0, <2>4
    <3> QED BY <3>1, <3>2 DEF Nearer
  <2> QED BY <2>6, <2>7
<1>9. CASE WEndOfBody
  <2>1. worker.pc = "stream" /\ Goto("verify") /\ UNCHANGED disk
    BY <1>9 DEF WEndOfBody
  <2> QED BY <1>3, <2>1 DEF Turn, Stage
<1>10. CASE WReadError
  <2>1. /\ worker.pc = "stream" /\ UNCHANGED disk /\ worker.at < Size
        /\ Fails("transient")
    BY <1>10 DEF WReadError, Honest
  <2> QED BY <1>2, <2>1
<1>11. CASE WCancelled
  <2>1. worker.pc \in {"stream", "backoff"} /\ Ends("ok")
    BY <1>11 DEF WCancelled, Cancelled
  <2> QED BY <1>1, <2>1
<1>12. CASE WBackoff
  <2>1. worker.pc = "backoff" /\ UNCHANGED disk /\ \E pc \in {"mint", "attempt"} : Goto(pc)
    BY <1>12 DEF WBackoff
  <2> QED BY <1>3, <2>1 DEF Turn, Stage
<1>13. CASE WMint
  <2>1. /\ worker.pc = "mint" /\ UNCHANGED disk
        /\ Goto("attempt") \/ \E kind \in Kinds : Fails(kind)
    BY <1>13 DEF WMint
  <2>2. CASE Goto("attempt")
    BY <1>3, <2>1, <2>2 DEF Turn, Stage
  <2>3. CASE \E kind \in Kinds : Fails(kind)
    BY <1>2, <2>1, <2>3
  <2> QED BY <2>1, <2>2, <2>3
<1>14. CASE WVerify
  <2>1. worker.pc = "verify"
    BY <1>14 DEF WVerify
  <2>2. CASE Goto("rename") /\ UNCHANGED part
    <3>1. UNCHANGED disk
      BY <1>14, <2>2 DEF WVerify, disk
    <3> QED BY <1>3, <2>1, <2>2, <3>1 DEF Turn, Stage
  <2>3. CASE Ends("corrupted")
    BY <1>1, <2>1, <2>3
  <2> QED BY <1>14, <2>2, <2>3 DEF WVerify
<1>15. CASE WRename
  BY <1>1, <1>15 DEF WRename
<1>16. CASE WFatal
  BY <1>1, <1>16 DEF WFatal, LocalError, Refused
<1>17. CASE WReport
  <2>1. worker.pc = "report" /\ Goto("clear")
    BY <1>17 DEF WReport
  <2>2. /\ worker'.pc = "clear" /\ worker'.bytes = worker.bytes /\ worker'.mark = worker.mark
    BY <1>0, <2>1, Moves
  <2> QED BY <1>0, <2>1, <2>2 DEF Counted, Nearer, Stage
<1>18. CASE WClear
  <2>1. /\ worker.pc = "clear" /\ worker'.pc = "off"
        /\ worker'.bytes = 0 /\ worker'.mark = 0
    BY <1>18 DEF WClear, Off
  <2> QED BY <1>0, <2>1 DEF Counted, Nearer, Stage
<1> QED
  BY <1>4, <1>5, <1>6, <1>7, <1>8, <1>9, <1>10, <1>11, <1>12, <1>13, <1>14, <1>15, <1>16,
     <1>17, <1>18 DEF Work

LEMMA EndsNext == EndsInv /\ [Next]_vars => EndsInv' /\ Headway
<1> SUFFICES ASSUME EndsInv, [Next]_vars PROVE EndsInv' /\ Headway
  OBVIOUS
<1>0. TypeOK /\ TypeOK' /\ worker \in Worker
  BY TypeNext DEF EndsInv, TypeOK
<1>1. Headway
  BY EndsWork DEF Headway
<1>2. UNCHANGED server
  BY WorkPage DEF Next, vars, Begin, Page, Check, Acquire, Rejected, Settle, DownloadModel,
     RequestCancel, AppExit
<1>3. ASSUME Honest PROVE Counted'
  <2>0. Counted
    BY <1>3 DEF EndsInv, CountedBytes
  <2>1. CASE Work
    BY <1>3, <2>1, EndsWork
  <2>2. CASE worker'.pc \in {"off", "request"} /\ worker'.bytes = 0 /\ worker'.mark = 0
    BY <2>2, DownloadConstants DEF Counted
  <2>3. CASE UNCHANGED <<part, worker>>
    BY <2>0, <2>3 DEF Counted, OnDisk
  <2>4. CASE RequestCancel
    <3>1. UNCHANGED part /\ worker' = [worker EXCEPT !.cancel = TRUE]
      BY <2>4 DEF RequestCancel, disk
    <3>2. /\ worker'.pc = worker.pc /\ worker'.art = worker.art /\ worker'.bytes = worker.bytes
          /\ worker'.mark = worker.mark /\ worker'.at = worker.at
      BY <1>0, <3>1 DEF Worker
    <3> QED BY <2>0, <3>1, <3>2 DEF Counted, OnDisk
  <2>5. CASE \/ \E f \in Flows : Begin(f) \/ Check(f) \/ Rejected(f)
             \/ Settle \/ UNCHANGED vars
    BY <2>3, <2>5 DEF Begin, Check, Rejected, Settle, vars, disk
  <2>6. CASE \E f \in Flows : Acquire(f)
    <3>1. UNCHANGED part
      BY <2>6 DEF Acquire, disk
    <3>2. UNCHANGED worker \/ (worker'.pc = "request" /\ worker'.bytes = 0 /\ worker'.mark = 0)
      BY <2>6 DEF Acquire, Started, Off
    <3> QED BY <2>2, <2>3, <3>1, <3>2
  <2>7. CASE \E a \in Minted : DownloadModel(a)
    <3>1. worker'.pc = "request" /\ worker'.bytes = 0 /\ worker'.mark = 0
      BY <2>7 DEF DownloadModel, Started, Off
    <3> QED BY <2>2, <3>1
  <2>8. CASE AppExit
    <3>1. worker'.pc = "off" /\ worker'.bytes = 0 /\ worker'.mark = 0
      BY <2>8 DEF AppExit, Off
    <3> QED BY <2>2, <3>1
  <2> QED
    BY <2>1, <2>4, <2>5, <2>6, <2>7, <2>8 DEF Next, Page
<1> QED
  BY <1>0, <1>1, <1>2, <1>3 DEF EndsInv, CountedBytes, Honest

\* bytes_counter, the measure of the failure budget's "progress", stays between
\* the last failure's mark and the size of the file (download.rs,
\* record_failure_and_backoff), so that the mark can rise only so often ...
THEOREM BytesCounted == Spec => []CountedBytes
BY EndsInit, EndsNext, PTL DEF Spec, EndsInv

\* ... and every step of the worker that honest answers allow, every retry
\* included, either raises it, spends one more of the failures in a row that the
\* budget allows, or brings the attempt nearer its end: no retry loop is endless.
THEOREM DownloadNears == Spec => [][Headway]_vars
<1>1. EndsInv /\ [Next]_vars => EndsInv' /\ [Headway]_vars
  BY EndsNext
<1> QED
  BY <1>1, EndsInit, PTL DEF Spec
=============================================================================
