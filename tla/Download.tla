------------------------------- MODULE Download -------------------------------
(***************************************************************************)
(* Model downloads (src-tauri/src/cloud/download.rs): the app-wide single  *)
(* slot, the worker thread that resumes, streams, retries, verifies and    *)
(* renames one file, and the page's flows (src/app.js) that download a     *)
(* base and its adapters one after the other, each waiting for the         *)
(* terminal event of its file.                                             *)
(*                                                                         *)
(* A file is a sequence of chunks; chunk i of the genuine file is i and 0  *)
(* is any wrong chunk.  A SHA-256 state is the sequence it has consumed.   *)
(* Left out: progress events and their throttle, the disk-space check and  *)
(* the URL gates beyond their refusals, and what the page does with the    *)
(* events of a minted download (no flow waits for them).                   *)
(***************************************************************************)
EXTENDS Naturals, Sequences

CONSTANTS
  Flows,     \* heroDownload, from a button or a banner, and selectTier
  Artifacts,
  Needs,     \* the artifacts of each flow, in order
  Minted,    \* what download_model also fetches, with a minted token
  Size,      \* chunks of a file
  Limit,     \* consecutive failures after which a worker gives up
  NoFile, NoFlow, NoArtifact

ASSUME DownloadConstants ==
  /\ Needs \in [Flows -> Seq(Artifacts) \ {<<>>}]
  /\ Minted \subseteq Artifacts
  /\ Size \in Nat \ {0}
  /\ Limit \in Nat \ {0}
  /\ NoFlow \notin Flows
  /\ NoArtifact \notin Artifacts
  /\ NoFile \notin Seq(Nat)

VARIABLES
  final,   \* the installed files
  part,    \* the .part files; an empty one is the same as none
  worker,  \* the slot and the thread that holds it
  events,  \* terminal download-progress events on their way to the page
  flow,    \* the page's flows
  artDl,   \* state.artDl: the one promise the page can settle
  server,  \* whether the server honours Range, and serves the genuine file
  dry      \* history: the worker's last failures, none before the last byte

disk == <<final, part>>
page == <<flow, artDl>>
vars == <<disk, worker, events, page, server, dry>>

Chunks == 0 .. Size
Genuine == [i \in 1 .. Size |-> i]
Wrong(n) == [i \in 1 .. n |-> 0]
Leftovers == {SubSeq(Genuine, 1, n) : n \in Chunks} \cup {Wrong(n) : n \in 0 .. Size + 1}
Kinds == {"transient", "refused"}   \* refused: 403 and 404

Worker == [pc : {"off", "request", "attempt", "connect", "stream", "backoff", "mint",
                 "verify", "rename", "report", "clear"},
           art : Artifacts \cup {NoArtifact}, minted : BOOLEAN, cancel : BOOLEAN,
           hash : Seq(Chunks),    \* the hasher
           bytes : Nat,           \* bytes_counter
           at : Nat,              \* position in the file of the next chunk sent
           failures : 0 .. Limit, mark : Nat, last : Kinds \cup {"none"},
           out : {"ok", "corrupted", "gaveUp", "failed"}]

Off == [pc |-> "off", art |-> NoArtifact, minted |-> FALSE, cancel |-> FALSE,
        hash |-> <<>>, bytes |-> 0, at |-> 0,
        failures |-> 0, mark |-> 0, last |-> "none", out |-> "ok"]
Started(a, minted) == [Off EXCEPT !.pc = "request", !.art = a, !.minted = minted]

FlowIdle == [pc |-> "idle", i |-> 1]
NoPromise == [flow |-> NoFlow, art |-> NoArtifact]

-----------------------------------------------------------------------------
\* The first start: nothing is installed, but any .part may have been left by
\* another version of the app, of this file or of one of the same name.
Init ==
  /\ final = [a \in Artifacts |-> NoFile]
  /\ part \in [Artifacts -> Leftovers]
  /\ worker = Off
  /\ events = <<>>
  /\ flow = [f \in Flows |-> FlowIdle]
  /\ artDl = NoPromise
  /\ server \in [ranges : BOOLEAN, genuine : BOOLEAN]
  /\ dry = <<>>

-----------------------------------------------------------------------------
(* The worker thread: run_download_core.                                   *)

Goto(pc) == worker' = [worker EXCEPT !.pc = pc]

\* The attempt's hasher and response are gone.
NoAttempt == [worker EXCEPT !.hash = <<>>, !.at = 0]
Ends(out) == worker' = [NoAttempt EXCEPT !.pc = "report", !.out = out]
Emit(phase) ==
  events' = IF worker.minted THEN events ELSE Append(events, [art |-> worker.art, phase |-> phase])

\* cancelled is emitted on the spot; the worker then ends like a success.
Cancelled == worker.cancel /\ Ends("ok") /\ Emit("cancelled")

\* Preflight, and the first mint of a minted download, whose errors are final.
WRequest ==
  /\ worker.pc = "request"
  /\ Goto("attempt")
  /\ UNCHANGED <<disk, events, page, server, dry>>

\* rehash_existing
Rehashed(file) == file

\* A .part is resumed only if it is shorter than the file.
Resumable(file) == IF Len(file) < Size THEN file ELSE <<>>

\* The head of the attempt loop: cancelled, or prepare_part_file.
WAttempt ==
  /\ worker.pc = "attempt"
  /\ \/ Cancelled /\ UNCHANGED part
     \/ /\ ~worker.cancel
        /\ LET file == Resumable(part[worker.art]) IN
           /\ part' = [part EXCEPT ![worker.art] = file]
           /\ worker' = [worker EXCEPT !.pc = "connect", !.bytes = Len(file),
                                       !.hash = Rehashed(file)]
        /\ UNCHANGED events
  /\ UNCHANGED <<final, page, server, dry>>

\* Mutant: bytes that were on disk before count as progress.
Progressed_AnyBytes == worker.bytes > 0

\* At least one byte since the last failure.
Progressed == worker.bytes > worker.mark

GivesUp(n, kind, last) == (kind = "refused" /\ last = "refused") \/ n >= Limit

\* record_failure_and_backoff, up to the sleep
Fails(kind) ==
  LET n == (IF Progressed THEN 0 ELSE worker.failures) + 1
      last == IF Progressed THEN "none" ELSE worker.last
      t == [NoAttempt EXCEPT !.failures = n, !.mark = worker.bytes, !.last = kind] IN
  /\ worker' = IF GivesUp(n, kind, last) THEN [t EXCEPT !.pc = "report", !.out = "gaveUp"]
                                         ELSE [t EXCEPT !.pc = "backoff"]
  /\ dry' = Append(IF Len(dry) < Limit THEN dry ELSE Tail(dry), kind)

\* The request fails: a transport error or a status that is not 2xx.
WConnectError ==
  /\ worker.pc = "connect"
  /\ \E kind \in Kinds : Fails(kind)
  /\ UNCHANGED <<disk, events, page, server>>

\* The answer to a request that resumes after so many bytes: 206 from there,
\* or 200 with the whole file, for which everything starts over.
Response(resumed) ==
  IF resumed = 0 \/ server.ranges
    THEN [file |-> part[worker.art], hash |-> worker.hash, bytes |-> resumed, at |-> resumed]
    ELSE [file |-> <<>>, hash |-> <<>>, bytes |-> 0, at |-> 0]

WConnect ==
  /\ worker.pc = "connect"
  /\ LET r == Response(worker.bytes) IN
     /\ part' = [part EXCEPT ![worker.art] = r.file]
     /\ worker' = [worker EXCEPT !.pc = "stream", !.hash = r.hash, !.bytes = r.bytes, !.at = r.at]
  /\ UNCHANGED <<final, events, page, server, dry>>

\* The chunks a server may send next, and where a response may end or break:
\* the genuine one announces its length.
NextChunks ==
  IF server.genuine THEN {c \in Chunks : c = worker.at + 1}
  ELSE {c \in Chunks : c \in {0, worker.at + 1} /\ Len(part[worker.art]) <= Size}
AtEnd == server.genuine => worker.at = Size

\* stream_response, one read: a chunk is hashed, written and counted.
WChunk ==
  /\ worker.pc = "stream"
  /\ \E c \in NextChunks :
       /\ part' = [part EXCEPT ![worker.art] = Append(@, c)]
       /\ worker' = [worker EXCEPT !.hash = Append(@, c), !.bytes = @ + 1, !.at = @ + 1]
  /\ dry' = <<>>
  /\ UNCHANGED <<final, events, page, server>>

WEndOfBody ==
  /\ worker.pc = "stream"
  /\ AtEnd
  /\ Goto("verify")
  /\ UNCHANGED <<disk, events, page, server, dry>>

WReadError ==
  /\ worker.pc = "stream"
  /\ server.genuine => worker.at < Size
  /\ Fails("transient")
  /\ UNCHANGED <<disk, events, page, server>>

\* The cancel flag is seen before a read or by the interruptible sleep.
WCancelled ==
  /\ worker.pc \in {"stream", "backoff"}
  /\ Cancelled
  /\ UNCHANGED <<disk, page, server, dry>>

\* The backoff is over: a minted download needs a new token.
WBackoff ==
  /\ worker.pc = "backoff"
  /\ ~worker.cancel
  /\ Goto(IF worker.minted THEN "mint" ELSE "attempt")
  /\ UNCHANGED <<disk, events, page, server, dry>>

\* remint_with_budget: a failed mint is a failure like any other.
WMint ==
  /\ worker.pc = "mint"
  /\ \/ Goto("attempt") /\ UNCHANGED dry
     \/ \E kind \in Kinds : Fails(kind)
  /\ UNCHANGED <<disk, events, page, server>>

\* Mutant: only the length is checked.
Intact_Length(file, hash) == Len(file) = Size

Intact(file, hash) == hash = Genuine /\ Len(file) = Size

WVerify ==
  /\ worker.pc = "verify"
  /\ IF Intact(part[worker.art], worker.hash)
       THEN Goto("rename") /\ UNCHANGED part
       ELSE Ends("corrupted") /\ part' = [part EXCEPT ![worker.art] = <<>>]
  /\ UNCHANGED <<final, events, page, server, dry>>

WRename ==
  /\ worker.pc = "rename"
  /\ final' = [final EXCEPT ![worker.art] = part[worker.art]]
  /\ part' = [part EXCEPT ![worker.art] = <<>>]
  /\ Ends("ok")
  /\ UNCHANGED <<events, page, server, dry>>

\* No room for the file (checked once, before the first request), or a file
\* that cannot be created, opened, read, written or renamed
LocalError == worker.pc \in {"request", "attempt", "connect", "stream", "rename"}

\* A URL, as first resolved or as minted again, of a host that is not allowed,
\* or a first mint that is refused
Refused == worker.pc \in {"request", "mint"}

\* Neither is retried: the worker ends at once.
WFatal ==
  /\ LocalError \/ Refused
  /\ Ends("failed")
  /\ UNCHANGED <<disk, events, page, server, dry>>

\* Mutant: a failure is not reported.
WReport_Silent ==
  /\ worker.pc = "report"
  /\ IF worker.out = "ok" /\ final[worker.art] # NoFile THEN Emit("done") ELSE UNCHANGED events
  /\ Goto("clear")
  /\ UNCHANGED <<disk, page, server, dry>>

\* The command's wrapper: done if the file is there, nothing after a cancel.
WReport ==
  /\ worker.pc = "report"
  /\ CASE worker.out # "ok" -> Emit("failed")
       [] worker.out = "ok" /\ final[worker.art] # NoFile -> Emit("done")
       [] worker.out = "ok" /\ final[worker.art] = NoFile -> UNCHANGED events
  /\ Goto("clear")
  /\ UNCHANGED <<disk, page, server, dry>>

\* ClearActiveOnDrop
WClear ==
  /\ worker.pc = "clear"
  /\ worker' = Off
  /\ dry' = <<>>
  /\ UNCHANGED <<disk, events, page, server>>

Work ==
  \/ WRequest \/ WAttempt \/ WConnectError \/ WConnect
  \/ WChunk \/ WEndOfBody \/ WReadError \/ WCancelled
  \/ WBackoff \/ WMint \/ WVerify \/ WRename \/ WFatal \/ WReport \/ WClear

-----------------------------------------------------------------------------
(* The page: downloadHeroPair and downloadArtifact.  A promise that settles *)
(* runs its flow on to the next await in the same turn.                     *)

Needed(f) == Needs[f][flow[f].i]

\* downloadArtifact(artifact) registers its promise over any other.
Register(f, i) ==
  /\ flow' = [flow EXCEPT ![f] = [pc |-> "check", i |-> i]]
  /\ artDl' = [flow |-> f, art |-> Needs[f][i]]

\* The flow ends, well or not; its finally block clears state.artDl.
End(f) ==
  /\ flow' = [flow EXCEPT ![f] = FlowIdle]
  /\ artDl' = NoPromise

Advance(f) == IF flow[f].i < Len(Needs[f]) THEN Register(f, flow[f].i + 1) ELSE End(f)

\* The catalog is fetched; the flow begins, or ends at once.
Begin(f) ==
  /\ flow[f].pc = "idle"
  /\ Register(f, 1) \/ End(f)
  /\ UNCHANGED <<disk, worker, events, server, dry>>

\* download_artifact: the file's existence, then the slot.
Check(f) ==
  /\ flow[f].pc = "check"
  /\ flow' = [flow EXCEPT ![f].pc = IF final[Needed(f)] # NoFile THEN "installed" ELSE "acquire"]
  /\ UNCHANGED <<disk, worker, events, artDl, server, dry>>

Acquire(f) ==
  /\ flow[f].pc = "acquire"
  /\ IF worker.pc = "off"
       THEN /\ worker' = Started(Needed(f), FALSE)
            /\ flow' = [flow EXCEPT ![f].pc = "wait"]
       ELSE /\ flow' = [flow EXCEPT ![f].pc = "refused"]
            /\ UNCHANGED worker
  /\ UNCHANGED <<disk, events, artDl, server, dry>>

\* The command's error reaches the page: "Already installed." is a success;
\* the handler returns if state.artDl is gone or is for another artifact.
Rejected(f) ==
  /\ flow[f].pc \in {"installed", "refused"}
  /\ CASE artDl.art # Needed(f) -> flow' = [flow EXCEPT ![f].pc = "wait"] /\ UNCHANGED artDl
       [] artDl.art = Needed(f) /\ flow[f].pc = "installed" -> Advance(f)
       [] artDl.art = Needed(f) /\ flow[f].pc = "refused" -> End(f)
  /\ UNCHANGED <<disk, worker, events, server, dry>>

\* onDownloadProgress: an event for another artifact settles nothing.
Settle ==
  /\ events # <<>>
  /\ events' = Tail(events)
  /\ LET e == Head(events) IN
     CASE artDl.art # e.art -> UNCHANGED page
       [] artDl.art = e.art /\ e.phase = "done" -> Advance(artDl.flow)
       [] artDl.art = e.art /\ e.phase # "done" -> End(artDl.flow)
  /\ UNCHANGED <<disk, worker, server, dry>>

Page(f) == Check(f) \/ Acquire(f) \/ Rejected(f)

-----------------------------------------------------------------------------
(* The other commands, and the end of the process.                         *)

\* download_model: the hero's base with a minted token, to the same file.
DownloadModel(a) ==
  /\ final[a] = NoFile
  /\ worker.pc = "off"
  /\ worker' = Started(a, TRUE)
  /\ UNCHANGED <<disk, events, page, server, dry>>

\* cancel_download, and the window's Destroyed handler
RequestCancel ==
  /\ worker.pc \notin {"off", "clear"}
  /\ worker' = [worker EXCEPT !.cancel = TRUE]
  /\ UNCHANGED <<disk, events, page, server, dry>>

\* The app is closed or dies at any point and is started again.
AppExit ==
  /\ worker' = Off
  /\ events' = <<>>
  /\ flow' = [f \in Flows |-> FlowIdle]
  /\ artDl' = NoPromise
  /\ dry' = <<>>
  /\ UNCHANGED <<disk, server>>

Next ==
  \/ Work
  \/ \E f \in Flows : Begin(f) \/ Page(f)
  \/ Settle
  \/ \E a \in Minted : DownloadModel(a)
  \/ RequestCancel
  \/ AppExit

Spec == Init /\ [][Next]_vars

\* Threads run, commands return, events arrive; users owe nothing.
Fairness ==
  /\ WF_vars(Work)
  /\ \A f \in Flows : WF_vars(Page(f))
  /\ WF_vars(Settle)
FairSpec == Spec /\ Fairness

-----------------------------------------------------------------------------
(* Properties *)

\* Every variable has its type, and a worker that goes on has a failure to
\* spare: the budget is never overdrawn.
TypeOK ==
  /\ final \in [Artifacts -> Seq(Chunks) \cup {NoFile}]
  /\ part \in [Artifacts -> Seq(Chunks)]
  /\ worker \in Worker
  /\ worker.pc # "off" => worker.art \in Artifacts
  /\ worker.pc \notin {"report", "clear"} => worker.failures < Limit
  /\ events \in Seq([art : Artifacts, phase : {"done", "failed", "cancelled"}])
  /\ flow \in [Flows -> [pc : {"idle", "check", "acquire", "installed", "refused", "wait"},
                         i : Nat \ {0}]]
  /\ \A f \in Flows : flow[f].i <= Len(Needs[f])
  /\ artDl \in {NoPromise} \cup [flow : Flows, art : Artifacts]
  /\ server \in [ranges : BOOLEAN, genuine : BOOLEAN]
  /\ dry \in Seq(Kinds)

\* From the request to the verification the hasher has consumed exactly the
\* bytes of the .part, across resumes, restarts and retries
\* (download.rs:636-641: "the final digest still covers the whole file").
HashIsOfFile ==
  worker.pc \in {"connect", "stream", "verify", "rename"} => worker.hash = part[worker.art]

\* Whatever was left in the .part and whatever the server sends, only the
\* genuine file is ever installed.
InstalledIsGenuine == \A a \in Artifacts : final[a] \in {NoFile, Genuine}

\* The worker comes to an end and frees the slot, however the network fails
\* (a server that ignores Range or sends too much can keep it going for ever).
EveryDownloadEnds ==
  server.ranges /\ server.genuine => (worker.pc # "off" ~> worker.pc = "off")

\* app.js:544-545: "the promise settles on the done/failed/cancelled event, or
\* on a synchronous invoke rejection".
FlowSettles ==
  server.ranges /\ server.genuine =>
    \A f \in Flows : flow[f].pc = "wait" ~> flow[f].pc # "wait"

=============================================================================
