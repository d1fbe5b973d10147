--------------------------- MODULE EngineLifecycle ---------------------------
(***************************************************************************)
(* The local inference engine (src-tauri/src/inference.rs): one            *)
(* llama-server child process, the watchdog thread that launches and       *)
(* respawns it, and the commands that start, restart and tear it down from *)
(* other threads (lib.rs load_model, tier_select.rs complete_tier_switch,  *)
(* cloud/download.rs download_model, the window's Destroyed handler).      *)
(*                                                                         *)
(* Every step is one access to the shared Engine struct, or several that   *)
(* no other thread can tell apart.  Abstracted: the log file, the emitted  *)
(* events, the port number, gpu_offload (written once per launch and only  *)
(* shown to the user) and the three integrity caches, kept as one because  *)
(* the three files of a launch are resolved, verified and cleared          *)
(* together.                                                               *)
(***************************************************************************)
EXTENDS Naturals, FiniteSets

CONSTANTS
  Watchdogs,   \* slots for watchdog threads
  Servers,     \* slots for llama-server processes (a bound on live ones)
  Callers,     \* threads running a command or a download worker
  Tiers,       \* the hero's tiers, each with the files of one launch
  NoServer, NoTier, NoCaller,
  ForceCPU,    \* CLEOPHIS_FORCE_CPU is set
  CrashLimit   \* crashes after which the watchdog gives up

ASSUME EngineConstants ==
  /\ NoServer \notin Servers
  /\ NoTier \notin Tiers
  /\ NoCaller \notin Callers
  /\ ForceCPU \in BOOLEAN
  /\ CrashLimit \in Nat \ {0}

VARIABLES
  status,        \* Engine.status
  child,         \* Engine.child: the server whose handle is kept
  shuttingDown,  \* Engine.shutting_down
  closing,       \* Engine.closing
  threadAlive,   \* Engine.thread_alive
  restartLock,   \* Engine.restart_lock: its holder
  verified,      \* Engine.verified_model and its two companions
  wd,            \* the watchdog threads: program counter and locals
  call,          \* the callers' program counters
  teardown,      \* the window-close handler's progress through shutdown()
  server,        \* the llama-server processes of the machine
  loaded,        \* what each server was launched on; NoTier for a stray
                 \* of an earlier process and for a free slot
  pidFile,       \* the PID recorded in cleophis-llama.pid
  tier,          \* the effective tier (tier_selection.json, see TierSwitch)
  installed,     \* whether all the files of that tier are on disk
  overlapped     \* history: a start_if_no_model has overlapped a restart

engineVars == <<status, child, shuttingDown, closing, threadAlive,
                restartLock, verified>>
osVars == <<server, loaded, pidFile, tier, installed>>
vars == <<engineVars, wd, call, teardown, osVars, overlapped>>

Status == {"NoModel", "Starting", "Ready", "Restarting", "Failed"}
WatchdogPC == {"off", "begin", "top", "verify", "spawn", "store", "check",
               "health", "poll", "kill", "watch", "probe", "exit"}
CallPC == {"idle", "startIfNoModel", "startThread",
           "restart", "rKill", "rJoin", "rReset", "rLaunch"}

Watchdog == [pc : WatchdogPC, gpu : BOOLEAN, crashes : Nat,
             path : Tiers \cup {NoTier},   \* the launch it resolved
             spawned : Servers \cup {NoServer}] \* Child not yet stored

Idle == [pc |-> "off", gpu |-> FALSE, crashes |-> 0,
         path |-> NoTier, spawned |-> NoServer]
Fresh == [Idle EXCEPT !.pc = "begin", !.gpu = ~ForceCPU]

-----------------------------------------------------------------------------
Running == {s \in Servers : server[s] # "none"}
Live(w) == wd[w].pc # "off"
Own(s)  == loaded[s] # NoTier     \* spawned by this process

\* child_exited: no handle counts as exited
ChildExited == child = NoServer \/ server[child] = "none"

\* healthy(port): any server of this process answering on the port
Healthy == \E s \in Running : Own(s) /\ server[s] = "up"

\* server[s] has ended; nothing changes when s is NoServer
Ended(s) ==
  /\ server' = [t \in Servers |-> IF t = s THEN "none" ELSE server[t]]
  /\ loaded' = [t \in Servers |-> IF t = s THEN NoTier ELSE loaded[t]]

\* kill_child: take the handle, kill and reap, remove the pid file
KillChild ==
  /\ child' = NoServer
  /\ Ended(child)
  /\ pidFile' = NoServer

\* A watchdog's record changes, or only its program counter.
Becomes(w, t) == wd' = [wd EXCEPT ![w] = t]
Goto(w, pc) == Becomes(w, [wd[w] EXCEPT !.pc = pc])

\* Engine::new and the setup hook: a model on disk starts a watchdog, none
\* leaves NoModel.  A server may be left over from an abnormal exit.
Init ==
  /\ tier \in Tiers
  /\ installed \in BOOLEAN
  /\ pidFile \in Servers \cup {NoServer}
  /\ server = [s \in Servers |-> IF s = pidFile THEN "up" ELSE "none"]
  /\ loaded = [s \in Servers |-> NoTier]
  /\ child = NoServer
  /\ shuttingDown = FALSE
  /\ closing = FALSE
  /\ restartLock = NoCaller
  /\ verified = NoTier
  /\ call = [c \in Callers |-> "idle"]
  /\ teardown = "open"
  /\ overlapped = FALSE
  /\ IF ~installed
       THEN /\ status = "NoModel"
            /\ threadAlive = FALSE
            /\ wd = [w \in Watchdogs |-> Idle]
       ELSE /\ status = "Starting"
            /\ threadAlive = TRUE
            /\ \E w \in Watchdogs : wd = [v \in Watchdogs |-> IF v = w THEN Fresh ELSE Idle]

-----------------------------------------------------------------------------
(* start(): thread_alive is set before the thread is spawned.              *)

StartThread ==
  /\ threadAlive' = TRUE
  /\ \E w \in Watchdogs : wd[w].pc = "off" /\ Becomes(w, Fresh)

(* The watchdog thread.                                                    *)

\* Set Starting, then sweep_stray_servers: kill what the pid file names.
WdBegin(w) ==
  /\ wd[w].pc = "begin"
  /\ status' = "Starting"
  /\ Ended(pidFile)
  /\ pidFile' = NoServer
  /\ Goto(w, "top")
  /\ UNCHANGED <<child, shuttingDown, closing, threadAlive, restartLock, verified,
                 call, teardown, tier, installed, overlapped>>

\* Head of the 'restart loop: leave on shutting_down, else resolve_launch; a
\* launch that does not resolve skips the integrity gate.
WdTop(w) ==
  /\ wd[w].pc = "top"
  /\ CASE shuttingDown -> Goto(w, "exit")
       [] ~shuttingDown /\ installed -> Becomes(w, [wd[w] EXCEPT !.pc = "verify", !.path = tier])
       [] ~shuttingDown /\ ~installed -> Goto(w, "spawn")
  /\ UNCHANGED <<engineVars, call, teardown, osVars, overlapped>>

\* verify_*_once: a cached path passes, any other is hashed and cached.
WdVerified(w) ==
  /\ wd[w].pc = "verify"
  /\ verified' = wd[w].path
  /\ Becomes(w, [wd[w] EXCEPT !.pc = "spawn", !.path = NoTier])
  /\ UNCHANGED <<status, child, shuttingDown, closing, threadAlive, restartLock,
                 call, teardown, osVars, overlapped>>

\* A hash that differs, or that cannot be computed or looked up.
WdRejected(w) ==
  /\ wd[w].pc = "verify"
  /\ verified # wd[w].path
  /\ status' = "Failed"
  /\ Becomes(w, [wd[w] EXCEPT !.pc = "exit", !.path = NoTier])
  /\ UNCHANGED <<child, shuttingDown, closing, threadAlive, restartLock, verified,
                 call, teardown, osVars, overlapped>>

\* Mutant: a PID that is already recorded is not replaced.
RecordPid_FirstOnly(s) == pidFile' = IF pidFile = NoServer THEN s ELSE pidFile
RecordPid(s) == pidFile' = s

\* spawn_server resolves the launch again, spawns and records the PID.
WdSpawn(w) ==
  /\ wd[w].pc = "spawn"
  /\ installed
  /\ \E s \in Servers :
       /\ server[s] = "none"
       /\ s # child
       /\ \A v \in Watchdogs : wd[v].spawned # s
       /\ server' = [server EXCEPT ![s] = "loading"]
       /\ loaded' = [loaded EXCEPT ![s] = tier]
       /\ RecordPid(s)
       /\ Becomes(w, [wd[w] EXCEPT !.pc = "store", !.spawned = s])
  /\ UNCHANGED <<engineVars, call, teardown, tier, installed, overlapped>>

\* No launch resolves, or the log file or the process cannot be created.
WdSpawnError(w) ==
  /\ wd[w].pc = "spawn"
  /\ status' = "Failed"
  /\ Goto(w, "exit")
  /\ UNCHANGED <<child, shuttingDown, closing, threadAlive, restartLock, verified,
                 call, teardown, osVars, overlapped>>

\* The new handle replaces the old one, whose process is not killed by it.
WdStore(w) ==
  /\ wd[w].pc = "store"
  /\ child' = wd[w].spawned
  /\ Becomes(w, [wd[w] EXCEPT !.pc = "check", !.spawned = NoServer])
  /\ UNCHANGED <<status, shuttingDown, closing, threadAlive, restartLock, verified,
                 call, teardown, osVars, overlapped>>

\* Mutant: shutting_down is not looked at again once the child is stored.
WdCheck_Missing(w) ==
  /\ wd[w].pc = "check"
  /\ Goto(w, "health")
  /\ UNCHANGED <<engineVars, call, teardown, osVars, overlapped>>

\* A shutdown that came between the spawn and the store is made up for here.
WdCheck(w) ==
  /\ wd[w].pc = "check"
  /\ \/ /\ shuttingDown
        /\ KillChild
        /\ Goto(w, "exit")
     \/ /\ ~shuttingDown
        /\ Goto(w, "health")
        /\ UNCHANGED <<child, server, loaded, pidFile>>
  /\ UNCHANGED <<status, shuttingDown, closing, threadAlive, restartLock, verified,
                 call, teardown, tier, installed, overlapped>>

\* One turn of the health loop looks at shutting_down, then at the server.
WdHealth(w) ==
  /\ wd[w].pc = "health"
  /\ Goto(w, IF shuttingDown THEN "exit" ELSE "poll")
  /\ UNCHANGED <<engineVars, call, teardown, osVars, overlapped>>

\* Mutant: the health loop has no deadline.
WdDeadline_Never(w) == FALSE

\* The 180 s deadline passes at the head of the health loop.
WdDeadline(w) ==
  /\ wd[w].pc = "health"
  /\ Goto(w, "kill")
  /\ UNCHANGED <<engineVars, call, teardown, osVars, overlapped>>

WdPoll(w) ==
  /\ wd[w].pc = "poll"
  /\ IF ChildExited
       THEN Goto(w, "kill") /\ UNCHANGED status
       ELSE IF Healthy
         THEN Goto(w, "watch") /\ status' = "Ready"
         ELSE Goto(w, "health") /\ UNCHANGED status
  /\ UNCHANGED <<child, shuttingDown, closing, threadAlive, restartLock, verified,
                 call, teardown, osVars, overlapped>>

\* Mutant: the fallback to the CPU leaves the unhealthy server running.
WdKill_Spared(w) ==
  /\ wd[w].pc = "kill" /\ wd[w].gpu
  /\ status' = "Restarting"
  /\ Becomes(w, [wd[w] EXCEPT !.pc = "top", !.gpu = FALSE])
  /\ UNCHANGED <<child, shuttingDown, closing, threadAlive, restartLock, verified,
                 call, teardown, osVars, overlapped>>

\* Not healthy: fall back from GPU to CPU once, then give up.
WdKill(w) ==
  /\ wd[w].pc = "kill"
  /\ KillChild
  /\ IF wd[w].gpu
       THEN /\ status' = "Restarting"
            /\ Becomes(w, [wd[w] EXCEPT !.pc = "top", !.gpu = FALSE])
       ELSE /\ status' = "Failed"
            /\ Goto(w, "exit")
  /\ UNCHANGED <<shuttingDown, closing, threadAlive, restartLock, verified,
                 call, teardown, tier, installed, overlapped>>

GiveUp(crashes) == crashes >= CrashLimit

\* One turn of the watch loop looks at shutting_down, then at the child.
WdWatch(w) ==
  /\ wd[w].pc = "watch"
  /\ Goto(w, IF shuttingDown THEN "exit" ELSE "probe")
  /\ UNCHANGED <<engineVars, call, teardown, osVars, overlapped>>

WdProbe(w) ==
  /\ wd[w].pc = "probe"
  /\ IF ~ChildExited
       THEN Goto(w, "watch") /\ UNCHANGED status
       ELSE LET crashes == wd[w].crashes + 1 IN
         IF GiveUp(crashes)
           THEN /\ status' = "Failed"
                /\ Becomes(w, [wd[w] EXCEPT !.pc = "exit", !.gpu = FALSE, !.crashes = crashes])
           ELSE /\ status' = "Restarting"
                /\ Becomes(w, [wd[w] EXCEPT !.pc = "top", !.gpu = FALSE, !.crashes = crashes])
  /\ UNCHANGED <<child, shuttingDown, closing, threadAlive, restartLock, verified,
                 call, teardown, osVars, overlapped>>

\* Mutant: an exit path that does not run the drop guard.
WdExit_NoGuard(w) ==
  /\ wd[w].pc = "exit"
  /\ threadAlive' = (threadAlive /\ status = "Failed")
  /\ Becomes(w, Idle)
  /\ UNCHANGED <<status, child, shuttingDown, closing, restartLock, verified,
                 call, teardown, osVars, overlapped>>

\* The drop guard clears thread_alive on every exit path.
WdExit(w) ==
  /\ wd[w].pc = "exit"
  /\ threadAlive' = FALSE
  /\ Becomes(w, Idle)
  /\ UNCHANGED <<status, child, shuttingDown, closing, restartLock, verified,
                 call, teardown, osVars, overlapped>>

Watch(w) ==
  \/ WdBegin(w) \/ WdTop(w) \/ WdVerified(w) \/ WdRejected(w)
  \/ WdSpawn(w) \/ WdSpawnError(w) \/ WdStore(w) \/ WdCheck(w)
  \/ WdHealth(w) \/ WdDeadline(w) \/ WdPoll(w) \/ WdKill(w)
  \/ WdWatch(w) \/ WdProbe(w) \/ WdExit(w)

-----------------------------------------------------------------------------
(* The callers.  What a command does before or after its call into the     *)
(* engine is left out when it changes nothing here: load_model's final     *)
(* poll of the status, complete_tier_switch's file sweep (see TierSwitch). *)

\* load_model: the status is snapshotted, then acted upon.
LoadModel(c) ==
  /\ call[c] = "idle"
  /\ installed
  /\ \/ status = "NoModel" /\ call' = [call EXCEPT ![c] = "startIfNoModel"]
     \/ status = "Failed"  /\ call' = [call EXCEPT ![c] = "restart"]
  /\ UNCHANGED <<engineVars, wd, teardown, osVars, overlapped>>

\* download_model's worker, whose base file just landed; the launch may
\* still not resolve (its adapter may be missing).
DownloadDone(c) ==
  /\ call[c] = "idle"
  /\ call' = [call EXCEPT ![c] = "startIfNoModel"]
  /\ UNCHANGED <<engineVars, wd, teardown, osVars, overlapped>>

\* complete_tier_switch onto another tier, whose files it found on disk: the
\* selection is written before the restart.
SwitchTier(c) ==
  /\ call[c] = "idle"
  /\ tier' \in Tiers
  /\ installed' = TRUE
  /\ call' = [call EXCEPT ![c] = "restart"]
  /\ UNCHANGED <<engineVars, wd, teardown, server, loaded, pidFile, overlapped>>

\* try_begin_start, the check-and-set under the status lock
TryBeginStart(c) ==
  /\ call[c] = "startIfNoModel"
  /\ IF status = "NoModel"
       THEN /\ status' = "Starting"
            /\ call' = [call EXCEPT ![c] = "startThread"]
            /\ overlapped' = (overlapped \/ restartLock # NoCaller)
       ELSE /\ call' = [call EXCEPT ![c] = "idle"]
            /\ UNCHANGED <<status, overlapped>>
  /\ UNCHANGED <<child, shuttingDown, closing, threadAlive, restartLock, verified,
                 wd, teardown, osVars>>

StartIfNoModel(c) ==
  /\ call[c] = "startThread"
  /\ StartThread
  /\ call' = [call EXCEPT ![c] = "idle"]
  /\ UNCHANGED <<status, child, shuttingDown, closing, restartLock, verified,
                 teardown, osVars, overlapped>>

\* restart: take the lock for the whole call and raise shutting_down.
RestartBegin(c) ==
  /\ call[c] = "restart"
  /\ restartLock = NoCaller
  /\ restartLock' = c
  /\ shuttingDown' = TRUE
  /\ call' = [call EXCEPT ![c] = "rKill"]
  /\ overlapped' = (overlapped \/ \E d \in Callers : call[d] = "startThread")
  /\ UNCHANGED <<status, child, closing, threadAlive, verified, wd, teardown, osVars>>

RestartKill(c) ==
  /\ call[c] = "rKill"
  /\ KillChild
  /\ call' = [call EXCEPT ![c] = "rJoin"]
  /\ UNCHANGED <<status, shuttingDown, closing, threadAlive, restartLock, verified,
                 wd, teardown, tier, installed, overlapped>>

\* Mutant: the join gives up waiting.
OldThreadGone_NoWait == TRUE
OldThreadGone == ~threadAlive

\* Wait for thread_alive to clear; a teardown that has begun ends the call.
RestartJoin(c) ==
  /\ call[c] = "rJoin"
  /\ OldThreadGone
  /\ IF closing
       THEN /\ call' = [call EXCEPT ![c] = "idle"]
            /\ restartLock' = NoCaller
       ELSE /\ call' = [call EXCEPT ![c] = "rReset"]
            /\ UNCHANGED restartLock
  /\ UNCHANGED <<status, child, shuttingDown, closing, threadAlive, verified,
                 wd, teardown, osVars, overlapped>>

RestartReset(c) ==
  /\ call[c] = "rReset"
  /\ shuttingDown' = FALSE
  /\ call' = [call EXCEPT ![c] = "rLaunch"]
  /\ UNCHANGED <<status, child, closing, threadAlive, restartLock, verified,
                 wd, teardown, osVars, overlapped>>

\* Clear the integrity caches, set Starting, start, release the lock.
RestartLaunch(c) ==
  /\ call[c] = "rLaunch"
  /\ verified' = NoTier
  /\ status' = "Starting"
  /\ StartThread
  /\ restartLock' = NoCaller
  /\ call' = [call EXCEPT ![c] = "idle"]
  /\ UNCHANGED <<child, shuttingDown, closing, teardown, osVars, overlapped>>

Restart(c) == RestartKill(c) \/ RestartJoin(c) \/ RestartReset(c) \/ RestartLaunch(c)

\* shutdown, called when the window is destroyed: three steps, no lock
ShutdownClosing ==
  /\ teardown = "open"
  /\ closing' = TRUE
  /\ teardown' = "closing"
  /\ UNCHANGED <<status, child, shuttingDown, threadAlive, restartLock, verified,
                 wd, call, osVars, overlapped>>

ShutdownFlag ==
  /\ teardown = "closing"
  /\ shuttingDown' = TRUE
  /\ teardown' = "flagged"
  /\ UNCHANGED <<status, child, closing, threadAlive, restartLock, verified,
                 wd, call, osVars, overlapped>>

ShutdownKill ==
  /\ teardown = "flagged"
  /\ KillChild
  /\ teardown' = "done"
  /\ UNCHANGED <<status, shuttingDown, closing, threadAlive, restartLock, verified,
                 wd, call, tier, installed, overlapped>>

Shutdown == ShutdownClosing \/ ShutdownFlag \/ ShutdownKill

-----------------------------------------------------------------------------
(* The environment: llama-server itself, and downloads landing on disk.    *)

\* The port is fixed per process: a second server cannot come up on it.
ServerUp(s) ==
  /\ server[s] = "loading"
  /\ ~Healthy
  /\ server' = [server EXCEPT ![s] = "up"]
  /\ UNCHANGED <<engineVars, wd, call, teardown, loaded, pidFile, tier, installed, overlapped>>

ServerExit(s) ==
  /\ server[s] # "none"
  /\ Ended(s)
  /\ UNCHANGED <<engineVars, wd, call, teardown, pidFile, tier, installed, overlapped>>

\* The last missing file of the selected tier is renamed into place, or one is
\* removed (the sweep of an overlapping tier switch, or the user).
FilesChange ==
  /\ installed' = ~installed
  /\ UNCHANGED <<engineVars, wd, call, teardown, server, loaded, pidFile, tier, overlapped>>

Command(c) == LoadModel(c) \/ DownloadDone(c) \/ SwitchTier(c)
Called(c)  == TryBeginStart(c) \/ StartIfNoModel(c) \/ RestartBegin(c) \/ Restart(c)

Next ==
  \/ \E w \in Watchdogs : Watch(w)
  \/ \E c \in Callers : Command(c) \/ Called(c)
  \/ Shutdown
  \/ \E s \in Servers : ServerUp(s) \/ ServerExit(s)
  \/ FilesChange

\* Threads keep running; users, servers and downloads owe nothing.  The
\* health loop's deadline passes if the loop is turned long enough.
Fairness ==
  /\ \A w \in Watchdogs : WF_vars(Watch(w)) /\ SF_vars(WdDeadline(w))
  /\ \A c \in Callers : WF_vars(Called(c))
  /\ WF_vars(ShutdownFlag \/ ShutdownKill)

Spec == Init /\ [][Next]_vars
FairSpec == Spec /\ Fairness

-----------------------------------------------------------------------------
(* Properties *)

\* Every variable has its type, and a watchdog that keeps going has a crash to
\* spare: the budget is never overdrawn.
TypeOK ==
  /\ status \in Status
  /\ child \in Servers \cup {NoServer}
  /\ shuttingDown \in BOOLEAN
  /\ closing \in BOOLEAN
  /\ threadAlive \in BOOLEAN
  /\ restartLock \in Callers \cup {NoCaller}
  /\ verified \in Tiers \cup {NoTier}
  /\ wd \in [Watchdogs -> Watchdog]
  /\ \A w \in Watchdogs : wd[w].pc # "exit" => wd[w].crashes < CrashLimit
  /\ call \in [Callers -> CallPC]
  /\ teardown \in {"open", "closing", "flagged", "done"}
  /\ server \in [Servers -> {"none", "loading", "up"}]
  /\ loaded \in [Servers -> Tiers \cup {NoTier}]
  /\ pidFile \in Servers \cup {NoServer}
  /\ tier \in Tiers
  /\ installed \in BOOLEAN
  /\ overlapped \in BOOLEAN

\* restart's join keeps two watchdog threads from ever living together
\* (inference.rs:704-709), as long as no start_if_no_model overlaps a restart.
OneWatchdog == ~overlapped => \A v, w \in Watchdogs : Live(v) /\ Live(w) => v = w

\* Whenever the process dies, the server it leaves behind is the one the pid
\* file names, so that the next launch sweeps it - except while a kill_child
\* that came between spawn and store waits for the watchdog to make up for it.
RecordedServer ==
  ~overlapped /\ ~closing => \A s \in Running :
    Own(s) => \/ pidFile = s
              \/ shuttingDown /\ \E w \in Watchdogs : wd[w].pc \in {"store", "check"}

\* A restart in flight, or about to start: the caller has not yet relaunched.
RestartPending == \E c \in Callers : call[c] \notin {"idle", "startIfNoModel"}

\* A caller inside restart always gets through its unbounded join.
RestartReturns == \A c \in Callers : call[c] = "rKill" ~> call[c] = "idle"

\* The engine never stays Starting or Restarting for ever: it settles unless
\* restarts keep coming or the app is closing.
Settles == []<>(status \in {"NoModel", "Ready", "Failed"} \/ RestartPending \/ closing)

\* shutdown's promise when it meets no restart past its closing check: once it
\* has returned and no watchdog is between a spawn and its check, nothing runs.
TeardownReaps ==
  ~overlapped /\ teardown = "done" /\ shuttingDown
  /\ (\A c \in Callers : call[c] # "rKill")
  /\ (\A w \in Watchdogs : wd[w].pc \notin {"store", "check"})
    => \A s \in Running : ~Own(s)

\* EngineLifecycle implements EngineSlot up to the first overlap, from which on
\* the slot is taken to be empty: a watchdog launches only once the server before
\* has ended, whoever stopped it, so two models never fill the memory at once,
\* and no server is launched on a tier that is no longer selected.
Serving == IF overlapped THEN {} ELSE {<<s, loaded[s]>> : s \in {t \in Running : Own(t)}}
Slot == INSTANCE EngineSlot WITH serving <- Serving, selected <- tier
OneAtATime == Slot!Spec
=============================================================================
