------------------------ MODULE EngineLifecycleProofs ------------------------
(***************************************************************************)
(* Theorems about EngineLifecycle, for any number of threads, servers,     *)
(* callers and tiers.                                                      *)
(***************************************************************************)
EXTENDS EngineLifecycle, TLAPS

-----------------------------------------------------------------------------
(* Types *)

\* A free slot and a thread just spawned.
LEMMA NewThreads ==
  /\ Idle \in Watchdog /\ Idle.crashes < CrashLimit
  /\ Fresh \in Watchdog /\ Fresh.crashes < CrashLimit
<1>1. 0 < CrashLimit
  BY EngineConstants
<1>2. Idle \in Watchdog /\ Idle.crashes = 0 /\ Fresh.crashes = 0
  BY DEF Idle, Fresh, Watchdog, WatchdogPC
<1>3. (~ForceCPU) \in BOOLEAN
  OBVIOUS
<1>4. Fresh \in Watchdog
  BY <1>2, <1>3 DEF Fresh, Watchdog, WatchdogPC
<1> QED
  BY <1>1, <1>2, <1>4

\* Every initial state is well typed.
LEMMA TypeInit == Init => TypeOK
<1> SUFFICES ASSUME Init PROVE TypeOK
  OBVIOUS
<1>2. /\ wd \in [Watchdogs -> Watchdog]
      /\ \A w \in Watchdogs : wd[w].pc # "exit" => wd[w].crashes < CrashLimit
  BY NewThreads DEF Init
<1>3. status \in Status /\ threadAlive \in BOOLEAN
  BY DEF Init, Status
<1> QED
  BY <1>2, <1>3 DEF Init, TypeOK, CallPC

\* One thread takes a new value, or moves to a program counter.
LEMMA TypeThread ==
  ASSUME TypeOK, NEW w \in Watchdogs, NEW t \in Watchdog, Becomes(w, t)
  PROVE  wd' \in [Watchdogs -> Watchdog]
BY DEF TypeOK, Becomes

LEMMA TypeGoto ==
  ASSUME TypeOK, NEW w \in Watchdogs, NEW pc \in WatchdogPC, Goto(w, pc)
  PROVE  wd' \in [Watchdogs -> Watchdog]
<1>1. [wd[w] EXCEPT !.pc = pc] \in Watchdog
  BY DEF TypeOK, Watchdog
<1> QED
  BY <1>1, TypeThread DEF Goto

\* Every step of a watchdog keeps its record well typed ...
LEMMA TypeWatchdogs ==
  ASSUME TypeOK, NEW w \in Watchdogs, Watch(w)
  PROVE  wd' \in [Watchdogs -> Watchdog]
<1>0. wd[w] \in Watchdog
  BY DEF TypeOK
<1>1. CASE \E pc \in WatchdogPC : Goto(w, pc)
  BY <1>1, TypeGoto
<1>2. CASE \E t \in Watchdog : Becomes(w, t)
  BY <1>2, TypeThread
<1>3. CASE WdTop(w)
  <2>1. [wd[w] EXCEPT !.pc = "verify", !.path = tier] \in Watchdog
    BY <1>0 DEF TypeOK, Watchdog, WatchdogPC
  <2> QED
    BY <1>1, <1>2, <1>3, <2>1 DEF WdTop, WatchdogPC, TypeOK
<1>4. CASE WdVerified(w)
  <2>1. [wd[w] EXCEPT !.pc = "spawn", !.path = NoTier] \in Watchdog
    BY <1>0 DEF Watchdog, WatchdogPC
  <2> QED
    BY <1>2, <1>4, <2>1 DEF WdVerified
<1>5. CASE WdRejected(w)
  <2>1. [wd[w] EXCEPT !.pc = "exit", !.path = NoTier] \in Watchdog
    BY <1>0 DEF Watchdog, WatchdogPC
  <2> QED
    BY <1>2, <1>5, <2>1 DEF WdRejected
<1>6. CASE WdSpawn(w)
  <2>1. PICK s \in Servers : Becomes(w, [wd[w] EXCEPT !.pc = "store", !.spawned = s])
    BY <1>6 DEF WdSpawn
  <2>2. [wd[w] EXCEPT !.pc = "store", !.spawned = s] \in Watchdog
    BY <1>0 DEF Watchdog, WatchdogPC
  <2> QED
    BY <1>2, <2>1, <2>2
<1>7. CASE WdStore(w)
  <2>1. [wd[w] EXCEPT !.pc = "check", !.spawned = NoServer] \in Watchdog
    BY <1>0 DEF Watchdog, WatchdogPC
  <2> QED
    BY <1>2, <1>7, <2>1 DEF WdStore
<1>8. CASE WdKill(w)
  <2>1. [wd[w] EXCEPT !.pc = "top", !.gpu = FALSE] \in Watchdog
    BY <1>0 DEF Watchdog, WatchdogPC
  <2> QED
    BY <1>1, <1>2, <1>8, <2>1 DEF WdKill, WatchdogPC
<1>9. CASE WdProbe(w)
  <2> DEFINE n == wd[w].crashes + 1
  <2>1. n \in Nat
    BY <1>0 DEF Watchdog
  <2>2. \A pc \in {"exit", "top"} :
          [wd[w] EXCEPT !.pc = pc, !.gpu = FALSE, !.crashes = n] \in Watchdog
    BY <1>0, <2>1 DEF Watchdog, WatchdogPC
  <2> QED
    BY <1>1, <1>2, <1>9, <2>2 DEF WdProbe, WatchdogPC
<1>10. CASE WdExit(w)
  BY <1>2, <1>10, NewThreads DEF WdExit
<1> QED
  BY <1>1, <1>3, <1>4, <1>5, <1>6, <1>7, <1>8, <1>9, <1>10
  DEF Watch, WatchdogPC, WdBegin, WdSpawnError, WdCheck, WdHealth, WdDeadline, WdPoll, WdWatch

\* ... and within its crash budget.
LEMMA BudgetWatchdogs ==
  ASSUME TypeOK, NEW w \in Watchdogs, Watch(w)
  PROVE  \A v \in Watchdogs : wd'[v].pc # "exit" => wd'[v].crashes < CrashLimit
<1>0. wd[w] \in Watchdog
  BY DEF TypeOK
<1>1. \A v \in Watchdogs : v # w => wd'[v] = wd[v]
  BY DEF TypeOK, Watch, WdBegin, WdTop, WdVerified, WdRejected, WdSpawn, WdSpawnError, WdStore,
         WdCheck, WdHealth, WdDeadline, WdPoll, WdKill, WdWatch, WdProbe, WdExit, Goto, Becomes
<1>2. CASE WdProbe(w) /\ ChildExited
  <2>1. GiveUp(wd[w].crashes + 1) \/ wd[w].crashes + 1 < CrashLimit
    BY <1>0, EngineConstants DEF GiveUp, Watchdog
  <2>2. wd'[w].pc # "exit" => wd'[w].crashes < CrashLimit
    <3>1. CASE GiveUp(wd[w].crashes + 1)
      <4>1. wd'[w].pc = "exit"
        BY <1>2, <3>1, <1>0, ZenonT(60) DEF TypeOK, WdProbe, Becomes, Watchdog
      <4> QED
        BY <4>1
    <3>2. CASE ~GiveUp(wd[w].crashes + 1)
      <4>1. wd'[w].crashes = wd[w].crashes + 1
        BY <1>2, <3>2, <1>0 DEF TypeOK, WdProbe, Becomes, Watchdog
      <4> QED
        BY <4>1, <3>2, <2>1
    <3> QED
      BY <3>1, <3>2
  <2> QED
    BY <1>1, <2>2 DEF TypeOK
<1>3. CASE WdExit(w)
  <2>1. wd'[w].crashes < CrashLimit
    BY <1>3, EngineConstants DEF TypeOK, WdExit, Becomes, Idle
  <2> QED
    BY <1>1, <2>1 DEF TypeOK
<1>4. CASE ~(WdProbe(w) /\ ChildExited) /\ ~WdExit(w)
  <2>1. /\ wd[w].pc # "exit"
        /\ \E t \in Watchdog : Becomes(w, t) /\ t.crashes = wd[w].crashes
    <3> USE <1>0, <1>4
    <3>1. CASE \E pc \in WatchdogPC : Goto(w, pc) /\ wd[w].pc # "exit"
      <4>1. PICK pc \in WatchdogPC : Goto(w, pc) /\ wd[w].pc # "exit"
        BY <3>1
      <4>2. [wd[w] EXCEPT !.pc = pc] \in Watchdog
        BY DEF Watchdog
      <4> QED
        BY <4>1, <4>2 DEF Goto, Watchdog
    <3>2. CASE WdVerified(w) \/ WdRejected(w)
      <4>1. \A pc \in WatchdogPC :
              /\ [wd[w] EXCEPT !.pc = pc, !.path = NoTier] \in Watchdog
              /\ [wd[w] EXCEPT !.pc = pc, !.path = NoTier].crashes = wd[w].crashes
        BY DEF Watchdog
      <4>2. wd[w].pc = "verify"
        BY <3>2 DEF WdVerified, WdRejected
      <4>3. \E pc \in WatchdogPC : Becomes(w, [wd[w] EXCEPT !.pc = pc, !.path = NoTier])
        BY <3>2 DEF WdVerified, WdRejected, WatchdogPC
      <4> QED
        BY <4>1, <4>2, <4>3
    <3>3. CASE WdTop(w)
      <4>1. wd[w].pc # "exit"
        BY <3>3 DEF WdTop
      <4>2. CASE \E pc \in WatchdogPC : Goto(w, pc)
        BY <3>1, <4>1, <4>2
      <4>3. CASE Becomes(w, [wd[w] EXCEPT !.pc = "verify", !.path = tier])
        <5>1. /\ [wd[w] EXCEPT !.pc = "verify", !.path = tier] \in Watchdog
              /\ [wd[w] EXCEPT !.pc = "verify", !.path = tier].crashes = wd[w].crashes
          BY DEF Watchdog, WatchdogPC, TypeOK
        <5> QED
          BY <4>1, <4>3, <5>1
      <4> QED
        BY <3>3, <4>2, <4>3 DEF WdTop, WatchdogPC, TypeOK
    <3>5. CASE WdSpawn(w) \/ WdStore(w)
      <4>1. \A pc \in WatchdogPC, s \in Servers \cup {NoServer} :
              /\ [wd[w] EXCEPT !.pc = pc, !.spawned = s] \in Watchdog
              /\ [wd[w] EXCEPT !.pc = pc, !.spawned = s].crashes = wd[w].crashes
        BY DEF Watchdog
      <4>2. wd[w].pc # "exit"
        BY <3>5 DEF WdSpawn, WdStore
      <4>3. \E pc \in WatchdogPC, s \in Servers \cup {NoServer} :
              Becomes(w, [wd[w] EXCEPT !.pc = pc, !.spawned = s])
        BY <3>5 DEF WdSpawn, WdStore, WatchdogPC
      <4> QED
        BY <4>1, <4>2, <4>3
    <3>4. CASE WdKill(w)
      <4>1. [wd[w] EXCEPT !.pc = "top", !.gpu = FALSE] \in Watchdog
        BY DEF Watchdog, WatchdogPC
      <4> QED
        BY <3>1, <3>4, <4>1 DEF WdKill, Watchdog, WatchdogPC
    <3> QED
      BY <3>1, <3>2, <3>3, <3>4, <3>5 DEF Watch, WdBegin, WdSpawnError, WdCheck, WdHealth, WdDeadline,
         WdPoll, WdWatch, WdProbe, WatchdogPC
  <2> QED
    BY <1>1, <2>1 DEF TypeOK, Becomes
<1> QED
  BY <1>2, <1>3, <1>4

\* ... and keeps the types of everything else.
LEMMA TypeWatch ==
  ASSUME TypeOK, NEW w \in Watchdogs, Watch(w)
  PROVE  TypeOK'
<1>0. wd[w] \in Watchdog
  BY DEF TypeOK
<1>a. /\ wd' \in [Watchdogs -> Watchdog]
      /\ \A v \in Watchdogs : wd'[v].pc # "exit" => wd'[v].crashes < CrashLimit
  BY TypeWatchdogs, BudgetWatchdogs
<1> USE <1>a DEF TypeOK, engineVars, osVars
<1>1. CASE WdBegin(w)
  BY <1>1 DEF WdBegin, Status, Ended
<1>2. CASE WdTop(w)
  BY <1>2 DEF WdTop
<1>3. CASE WdVerified(w)
  BY <1>3, <1>0 DEF WdVerified, Watchdog
<1>4. CASE WdRejected(w)
  BY <1>4 DEF WdRejected, Status
<1>5. CASE WdSpawn(w)
  BY <1>5 DEF WdSpawn, RecordPid
<1>6. CASE WdSpawnError(w)
  BY <1>6 DEF WdSpawnError, Status
<1>7. CASE WdStore(w)
  BY <1>7, <1>0 DEF WdStore, Watchdog
<1>8. CASE WdCheck(w)
  BY <1>8 DEF WdCheck, KillChild, Ended
<1>9. CASE WdHealth(w)
  BY <1>9 DEF WdHealth
<1>10. CASE WdDeadline(w)
  BY <1>10 DEF WdDeadline
<1>11. CASE WdPoll(w)
  BY <1>11 DEF WdPoll, Status
<1>12. CASE WdKill(w)
  BY <1>12 DEF WdKill, Status, KillChild, Ended
<1>13. CASE WdWatch(w)
  BY <1>13 DEF WdWatch
<1>14. CASE WdProbe(w)
  BY <1>14 DEF WdProbe, Status
<1>15. CASE WdExit(w)
  BY <1>15 DEF WdExit
<1> QED
  BY <1>1, <1>2, <1>3, <1>4, <1>5, <1>6, <1>7, <1>8, <1>9, <1>10, <1>11, <1>12,
     <1>13, <1>14, <1>15 DEF Watch

\* A caller's program counter moves within CallPC.
LEMMA TypeCallPC ==
  ASSUME TypeOK, NEW c \in Callers, NEW pc \in CallPC,
         call' = [call EXCEPT ![c] = pc]
  PROVE  call' \in [Callers -> CallPC]
BY DEF TypeOK

\* A step of a caller keeps the types.
LEMMA TypeCall ==
  ASSUME TypeOK, NEW c \in Callers, Command(c) \/ Called(c)
  PROVE  TypeOK'
<1>0. Fresh \in Watchdog /\ Fresh.crashes < CrashLimit
  BY NewThreads
<1>a. call' \in [Callers -> CallPC]
  <2>1. \E pc \in CallPC : call' = [call EXCEPT ![c] = pc]
    BY DEF Command, Called, Restart, CallPC, LoadModel, DownloadDone, SwitchTier,
           TryBeginStart, StartIfNoModel, RestartBegin, RestartKill, RestartJoin,
           RestartReset, RestartLaunch
  <2> QED
    BY <2>1, TypeCallPC
<1>b. /\ wd' \in [Watchdogs -> Watchdog]
      /\ \A w \in Watchdogs : wd'[w].pc # "exit" => wd'[w].crashes < CrashLimit
  BY <1>0 DEF TypeOK, StartThread, Becomes, Command, Called, Restart, LoadModel, DownloadDone,
       SwitchTier, TryBeginStart, StartIfNoModel, RestartBegin, RestartKill, RestartJoin,
       RestartReset, RestartLaunch
<1> USE <1>a, <1>b DEF TypeOK
<1>1. CASE LoadModel(c)
  BY <1>1 DEF LoadModel, engineVars, osVars
<1>2. CASE DownloadDone(c)
  BY <1>2 DEF DownloadDone, engineVars, osVars
<1>3. CASE SwitchTier(c)
  BY <1>3 DEF SwitchTier, engineVars
<1>4. CASE TryBeginStart(c)
  <2>1. status' \in Status /\ overlapped' \in BOOLEAN
    BY <1>4 DEF TryBeginStart, Status
  <2> QED
    BY <1>4, <2>1 DEF TryBeginStart, osVars
<1>5. CASE StartIfNoModel(c)
  BY <1>5 DEF StartIfNoModel, StartThread, osVars
<1>6. CASE RestartBegin(c)
  BY <1>6 DEF RestartBegin, osVars
<1>7. CASE RestartKill(c)
  BY <1>7 DEF RestartKill, KillChild, Ended
<1>8. CASE RestartJoin(c)
  BY <1>8 DEF RestartJoin, osVars
<1>9. CASE RestartReset(c)
  BY <1>9 DEF RestartReset, osVars
<1>10. CASE RestartLaunch(c)
  BY <1>10 DEF RestartLaunch, Status, StartThread, osVars
<1> QED
  BY <1>1, <1>2, <1>3, <1>4, <1>5, <1>6, <1>7, <1>8, <1>9, <1>10
  DEF Command, Called, Restart

\* So do the teardown, the servers and the files.
LEMMA TypeEnvironment ==
  ASSUME TypeOK,
         \/ Shutdown
         \/ \E s \in Servers : ServerUp(s) \/ ServerExit(s)
         \/ FilesChange
         \/ UNCHANGED vars
  PROVE  TypeOK'
<1> USE EngineConstants DEF TypeOK, Ended
<1>1. CASE Shutdown
  BY <1>1 DEF Shutdown, ShutdownClosing, ShutdownFlag, ShutdownKill, KillChild, osVars
<1>2. CASE \E s \in Servers : ServerUp(s) \/ ServerExit(s)
  BY <1>2 DEF ServerUp, ServerExit, engineVars
<1>3. CASE FilesChange
  BY <1>3 DEF FilesChange, engineVars
<1>4. CASE UNCHANGED vars
  BY <1>4 DEF vars, engineVars, osVars
<1> QED
  BY <1>1, <1>2, <1>3, <1>4

\* Every step keeps the types.
LEMMA TypeNext == TypeOK /\ [Next]_vars => TypeOK'
BY TypeWatch, TypeCall, TypeEnvironment DEF Next

\* Every reachable state is well typed.
THEOREM Typing == Spec => []TypeOK
<1>1. TypeOK /\ [Next]_vars => TypeOK'
  BY TypeNext
<1> QED
  BY TypeInit, <1>1, PTL DEF Spec

-----------------------------------------------------------------------------
(* One watchdog.                                                           *)

\* restart_lock is held exactly between restart's first step and its return.
LockHeld == \A c \in Callers :
  call[c] \in {"rKill", "rJoin", "rReset", "rLaunch"} <=> restartLock = c

\* NoModel is left by the first thread, and by the caller about to start it.
NoModelIsIdle == status = "NoModel" =>
  /\ ~threadAlive
  /\ \A w \in Watchdogs : ~Live(w)
  /\ \A c \in Callers : call[c] # "startThread"

\* Without an overlap thread_alive tells of every thread there is, and whoever
\* is about to start one has seen it clear.
AliveFlag == ~overlapped =>
  /\ \A w \in Watchdogs : Live(w) => threadAlive
  /\ \A c \in Callers : call[c] \in {"rReset", "rLaunch"} => ~threadAlive
  /\ \A c \in Callers : call[c] = "startThread" =>
       /\ ~threadAlive
       /\ restartLock = NoCaller
       /\ \A d \in Callers : call[d] = "startThread" => d = c

ThreadInv == TypeOK /\ LockHeld /\ NoModelIsIdle /\ AliveFlag /\ OneWatchdog

\* A watchdog's step creates no thread, clears thread_alive only by ending,
\* never returns to NoModel and leaves the callers and the lock alone.
LEMMA WatchFrame ==
  ASSUME TypeOK, NEW w \in Watchdogs, Watch(w)
  PROVE  /\ UNCHANGED <<call, restartLock, overlapped>>
         /\ Live(w)
         /\ \A v \in Watchdogs : Live(v)' => Live(v)
         /\ threadAlive' = threadAlive \/ ~Live(w)'
         /\ status' = status \/ status' # "NoModel"
<1>1. \A v \in Watchdogs : v # w => wd'[v] = wd[v]
  BY DEF TypeOK, Watch, WdBegin, WdTop, WdVerified, WdRejected, WdSpawn, WdSpawnError, WdStore,
         WdCheck, WdHealth, WdDeadline, WdPoll, WdKill, WdWatch, WdProbe, WdExit, Goto, Becomes
<1>2. wd[w].pc # "off"
  BY DEF Watch, WdBegin, WdTop, WdVerified, WdRejected, WdSpawn, WdSpawnError, WdStore,
         WdCheck, WdHealth, WdDeadline, WdPoll, WdKill, WdWatch, WdProbe, WdExit
<1>3. UNCHANGED <<call, restartLock, overlapped>>
  BY DEF Watch, WdBegin, WdTop, WdVerified, WdRejected, WdSpawn, WdSpawnError, WdStore,
         WdCheck, WdHealth, WdDeadline, WdPoll, WdKill, WdWatch, WdProbe, WdExit, engineVars
<1>4. status' = status \/ status' # "NoModel"
  BY DEF Watch, WdBegin, WdTop, WdVerified, WdRejected, WdSpawn, WdSpawnError, WdStore,
         WdCheck, WdHealth, WdDeadline, WdPoll, WdKill, WdWatch, WdProbe, WdExit, engineVars
<1>5. threadAlive' = threadAlive \/ ~Live(w)'
  <2>1. CASE WdExit(w)
    BY <2>1 DEF WdExit, Becomes, Idle, Live, TypeOK
  <2>2. CASE ~WdExit(w)
    BY <2>2 DEF Watch, WdBegin, WdTop, WdVerified, WdRejected, WdSpawn, WdSpawnError, WdStore,
         WdCheck, WdHealth, WdDeadline, WdPoll, WdKill, WdWatch, WdProbe, engineVars
  <2> QED
    BY <2>1, <2>2
<1> QED
  BY <1>1, <1>2, <1>3, <1>4, <1>5 DEF Live

\* StartThread turns one free slot into the only new thread.
LEMMA StartFrame ==
  ASSUME TypeOK, StartThread
  PROVE  /\ threadAlive'
         /\ \E w \in Watchdogs : \A v \in Watchdogs : v # w => Live(v)' = Live(v)
BY DEF TypeOK, StartThread, Becomes, Live

\* The initial states: one thread and its flag, or neither.
LEMMA ThreadInit == Init => ThreadInv
<1> SUFFICES ASSUME Init PROVE ThreadInv
  OBVIOUS
<1>1. TypeOK
  BY TypeInit
<1>2. LockHeld
  BY EngineConstants DEF Init, LockHeld
<1>3. NoModelIsIdle
  BY DEF Init, NoModelIsIdle, Live, Idle
<1>4. AliveFlag /\ OneWatchdog
  BY DEF Init, AliveFlag, OneWatchdog, Live, Idle
<1> QED
  BY <1>1, <1>2, <1>3, <1>4 DEF ThreadInv

LEMMA ThreadWatch ==
  ASSUME ThreadInv, NEW w \in Watchdogs, Watch(w)
  PROVE  ThreadInv'
<1>1. TypeOK /\ TypeOK'
  BY TypeWatch DEF ThreadInv
<1>2. /\ UNCHANGED <<call, restartLock, overlapped>>
      /\ Live(w)
      /\ \A v \in Watchdogs : Live(v)' => Live(v)
      /\ threadAlive' = threadAlive \/ ~Live(w)'
      /\ status' = status \/ status' # "NoModel"
  BY <1>1, WatchFrame
<1>3. LockHeld'
  BY <1>2 DEF ThreadInv, LockHeld
<1>4. NoModelIsIdle'
  BY <1>2 DEF ThreadInv, NoModelIsIdle
<1>5. OneWatchdog'
  BY <1>2 DEF ThreadInv, OneWatchdog
<1>6. AliveFlag'
  <2> SUFFICES ASSUME ~overlapped PROVE AliveFlag'
    BY <1>2 DEF AliveFlag
  <2>1. threadAlive
    BY <1>2 DEF ThreadInv, AliveFlag
  <2>2. \A c \in Callers : call[c] \notin {"rReset", "rLaunch", "startThread"}
    BY <2>1 DEF ThreadInv, AliveFlag
  <2>3. \A v \in Watchdogs : Live(v)' => threadAlive'
    <3> SUFFICES ASSUME NEW v \in Watchdogs, Live(v)' PROVE threadAlive'
      OBVIOUS
    <3>1. v = w
      BY <1>2 DEF ThreadInv, OneWatchdog
    <3> QED
      BY <1>2, <2>1, <3>1
  <2> QED
    BY <1>2, <2>2, <2>3 DEF AliveFlag
<1> QED
  BY <1>1, <1>3, <1>4, <1>5, <1>6 DEF ThreadInv

\* A step that starts no thread and does not touch the lock discipline.
LEMMA ThreadFrame ==
  ASSUME ThreadInv, TypeOK', UNCHANGED <<wd, threadAlive, restartLock, overlapped, status>>,
         \A c \in Callers :
           \/ call'[c] = call[c]
           \/ /\ {call[c], call'[c]} \cap {"rKill", "rJoin", "rReset", "rLaunch"} = {}
              /\ call'[c] # "startThread"
           \/ call[c] = "rKill" /\ call'[c] = "rJoin"
           \/ call[c] = "rReset" /\ call'[c] = "rLaunch"
           \/ call[c] = "rJoin" /\ call'[c] = "rReset" /\ ~threadAlive
  PROVE  ThreadInv'
<1>1. LockHeld'
  BY DEF ThreadInv, LockHeld
<1>2. NoModelIsIdle'
  BY DEF ThreadInv, NoModelIsIdle, Live
<1>3. AliveFlag'
  BY DEF ThreadInv, AliveFlag, Live
<1>4. OneWatchdog'
  BY DEF ThreadInv, OneWatchdog, Live
<1> QED
  BY <1>1, <1>2, <1>3, <1>4 DEF ThreadInv

\* The callers' steps: what they start, they start with no thread alive.
LEMMA ThreadCall ==
  ASSUME ThreadInv, NEW c \in Callers, Command(c) \/ Called(c)
  PROVE  ThreadInv'
<1>0. TypeOK /\ TypeOK'
  BY TypeCall DEF ThreadInv
<1>1. CASE Command(c)
  BY <1>0, <1>1, ThreadFrame
  DEF TypeOK, Command, LoadModel, DownloadDone, SwitchTier, engineVars
<1>2. CASE TryBeginStart(c)
  <2>1. CASE status # "NoModel"
    BY <1>0, <1>2, <2>1, ThreadFrame DEF TypeOK, TryBeginStart
  <2>2. CASE status = "NoModel"
    <3>1. /\ call' = [call EXCEPT ![c] = "startThread"]
          /\ overlapped' = (overlapped \/ restartLock # NoCaller)
          /\ status' = "Starting"
          /\ call[c] = "startIfNoModel"
          /\ UNCHANGED <<wd, threadAlive, restartLock>>
      BY <1>2, <2>2 DEF TryBeginStart
    <3>2. /\ ~threadAlive
          /\ \A w \in Watchdogs : ~Live(w)
          /\ \A d \in Callers : call[d] # "startThread"
      BY <2>2 DEF ThreadInv, NoModelIsIdle
    <3>3. LockHeld'
      BY <1>0, <3>1 DEF ThreadInv, LockHeld, TypeOK
    <3>4. AliveFlag' /\ OneWatchdog' /\ NoModelIsIdle'
      BY <1>0, <3>1, <3>2 DEF AliveFlag, OneWatchdog, NoModelIsIdle, Live, TypeOK
    <3> QED
      BY <1>0, <3>3, <3>4 DEF ThreadInv
  <2> QED
    BY <2>1, <2>2
<1>3. CASE StartIfNoModel(c)
  <2>1. /\ call[c] = "startThread"
        /\ call' = [call EXCEPT ![c] = "idle"]
        /\ UNCHANGED <<status, restartLock, overlapped>>
    BY <1>3 DEF StartIfNoModel
  <2>2. /\ threadAlive'
        /\ \E w \in Watchdogs : \A v \in Watchdogs : v # w => Live(v)' = Live(v)
    BY <1>0, <1>3, StartFrame DEF StartIfNoModel
  <2>3. status # "NoModel"
    BY <2>1 DEF ThreadInv, NoModelIsIdle
  <2>4. ~overlapped =>
          /\ ~threadAlive
          /\ restartLock = NoCaller
          /\ \A d \in Callers : call[d] = "startThread" => d = c
          /\ \A w \in Watchdogs : ~Live(w)
    BY <2>1 DEF ThreadInv, AliveFlag
  <2>5. LockHeld'
    BY <1>0, <2>1 DEF ThreadInv, LockHeld, TypeOK
  <2>6. NoModelIsIdle'
    BY <2>1, <2>3 DEF NoModelIsIdle
  <2>7. OneWatchdog'
    BY <2>1, <2>2, <2>4 DEF OneWatchdog
  <2>8. AliveFlag'
    <3> SUFFICES ASSUME ~overlapped PROVE AliveFlag'
      BY <2>1 DEF AliveFlag
    <3>1. \A d \in Callers : call[d] \notin {"rReset", "rLaunch"}
      BY <2>4, EngineConstants DEF ThreadInv, LockHeld
    <3>2. \A d \in Callers : call'[d] \notin {"rReset", "rLaunch", "startThread"}
      BY <1>0, <2>1, <2>4, <3>1 DEF TypeOK
    <3> QED
      BY <2>2, <3>2 DEF AliveFlag
  <2> QED
    BY <1>0, <2>5, <2>6, <2>7, <2>8 DEF ThreadInv
<1>4. CASE RestartBegin(c)
  <2>1. /\ call[c] = "restart" /\ restartLock = NoCaller /\ restartLock' = c
        /\ call' = [call EXCEPT ![c] = "rKill"]
        /\ overlapped' = (overlapped \/ \E d \in Callers : call[d] = "startThread")
        /\ UNCHANGED <<status, threadAlive, wd>>
    BY <1>4 DEF RestartBegin
  <2>2. LockHeld'
    BY <1>0, <2>1, EngineConstants DEF ThreadInv, LockHeld, TypeOK
  <2>3. NoModelIsIdle'
    BY <1>0, <2>1 DEF ThreadInv, NoModelIsIdle, Live, TypeOK
  <2>4. OneWatchdog'
    BY <2>1 DEF ThreadInv, OneWatchdog, Live
  <2>5. AliveFlag'
    BY <1>0, <2>1 DEF ThreadInv, AliveFlag, Live, TypeOK
  <2> QED
    BY <1>0, <2>2, <2>3, <2>4, <2>5 DEF ThreadInv
<1>5. CASE RestartKill(c) \/ RestartReset(c)
  BY <1>0, <1>5, ThreadFrame DEF TypeOK, RestartKill, RestartReset
<1>6. CASE RestartJoin(c)
  <2>1. CASE ~closing
    BY <1>0, <1>6, <2>1, ThreadFrame DEF TypeOK, RestartJoin, OldThreadGone
  <2>2. CASE closing
    <3>1. /\ call[c] = "rJoin" /\ restartLock' = NoCaller
          /\ call' = [call EXCEPT ![c] = "idle"]
          /\ UNCHANGED <<status, threadAlive, wd, overlapped>>
      BY <1>6, <2>2 DEF RestartJoin
    <3>2. restartLock = c
      BY <3>1 DEF ThreadInv, LockHeld
    <3>3. LockHeld'
      BY <1>0, <3>1, <3>2, EngineConstants DEF ThreadInv, LockHeld, TypeOK
    <3>4. NoModelIsIdle' /\ OneWatchdog'
      BY <1>0, <3>1 DEF ThreadInv, NoModelIsIdle, OneWatchdog, Live, TypeOK
    <3>5. AliveFlag'
      BY <1>0, <3>1 DEF ThreadInv, AliveFlag, Live, TypeOK
    <3> QED
      BY <1>0, <3>3, <3>4, <3>5 DEF ThreadInv
  <2> QED
    BY <2>1, <2>2
<1>7. CASE RestartLaunch(c)
  <2>1. /\ call[c] = "rLaunch" /\ restartLock' = NoCaller /\ status' = "Starting"
        /\ call' = [call EXCEPT ![c] = "idle"]
        /\ UNCHANGED overlapped
    BY <1>7 DEF RestartLaunch
  <2>2. /\ threadAlive'
        /\ \E w \in Watchdogs : \A v \in Watchdogs : v # w => Live(v)' = Live(v)
    BY <1>0, <1>7, StartFrame DEF RestartLaunch
  <2>3. restartLock = c
    BY <2>1 DEF ThreadInv, LockHeld
  <2>4. LockHeld'
    BY <1>0, <2>1, <2>3, EngineConstants DEF ThreadInv, LockHeld, TypeOK
  <2>5. NoModelIsIdle'
    BY <2>1 DEF NoModelIsIdle
  <2>6. ~overlapped => ~threadAlive /\ \A w \in Watchdogs : ~Live(w)
    BY <2>1 DEF ThreadInv, AliveFlag
  <2>7. OneWatchdog'
    BY <2>1, <2>2, <2>6 DEF OneWatchdog
  <2>8. AliveFlag'
    <3> SUFFICES ASSUME ~overlapped PROVE AliveFlag'
      BY <2>1 DEF AliveFlag
    <3>1. \A d \in Callers : call[d] # "startThread"
      BY <2>3, EngineConstants DEF ThreadInv, AliveFlag
    <3>2. \A d \in Callers : call'[d] \notin {"rReset", "rLaunch", "startThread"}
      BY <1>0, <2>1, <2>3, <3>1 DEF TypeOK, ThreadInv, LockHeld
    <3> QED
      BY <2>2, <3>2 DEF AliveFlag
  <2> QED
    BY <1>0, <2>4, <2>5, <2>7, <2>8 DEF ThreadInv
<1> QED
  BY <1>1, <1>2, <1>3, <1>4, <1>5, <1>6, <1>7 DEF Called, Restart

\* Every step keeps the invariant.
LEMMA ThreadNext == ThreadInv /\ [Next]_vars => ThreadInv'
<1> SUFFICES ASSUME ThreadInv, [Next]_vars PROVE ThreadInv'
  OBVIOUS
<1>1. CASE \E w \in Watchdogs : Watch(w)
  BY <1>1, ThreadWatch
<1>2. CASE \E c \in Callers : Command(c) \/ Called(c)
  BY <1>2, ThreadCall
<1>3. CASE \/ Shutdown
           \/ \E s \in Servers : ServerUp(s) \/ ServerExit(s)
           \/ FilesChange
           \/ UNCHANGED vars
  <2>1. TypeOK'
    BY <1>3, TypeEnvironment DEF ThreadInv
  <2>2. UNCHANGED <<wd, threadAlive, restartLock, overlapped, status, call>>
    BY <1>3 DEF Shutdown, ShutdownClosing, ShutdownFlag, ShutdownKill, ServerUp, ServerExit,
                FilesChange, vars, engineVars, osVars
  <2> QED
    BY <2>1, <2>2, ThreadFrame
<1> QED
  BY <1>1, <1>2, <1>3 DEF Next

\* restart's join (inference.rs, restart) keeps two watchdogs from living
\* together until a start_if_no_model overlaps a restart.
THEOREM NoTwoWatchdogs == Spec => []OneWatchdog
<1>1. ThreadInv => OneWatchdog
  BY DEF ThreadInv
<1> QED
  BY ThreadInit, ThreadNext, <1>1, PTL DEF Spec

-----------------------------------------------------------------------------
(* Which llama-server the engine's threads answer for, until a
   start_if_no_model overlaps a restart *)

\* What the flags say of the threads, and a handle not yet stored of its own.
Flags ==
  /\ teardown # "open" => closing
  /\ \A c \in Callers : call[c] \in {"rKill", "rJoin", "rReset"} => shuttingDown
  /\ \A w \in Watchdogs : wd[w].spawned # NoServer => wd[w].pc = "store"

\* Whoever launches a server, or is about to start the thread that does, has
\* nothing left in the handle that the launch replaces.
Stopped ==
  /\ \A w \in Watchdogs :
       wd[w].pc \in {"begin", "top", "verify", "spawn", "store"} => ChildExited
  /\ status = "NoModel" => ChildExited
  /\ \A c \in Callers : call[c] \in {"startThread", "rReset", "rLaunch"} => ChildExited

\* A server launched beside a kill_child is made up for by its watchdog's check.
Caught == ChildExited \/ \E w \in Watchdogs : wd[w].pc = "check"
Reaped ==
  /\ \A c \in Callers : call[c] = "rJoin" => Caught
  /\ teardown = "done" /\ shuttingDown /\ (\A c \in Callers : call[c] # "rKill")
       => Caught

\* Every llama-server this process runs can be reached by kill_child, now or
\* once the watchdog that spawned it has stored its handle.
NoOrphan ==
  ~overlapped => \A s \in Running :
    Own(s) => s = child \/ \E w \in Watchdogs : wd[w].spawned = s

ServerInv ==
  ~overlapped => Flags /\ Stopped /\ Reaped /\ NoOrphan /\ RecordedServer

\* A server that ends takes no other with it; kill_child leaves no handle.
LEMMA EndedFrame ==
  ASSUME TypeOK, NEW s \in Servers \cup {NoServer}, Ended(s)
  PROVE  \A t \in Servers : server'[t] # "none" =>
           t # s /\ server'[t] = server[t] /\ loaded'[t] = loaded[t]
BY DEF TypeOK, Ended

LEMMA KillFrame ==
  ASSUME TypeOK, KillChild
  PROVE  /\ child' = NoServer /\ pidFile' = NoServer /\ ChildExited'
         /\ \A t \in Servers : server'[t] # "none" =>
              t # child /\ server'[t] = server[t] /\ loaded'[t] = loaded[t]
BY EndedFrame DEF TypeOK, KillChild, ChildExited

\* The initial states: at most a stray runs, and no handle is kept.
LEMMA ServerInit == Init => ServerInv
<1> SUFFICES ASSUME Init PROVE ServerInv
  OBVIOUS
<1>1. ChildExited /\ \A s \in Servers : ~Own(s)
  BY DEF Init, ChildExited, Own
<1>2. Flags
  <2>1. Idle.spawned = NoServer /\ Fresh.spawned = NoServer
    BY DEF Idle, Fresh
  <2>2. \A w \in Watchdogs : wd[w].spawned = NoServer
    BY <2>1 DEF Init
  <2> QED
    BY <2>2 DEF Init, Flags
<1>3. Stopped /\ Reaped
  BY <1>1 DEF Stopped, Reaped, Caught
<1>4. NoOrphan /\ RecordedServer
  BY <1>1 DEF NoOrphan, RecordedServer, Running
<1> QED
  BY <1>2, <1>3, <1>4 DEF ServerInv

-----------------------------------------------------------------------------
(* The watchdog.                                                           *)

\* Where one watchdog lives, no caller is past its join.
LEMMA Alone ==
  ASSUME ThreadInv, ~overlapped, NEW w \in Watchdogs, Live(w)
  PROVE  /\ \A v \in Watchdogs : v # w => wd[v].pc = "off"
         /\ status # "NoModel"
         /\ \A c \in Callers : call[c] \notin {"startThread", "rReset", "rLaunch"}
<1>1. \A v \in Watchdogs : v # w => wd[v].pc = "off"
  BY DEF ThreadInv, OneWatchdog, Live
<1>2. threadAlive
  BY DEF ThreadInv, AliveFlag
<1> QED
  BY <1>1, <1>2 DEF ThreadInv, AliveFlag, NoModelIsIdle

\* Before a server is launched none of the process's own runs.
LEMMA NoneRuns ==
  ASSUME TypeOK, Flags, NoOrphan, ~overlapped, ChildExited,
         \A w \in Watchdogs : wd[w].pc # "store"
  PROVE  \A s \in Servers : server[s] # "none" => ~Own(s)
BY EngineConstants DEF Flags, NoOrphan, ChildExited, Running

LEMMA ServerWatch ==
  ASSUME ThreadInv, ServerInv, NEW w \in Watchdogs, Watch(w)
  PROVE  ServerInv'
<1>0. TypeOK /\ TypeOK' /\ UNCHANGED <<call, overlapped>> /\ Live(w)
  BY TypeWatch, WatchFrame DEF ThreadInv
<1> SUFFICES ASSUME ~overlapped
             PROVE  (Flags /\ Stopped /\ Reaped /\ NoOrphan /\ RecordedServer)'
  BY <1>0 DEF ServerInv
<1>1. Flags /\ Stopped /\ Reaped /\ NoOrphan /\ RecordedServer
  BY DEF ServerInv
<1>2. /\ \A v \in Watchdogs : v # w => wd[v].pc = "off" /\ wd[v].spawned = NoServer
      /\ status # "NoModel"
      /\ \A c \in Callers : call[c] \notin {"startThread", "rReset", "rLaunch"}
  BY <1>0, <1>1, Alone DEF Flags
<1>3. /\ UNCHANGED <<shuttingDown, closing, teardown>>
      /\ status' # "NoModel"
      /\ \A v \in Watchdogs : v # w => wd'[v] = wd[v]
  BY <1>0, <1>2 DEF TypeOK, Watch, WdBegin, WdTop, WdVerified, WdRejected, WdSpawn, WdSpawnError,
         WdStore, WdCheck, WdHealth, WdDeadline, WdPoll, WdKill, WdWatch, WdProbe, WdExit,
         Goto, Becomes, engineVars
\* The steps that touch no process, handle or file: where the thread goes on
\* to launch, it has seen that its server is gone.
<1>4. CASE \/ WdTop(w) \/ WdVerified(w) \/ WdRejected(w) \/ WdSpawnError(w)
           \/ WdHealth(w) \/ WdDeadline(w) \/ WdPoll(w) \/ WdWatch(w) \/ WdProbe(w)
           \/ WdExit(w)
  <2>1. /\ UNCHANGED <<server, loaded, child, pidFile>>
        /\ wd[w].pc \notin {"store", "check"}
    BY <1>4 DEF WdTop, WdVerified, WdRejected, WdSpawnError, WdHealth, WdDeadline, WdPoll,
       WdWatch, WdProbe, WdExit, engineVars, osVars
  <2>9. /\ wd'[w].pc \notin {"store", "check"}
        /\ wd'[w].spawned \in {wd[w].spawned, NoServer}
        /\ wd'[w].pc \in {"begin", "top", "verify", "spawn"} =>
             ChildExited \/ wd[w].pc \in {"begin", "top", "verify", "spawn"}
    <3>1. wd \in [Watchdogs -> Watchdog]
      BY <1>0 DEF TypeOK
    <3>2. CASE WdTop(w) \/ WdVerified(w) \/ WdRejected(w) \/ WdSpawnError(w)
      BY <3>1, <3>2, ZenonT(60) DEF Watchdog, WdTop, WdVerified, WdRejected, WdSpawnError, Goto, Becomes
    <3>3. CASE WdHealth(w) \/ WdDeadline(w) \/ WdPoll(w) \/ WdWatch(w)
      BY <3>1, <3>3 DEF Watchdog, WdHealth, WdDeadline, WdPoll, WdWatch, Goto, Becomes
    <3>4. CASE WdProbe(w)
      BY <3>1, <3>4, ZenonT(60) DEF Watchdog, WdProbe, Goto, Becomes
    <3>5. CASE WdExit(w)
      BY <3>1, <3>5 DEF WdExit, Becomes, Idle
    <3> QED
      BY <1>4, <3>2, <3>3, <3>4, <3>5
  <2>2. ChildExited' = ChildExited /\ Running' = Running /\ \A s \in Servers : Own(s)' = Own(s)
    BY <2>1 DEF ChildExited, Running, Own
  <2>3. wd[w].spawned = NoServer /\ wd'[w].spawned = NoServer
    BY <1>1, <2>1, <2>9 DEF Flags
  <2>4. Flags'
    BY <1>0, <1>1, <1>2, <1>3, <2>3 DEF Flags
  <2>5. Stopped'
    BY <1>0, <1>1, <1>2, <1>3, <2>1, <2>2, <2>9 DEF Stopped
  <2>6. Caught => Caught'
    BY <1>2, <2>1, <2>2 DEF Caught
  <2>7. Reaped'
    BY <1>0, <1>1, <1>3, <2>6 DEF Reaped
  <2>8. NoOrphan' /\ RecordedServer'
    BY <1>0, <1>1, <1>2, <1>3, <2>1, <2>2, <2>3 DEF NoOrphan, RecordedServer, Running
  <2> QED
    BY <2>4, <2>5, <2>7, <2>8
\* kill_child, by a watchdog that has stored its handle: nothing is left.
<1>5. CASE WdKill(w) \/ (WdCheck(w) /\ shuttingDown)
  <2>1. /\ KillChild /\ wd[w].pc \in {"kill", "check"}
        /\ wd'[w].spawned = wd[w].spawned /\ wd'[w].pc \in {"top", "exit"}
    <3>1. wd \in [Watchdogs -> Watchdog]
      BY <1>0 DEF TypeOK
    <3>2. CASE WdKill(w)
      <4>1. KillChild /\ wd[w].pc = "kill"
        BY <3>2 DEF WdKill
      <4>2. \/ wd' = [wd EXCEPT ![w] = [wd[w] EXCEPT !.pc = "top", !.gpu = FALSE]]
            \/ wd' = [wd EXCEPT ![w] = [wd[w] EXCEPT !.pc = "exit"]]
        BY <3>2 DEF WdKill, Goto, Becomes
      <4>3. wd'[w].spawned = wd[w].spawned /\ wd'[w].pc \in {"top", "exit"}
        BY <3>1, <4>2, ZenonT(60) DEF Watchdog
      <4> QED
        BY <4>1, <4>3
    <3>3. CASE WdCheck(w) /\ shuttingDown
      BY <3>1, <3>3 DEF Watchdog, WdCheck, Goto, Becomes
    <3> QED
      BY <1>5, <3>2, <3>3
  <2>2. wd[w].spawned = NoServer
    BY <1>1, <2>1 DEF Flags
  <2>3. ChildExited' /\ \A s \in Servers : server'[s] # "none" => ~Own(s)'
    BY <1>0, <1>1, <1>2, <2>1, <2>2, KillFrame, EngineConstants DEF NoOrphan, Running, Own
  <2> QED
    BY <1>0, <1>1, <1>2, <1>3, <2>1, <2>2, <2>3
    DEF Flags, Stopped, Reaped, Caught, NoOrphan, RecordedServer, Running
<1>6. CASE WdCheck(w) /\ ~shuttingDown
  <2>1. /\ UNCHANGED <<server, loaded, child, pidFile>> /\ wd[w].pc = "check"
        /\ wd'[w].pc = "health" /\ wd'[w].spawned = wd[w].spawned
    BY <1>0, <1>6 DEF TypeOK, Watchdog, WdCheck, Goto, Becomes
  <2>2. wd[w].spawned = NoServer
    BY <1>1, <2>1 DEF Flags
  <2>3. \A c \in Callers : call[c] # "rJoin"
    BY <1>1, <1>6 DEF Flags
  <2> QED
    BY <1>0, <1>1, <1>2, <1>3, <1>6, <2>1, <2>2, <2>3
    DEF Flags, Stopped, Reaped, NoOrphan, RecordedServer, Running, Own, ChildExited
<1>7. CASE WdBegin(w)
  <2>1. /\ wd[w].pc = "begin" /\ Ended(pidFile) /\ UNCHANGED child
        /\ wd'[w].pc = "top" /\ wd'[w].spawned = wd[w].spawned
    BY <1>0, <1>7 DEF TypeOK, WdBegin, Goto, Becomes
  <2>2. ChildExited /\ \A s \in Servers : server[s] # "none" => ~Own(s)
    BY <1>0, <1>1, <1>2, <2>1, NoneRuns DEF Stopped
  <2>3. \A t \in Servers : server'[t] # "none" =>
          server'[t] = server[t] /\ loaded'[t] = loaded[t]
    BY <1>0, <2>1, EndedFrame DEF TypeOK
  <2>4. ChildExited'
    BY <1>0, <2>1, <2>2, <2>3 DEF TypeOK, ChildExited
  <2>5. \A s \in Servers : server'[s] # "none" => ~Own(s)'
    BY <2>2, <2>3 DEF Own
  <2> QED
    BY <1>0, <1>1, <1>2, <1>3, <2>1, <2>4, <2>5
    DEF Flags, Stopped, Reaped, Caught, NoOrphan, RecordedServer, Running
<1>8. CASE WdSpawn(w)
  <2>1. PICK s \in Servers :
          /\ wd[w].pc = "spawn" /\ server[s] = "none" /\ s # child
          /\ server' = [server EXCEPT ![s] = "loading"]
          /\ loaded' = [loaded EXCEPT ![s] = tier]
          /\ pidFile' = s /\ UNCHANGED child
          /\ Becomes(w, [wd[w] EXCEPT !.pc = "store", !.spawned = s])
    BY <1>8 DEF WdSpawn, RecordPid, engineVars
  <2>6. wd'[w].pc = "store" /\ wd'[w].spawned = s
    BY <1>0, <2>1 DEF TypeOK, Watchdog, Becomes
  <2>2. ChildExited /\ \A t \in Servers : server[t] # "none" => ~Own(t)
    BY <1>0, <1>1, <1>2, <2>1, NoneRuns DEF Stopped
  <2>3. \A t \in Servers : t # s => server'[t] = server[t] /\ loaded'[t] = loaded[t]
    BY <1>0, <2>1 DEF TypeOK
  <2>4. ChildExited'
    BY <1>0, <2>1, <2>2, <2>3 DEF TypeOK, ChildExited
  <2>5. \A t \in Servers : t # s /\ server'[t] # "none" => ~Own(t)'
    BY <2>2, <2>3 DEF Own
  <2> QED
    BY <1>0, <1>1, <1>2, <1>3, <2>1, <2>4, <2>5, <2>6
    DEF Flags, Stopped, Reaped, Caught, NoOrphan, RecordedServer, Running
<1>9. CASE WdStore(w)
  <2>1. /\ wd[w].pc = "store" /\ child' = wd[w].spawned /\ UNCHANGED <<server, loaded, pidFile>>
        /\ wd'[w].pc = "check" /\ wd'[w].spawned = NoServer
    BY <1>0, <1>9 DEF TypeOK, WdStore, Becomes, osVars
  <2>2. \A s \in Servers : server[s] # "none" /\ Own(s) => s = wd[w].spawned
    BY <1>0, <1>1, <1>2, <2>1, EngineConstants DEF Stopped, NoOrphan, ChildExited, Running
  <2> QED
    BY <1>0, <1>1, <1>2, <1>3, <2>1, <2>2
    DEF Flags, Stopped, Reaped, Caught, NoOrphan, RecordedServer, Running, Own
<1> QED
  BY <1>4, <1>5, <1>6, <1>7, <1>8, <1>9 DEF Watch

-----------------------------------------------------------------------------
(* The callers, the teardown and the environment.                          *)

LEMMA ServerCall ==
  ASSUME ThreadInv, ServerInv, NEW c \in Callers, Command(c) \/ Called(c)
  PROVE  ServerInv'
<1>0. TypeOK /\ TypeOK' /\ (overlapped => overlapped')
  <2>1. TypeOK /\ TypeOK'
    BY TypeCall DEF ThreadInv
  <2>2. overlapped => overlapped'
    BY DEF Command, LoadModel, DownloadDone, SwitchTier, Called, Restart, TryBeginStart,
       StartIfNoModel, RestartBegin, RestartKill, RestartJoin, RestartReset, RestartLaunch
  <2> QED
    BY <2>1, <2>2
<1> SUFFICES ASSUME ~overlapped, ~overlapped'
             PROVE  (Flags /\ Stopped /\ Reaped /\ NoOrphan /\ RecordedServer)'
  BY <1>0 DEF ServerInv
<1>1. Flags /\ Stopped /\ Reaped /\ NoOrphan /\ RecordedServer
  BY DEF ServerInv
<1>2. CASE Command(c) \/ TryBeginStart(c)
  <2>1. /\ UNCHANGED <<wd, teardown, server, loaded, pidFile, child, shuttingDown, closing>>
        /\ status' # status => status = "NoModel" /\ status' = "Starting"
        /\ \A d \in Callers : call'[d] # call[d] =>
             /\ call[d] \in {"idle", "startIfNoModel"}
             /\ \/ call'[d] \in {"idle", "startIfNoModel", "restart"}
                \/ call'[d] = "startThread" /\ status = "NoModel"
    BY <1>0, <1>2 DEF TypeOK, Command, LoadModel, DownloadDone, SwitchTier, TryBeginStart,
       engineVars, osVars
  <2>2. ChildExited' = ChildExited /\ Caught' = Caught /\ Running' = Running
        /\ \A s \in Servers : Own(s)' = Own(s)
    BY <2>1 DEF ChildExited, Caught, Running, Own
  <2>3. Flags' /\ Stopped'
    BY <1>1, <2>1, <2>2 DEF Flags, Stopped
  <2>4. Reaped'
    BY <1>1, <2>1, <2>2 DEF Reaped
  <2>5. NoOrphan' /\ RecordedServer'
    BY <1>1, <2>1, <2>2 DEF NoOrphan, RecordedServer, Running
  <2> QED
    BY <2>3, <2>4, <2>5
\* A thread is started where none lives, over a handle that has been stopped.
<1>3. CASE StartIfNoModel(c) \/ RestartLaunch(c)
  <2>1. /\ call[c] \in {"startThread", "rLaunch"} /\ call' = [call EXCEPT ![c] = "idle"]
        /\ UNCHANGED <<teardown, server, loaded, pidFile, child, shuttingDown, closing>>
        /\ status' = status \/ status' = "Starting"
        /\ StartThread
    BY <1>3 DEF StartIfNoModel, RestartLaunch, osVars
  <2>2. ChildExited /\ ChildExited' /\ \A w \in Watchdogs : wd[w].pc = "off"
    BY <1>1, <2>1 DEF Stopped, ChildExited, ThreadInv, AliveFlag, Live
  <2>3. \A s \in Servers : server[s] # "none" => ~Own(s)
    BY <1>0, <1>1, <2>2, NoneRuns
  <2>4. \A s \in Servers : server'[s] # "none" => ~Own(s)'
    BY <2>1, <2>3 DEF Own
  <2>5. \A w \in Watchdogs : wd'[w].spawned # NoServer => wd'[w].pc = "store"
    BY <1>0, <1>1, <2>1 DEF TypeOK, Flags, StartThread, Becomes, Fresh, Idle
  <2>6. \A d \in Callers : call'[d] # call[d] => call'[d] = "idle" /\ call[d] # "rKill"
    BY <1>0, <2>1 DEF TypeOK
  <2>7. Flags'
    BY <1>1, <2>1, <2>5, <2>6 DEF Flags
  <2>8. Stopped' /\ Reaped'
    BY <2>2 DEF Stopped, Reaped, Caught
  <2>9. NoOrphan' /\ RecordedServer'
    BY <2>4 DEF NoOrphan, RecordedServer, Running
  <2> QED
    BY <2>7, <2>8, <2>9
<1>4. CASE RestartBegin(c)
  <2>1. /\ call[c] = "restart" /\ call' = [call EXCEPT ![c] = "rKill"] /\ shuttingDown'
        /\ UNCHANGED <<status, wd, teardown, server, loaded, pidFile, child, closing>>
    BY <1>4 DEF RestartBegin, osVars
  <2>2. call'[c] = "rKill" /\ \A d \in Callers : d # c => call'[d] = call[d]
    BY <1>0, <2>1 DEF TypeOK
  <2>3. ChildExited' = ChildExited /\ Caught' = Caught /\ Running' = Running
        /\ \A s \in Servers : Own(s)' = Own(s)
    BY <2>1 DEF ChildExited, Caught, Running, Own
  <2>4. Flags' /\ Stopped'
    BY <1>1, <2>1, <2>2, <2>3 DEF Flags, Stopped
  <2>5. Reaped'
    BY <1>1, <2>2, <2>3 DEF Reaped
  <2>6. NoOrphan' /\ RecordedServer'
    BY <1>1, <2>1, <2>3 DEF NoOrphan, RecordedServer, Running
  <2> QED
    BY <2>4, <2>5, <2>6
<1>5. CASE RestartKill(c)
  <2>1. /\ call[c] = "rKill" /\ call' = [call EXCEPT ![c] = "rJoin"] /\ KillChild
        /\ UNCHANGED <<status, wd, teardown, shuttingDown, closing>>
    BY <1>5 DEF RestartKill
  <2>2. call'[c] = "rJoin" /\ \A d \in Callers : d # c => call'[d] = call[d]
    BY <1>0, <2>1 DEF TypeOK
  <2>3. /\ shuttingDown /\ child' = NoServer /\ ChildExited' /\ Caught'
        /\ \A t \in Servers : server'[t] # "none" =>
              t # child /\ server'[t] = server[t] /\ loaded'[t] = loaded[t]
    BY <1>0, <1>1, <2>1, KillFrame DEF Flags, Caught
  <2>4. Flags' /\ Stopped' /\ Reaped'
    BY <1>1, <2>1, <2>2, <2>3 DEF Flags, Stopped, Reaped
  <2>5. \A s \in Servers : server'[s] # "none" /\ Own(s)' =>
          \E w \in Watchdogs : wd[w].spawned = s /\ wd[w].pc = "store"
    BY <1>0, <1>1, <2>3, EngineConstants DEF NoOrphan, Running, Own, Flags
  <2>6. NoOrphan' /\ RecordedServer'
    BY <2>1, <2>3, <2>5 DEF NoOrphan, RecordedServer, Running
  <2> QED
    BY <2>4, <2>6
<1>6. CASE RestartJoin(c)
  <2>1. /\ call[c] = "rJoin" /\ ~threadAlive
        /\ UNCHANGED <<status, wd, teardown, server, loaded, pidFile, child, shuttingDown, closing>>
        /\ call' = [call EXCEPT ![c] = "idle"] \/ call' = [call EXCEPT ![c] = "rReset"]
    BY <1>6 DEF RestartJoin, OldThreadGone, osVars
  <2>2. call'[c] \in {"idle", "rReset"} /\ \A d \in Callers : d # c => call'[d] = call[d]
    BY <1>0, <2>1 DEF TypeOK
  <2>3. ChildExited
    BY <1>1, <2>1 DEF Reaped, Caught, ThreadInv, AliveFlag, Live
  <2>4. ChildExited' /\ Running' = Running /\ \A s \in Servers : Own(s)' = Own(s)
    BY <2>1, <2>3 DEF ChildExited, Running, Own
  <2>5. Flags' /\ Stopped' /\ Reaped'
    BY <1>1, <2>1, <2>2, <2>4 DEF Flags, Stopped, Reaped, Caught
  <2>6. NoOrphan' /\ RecordedServer'
    BY <1>1, <2>1, <2>4 DEF NoOrphan, RecordedServer, Running
  <2> QED
    BY <2>5, <2>6
<1>7. CASE RestartReset(c)
  <2>1. /\ call[c] = "rReset" /\ call' = [call EXCEPT ![c] = "rLaunch"] /\ ~shuttingDown'
        /\ UNCHANGED <<status, wd, teardown, server, loaded, pidFile, child, closing>>
    BY <1>7 DEF RestartReset, osVars
  <2>2. call'[c] = "rLaunch" /\ \A d \in Callers : d # c => call'[d] = call[d]
    BY <1>0, <2>1 DEF TypeOK
  <2>3. ChildExited /\ ChildExited' /\ \A w \in Watchdogs : wd[w].pc = "off"
    BY <1>1, <2>1 DEF Stopped, ChildExited, ThreadInv, AliveFlag, Live
  <2>4. \A s \in Servers : server[s] # "none" => ~Own(s)
    BY <1>0, <1>1, <2>3, NoneRuns
  <2>5. \A d \in Callers : d # c => call[d] \notin {"rKill", "rJoin", "rReset"}
    BY <2>1 DEF ThreadInv, LockHeld
  <2>6. Flags'
    BY <1>1, <2>1, <2>2, <2>5 DEF Flags
  <2>7. Stopped' /\ Reaped'
    BY <2>3 DEF Stopped, Reaped, Caught
  <2>8. NoOrphan' /\ RecordedServer'
    BY <2>1, <2>4 DEF NoOrphan, RecordedServer, Running, Own
  <2> QED
    BY <2>6, <2>7, <2>8
<1> QED
  BY <1>2, <1>3, <1>4, <1>5, <1>6, <1>7 DEF Called, Restart

\* The teardown, a server that ends or comes up, and files that change.
LEMMA ServerEnvironment ==
  ASSUME ThreadInv, ServerInv,
         \/ Shutdown
         \/ \E s \in Servers : ServerUp(s) \/ ServerExit(s)
         \/ FilesChange
         \/ UNCHANGED vars
  PROVE  ServerInv'
<1>0. TypeOK /\ UNCHANGED <<wd, call, status, overlapped>>
  BY DEF ThreadInv, Shutdown, ShutdownClosing, ShutdownFlag, ShutdownKill, ServerUp,
     ServerExit, FilesChange, vars, engineVars, osVars
<1> SUFFICES ASSUME ~overlapped
             PROVE  (Flags /\ Stopped /\ Reaped /\ NoOrphan /\ RecordedServer)'
  BY <1>0 DEF ServerInv
<1>1. Flags /\ Stopped /\ Reaped /\ NoOrphan /\ RecordedServer
  BY DEF ServerInv
<1>2. CASE ShutdownClosing \/ ShutdownFlag
  <2>1. /\ UNCHANGED <<server, loaded, pidFile, child>>
        /\ closing' /\ (shuttingDown => shuttingDown') /\ teardown' # "done"
    BY <1>1, <1>2 DEF ShutdownClosing, ShutdownFlag, Flags, osVars
  <2>2. ChildExited' = ChildExited /\ Caught' = Caught /\ Running' = Running
        /\ \A s \in Servers : Own(s)' = Own(s)
    BY <1>0, <2>1 DEF ChildExited, Caught, Running, Own
  <2>3. Flags' /\ Stopped' /\ Reaped'
    BY <1>0, <1>1, <2>1, <2>2 DEF Flags, Stopped, Reaped
  <2>4. NoOrphan' /\ RecordedServer'
    BY <1>0, <1>1, <2>1, <2>2 DEF NoOrphan, RecordedServer, Running
  <2> QED
    BY <2>3, <2>4
<1>3. CASE ShutdownKill
  <2>1. closing' /\ UNCHANGED shuttingDown /\ KillChild
    BY <1>1, <1>3 DEF ShutdownKill, Flags
  <2>2. /\ child' = NoServer /\ ChildExited' /\ Caught'
        /\ \A t \in Servers : server'[t] # "none" =>
              t # child /\ server'[t] = server[t] /\ loaded'[t] = loaded[t]
    BY <1>0, <2>1, KillFrame DEF Caught
  <2>3. Flags' /\ Stopped' /\ Reaped'
    BY <1>0, <1>1, <2>1, <2>2 DEF Flags, Stopped, Reaped
  <2>4. NoOrphan' /\ RecordedServer'
    BY <1>0, <1>1, <2>1, <2>2 DEF NoOrphan, RecordedServer, Running, Own
  <2> QED
    BY <2>3, <2>4
<1>4. CASE \/ \E s \in Servers : ServerUp(s) \/ ServerExit(s)
           \/ FilesChange \/ UNCHANGED vars
  <2>1. /\ UNCHANGED <<teardown, pidFile, child, shuttingDown, closing>>
        /\ \A t \in Servers : server'[t] # "none" =>
              server[t] # "none" /\ loaded'[t] = loaded[t]
    BY <1>0, <1>4, EndedFrame DEF TypeOK, ServerUp, ServerExit, FilesChange, vars, engineVars, osVars
  <2>2. ChildExited => ChildExited'
    BY <1>0, <2>1 DEF TypeOK, ChildExited
  <2>3. Flags' /\ Stopped' /\ Reaped'
    BY <1>0, <1>1, <2>1, <2>2 DEF Flags, Stopped, Reaped, Caught
  <2>4. NoOrphan' /\ RecordedServer'
    BY <1>0, <1>1, <2>1 DEF NoOrphan, RecordedServer, Running, Own
  <2> QED
    BY <2>3, <2>4
<1> QED
  BY <1>2, <1>3, <1>4 DEF Shutdown

-----------------------------------------------------------------------------
(* The theorems.                                                           *)

LEMMA ServersKept == Spec => [](ThreadInv /\ ServerInv)
<1>1. ThreadInv /\ ServerInv /\ [Next]_vars => (ThreadInv /\ ServerInv)'
  BY ThreadNext, ServerWatch, ServerCall, ServerEnvironment DEF Next
<1> QED
  BY ThreadInit, ServerInit, <1>1, PTL DEF Spec

\* kill_child can reach every server of this process, at once or after the
\* store that its watchdog is about to do (inference.rs, the watchdog's loop).
THEOREM NoServerOrphaned == Spec => []NoOrphan
<1>1. ServerInv => NoOrphan
  BY DEF ServerInv, NoOrphan
<1> QED
  BY ServersKept, <1>1, PTL

\* Whenever the process dies, the pid file names the server that is left, but
\* for the moment in which a kill_child is made up for (spawn_server, kill_child).
THEOREM ServerOnRecord == Spec => []RecordedServer
<1>1. ServerInv => RecordedServer
  BY DEF ServerInv, RecordedServer
<1> QED
  BY ServersKept, <1>1, PTL

\* Once shutdown has returned and the last watchdog has looked at its flag, no
\* server runs (inference.rs, shutdown).
THEOREM NothingSurvives == Spec => []TeardownReaps
<1>1. ThreadInv /\ ServerInv => TeardownReaps
  <2> SUFFICES ASSUME ThreadInv, ServerInv, ~overlapped, teardown = "done", shuttingDown,
                      \A c \in Callers : call[c] # "rKill",
                      \A w \in Watchdogs : wd[w].pc \notin {"store", "check"}
               PROVE  \A s \in Running : ~Own(s)
    BY DEF TeardownReaps
  <2>1. TypeOK /\ Flags /\ Reaped /\ NoOrphan
    BY DEF ThreadInv, ServerInv
  <2>2. ChildExited
    BY <2>1 DEF Reaped, Caught
  <2> QED
    BY <2>1, <2>2, NoneRuns DEF Running
<1> QED
  BY ServersKept, <1>1, PTL

-----------------------------------------------------------------------------
(* EngineLifecycle implements EngineSlot.                                  *)

\* Until an overlap at most one server of this process runs: the one whose handle
\* is kept, or that of the one watchdog, whose handle is then of none.
LEMMA OneRuns ==
  ASSUME ThreadInv, ServerInv, ~overlapped,
         NEW s \in Servers, NEW t \in Servers,
         server[s] # "none", server[t] # "none", Own(s), Own(t)
  PROVE  s = t
<1>1. TypeOK /\ Flags /\ Stopped /\ NoOrphan /\ OneWatchdog
  BY DEF ThreadInv, ServerInv
<1>2. \A v \in Servers : server[v] # "none" /\ Own(v) =>
        v = child \/ \E w \in Watchdogs : wd[w].spawned = v /\ wd[w].pc = "store"
  BY <1>1, EngineConstants DEF NoOrphan, Running, Flags
<1>3. \A w \in Watchdogs : wd[w].pc = "store" => ChildExited /\ Live(w)
  BY <1>1 DEF Stopped, Live
<1>4. \A v, w \in Watchdogs : wd[v].pc = "store" /\ wd[w].pc = "store" => v = w
  BY <1>1, <1>3 DEF OneWatchdog
<1>5. CASE s = child
  BY <1>2, <1>3, <1>5, EngineConstants DEF ChildExited
<1>6. CASE t = child
  BY <1>2, <1>3, <1>6, EngineConstants DEF ChildExited
<1> QED BY <1>2, <1>4, <1>5, <1>6

\* What leaves every server as it was stutters.
LEMMA SlotRests ==
  ASSUME UNCHANGED <<server, loaded, tier, overlapped>>
  PROVE  [Slot!Next]_Slot!vars
BY DEF Slot!vars, Serving, Running, Own

\* What only ends servers ends the one in the slot, or stutters.
LEMMA SlotEnds ==
  ASSUME ThreadInv, ServerInv, ~overlapped, UNCHANGED <<tier, overlapped>>,
         \A t \in Servers : server'[t] # "none" => server[t] # "none" /\ loaded'[t] = loaded[t]
  PROVE  [Slot!Next]_Slot!vars
<1>1. Serving' \subseteq Serving
  BY DEF Serving, Running, Own
<1>2. \A x, y \in Serving : x = y
  <2>1. SUFFICES ASSUME NEW x \in Serving, NEW y \in Serving PROVE x = y
    OBVIOUS
  <2>2. PICK s \in Servers, t \in Servers :
          /\ x = <<s, loaded[s]>> /\ server[s] # "none" /\ Own(s)
          /\ y = <<t, loaded[t]>> /\ server[t] # "none" /\ Own(t)
    BY <2>1 DEF Serving, Running
  <2>3. s = t
    BY <2>2, OneRuns
  <2> QED BY <2>2, <2>3
<1>3. CASE Serving' = Serving
  BY <1>3 DEF Slot!vars
<1>4. CASE Serving' # Serving
  <2>1. Serving # {} /\ Serving' = {}
    BY <1>1, <1>2, <1>4
  <2> QED BY <2>1 DEF Slot!Next, Slot!End
<1> QED BY <1>3, <1>4

\* From the first overlap on the slot is empty.
LEMMA SlotGivenUp ==
  ASSUME TypeOK', overlapped' /\ (overlapped \/ tier' = tier)
  PROVE  [Slot!Next]_Slot!vars
<1>1. Serving' = {}
  BY DEF Serving
<1>2. CASE overlapped
  <2>1. Serving = {} /\ tier' \in Tiers
    BY <1>2 DEF Serving, TypeOK
  <2>2. Slot!Select(tier')
    BY <1>1, <2>1 DEF Slot!Select
  <2> QED BY <2>1, <2>2 DEF Slot!Next
<1>3. CASE ~overlapped
  <2>1. CASE Serving = {}
    BY <1>1, <1>3, <2>1 DEF Slot!vars
  <2>2. CASE Serving # {}
    BY <1>1, <1>3, <2>2 DEF Slot!Next, Slot!End
  <2> QED BY <2>1, <2>2
<1> QED BY <1>2, <1>3

LEMMA SlotWatch ==
  ASSUME ThreadInv, ServerInv, ~overlapped, NEW w \in Watchdogs, Watch(w)
  PROVE  [Slot!Next]_Slot!vars
<1>0. TypeOK /\ TypeOK' /\ UNCHANGED overlapped /\ Live(w)
  BY TypeWatch, WatchFrame DEF ThreadInv
<1>1. CASE \/ WdTop(w) \/ WdVerified(w) \/ WdRejected(w) \/ WdSpawnError(w) \/ WdStore(w)
           \/ WdHealth(w) \/ WdDeadline(w) \/ WdPoll(w) \/ WdWatch(w) \/ WdProbe(w)
           \/ WdExit(w) \/ (WdCheck(w) /\ ~shuttingDown)
  <2>1. UNCHANGED <<server, loaded, tier, overlapped>>
    BY <1>1 DEF WdTop, WdVerified, WdRejected, WdSpawnError, WdStore, WdCheck, WdHealth,
       WdDeadline, WdPoll, WdWatch, WdProbe, WdExit, osVars
  <2> QED BY <2>1, SlotRests
<1>2. CASE WdKill(w) \/ (WdCheck(w) /\ shuttingDown)
  <2>1. KillChild /\ UNCHANGED <<tier, overlapped>>
    BY <1>2 DEF WdKill, WdCheck
  <2> QED BY <1>0, <2>1, KillFrame, SlotEnds
<1>3. CASE WdBegin(w)
  <2>1. Ended(pidFile) /\ pidFile \in Servers \cup {NoServer} /\ UNCHANGED <<tier, overlapped>>
    BY <1>0, <1>3 DEF WdBegin, TypeOK
  <2> QED BY <1>0, <2>1, EndedFrame, SlotEnds
\* A server is launched where none of this process runs.
<1>4. CASE WdSpawn(w)
  <2>1. PICK s \in Servers :
          /\ wd[w].pc = "spawn" /\ server[s] = "none"
          /\ server' = [server EXCEPT ![s] = "loading"]
          /\ loaded' = [loaded EXCEPT ![s] = tier]
          /\ tier' = tier
    BY <1>4 DEF WdSpawn
  <2>2. \A t \in Servers : server[t] # "none" => ~Own(t)
    <3>1. Flags /\ Stopped /\ NoOrphan
      BY DEF ServerInv
    <3>2. ChildExited
      BY <2>1, <3>1 DEF Stopped
    <3>3. \A v \in Watchdogs : wd[v].pc # "store"
      BY <1>0, <2>1, Alone
    <3> QED BY <1>0, <3>1, <3>2, <3>3, NoneRuns
  <2>3. Serving = {}
    BY <2>2 DEF Serving, Running
  <2>4. /\ server'[s] = "loading" /\ loaded'[s] = tier /\ tier # NoTier
        /\ \A t \in Servers : t # s => server'[t] = server[t] /\ loaded'[t] = loaded[t]
    BY <1>0, <2>1, EngineConstants DEF TypeOK
  <2>5. \A t \in Servers : server'[t] # "none" /\ loaded'[t] # NoTier <=> t = s
    BY <2>2, <2>4 DEF Own
  <2>6. Serving' = {<<s, tier>>}
    BY <1>0, <2>4, <2>5 DEF Serving, Running, Own
  <2>7. Slot!Launch(s)
    BY <2>1, <2>3, <2>6 DEF Slot!Launch
  <2> QED BY <2>7 DEF Slot!Next
<1> QED
  BY <1>1, <1>2, <1>3, <1>4 DEF Watch

LEMMA SlotCall ==
  ASSUME ThreadInv, ServerInv, ~overlapped, NEW c \in Callers, Command(c) \/ Called(c)
  PROVE  [Slot!Next]_Slot!vars
<1>0. TypeOK /\ TypeOK'
  BY TypeCall DEF ThreadInv
<1>1. CASE RestartKill(c)
  <2>1. KillChild /\ UNCHANGED <<tier, overlapped>>
    BY <1>1 DEF RestartKill
  <2> QED BY <1>0, <2>1, KillFrame, SlotEnds
<1>2. CASE SwitchTier(c)
  <2>1. UNCHANGED <<server, loaded, overlapped>> /\ tier' \in Tiers
    BY <1>2 DEF SwitchTier
  <2>2. Slot!Select(tier')
    BY <2>1 DEF Slot!Select, Serving, Running, Own
  <2> QED BY <2>1, <2>2 DEF Slot!Next
<1>3. CASE TryBeginStart(c) \/ RestartBegin(c)
  <2>1. UNCHANGED <<server, loaded, tier>> /\ overlapped' \in BOOLEAN
    BY <1>0, <1>3 DEF TryBeginStart, RestartBegin, osVars, TypeOK
  <2>2. CASE overlapped'
    BY <1>0, <2>1, <2>2, SlotGivenUp
  <2>3. CASE ~overlapped'
    <3>1. UNCHANGED overlapped
      BY <1>0, <2>1, <2>3 DEF TypeOK
    <3> QED BY <2>1, <3>1, SlotRests
  <2> QED BY <2>2, <2>3
<1>4. CASE \/ LoadModel(c) \/ DownloadDone(c) \/ StartIfNoModel(c) \/ RestartJoin(c)
           \/ RestartReset(c) \/ RestartLaunch(c)
  <2>1. UNCHANGED <<server, loaded, tier, overlapped>>
    BY <1>4 DEF LoadModel, DownloadDone, StartIfNoModel, RestartJoin, RestartReset,
       RestartLaunch, osVars
  <2> QED BY <2>1, SlotRests
<1> QED
  BY <1>1, <1>2, <1>3, <1>4 DEF Command, Called, Restart

LEMMA SlotEnvironment ==
  ASSUME ThreadInv, ServerInv, ~overlapped,
         \/ Shutdown
         \/ \E s \in Servers : ServerUp(s) \/ ServerExit(s)
         \/ FilesChange
         \/ UNCHANGED vars
  PROVE  [Slot!Next]_Slot!vars
<1>0. TypeOK
  BY DEF ThreadInv
<1>1. CASE ShutdownKill
  <2>1. KillChild /\ UNCHANGED <<tier, overlapped>>
    BY <1>1 DEF ShutdownKill
  <2> QED BY <1>0, <2>1, KillFrame, SlotEnds
<1>2. CASE ShutdownClosing \/ ShutdownFlag \/ FilesChange \/ UNCHANGED vars
  <2>1. UNCHANGED <<server, loaded, tier, overlapped>>
    BY <1>2 DEF ShutdownClosing, ShutdownFlag, FilesChange, vars, osVars
  <2> QED BY <2>1, SlotRests
<1>3. ASSUME NEW s \in Servers, ServerUp(s) \/ ServerExit(s) PROVE [Slot!Next]_Slot!vars
  <2>1. /\ UNCHANGED <<tier, overlapped>>
        /\ \A t \in Servers : server'[t] # "none" =>
              server[t] # "none" /\ loaded'[t] = loaded[t]
    BY <1>0, <1>3, EndedFrame DEF TypeOK, ServerUp, ServerExit
  <2> QED BY <2>1, SlotEnds
<1> QED
  BY <1>1, <1>2, <1>3 DEF Shutdown

\* A watchdog never launches a second llama-server of this process beside one that
\* still runs, and launches it on the tier selected then (inference.rs, the
\* watchdog's loop, restart and shutdown), until an overlap.
THEOREM ImplementsSlot == Spec => OneAtATime
<1>1. Init => Slot!Init
  BY DEF Init, Slot!Init, Serving, Running, Own
<1>2. ThreadInv /\ ServerInv /\ [Next]_vars => [Slot!Next]_Slot!vars
  <2> SUFFICES ASSUME ThreadInv, ServerInv, [Next]_vars PROVE [Slot!Next]_Slot!vars
    OBVIOUS
  <2>1. CASE ~overlapped
    BY <2>1, SlotWatch, SlotCall, SlotEnvironment DEF Next
  <2>2. CASE overlapped
    <3>1. TypeOK' /\ overlapped'
      <4>1. TypeOK'
        BY TypeNext DEF ThreadInv
      <4>2. overlapped'
        <5>1. ASSUME NEW w \in Watchdogs, Watch(w) PROVE overlapped'
          BY <2>2, <5>1, WatchFrame DEF ThreadInv
        <5>2. ASSUME NEW c \in Callers, Command(c) \/ Called(c) PROVE overlapped'
          BY <2>2, <5>2 DEF Command, LoadModel, DownloadDone, SwitchTier, Called, Restart,
             TryBeginStart, StartIfNoModel, RestartBegin, RestartKill, RestartJoin,
             RestartReset, RestartLaunch
        <5>3. CASE \/ Shutdown
                   \/ \E s \in Servers : ServerUp(s) \/ ServerExit(s)
                   \/ FilesChange
                   \/ UNCHANGED vars
          BY <2>2, <5>3 DEF Shutdown, ShutdownClosing, ShutdownFlag, ShutdownKill, ServerUp,
             ServerExit, FilesChange, vars
        <5> QED BY <5>1, <5>2, <5>3 DEF Next
      <4> QED BY <4>1, <4>2
    <3> QED BY <2>2, <3>1, SlotGivenUp
  <2> QED BY <2>1, <2>2
<1> QED
  BY <1>1, <1>2, ServersKept, PTL DEF Spec, OneAtATime, Slot!Spec
-----------------------------------------------------------------------------
(* restart's unbounded join has something to wait for, and what it waits
   for comes to an end (inference.rs, restart).  Overlaps included. *)

\* A caller between restart's first step and its reset keeps shutting_down
\* raised, and thread_alive never outlives the last watchdog.
JoinServed ==
  /\ \A c \in Callers : call[c] \in {"rKill", "rJoin", "rReset"} => shuttingDown
  /\ threadAlive => \E w \in Watchdogs : Live(w)

\* The most steps a watchdog has ahead of it once shutting_down is raised.
StepsLeft == [off |-> 0, exit |-> 1, top |-> 2, check |-> 2, watch |-> 2,
              begin |-> 3, kill |-> 3, store |-> 3, probe |-> 3,
              spawn |-> 4, health |-> 4, verify |-> 5, poll |-> 5]
Ahead(w) == StepsLeft[wd[w].pc]

\* While shutting_down is raised, a step that moves a live watchdog brings it
\* nearer its end.
WindsDown == \A w \in Watchdogs :
  shuttingDown /\ Live(w) /\ wd'[w] # wd[w] => Ahead(w)' < Ahead(w)

JoinInv == TypeOK /\ LockHeld /\ JoinServed

\* Where a thread that moves stands afterwards.
LEMMA Lands ==
  ASSUME TypeOK, NEW w \in Watchdogs
  PROVE  /\ \A t : Becomes(w, t) => wd'[w] = t
         /\ \A pc : Goto(w, pc) => wd'[w].pc = pc
<1>1. \A t : Becomes(w, t) => wd'[w] = t
  BY DEF TypeOK, Becomes
<1>2. wd[w] \in Watchdog
  BY DEF TypeOK
<1>3. \A pc : [wd[w] EXCEPT !.pc = pc].pc = pc
  BY <1>2 DEF Watchdog
<1> QED
  BY <1>1, <1>3 DEF Goto

\* Where a watchdog's step may take it, and which of these a raised
\* shutting_down leaves.
After == [begin |-> {"top"}, top |-> {"exit", "verify", "spawn"}, verify |-> {"spawn", "exit"},
          spawn |-> {"store", "exit"}, store |-> {"check"}, check |-> {"exit", "health"},
          health |-> {"exit", "poll", "kill"}, poll |-> {"kill", "watch", "health"},
          kill |-> {"top", "exit"}, watch |-> {"exit", "probe"},
          probe |-> {"watch", "exit", "top"}, exit |-> {"off"}, off |-> {}]
Follows(w) ==
  /\ wd'[w].pc \in After[wd[w].pc]
  /\ shuttingDown => /\ wd[w].pc \in {"top", "check", "watch"} => wd'[w].pc = "exit"
                     /\ wd[w].pc = "health" => wd'[w].pc \in {"exit", "kill"}

LEMMA StepFollows ==
  ASSUME TypeOK, NEW w \in Watchdogs, Watch(w)
  PROVE  Follows(w)
<1>0. wd[w] \in Watchdog
  BY DEF TypeOK
<1>1. /\ \A t : Becomes(w, t) => wd'[w] = t
      /\ \A pc : Goto(w, pc) => wd'[w].pc = pc
  BY Lands
<1>2. CASE WdBegin(w)
  BY <1>1, <1>2 DEF WdBegin, Follows, After
<1>3. CASE WdTop(w)
  <2>1. [wd[w] EXCEPT !.pc = "verify", !.path = tier].pc = "verify"
    BY <1>0 DEF Watchdog
  <2>2. /\ wd[w].pc = "top" /\ wd'[w].pc \in {"exit", "verify", "spawn"}
        /\ shuttingDown => wd'[w].pc = "exit"
    BY <1>1, <1>3, <2>1 DEF WdTop
  <2> QED BY <2>2 DEF Follows, After
<1>4. CASE WdVerified(w) \/ WdRejected(w)
  <2>1. /\ [wd[w] EXCEPT !.pc = "spawn", !.path = NoTier].pc = "spawn"
        /\ [wd[w] EXCEPT !.pc = "exit", !.path = NoTier].pc = "exit"
    BY <1>0 DEF Watchdog
  <2>2. wd[w].pc = "verify" /\ wd'[w].pc \in {"spawn", "exit"}
    BY <1>1, <1>4, <2>1 DEF WdVerified, WdRejected
  <2> QED BY <2>2 DEF Follows, After
<1>5. CASE WdSpawn(w)
  <2>1. \A s : [wd[w] EXCEPT !.pc = "store", !.spawned = s].pc = "store"
    BY <1>0 DEF Watchdog
  <2>2. wd[w].pc = "spawn" /\ wd'[w].pc = "store"
    BY <1>1, <1>5, <2>1 DEF WdSpawn
  <2> QED BY <2>2 DEF Follows, After
<1>6. CASE WdSpawnError(w)
  BY <1>1, <1>6 DEF WdSpawnError, Follows, After
<1>7. CASE WdStore(w)
  <2>1. [wd[w] EXCEPT !.pc = "check", !.spawned = NoServer].pc = "check"
    BY <1>0 DEF Watchdog
  <2>2. wd[w].pc = "store" /\ wd'[w].pc = "check"
    BY <1>1, <1>7, <2>1 DEF WdStore
  <2> QED BY <2>2 DEF Follows, After
<1>8. CASE WdCheck(w)
  BY <1>1, <1>8 DEF WdCheck, Follows, After
<1>9. CASE WdHealth(w) \/ WdDeadline(w) \/ WdWatch(w)
  BY <1>1, <1>9 DEF WdHealth, WdDeadline, WdWatch, Follows, After
<1>10. CASE WdPoll(w)
  <2>1. wd[w].pc = "poll" /\ \E pc \in {"kill", "watch", "health"} : Goto(w, pc)
    BY <1>10 DEF WdPoll
  <2> QED BY <1>1, <2>1 DEF Follows, After
<1>11. CASE WdKill(w)
  <2>1. [wd[w] EXCEPT !.pc = "top", !.gpu = FALSE].pc = "top"
    BY <1>0 DEF Watchdog
  <2>2. /\ wd[w].pc = "kill"
        /\ Goto(w, "exit") \/ Becomes(w, [wd[w] EXCEPT !.pc = "top", !.gpu = FALSE])
    BY <1>11 DEF WdKill
  <2>3. wd'[w].pc \in {"top", "exit"}
    BY <1>1, <2>1, <2>2
  <2> QED BY <2>2, <2>3 DEF Follows, After
<1>12. CASE WdProbe(w)
  <2> DEFINE t(pc) == [wd[w] EXCEPT !.pc = pc, !.gpu = FALSE, !.crashes = wd[w].crashes + 1]
  <2>1. t("exit").pc = "exit" /\ t("top").pc = "top"
    BY <1>0 DEF Watchdog
  <2>2. /\ wd[w].pc = "probe"
        /\ Goto(w, "watch") \/ Becomes(w, t("exit")) \/ Becomes(w, t("top"))
    BY <1>12 DEF WdProbe
  <2> HIDE DEF t
  <2>3. wd'[w].pc \in {"watch", "top", "exit"}
    BY <1>1, <2>1, <2>2
  <2> QED BY <2>2, <2>3 DEF Follows, After
<1>13. CASE WdExit(w)
  <2>1. wd[w].pc = "exit" /\ wd'[w].pc = "off"
    BY <1>1, <1>13 DEF WdExit, Idle
  <2> QED BY <2>1 DEF Follows, After
<1> QED
  BY <1>2, <1>3, <1>4, <1>5, <1>6, <1>7, <1>8, <1>9, <1>10, <1>11, <1>12, <1>13 DEF Watch

\* A watchdog's own step takes it along.
LEMMA StepAhead ==
  ASSUME TypeOK, NEW w \in Watchdogs, Watch(w), shuttingDown
  PROVE  Ahead(w)' < Ahead(w)
<1>1. wd[w].pc \in WatchdogPC
  BY DEF TypeOK, Watchdog
<1>2. Follows(w)
  BY StepFollows
<1> QED
  BY <1>1, <1>2 DEF Follows, After, Ahead, StepsLeft, WatchdogPC

\* It moves no other, and a thread that is started was not live before.
LEMMA StepOfOne ==
  ASSUME TypeOK, [Next]_vars, NEW w \in Watchdogs, Live(w), wd'[w] # wd[w]
  PROVE  Watch(w)
<1>1. ASSUME NEW v \in Watchdogs, Watch(v) PROVE v = w
  BY <1>1 DEF TypeOK, Watch, WdBegin, WdTop, WdVerified, WdRejected, WdSpawn, WdSpawnError,
     WdStore, WdCheck, WdHealth, WdDeadline, WdPoll, WdKill, WdWatch, WdProbe, WdExit,
     Goto, Becomes
<1>2. ASSUME NEW c \in Callers, StartIfNoModel(c) \/ RestartLaunch(c) PROVE FALSE
  BY <1>2 DEF TypeOK, StartIfNoModel, RestartLaunch, StartThread, Becomes, Live
<1>3. ASSUME NEW c \in Callers, Command(c) \/ Called(c),
             ~StartIfNoModel(c), ~RestartLaunch(c) PROVE FALSE
  BY <1>3 DEF Command, LoadModel, DownloadDone, SwitchTier, Called, Restart, TryBeginStart,
     RestartBegin, RestartKill, RestartJoin, RestartReset, engineVars
<1>4. CASE \/ Shutdown
           \/ \E s \in Servers : ServerUp(s) \/ ServerExit(s)
           \/ FilesChange
           \/ UNCHANGED vars
  BY <1>4 DEF Shutdown, ShutdownClosing, ShutdownFlag, ShutdownKill, ServerUp, ServerExit,
     FilesChange, vars, engineVars, osVars
<1> QED
  BY <1>1, <1>2, <1>3, <1>4 DEF Next

\* StartThread's new thread is live.
LEMMA StartLive == ASSUME TypeOK, StartThread PROVE \E w \in Watchdogs : Live(w)'
BY DEF TypeOK, StartThread, Becomes, Fresh, Idle, Live

\* shutting_down is cleared by the one caller that holds the lock, after its
\* join; thread_alive is set with a new thread and cleared with any that ends.
LEMMA JoinNext == JoinInv /\ ThreadInv /\ [Next]_vars => JoinInv'
<1> SUFFICES ASSUME JoinInv, ThreadInv, [Next]_vars PROVE JoinInv'
  OBVIOUS
<1>0. TypeOK /\ TypeOK' /\ LockHeld /\ LockHeld'
  BY TypeNext, ThreadNext DEF ThreadInv
<1>1. \A c \in Callers : call'[c] \in {"rKill", "rJoin", "rReset"} => shuttingDown'
  <2>1. ASSUME NEW w \in Watchdogs, Watch(w) PROVE UNCHANGED <<call, shuttingDown>>
    BY <2>1 DEF Watch, WdBegin, WdTop, WdVerified, WdRejected, WdSpawn, WdSpawnError, WdStore,
         WdCheck, WdHealth, WdDeadline, WdPoll, WdKill, WdWatch, WdProbe, WdExit, engineVars
  <2>2. ASSUME NEW c \in Callers, RestartReset(c)
        PROVE  \A d \in Callers : call'[d] \notin {"rKill", "rJoin", "rReset"}
    BY <1>0, <2>2 DEF TypeOK, LockHeld, RestartReset
  <2>3. ASSUME NEW c \in Callers, Command(c) \/ Called(c), ~RestartReset(c)
        PROVE  \A d \in Callers : call'[d] \in {"rKill", "rJoin", "rReset"} => shuttingDown'
    BY <1>0, <2>3 DEF JoinInv, JoinServed, TypeOK, Command, LoadModel, DownloadDone, SwitchTier,
       Called, Restart, TryBeginStart, StartIfNoModel, RestartBegin, RestartKill, RestartJoin,
       RestartLaunch, engineVars
  <2>4. CASE \/ Shutdown
             \/ \E s \in Servers : ServerUp(s) \/ ServerExit(s)
             \/ FilesChange
             \/ UNCHANGED vars
    BY <2>4 DEF JoinInv, JoinServed, Shutdown, ShutdownClosing, ShutdownFlag, ShutdownKill,
       ServerUp, ServerExit, FilesChange, vars, engineVars, osVars
  <2> QED
    BY <2>1, <2>2, <2>3, <2>4 DEF Next, JoinInv, JoinServed
<1>2. threadAlive' => \E w \in Watchdogs : Live(w)'
  <2>1. ASSUME NEW w \in Watchdogs, Watch(w) PROVE threadAlive' => \E v \in Watchdogs : Live(v)'
    <3>1. CASE wd'[w].pc # "off"
      BY <3>1 DEF Live
    <3>2. CASE wd'[w].pc = "off"
      <4>1. wd[w].pc \in WatchdogPC
        BY <1>0 DEF TypeOK, Watchdog
      <4>2. wd[w].pc = "exit"
        BY <1>0, <2>1, <3>2, <4>1, StepFollows DEF Follows, After, WatchdogPC
      <4>3. WdExit(w)
        BY <2>1, <4>2 DEF Watch, WdBegin, WdTop, WdVerified, WdRejected, WdSpawn, WdSpawnError,
           WdStore, WdCheck, WdHealth, WdDeadline, WdPoll, WdKill, WdWatch, WdProbe
      <4> QED BY <4>3 DEF WdExit
    <3> QED BY <3>1, <3>2
  <2>2. ASSUME StartThread PROVE \E v \in Watchdogs : Live(v)'
    BY <1>0, <2>2, StartLive
  <2>3. ASSUME NEW c \in Callers, Command(c) \/ Called(c), ~StartThread
        PROVE  UNCHANGED <<wd, threadAlive>>
    BY <2>3 DEF Command, LoadModel, DownloadDone, SwitchTier, Called, Restart, TryBeginStart,
       StartIfNoModel, RestartBegin, RestartKill, RestartJoin, RestartReset, RestartLaunch,
       engineVars
  <2>4. CASE \/ Shutdown
             \/ \E s \in Servers : ServerUp(s) \/ ServerExit(s)
             \/ FilesChange
             \/ UNCHANGED vars
    <3>1. UNCHANGED <<wd, threadAlive>>
      BY <2>4 DEF Shutdown, ShutdownClosing, ShutdownFlag, ShutdownKill, ServerUp, ServerExit,
         FilesChange, vars, engineVars, osVars
    <3> QED BY <3>1 DEF JoinInv, JoinServed, Live
  <2> QED
    BY <2>1, <2>2, <2>3, <2>4 DEF Next, JoinInv, JoinServed, Live
<1> QED
  BY <1>0, <1>1, <1>2 DEF JoinInv, JoinServed

\* A caller stuck in restart's join always waits for a live watchdog that has
\* been told to stop ...
THEOREM JoinIsServed == Spec => []JoinServed
<1>1. Init => JoinInv
  <2> SUFFICES ASSUME Init PROVE JoinInv
    OBVIOUS
  <2>1. TypeOK /\ LockHeld
    BY ThreadInit DEF ThreadInv
  <2>2. JoinServed
    BY DEF Init, JoinServed, Live, Fresh, Idle
  <2> QED BY <2>1, <2>2 DEF JoinInv
<1>2. JoinInv => JoinServed
  BY DEF JoinInv
<1> QED
  BY <1>1, <1>2, ThreadInit, ThreadNext, JoinNext, PTL DEF Spec

\* ... and each of that watchdog's steps, whatever its place in the launch, the
\* health loop or the watch loop, leaves it fewer to take: it ends within five.
THEOREM WatchdogsWindDown == Spec => [][WindsDown]_vars
<1>1. TypeOK /\ [Next]_vars => [WindsDown]_vars
  BY StepOfOne, StepAhead DEF WindsDown
<1> QED
  BY <1>1, Typing, PTL DEF Spec
=============================================================================
