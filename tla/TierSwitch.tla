------------------------------ MODULE TierSwitch ------------------------------
(***************************************************************************)
(* The hero's tier selection (src-tauri/src/tier_select.rs): which of the  *)
(* hero's tiers is launched, how often a committed user may change it, and *)
(* the sweep that leaves one tier's files on disk.                         *)
(*                                                                         *)
(* tier_selection.json is read, changed and written back by two commands   *)
(* without a lock: complete_tier_switch, at most one at a time behind the  *)
(* page's tierSwitching guard (src/app.js), and mark_tier_committed, sent  *)
(* by the first chat of a session.  Each writes a temporary file, the same *)
(* one, and renames it.  The engine is reduced to what its watchdog        *)
(* resolves (EngineLifecycle has the rest); a tier's base, adapter and     *)
(* contract adapter are one file, as nothing here tells them apart.        *)
(***************************************************************************)
EXTENDS Naturals

CONSTANTS
  Tiers,
  NoTier,    \* the empty active_tier, and an engine that serves nothing
  Perpetual, \* an entitlement without an expires_at
  Absent,    \* no entitlement
  Cooldown,  \* SWITCH_COOLDOWN_SECS
  MaxTime    \* bound on the clock; billing periods end by MaxTime + 1

ASSUME TierConstants ==
  /\ NoTier \notin Tiers
  /\ "auto" \notin Tiers
  /\ Perpetual # Absent
  /\ {Perpetual, Absent} \cap Nat = {}
  /\ Cooldown \in Nat
  /\ MaxTime \in Nat

VARIABLES
  now,        \* the clock
  expires,    \* the hero entitlement: its expires_at, Perpetual or Absent
  detected,   \* hardware::detect().tier
  onDisk,     \* the tiers whose files are all under models/
  sel,        \* tier_selection.json
  tmp,        \* tier_selection.json.tmp
  switch,     \* selectTier and the two commands it calls
  mark,       \* mark_tier_committed
  latched,    \* the page's tierCommitted
  running,    \* the tier the engine serves
  launching,  \* the engine's watchdog is about to resolve its launch
  spent,      \* history: the last limited change, by period and by time
  overdrawn,  \* history: a change was made that the limit should have refused
  missed,     \* history: a limited change was made without an entitlement
  raced,      \* history: a write was based on a selection no longer current
  drifted     \* history: the detected tier has changed

files == <<sel, tmp, onDisk>>
engine == <<running, launching>>
history == <<spent, overdrawn, missed, raced, drifted>>
vars == <<now, expires, detected, files, switch, mark, latched, engine, history>>

Modes == Tiers \cup {"auto"}
Time == 0 .. MaxTime
Periods == 1 .. MaxTime + 1
Never == MaxTime + 2   \* None, of switched_at and period_key

Selection == [mode : Modes, active : Tiers \cup {NoTier}, committed : BOOLEAN,
              period : Periods \cup {Never}, at : Time \cup {Never}]
DefaultSelection == [mode |-> "auto", active |-> NoTier, committed |-> FALSE,
                     period |-> Never, at |-> Never]
NoFile == [DefaultSelection EXCEPT !.mode = "none"]

Entitlements == Periods \cup {Perpetual, Absent}

-----------------------------------------------------------------------------
(* The pure core. *)

\* effective_tier_from, and mode_effective_tier of a candidate mode
ModeTier(mode) == IF mode \in Tiers THEN mode ELSE detected
EffectiveTier == ModeTier(sel.mode)

\* current_active_tier
ActiveTier(s) == IF s.active = NoTier THEN ModeTier(s.mode) ELSE s.active

\* resolve_hero_entitlement, for the one hero row an account has
Resolved == IF expires \in Periods /\ expires <= now THEN Absent ELSE expires

\* Mutant: the recorded period is not compared.
SwitchAllowed_NoPeriod(s, ent) ==
  \/ ~s.committed
  \/ ent \in Periods
  \/ ent = Perpetual /\ (s.at = Never \/ now >= s.at + Cooldown)
  \/ ent = Absent

\* switch_allowed
SwitchAllowed(s, ent) ==
  \/ ~s.committed
  \/ ent \in Periods /\ s.period # ent
  \/ ent = Perpetual /\ (s.at = Never \/ now >= s.at + Cooldown)
  \/ ent = Absent

-----------------------------------------------------------------------------
Idle == [pc |-> "idle"]

Init ==
  /\ now = 0
  /\ expires \in Entitlements
  /\ detected \in Tiers
  /\ \E present \in {{}, {detected}} : onDisk = present
  /\ sel = DefaultSelection
  /\ tmp = NoFile
  /\ switch = Idle
  /\ mark = Idle
  /\ latched = FALSE
  /\ running = NoTier
  /\ launching = (detected \in onDisk)
  /\ spent = [period |-> Never, at |-> Never]
  /\ overdrawn = FALSE
  /\ missed = FALSE
  /\ raced = FALSE
  /\ drifted = FALSE

-----------------------------------------------------------------------------
(* selectTier: begin_tier_switch, the download, complete_tier_switch.      *)

\* An entitlement lookup that finds neither server nor cache sees none.
Lookups == {Resolved, Absent}

\* begin_tier_switch: refused (nothing changes), or go and download, or go on.
BeginSwitch(mode) ==
  /\ switch.pc = "idle"
  /\ LET changed == ModeTier(mode) # ActiveTier(sel) IN
     /\ changed => \E ent \in Lookups : SwitchAllowed(sel, ent)
     /\ switch' = [mode |-> mode,
                   pc |-> IF changed /\ ModeTier(mode) \notin onDisk THEN "download"
                                                                     ELSE "complete"]
  /\ UNCHANGED <<now, expires, detected, files, mark, latched, engine, history>>

\* downloadHeroPair lands every file of the target, or the flow ends.
Download ==
  /\ switch.pc = "download"
  /\ \/ /\ onDisk' = onDisk \cup {ModeTier(switch.mode)}
        /\ switch' = [switch EXCEPT !.pc = "complete"]
     \/ /\ switch' = Idle
        /\ UNCHANGED onDisk
  /\ UNCHANGED <<now, expires, detected, sel, tmp, mark, latched, engine, history>>

\* complete_tier_switch reads the selection, then looks the entitlement up,
\* online if it can.
CompleteRead ==
  /\ switch.pc = "complete"
  /\ switch' = [pc |-> "decide", mode |-> switch.mode, read |-> sel]
  /\ UNCHANGED <<now, expires, detected, files, mark, latched, engine, history>>

\* new_sel: a limited change records its period, if it has one, and its time.
NewSelection(s, mode, consumed, ent) ==
  [mode |-> mode, active |-> ModeTier(mode), committed |-> s.committed,
   period |-> IF ~consumed THEN s.period ELSE IF ent \in Periods THEN ent ELSE Never,
   at |-> IF consumed THEN now ELSE s.at]

\* Refused by the limit or for want of the files; else the selection is put
\* in the temporary file.
CompleteDecide ==
  /\ switch.pc = "decide"
  /\ \E ent \in Lookups :
       LET s == switch.read
           target == ModeTier(switch.mode)
           changed == target # ActiveTier(s)
           consumed == changed /\ s.committed
       IN
       \/ /\ (consumed /\ ~SwitchAllowed(s, ent)) \/ (changed /\ target \notin onDisk)
          /\ switch' = Idle
          /\ UNCHANGED <<tmp, raced>>
       \/ /\ consumed => SwitchAllowed(s, ent)
          /\ changed => target \in onDisk
          /\ tmp' = NewSelection(s, switch.mode, consumed, ent)
          /\ raced' = (raced \/ s # sel \/ mark.pc = "rename")
          /\ switch' = [pc |-> "rename", target |-> target, changed |-> changed,
                        consumed |-> consumed, ent |-> ent, at |-> now, read |-> sel]
  /\ UNCHANGED <<now, expires, detected, sel, onDisk, mark, latched, engine,
                 spent, overdrawn, missed, drifted>>

\* What a limit that forgets nothing would refuse.
Refusable(ent, at) ==
  \/ ent \in Periods /\ spent.period = ent
  \/ ent = Perpetual /\ spent.at # Never /\ at < spent.at + Cooldown

\* History: a change takes effect.
Charge(c) ==
  IF c.consumed
    THEN /\ spent' = [at |-> c.at, period |-> IF c.ent \in Periods THEN c.ent ELSE spent.period]
         /\ overdrawn' = (overdrawn \/ Refusable(c.ent, c.at))
         /\ missed' = (missed \/ c.ent = Absent)
    ELSE UNCHANGED <<spent, overdrawn, missed>>

\* The rename; it fails when the other command has taken the file away.
CompleteRename ==
  /\ switch.pc = "rename"
  /\ IF tmp = NoFile
       THEN /\ switch' = Idle
            /\ UNCHANGED <<sel, tmp, spent, overdrawn, missed>>
       ELSE /\ sel' = tmp
            /\ tmp' = NoFile
            /\ Charge(switch)
            /\ switch' = IF switch.changed THEN [pc |-> "restart", target |-> switch.target]
                                           ELSE Idle
  /\ raced' = (raced \/ sel # switch.read)
  /\ UNCHANGED <<now, expires, detected, onDisk, mark, latched, engine, drifted>>

\* Mutant: the selection is changed under a running engine.
CompleteRestart_Skip ==
  /\ switch.pc = "restart"
  /\ switch' = [switch EXCEPT !.pc = "sweep"]
  /\ UNCHANGED <<now, expires, detected, files, mark, latched, engine, history>>

\* inference::restart: the old server is gone, the new watchdog not yet there.
CompleteRestart ==
  /\ switch.pc = "restart"
  /\ running' = NoTier
  /\ launching' = TRUE
  /\ switch' = [switch EXCEPT !.pc = "sweep"]
  /\ UNCHANGED <<now, expires, detected, files, mark, latched, history>>

\* Mutant: the files of the tier that was selected before are kept.
Swept_Others(target) == onDisk \ {target}

\* sweep_models with the target's files to keep
Swept(target) == onDisk \cap {target}

\* The sweep is skipped when the effective tier would not resolve.
CompleteSweep ==
  /\ switch.pc = "sweep"
  /\ onDisk' = IF EffectiveTier \in onDisk THEN Swept(switch.target) ELSE onDisk
  /\ switch' = Idle
  /\ UNCHANGED <<now, expires, detected, sel, tmp, mark, latched, engine, history>>

SwitchStep ==
  \/ Download \/ CompleteRead \/ CompleteDecide \/ CompleteRename
  \/ CompleteRestart \/ CompleteSweep

-----------------------------------------------------------------------------
(* mark_tier_committed *)

Committed(s) == [s EXCEPT !.committed = TRUE, !.active = ActiveTier(s)]

\* The session's first message; nothing is written when nothing changes.
MarkRead ==
  /\ mark.pc = "idle"
  /\ ~latched
  /\ running # NoTier
  /\ latched' = TRUE
  /\ mark' = IF Committed(sel) = sel THEN Idle ELSE [pc |-> "write", read |-> sel]
  /\ UNCHANGED <<now, expires, detected, files, switch, engine, history>>

MarkWrite ==
  /\ mark.pc = "write"
  /\ tmp' = Committed(mark.read)
  /\ raced' = (raced \/ sel # mark.read \/ switch.pc = "rename")
  /\ mark' = [mark EXCEPT !.pc = "rename"]
  /\ UNCHANGED <<now, expires, detected, sel, onDisk, switch, latched, engine,
                 spent, overdrawn, missed, drifted>>

MarkRename ==
  /\ mark.pc = "rename"
  /\ mark' = Idle
  /\ raced' = (raced \/ sel # mark.read)
  /\ IF tmp = NoFile
       THEN latched' = FALSE /\ UNCHANGED <<sel, tmp>>
       ELSE sel' = tmp /\ tmp' = NoFile /\ UNCHANGED latched
  /\ UNCHANGED <<now, expires, detected, onDisk, switch, engine,
                 spent, overdrawn, missed, drifted>>

-----------------------------------------------------------------------------
(* The engine, the first download of the hero, and the world.              *)

\* The watchdog resolves its launch; the server may still not come up.
Launch ==
  /\ launching
  /\ launching' = FALSE
  /\ running' \in {NoTier} \cup ({EffectiveTier} \cap onDisk)
  /\ UNCHANGED <<now, expires, detected, files, switch, mark, latched, history>>

\* A crash; the watchdog launches again.
ServerCrash ==
  /\ running # NoTier
  /\ running' = NoTier
  /\ launching' = TRUE
  /\ UNCHANGED <<now, expires, detected, files, switch, mark, latched, history>>

\* load_model from NoModel or Failed
LoadModel ==
  /\ running = NoTier /\ ~launching
  /\ EffectiveTier \in onDisk
  /\ launching' = TRUE
  /\ UNCHANGED <<now, expires, detected, files, switch, mark, latched, running, history>>

\* The Get button downloads the effective tier.
GetHero ==
  /\ switch.pc = "idle"
  /\ EffectiveTier \notin onDisk
  /\ onDisk' = onDisk \cup {EffectiveTier}
  /\ UNCHANGED <<now, expires, detected, sel, tmp, switch, mark, latched, engine, history>>

\* The app is closed or dies at any point and is started again, perhaps on
\* changed hardware.
Reboot ==
  /\ switch' = Idle
  /\ mark' = Idle
  /\ latched' = FALSE
  /\ running' = NoTier
  /\ detected' \in Tiers
  /\ drifted' = (drifted \/ detected' # detected)
  /\ UNCHANGED <<now, expires, files, spent, overdrawn, missed, raced>>
  /\ launching' = (EffectiveTier' \in onDisk)

Tick ==
  /\ now < MaxTime
  /\ now' = now + 1
  /\ UNCHANGED <<expires, detected, files, switch, mark, latched, engine, history>>

\* A purchase or a renewal: a period is only ever extended (see Subscription),
\* a perpetual grant stays.
Renew ==
  /\ expires # Perpetual
  /\ \/ expires' = Perpetual
     \/ /\ expires' \in Periods
        /\ expires' > now
        /\ expires \in Periods => expires' > expires
  /\ UNCHANGED <<now, detected, files, switch, mark, latched, engine, history>>

Next ==
  \/ \E mode \in Modes : BeginSwitch(mode)
  \/ SwitchStep
  \/ MarkRead \/ MarkWrite \/ MarkRename
  \/ Launch \/ ServerCrash \/ LoadModel \/ GetHero
  \/ Reboot \/ Tick \/ Renew

Spec == Init /\ [][Next]_vars

-----------------------------------------------------------------------------
(* Properties *)

\* Every variable has its type; only real tiers are recorded and launched.
TypeOK ==
  /\ now \in Time
  /\ expires \in Entitlements
  /\ detected \in Tiers
  /\ onDisk \subseteq Tiers
  /\ sel \in Selection
  /\ tmp \in Selection \cup {NoFile}
  /\ switch.pc \in {"idle", "download", "complete", "decide", "rename", "restart", "sweep"}
  /\ mark.pc \in {"idle", "write", "rename"}
  /\ latched \in BOOLEAN
  /\ running \in Tiers \cup {NoTier}
  /\ launching \in BOOLEAN
  /\ spent \in [period : Periods \cup {Never}, at : Time \cup {Never}]
  /\ {overdrawn, missed, raced, drifted} \subseteq BOOLEAN

\* A committed user changes the tier at most once per billing period and, on a
\* perpetual grant, at most once per cooldown, whatever crashes and renewals
\* come between - as long as the entitlement could be looked up and no two
\* writers of the selection overlapped.
LimitKept == ~raced /\ ~missed => ~overdrawn

\* The sweep never deletes what the engine serves or would launch next
\* (tier_select.rs:185-186, "so the in-use pair is safe").
SweepKeepsInUse ==
  [][\A t \in onDisk \ onDisk' : ~raced => t \notin {running, EffectiveTier}]_vars

\* Once no switch is under way the engine serves the selected tier or nothing.
ServesSelection ==
  ~raced /\ ~drifted /\ switch.pc # "restart" => running \in {NoTier, EffectiveTier}

=============================================================================
