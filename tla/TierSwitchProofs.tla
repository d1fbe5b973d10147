-------------------------- MODULE TierSwitchProofs --------------------------
(***************************************************************************)
(* The limit on tier changes, what the engine serves and what the sweep    *)
(* leaves on disk (tier_select.rs), for any tiers, clock and cooldown.     *)
(***************************************************************************)
EXTENDS TierSwitch, TLAPS

\* The two commands in flight, with what each has read.
Switches ==
  [pc : {"idle"}]
    \cup [pc : {"download", "complete"}, mode : Modes]
    \cup [pc : {"decide"}, mode : Modes, read : Selection]
    \cup [pc : {"rename"}, target : Tiers, changed : BOOLEAN, consumed : BOOLEAN,
          ent : Entitlements, at : Time, read : Selection]
    \cup [pc : {"restart", "sweep"}, target : Tiers]
Marks == [pc : {"idle"}] \cup [pc : {"write", "rename"}, read : Selection]
Sound == TypeOK /\ switch \in Switches /\ mark \in Marks

\* One temporary file, one writer: whoever is about to rename finds its own.
Alone == ~(switch.pc = "rename" /\ mark.pc = "rename")
Decided ==
  switch.pc = "rename" =>
    /\ switch.read = sel
    /\ tmp.at = IF switch.consumed THEN switch.at ELSE sel.at
    /\ tmp.period = IF ~switch.consumed THEN sel.period
                    ELSE IF switch.ent \in Periods THEN switch.ent ELSE Never
    /\ ModeTier(tmp.mode) = switch.target
Marked ==
  mark.pc = "rename" => /\ tmp.mode = mark.read.mode
                        /\ tmp.at = mark.read.at /\ tmp.period = mark.read.period
Unraced == ~raced => Alone /\ Decided /\ Marked

\* The selection remembers the last limited change, and a change that is about
\* to take effect is within the limit.
Remembers == sel.at = spent.at /\ (expires # Perpetual => sel.period = spent.period)
Granted ==
  switch.pc = "rename" /\ switch.consumed =>
    /\ switch.ent = Perpetual => expires = Perpetual
    /\ switch.ent # Absent => ~Refusable(switch.ent, switch.at)
Limit == ~raced /\ ~missed => Remembers /\ Granted /\ ~overdrawn

LimitInv == Sound /\ Unraced /\ Limit

\* On hardware that stays, an active tier is the one that its mode selects.
Honest(s) == s.active \in {NoTier, ModeTier(s.mode)}
Steady ==
  /\ Honest(sel) /\ Honest(tmp)
  /\ switch.pc = "decide" => Honest(switch.read)
  /\ ~raced /\ switch.pc = "rename" /\ ~switch.changed => switch.target = EffectiveTier
  /\ mark.pc # "idle" => Honest(mark.read)
\* What a switch has selected is what its sweep keeps.
Swapped ==
  /\ switch.pc \in {"restart", "sweep"} => switch.target = EffectiveTier
  /\ switch.pc = "sweep" => running \in {NoTier, EffectiveTier}

ServeInv ==
  /\ Sound /\ Unraced
  /\ ~raced => Swapped
  /\ ~drifted => Steady
  /\ ServesSelection

-----------------------------------------------------------------------------
(* Types. *)

LEMMA ModeTierType == ASSUME TypeOK, NEW m \in Modes PROVE ModeTier(m) \in Tiers
BY DEF TypeOK, ModeTier, Modes

LEMMA ActiveTierType ==
  ASSUME TypeOK, NEW s \in Selection
  PROVE  ActiveTier(s) \in Tiers
BY ModeTierType DEF ActiveTier, Selection

LEMMA ResolvedType == TypeOK => Lookups \subseteq Entitlements
BY DEF TypeOK, Lookups, Resolved, Entitlements

LEMMA CommittedType ==
  ASSUME TypeOK, NEW s \in Selection
  PROVE  Committed(s) \in Selection
BY ActiveTierType DEF Committed, Selection

LEMMA NewSelectionType ==
  ASSUME TypeOK, NEW s \in Selection, NEW m \in Modes, NEW b \in BOOLEAN,
         NEW ent \in Entitlements
  PROVE  NewSelection(s, m, b, ent) \in Selection
<1>1. ModeTier(m) \in Tiers
  BY ModeTierType
<1> QED
  BY <1>1 DEF NewSelection, Selection, TypeOK

LEMMA SoundInit == Init => Sound
<1> SUFFICES ASSUME Init PROVE Sound
  OBVIOUS
<1>1. DefaultSelection \in Selection
  BY DEF DefaultSelection, Selection, Modes
<1>2. 0 \in Time /\ [period |-> Never, at |-> Never]
                      \in [period : Periods \cup {Never}, at : Time \cup {Never}]
  BY TierConstants DEF Time
<1>3. switch \in Switches /\ mark \in Marks
  BY DEF Init, Idle, Switches, Marks
<1>4. switch.pc = "idle" /\ mark.pc = "idle" /\ launching \in BOOLEAN
  BY DEF Init, Idle
<1>5. onDisk \subseteq Tiers
  BY DEF Init
<1> QED
  BY <1>1, <1>2, <1>3, <1>4, <1>5 DEF Init, Sound, TypeOK

\* Which records a step leaves for the two commands, and that it has their pc.
LEMMA SwitchPc ==
  ASSUME NEW x \in Switches
  PROVE  x.pc \in {"idle", "download", "complete", "decide", "rename", "restart", "sweep"}
BY DEF Switches
LEMMA MarkPc == ASSUME NEW x \in Marks PROVE x.pc \in {"idle", "write", "rename"}
BY DEF Marks

LEMMA SoundSwitch ==
  ASSUME Sound, SwitchStep \/ \E m \in Modes : BeginSwitch(m)
  PROVE  Sound'
<1> USE DEF Sound
<1>1. ASSUME NEW m \in Modes, BeginSwitch(m) PROVE Sound'
  <2>1. switch' \in Switches
    BY <1>1 DEF BeginSwitch, Switches
  <2> QED
    BY <1>1, <2>1, SwitchPc DEF BeginSwitch, TypeOK, files, engine, history
<1>2. CASE Download
  <2>1. switch.mode \in Modes /\ ModeTier(switch.mode) \in Tiers
    <3>1. switch.mode \in Modes
      BY <1>2 DEF Download, Switches
    <3> QED
      BY <3>1, ModeTierType
  <2>2. switch' \in Switches
    BY <1>2, <2>1 DEF Download, Switches, Idle
  <2>3. onDisk' \subseteq Tiers
    BY <1>2, <2>1 DEF Download, TypeOK
  <2> QED
    BY <1>2, <2>2, <2>3, SwitchPc DEF Download, TypeOK, engine, history
<1>3. CASE CompleteRead
  <2>1. switch.mode \in Modes /\ sel \in Selection
    BY <1>3 DEF CompleteRead, Switches, TypeOK
  <2>2. switch' \in Switches
    BY <1>3, <2>1 DEF CompleteRead, Switches
  <2> QED
    BY <1>3, <2>2, SwitchPc DEF CompleteRead, TypeOK, files, engine, history
<1>4. CASE CompleteDecide
  <2>1. switch.mode \in Modes /\ switch.read \in Selection
    BY <1>4 DEF CompleteDecide, Switches
  <2> DEFINE s == switch.read
             target == ModeTier(switch.mode)
             changed == target # ActiveTier(s)
             consumed == changed /\ s.committed
  <2>2. target \in Tiers /\ changed \in BOOLEAN /\ consumed \in BOOLEAN
    BY <2>1, ModeTierType DEF Selection
  <2>3. PICK ent \in Lookups :
          \/ switch' = Idle /\ UNCHANGED <<tmp, raced>>
          \/ /\ tmp' = NewSelection(s, switch.mode, consumed, ent)
             /\ raced' = (raced \/ s # sel \/ mark.pc = "rename")
             /\ switch' = [pc |-> "rename", target |-> target, changed |-> changed,
                           consumed |-> consumed, ent |-> ent, at |-> now, read |-> sel]
    BY <1>4 DEF CompleteDecide
  <2>4. ent \in Entitlements
    BY ResolvedType
  <2>5. NewSelection(s, switch.mode, consumed, ent) \in Selection
    BY <2>1, <2>2, <2>4, NewSelectionType
  <2>6. now \in Time /\ sel \in Selection
    BY DEF TypeOK
  <2> HIDE DEF target, changed, consumed
  <2>7. switch' \in Switches
    BY <2>2, <2>3, <2>4, <2>6 DEF Switches, Idle
  <2>8. tmp' \in Selection \cup {NoFile} /\ raced' \in BOOLEAN
    BY <2>3, <2>5 DEF TypeOK
  <2> QED
    BY <1>4, <2>7, <2>8, SwitchPc DEF CompleteDecide, TypeOK, engine
<1>5. CASE CompleteRename
  <2>1. /\ switch.target \in Tiers /\ switch.ent \in Entitlements /\ switch.at \in Time
        /\ switch.consumed \in BOOLEAN /\ switch.changed \in BOOLEAN
    BY <1>5 DEF CompleteRename, Switches
  <2>2. switch' \in Switches
    BY <1>5, <2>1 DEF CompleteRename, Switches, Idle
  <2>3. sel' \in Selection /\ tmp' \in Selection \cup {NoFile}
    BY <1>5 DEF CompleteRename, TypeOK
  <2>4. /\ spent' \in [period : Periods \cup {Never}, at : Time \cup {Never}]
        /\ overdrawn' \in BOOLEAN /\ missed' \in BOOLEAN
    <3>1. CASE UNCHANGED <<spent, overdrawn, missed>>
      BY <3>1 DEF TypeOK
    <3>2. CASE /\ spent' = [at |-> switch.at, period |-> IF switch.ent \in Periods
                                             THEN switch.ent ELSE spent.period]
               /\ overdrawn' = (overdrawn \/ Refusable(switch.ent, switch.at))
               /\ missed' = (missed \/ switch.ent = Absent)
      BY <3>2, <2>1 DEF TypeOK
    <3> QED
      BY <1>5, <3>1, <3>2 DEF CompleteRename, Charge
  <2>5. raced' \in BOOLEAN
    BY <1>5 DEF CompleteRename, TypeOK
  <2> QED
    BY <1>5, <2>2, <2>3, <2>4, <2>5, SwitchPc DEF CompleteRename, TypeOK, engine
<1>6. CASE CompleteRestart
  <2>1. switch' \in Switches
    BY <1>6 DEF CompleteRestart, Switches
  <2> QED
    BY <1>6, <2>1, SwitchPc DEF CompleteRestart, TypeOK, files, history
<1>7. CASE CompleteSweep
  <2>1. switch' \in Switches /\ onDisk' \subseteq Tiers
    BY <1>7 DEF CompleteSweep, Switches, Idle, Swept, TypeOK
  <2> QED
    BY <1>7, <2>1, SwitchPc DEF CompleteSweep, TypeOK, engine, history
<1> QED
  BY <1>1, <1>2, <1>3, <1>4, <1>5, <1>6, <1>7 DEF SwitchStep

LEMMA SoundMark ==
  ASSUME Sound, MarkRead \/ MarkWrite \/ MarkRename
  PROVE  Sound'
<1> USE DEF Sound
<1>1. CASE MarkRead
  <2>1. mark' \in Marks
    BY <1>1 DEF MarkRead, Marks, Idle, TypeOK
  <2> QED
    BY <1>1, <2>1, MarkPc DEF MarkRead, TypeOK, files, engine, history
<1>2. CASE MarkWrite
  <2>1. mark.read \in Selection /\ mark' \in Marks
    BY <1>2 DEF MarkWrite, Marks
  <2>2. Committed(mark.read) \in Selection
    BY <2>1, CommittedType
  <2> QED
    BY <1>2, <2>1, <2>2, MarkPc DEF MarkWrite, TypeOK, engine
<1>3. CASE MarkRename
  <2>1. mark' \in Marks
    BY <1>3 DEF MarkRename, Marks, Idle
  <2> QED
    BY <1>3, <2>1, MarkPc DEF MarkRename, TypeOK, engine
<1> QED
  BY <1>1, <1>2, <1>3

LEMMA SoundWorld ==
  ASSUME Sound,
         Launch \/ ServerCrash \/ LoadModel \/ GetHero \/ Reboot \/ Tick \/ Renew
  PROVE  Sound'
<1> USE DEF Sound
<1>1. CASE Launch
  BY <1>1 DEF Launch, TypeOK, files, history
<1>2. CASE ServerCrash
  BY <1>2 DEF ServerCrash, TypeOK, files, history
<1>3. CASE LoadModel
  BY <1>3 DEF LoadModel, TypeOK, files, history
<1>4. CASE GetHero
  <2>1. EffectiveTier \in Tiers
    BY ModeTierType DEF EffectiveTier, TypeOK, Selection
  <2> QED
    BY <1>4, <2>1 DEF GetHero, TypeOK, engine, history
<1>5. CASE Reboot
  <2>1. switch' \in Switches /\ mark' \in Marks
    BY <1>5 DEF Reboot, Switches, Marks, Idle
  <2>2. launching' \in BOOLEAN /\ drifted' \in BOOLEAN
    BY <1>5 DEF Reboot, TypeOK
  <2> QED
    BY <1>5, <2>1, <2>2, SwitchPc, MarkPc DEF Reboot, TypeOK, files
<1>6. CASE Tick
  BY <1>6, TierConstants DEF Tick, TypeOK, files, engine, history, Time
<1>7. CASE Renew
  BY <1>7 DEF Renew, TypeOK, files, engine, history, Entitlements
<1> QED
  BY <1>1, <1>2, <1>3, <1>4, <1>5, <1>6, <1>7

LEMMA SoundNext == Sound /\ [Next]_vars => Sound'
<1>1. ASSUME Sound, UNCHANGED vars PROVE Sound'
  BY <1>1 DEF vars, Sound, TypeOK, files, engine, history
<1> QED
  BY <1>1, SoundSwitch, SoundMark, SoundWorld DEF Next

\* Selection, its temporary file, the commands in flight and the engine keep
\* their types; only real tiers are recorded and launched (tier_select.rs).
THEOREM Typing == Spec => []TypeOK
<1>1. Sound => TypeOK
  BY DEF Sound
<1> QED
  BY <1>1, SoundInit, SoundNext, PTL DEF Spec

-----------------------------------------------------------------------------
(* The limit. *)

\* What the sums of the model compare: instants and periods are numbers, and a
\* period is neither of the two other entitlements.
LEMMA Numbers ==
  /\ Time \subseteq Nat /\ Periods \subseteq Nat /\ Never \in Nat
  /\ Never \notin Time /\ Never \notin Periods
  /\ Perpetual \notin Periods /\ Absent \notin Periods /\ Perpetual # Absent
BY TierConstants DEF Time, Periods, Never

\* What switch_allowed has granted, a limit that forgets nothing grants too.
LEMMA Within ==
  ASSUME Sound, Remembers, NEW ent \in Lookups, ent # Absent,
         sel.committed, SwitchAllowed(sel, ent)
  PROVE  ~Refusable(ent, now) /\ (ent = Perpetual => expires = Perpetual)
<1>1. ent = expires
  BY DEF Lookups, Resolved
<1>2. CASE ent \in Periods
  <2>1. sel.period # ent /\ sel.period = spent.period
    BY <1>1, <1>2, Numbers DEF SwitchAllowed, Remembers
  <2> QED
    BY <1>2, <2>1, Numbers DEF Refusable
<1>3. CASE ent = Perpetual
  <2>1. now \in Nat /\ sel.at \in Nat /\ sel.at = spent.at
    BY Numbers DEF Sound, TypeOK, Selection, Remembers
  <2>2. sel.at = Never \/ now >= sel.at + Cooldown
    BY <1>3, Numbers DEF SwitchAllowed
  <2> QED
    BY <1>1, <1>3, <2>1, <2>2, Numbers, TierConstants DEF Refusable
<1> QED
  BY <1>1, <1>2, <1>3 DEF Sound, TypeOK, Entitlements

LEMMA LimitInit == Init => LimitInv
<1> SUFFICES ASSUME Init PROVE LimitInv
  OBVIOUS
<1>1. switch.pc = "idle" /\ mark.pc = "idle"
  BY DEF Init, Idle
<1>2. Unraced
  BY <1>1 DEF Unraced, Alone, Decided, Marked
<1>3. Limit
  BY <1>1 DEF Init, Limit, Remembers, Granted, DefaultSelection
<1> QED
  BY <1>2, <1>3, SoundInit DEF LimitInv

\* A step that leaves the file, its temporary and both commands alone, or ends
\* one of them before it has written, cannot come between.
LEMMA UnracedFrame ==
  ASSUME Unraced, sel' = sel, tmp' = tmp, raced' = raced,
         (switch' = switch /\ detected' = detected) \/ switch'.pc # "rename",
         mark' = mark \/ mark'.pc # "rename"
  PROVE  Unraced'
BY DEF Unraced, Alone, Decided, Marked, ModeTier

LEMMA UnracedSwitch ==
  ASSUME Sound, Unraced, SwitchStep \/ \E m \in Modes : BeginSwitch(m)
  PROVE  Unraced'
<1>1. ASSUME NEW m \in Modes, BeginSwitch(m) PROVE Unraced'
  <2>1. switch'.pc \in {"download", "complete"}
    BY <1>1 DEF BeginSwitch
  <2> QED
    BY <1>1, <2>1, UnracedFrame DEF BeginSwitch, files, history
<1>2. CASE Download
  <2>1. switch'.pc \in {"idle", "complete"}
    BY <1>2 DEF Download, Idle, Sound, Switches
  <2> QED
    BY <1>2, <2>1, UnracedFrame DEF Download, history
<1>3. CASE CompleteRead
  <2>1. switch'.pc = "decide"
    BY <1>3 DEF CompleteRead
  <2> QED
    BY <1>3, <2>1, UnracedFrame DEF CompleteRead, files, history
<1>4. CASE CompleteDecide
  <2> DEFINE s == switch.read
             target == ModeTier(switch.mode)
             changed == target # ActiveTier(s)
             consumed == changed /\ s.committed
  <2>1. PICK ent \in Lookups :
          \/ switch' = Idle /\ UNCHANGED <<tmp, raced>>
          \/ /\ tmp' = NewSelection(s, switch.mode, consumed, ent)
             /\ raced' = (raced \/ s # sel \/ mark.pc = "rename")
             /\ switch' = [pc |-> "rename", target |-> target, changed |-> changed,
                           consumed |-> consumed, ent |-> ent, at |-> now, read |-> sel]
    BY <1>4 DEF CompleteDecide
  <2>2. CASE switch' = Idle /\ UNCHANGED <<tmp, raced>>
    <3>1. switch'.pc = "idle"
      BY <2>2 DEF Idle
    <3> QED
      BY <1>4, <2>2, <3>1, UnracedFrame DEF CompleteDecide
  <2>3. CASE /\ tmp' = NewSelection(s, switch.mode, consumed, ent)
             /\ raced' = (raced \/ s # sel \/ mark.pc = "rename")
             /\ switch' = [pc |-> "rename", target |-> target, changed |-> changed,
                           consumed |-> consumed, ent |-> ent, at |-> now, read |-> sel]
    <3> SUFFICES ASSUME ~raced' PROVE Alone' /\ Decided' /\ Marked'
      BY DEF Unraced
    <3>1. s = sel /\ mark.pc # "rename" /\ mark' = mark /\ sel' = sel /\ detected' = detected
      BY <1>4, <2>3 DEF CompleteDecide
    <3>2. /\ tmp'.at = IF consumed THEN now ELSE s.at
          /\ tmp'.period = IF ~consumed THEN s.period
                           ELSE IF ent \in Periods THEN ent ELSE Never
          /\ tmp'.mode = switch.mode
      BY <2>3 DEF NewSelection
    <3>3. /\ switch'.read = sel /\ switch'.consumed = consumed /\ switch'.ent = ent
          /\ switch'.at = now /\ switch'.target = target
      BY <2>3
    <3> QED
      BY <3>1, <3>2, <3>3 DEF Alone, Decided, Marked, ModeTier
  <2> QED
    BY <2>1, <2>2, <2>3
<1>5. CASE CompleteRename
  <2> SUFFICES ASSUME ~raced' PROVE Alone' /\ Decided' /\ Marked'
    BY DEF Unraced
  <2>1. switch'.pc \in {"idle", "restart"}
    BY <1>5 DEF CompleteRename, Idle
  <2>2. ~raced /\ mark' = mark
    BY <1>5 DEF CompleteRename, Sound, TypeOK
  <2>3. mark'.pc # "rename"
    BY <1>5, <2>2 DEF CompleteRename, Unraced, Alone
  <2> QED
    BY <2>1, <2>3 DEF Alone, Decided, Marked
<1>6. CASE CompleteRestart
  <2>1. switch'.pc = "sweep"
    BY <1>6 DEF CompleteRestart, Sound, Switches
  <2> QED
    BY <1>6, <2>1, UnracedFrame DEF CompleteRestart, files, history
<1>7. CASE CompleteSweep
  <2>1. switch'.pc = "idle"
    BY <1>7 DEF CompleteSweep, Idle
  <2> QED
    BY <1>7, <2>1, UnracedFrame DEF CompleteSweep, history
<1> QED
  BY <1>1, <1>2, <1>3, <1>4, <1>5, <1>6, <1>7 DEF SwitchStep

LEMMA UnracedMark ==
  ASSUME Sound, Unraced, MarkRead \/ MarkWrite \/ MarkRename
  PROVE  Unraced'
<1>1. CASE MarkRead
  <2>1. mark'.pc \in {"idle", "write"}
    BY <1>1 DEF MarkRead, Idle
  <2> QED
    BY <1>1, <2>1, UnracedFrame DEF MarkRead, files, history
<1>2. CASE MarkWrite
  <2> SUFFICES ASSUME ~raced' PROVE Alone' /\ Decided' /\ Marked'
    BY DEF Unraced
  <2>1. switch' = switch /\ switch.pc # "rename"
    BY <1>2 DEF MarkWrite
  <2>2. mark'.read = mark.read
    BY <1>2 DEF MarkWrite, Sound, Marks
  <2>3. /\ tmp'.mode = mark.read.mode
        /\ tmp'.at = mark.read.at /\ tmp'.period = mark.read.period
    BY <1>2 DEF MarkWrite, Committed, Selection, Sound, Marks
  <2> QED
    BY <2>1, <2>2, <2>3 DEF Alone, Decided, Marked
<1>3. CASE MarkRename
  <2> SUFFICES ASSUME ~raced' PROVE Alone' /\ Decided' /\ Marked'
    BY DEF Unraced
  <2>1. ~raced /\ switch' = switch /\ mark'.pc = "idle"
    BY <1>3 DEF MarkRename, Sound, TypeOK, Idle
  <2>2. switch'.pc # "rename"
    BY <1>3, <2>1 DEF MarkRename, Unraced, Alone
  <2> QED
    BY <2>1, <2>2 DEF Alone, Decided, Marked
<1> QED
  BY <1>1, <1>2, <1>3

LEMMA UnracedWorld ==
  ASSUME Unraced,
         Launch \/ ServerCrash \/ LoadModel \/ GetHero \/ Reboot \/ Tick \/ Renew
  PROVE  Unraced'
<1>1. CASE Reboot
  <2>1. switch'.pc = "idle" /\ mark'.pc = "idle"
    BY <1>1 DEF Reboot, Idle
  <2> QED
    BY <1>1, <2>1, UnracedFrame DEF Reboot, files
<1> QED
  BY <1>1, UnracedFrame
  DEF Launch, ServerCrash, LoadModel, GetHero, Tick, Renew, files, history

LEMMA UnracedNext == Sound /\ Unraced /\ [Next]_vars => Unraced'
<1>1. ASSUME Unraced, UNCHANGED vars PROVE Unraced'
  BY <1>1, UnracedFrame DEF vars, files, history
<1> QED
  BY <1>1, UnracedSwitch, UnracedMark, UnracedWorld DEF Next

\* A step that charges nothing and leaves the selection's record alone.
LEMMA LimitFrame ==
  ASSUME Limit, ~raced' => ~raced /\ sel'.at = sel.at /\ sel'.period = sel.period,
         UNCHANGED <<spent, overdrawn, missed>>,
         expires = Perpetual => expires' = Perpetual,
         switch' = switch \/ switch'.pc # "rename"
  PROVE  Limit'
BY DEF Limit, Remembers, Granted, Refusable

LEMMA LimitSwitch ==
  ASSUME LimitInv, SwitchStep \/ \E m \in Modes : BeginSwitch(m)
  PROVE  Limit'
<1> USE DEF LimitInv
<1>1. ASSUME NEW m \in Modes, BeginSwitch(m) PROVE Limit'
  <2>1. switch'.pc \in {"download", "complete"}
    BY <1>1 DEF BeginSwitch
  <2> QED
    BY <1>1, <2>1, LimitFrame DEF BeginSwitch, files, history
<1>2. CASE Download
  <2>1. switch'.pc \in {"idle", "complete"}
    BY <1>2 DEF Download, Idle, Sound, Switches
  <2> QED
    BY <1>2, <2>1, LimitFrame DEF Download, history
<1>3. CASE CompleteRead
  <2>1. switch'.pc = "decide"
    BY <1>3 DEF CompleteRead
  <2> QED
    BY <1>3, <2>1, LimitFrame DEF CompleteRead, files, history
<1>4. CASE CompleteDecide
  <2> DEFINE s == switch.read
             target == ModeTier(switch.mode)
             changed == target # ActiveTier(s)
             consumed == changed /\ s.committed
  <2>1. PICK ent \in Lookups :
          \/ switch' = Idle /\ UNCHANGED <<tmp, raced>>
          \/ /\ consumed => SwitchAllowed(s, ent)
             /\ raced' = (raced \/ s # sel \/ mark.pc = "rename")
             /\ switch' = [pc |-> "rename", target |-> target, changed |-> changed,
                           consumed |-> consumed, ent |-> ent, at |-> now, read |-> sel]
    BY <1>4 DEF CompleteDecide
  <2>2. UNCHANGED <<sel, spent, overdrawn, missed, expires>>
    BY <1>4 DEF CompleteDecide
  <2>3. CASE switch' = Idle /\ UNCHANGED <<tmp, raced>>
    <3>1. switch'.pc = "idle"
      BY <2>3 DEF Idle
    <3> QED
      BY <2>2, <2>3, <3>1, LimitFrame
  <2>4. CASE /\ consumed => SwitchAllowed(s, ent)
             /\ raced' = (raced \/ s # sel \/ mark.pc = "rename")
             /\ switch' = [pc |-> "rename", target |-> target, changed |-> changed,
                           consumed |-> consumed, ent |-> ent, at |-> now, read |-> sel]
    <3> SUFFICES ASSUME ~raced', ~missed' PROVE Remembers' /\ Granted' /\ ~overdrawn'
      BY DEF Limit
    <3>1. ~raced /\ ~missed /\ s = sel
      BY <2>2, <2>4 DEF Sound, TypeOK
    <3>2. Remembers /\ ~overdrawn
      BY <3>1 DEF Limit
    <3>3. switch'.consumed = consumed /\ switch'.ent = ent /\ switch'.at = now
      BY <2>4
    <3>4. ASSUME consumed, ent # Absent
          PROVE  ~Refusable(ent, now) /\ (ent = Perpetual => expires = Perpetual)
      BY <2>4, <3>1, <3>2, <3>4, Within
    <3>5. ASSUME consumed, ent = Absent, ent = Perpetual PROVE FALSE
      BY <3>5, Numbers
    <3>6. Granted'
      BY <2>2, <3>3, <3>4, <3>5 DEF Granted, Refusable
    <3> QED
      BY <2>2, <3>2, <3>6 DEF Remembers
  <2> QED
    BY <2>1, <2>3, <2>4
<1>5. CASE CompleteRename
  <2>1. switch'.pc \in {"idle", "restart"} /\ UNCHANGED expires
    BY <1>5 DEF CompleteRename, Idle
  <2>2. CASE tmp = NoFile
    BY <1>5, <2>1, <2>2, LimitFrame DEF CompleteRename, Sound, TypeOK
  <2>3. CASE tmp # NoFile
    <3> SUFFICES ASSUME ~raced', ~missed' PROVE Remembers' /\ Granted' /\ ~overdrawn'
      BY DEF Limit
    <3>1. ~raced /\ sel' = tmp /\ Charge(switch) /\ switch.pc = "rename"
      BY <1>5, <2>3 DEF CompleteRename, Sound, TypeOK
    <3>2. /\ tmp.at = IF switch.consumed THEN switch.at ELSE sel.at
          /\ tmp.period = IF ~switch.consumed THEN sel.period
                          ELSE IF switch.ent \in Periods THEN switch.ent ELSE Never
      BY <3>1 DEF Unraced, Decided
    <3>3. CASE ~switch.consumed
      <4>1. UNCHANGED <<spent, overdrawn, missed>>
        BY <3>1, <3>3 DEF Charge
      <4>2. sel'.at = sel.at /\ sel'.period = sel.period
        BY <3>1, <3>2, <3>3
      <4>3. Limit'
        BY <2>1, <3>1, <4>1, <4>2, LimitFrame
      <4> QED
        BY <4>3 DEF Limit
    <3>4. CASE switch.consumed
      <4>1. /\ spent' = [at |-> switch.at, period |-> IF switch.ent \in Periods
                                         THEN switch.ent ELSE spent.period]
            /\ overdrawn' = (overdrawn \/ Refusable(switch.ent, switch.at))
            /\ missed' = (missed \/ switch.ent = Absent)
        BY <3>1, <3>4 DEF Charge
      <4>2. ~missed /\ switch.ent # Absent
        BY <4>1 DEF Sound, TypeOK
      <4>3. Granted /\ ~overdrawn
        BY <3>1, <4>2 DEF Limit
      <4>4. ~overdrawn'
        BY <3>1, <3>4, <4>1, <4>2, <4>3 DEF Granted
      <4>5. switch.ent \in Entitlements
        BY <3>1 DEF Sound, Switches
      <4>6. Remembers'
        <5>1. sel'.at = switch.at /\ spent'.at = switch.at
          BY <3>1, <3>2, <3>4, <4>1
        <5>2. CASE switch.ent \in Periods
          BY <3>1, <3>2, <3>4, <4>1, <5>1, <5>2 DEF Remembers
        <5>3. CASE switch.ent = Perpetual
          <6>1. expires' = Perpetual
            BY <2>1, <3>1, <3>4, <4>3, <5>3 DEF Granted
          <6> QED
            BY <5>1, <6>1 DEF Remembers
        <5> QED
          BY <4>2, <4>5, <5>2, <5>3 DEF Entitlements
      <4> QED
        BY <2>1, <4>4, <4>6 DEF Granted
    <3> QED
      BY <3>3, <3>4
  <2> QED
    BY <2>2, <2>3
<1>6. CASE CompleteRestart
  <2>1. switch'.pc = "sweep"
    BY <1>6 DEF CompleteRestart, Sound, Switches
  <2> QED
    BY <1>6, <2>1, LimitFrame DEF CompleteRestart, files, history
<1>7. CASE CompleteSweep
  <2>1. switch'.pc = "idle"
    BY <1>7 DEF CompleteSweep, Idle
  <2> QED
    BY <1>7, <2>1, LimitFrame DEF CompleteSweep, history
<1> QED
  BY <1>1, <1>2, <1>3, <1>4, <1>5, <1>6, <1>7 DEF SwitchStep

LEMMA LimitMark ==
  ASSUME LimitInv, MarkRead \/ MarkWrite \/ MarkRename
  PROVE  Limit'
<1> USE DEF LimitInv
<1>1. CASE MarkRead
  BY <1>1, LimitFrame DEF MarkRead, files, history
<1>2. CASE MarkWrite
  BY <1>2, LimitFrame DEF MarkWrite, Sound, TypeOK
<1>3. CASE MarkRename
  <2>1. ASSUME ~raced' PROVE ~raced /\ sel'.at = sel.at /\ sel'.period = sel.period
    <3>1. ~raced /\ sel = mark.read /\ mark.pc = "rename"
      BY <1>3, <2>1 DEF MarkRename, Sound, TypeOK
    <3>2. tmp.at = sel.at /\ tmp.period = sel.period
      BY <3>1 DEF Unraced, Marked
    <3> QED
      BY <1>3, <3>1, <3>2 DEF MarkRename
  <2> QED
    BY <1>3, <2>1, LimitFrame DEF MarkRename
<1> QED
  BY <1>1, <1>2, <1>3

LEMMA LimitWorld ==
  ASSUME LimitInv,
         Launch \/ ServerCrash \/ LoadModel \/ GetHero \/ Reboot \/ Tick \/ Renew
  PROVE  Limit'
<1> USE DEF LimitInv
<1>1. CASE Reboot
  <2>1. switch'.pc = "idle"
    BY <1>1 DEF Reboot, Idle
  <2> QED
    BY <1>1, <2>1, LimitFrame DEF Reboot, files
<1>2. CASE Renew
  BY <1>2, LimitFrame DEF Renew, files, history
<1> QED
  BY <1>1, <1>2, LimitFrame
  DEF Launch, ServerCrash, LoadModel, GetHero, Tick, files, history

\* Everything that keeps the limit, in every run.
LEMMA LimitAlways == Spec => []LimitInv
<1>1. LimitInv /\ [Next]_vars => LimitInv'
  <2> SUFFICES ASSUME LimitInv, [Next]_vars PROVE LimitInv'
    OBVIOUS
  <2>1. Sound' /\ Unraced'
    BY SoundNext, UnracedNext DEF LimitInv
  <2>2. ASSUME UNCHANGED vars PROVE Limit'
    BY <2>2, LimitFrame DEF LimitInv, vars, files, history
  <2>3. ASSUME Next PROVE Limit'
    BY <2>3, LimitSwitch, LimitMark, LimitWorld DEF Next
  <2> QED
    BY <2>1, <2>2, <2>3 DEF LimitInv
<1> QED
  BY <1>1, LimitInit, PTL DEF Spec

\* A committed user changes the tier once per billing period or cooldown,
\* whatever crashes, renewals and refused attempts come between (switch_allowed,
\* complete_tier_switch), until two writers of the selection overlap or an
\* entitlement could not be looked up.
THEOREM OncePerPeriod == Spec => []LimitKept
<1>1. LimitInv => LimitKept
  BY DEF LimitInv, Limit, LimitKept
<1> QED
  BY <1>1, LimitAlways, PTL

-----------------------------------------------------------------------------
(* What the engine serves and what the sweep keeps. *)

LEMMA HonestNew ==
  ASSUME NEW s, NEW m, NEW b, NEW ent
  PROVE  Honest(NewSelection(s, m, b, ent))
BY DEF Honest, NewSelection

LEMMA HonestCommitted ==
  ASSUME TypeOK, NEW s \in Selection, Honest(s)
  PROVE  Honest(Committed(s)) /\ Committed(s).mode = s.mode
BY DEF Honest, Committed, ActiveTier, Selection, ModeTier

LEMMA HonestActive ==
  ASSUME NEW s, Honest(s)
  PROVE  ActiveTier(s) = ModeTier(s.mode)
BY DEF Honest, ActiveTier

LEMMA ServeInit == Init => ServeInv
<1> SUFFICES ASSUME Init PROVE ServeInv
  OBVIOUS
<1>1. switch.pc = "idle" /\ mark.pc = "idle"
  BY DEF Init, Idle
<1>2. sel.active = NoTier /\ tmp.active = NoTier
  BY DEF Init, NoFile, DefaultSelection
<1>3. Steady /\ Swapped
  BY <1>1, <1>2 DEF Steady, Swapped, Honest
<1>4. ServesSelection
  BY DEF Init, ServesSelection
<1> QED
  BY <1>3, <1>4, LimitInit DEF ServeInv, LimitInv

LEMMA SteadySwitch ==
  ASSUME ServeInv, SwitchStep \/ \E m \in Modes : BeginSwitch(m)
  PROVE  ~drifted' => Steady'
<1> SUFFICES ASSUME ~drifted' PROVE Steady'
  OBVIOUS
<1>1. detected' = detected /\ mark' = mark /\ drifted' = drifted
  BY DEF SwitchStep, BeginSwitch, Download, CompleteRead, CompleteDecide,
         CompleteRename, CompleteRestart, CompleteSweep, history
<1>2. Steady
  BY <1>1 DEF ServeInv
<1>3. ASSUME NEW m \in Modes, BeginSwitch(m) PROVE Steady'
  <2>1. switch'.pc \in {"download", "complete"}
    BY <1>3 DEF BeginSwitch
  <2> QED
    BY <1>1, <1>2, <1>3, <2>1 DEF BeginSwitch, Steady, Honest, ModeTier, files
<1>4. CASE Download
  <2>1. switch'.pc \in {"idle", "complete"}
    BY <1>4 DEF Download, Idle, ServeInv, Sound, Switches
  <2> QED
    BY <1>1, <1>2, <1>4, <2>1 DEF Download, Steady, Honest, ModeTier
<1>5. CASE CompleteRead
  <2>1. switch'.pc = "decide" /\ switch'.read = sel
    BY <1>5 DEF CompleteRead
  <2> QED
    BY <1>1, <1>2, <1>5, <2>1 DEF CompleteRead, Steady, Honest, ModeTier, files
<1>6. CASE CompleteDecide
  <2> DEFINE s == switch.read
             target == ModeTier(switch.mode)
             changed == target # ActiveTier(s)
             consumed == changed /\ s.committed
  <2>1. PICK ent \in Lookups :
          \/ switch' = Idle /\ UNCHANGED <<tmp, raced>>
          \/ /\ tmp' = NewSelection(s, switch.mode, consumed, ent)
             /\ raced' = (raced \/ s # sel \/ mark.pc = "rename")
             /\ switch' = [pc |-> "rename", target |-> target, changed |-> changed,
                           consumed |-> consumed, ent |-> ent, at |-> now, read |-> sel]
    BY <1>6 DEF CompleteDecide
  <2>2. sel' = sel
    BY <1>6 DEF CompleteDecide
  <2>3. CASE switch' = Idle /\ UNCHANGED <<tmp, raced>>
    <3>1. switch'.pc = "idle"
      BY <2>3 DEF Idle
    <3> QED
      BY <1>1, <1>2, <2>2, <2>3, <3>1 DEF Steady, Honest, ModeTier
  <2>4. CASE /\ tmp' = NewSelection(s, switch.mode, consumed, ent)
             /\ raced' = (raced \/ s # sel \/ mark.pc = "rename")
             /\ switch' = [pc |-> "rename", target |-> target, changed |-> changed,
                           consumed |-> consumed, ent |-> ent, at |-> now, read |-> sel]
    <3>1. tmp'.active = ModeTier(tmp'.mode)
      BY <2>4 DEF NewSelection
    <3>2. Honest(tmp)'
      BY <1>1, <3>1 DEF Honest, ModeTier
    <3>3. ASSUME ~raced', ~switch'.changed PROVE switch'.target = ModeTier(sel.mode)
      <4>1. s = sel /\ ~changed
        BY <2>4, <3>3
      <4>2. ActiveTier(sel) = ModeTier(sel.mode)
        BY <1>2, HonestActive DEF Steady
      <4> QED
        BY <2>4, <4>1, <4>2
    <3>4. switch'.pc = "rename"
      BY <2>4
    <3>5. Honest(sel)' /\ (mark'.pc # "idle" => Honest(mark.read)')
      BY <1>1, <1>2, <2>2 DEF Steady, Honest, ModeTier
    <3> QED
      BY <1>1, <2>2, <3>2, <3>3, <3>4, <3>5 DEF Steady, EffectiveTier, ModeTier
  <2> QED
    BY <2>1, <2>3, <2>4
<1>7. CASE CompleteRename
  <2>1. switch'.pc \in {"idle", "restart"}
    BY <1>7 DEF CompleteRename, Idle
  <2>2. Honest(sel)' /\ Honest(tmp)'
    <3>1. sel' \in {sel, tmp} /\ tmp' \in {tmp, NoFile}
      BY <1>7 DEF CompleteRename
    <3>2. NoFile.active = NoTier
      BY DEF NoFile, DefaultSelection
    <3> QED
      BY <1>1, <1>2, <3>1, <3>2 DEF Steady, Honest, ModeTier
  <2> QED
    BY <1>1, <1>2, <2>1, <2>2 DEF Steady, Honest, ModeTier
<1>8. CASE CompleteRestart
  <2>1. switch'.pc = "sweep"
    BY <1>8 DEF CompleteRestart, ServeInv, Sound, Switches
  <2> QED
    BY <1>1, <1>2, <1>8, <2>1 DEF CompleteRestart, Steady, Honest, ModeTier, files
<1>9. CASE CompleteSweep
  <2>1. switch'.pc = "idle"
    BY <1>9 DEF CompleteSweep, Idle
  <2> QED
    BY <1>1, <1>2, <1>9, <2>1 DEF CompleteSweep, Steady, Honest, ModeTier
<1> QED
  BY <1>3, <1>4, <1>5, <1>6, <1>7, <1>8, <1>9 DEF SwitchStep

LEMMA SteadyMark ==
  ASSUME ServeInv, MarkRead \/ MarkWrite \/ MarkRename
  PROVE  ~drifted' => Steady'
<1> SUFFICES ASSUME ~drifted' PROVE Steady'
  OBVIOUS
<1>1. detected' = detected /\ switch' = switch /\ drifted' = drifted
  BY DEF MarkRead, MarkWrite, MarkRename, history
<1>2. Steady
  BY <1>1 DEF ServeInv
<1>3. CASE MarkRead
  <2>1. mark'.pc = "idle" \/ mark'.read = sel
    BY <1>3 DEF MarkRead, Idle
  <2> QED
    BY <1>1, <1>2, <1>3, <2>1
    DEF MarkRead, Steady, Honest, EffectiveTier, ModeTier, files, history
<1>4. CASE MarkWrite
  <2>1. mark.pc = "write" /\ mark.read \in Selection /\ Honest(mark.read)
    BY <1>2, <1>4 DEF MarkWrite, ServeInv, Sound, Marks, Steady
  <2>2. Honest(tmp')
    BY <1>4, <2>1, HonestCommitted DEF MarkWrite, ServeInv, Sound
  <2>3. mark'.read = mark.read /\ sel' = sel
    BY <1>4 DEF MarkWrite, ServeInv, Sound, Marks
  <2>4. ~raced' => ~raced
    BY <1>4 DEF MarkWrite, ServeInv, Sound, TypeOK
  <2> QED
    BY <1>1, <1>2, <2>1, <2>2, <2>3, <2>4 DEF Steady, Honest, EffectiveTier, ModeTier
<1>5. CASE MarkRename
  <2>1. sel' \in {sel, tmp} /\ tmp' \in {tmp, NoFile} /\ mark'.pc = "idle"
    BY <1>5 DEF MarkRename, Idle
  <2>2. NoFile.active = NoTier
    BY DEF NoFile, DefaultSelection
  <2>3. Honest(sel)' /\ Honest(tmp)'
    BY <1>1, <1>2, <2>1, <2>2 DEF Steady, Honest, ModeTier
  <2>4. ~raced' => switch.pc # "rename"
    BY <1>5 DEF MarkRename, ServeInv, Sound, TypeOK, Unraced, Alone
  <2> QED
    BY <1>1, <1>2, <2>1, <2>3, <2>4 DEF Steady, Honest, ModeTier
<1> QED
  BY <1>3, <1>4, <1>5

LEMMA SteadyWorld ==
  ASSUME ServeInv,
         Launch \/ ServerCrash \/ LoadModel \/ GetHero \/ Reboot \/ Tick \/ Renew
  PROVE  ~drifted' => Steady'
<1> SUFFICES ASSUME ~drifted' PROVE Steady'
  OBVIOUS
<1>1. detected' = detected /\ ~drifted /\ UNCHANGED <<sel, tmp, raced>>
  <2>1. drifted \in BOOLEAN
    BY DEF ServeInv, Sound, TypeOK
  <2>2. CASE Reboot
    BY <2>1, <2>2 DEF Reboot, files
  <2>3. CASE Launch \/ ServerCrash \/ LoadModel \/ GetHero \/ Tick \/ Renew
    BY <2>3 DEF Launch, ServerCrash, LoadModel, GetHero, Tick, Renew, files, history
  <2> QED
    BY <2>2, <2>3
<1>2. Steady
  BY <1>1 DEF ServeInv
<1>3. CASE Reboot
  <2>1. switch'.pc = "idle" /\ mark'.pc = "idle"
    BY <1>3 DEF Reboot, Idle
  <2> QED
    BY <1>1, <1>2, <2>1 DEF Steady, Honest, ModeTier
<1>4. CASE Launch \/ ServerCrash \/ LoadModel \/ GetHero \/ Tick \/ Renew
  <2>1. switch' = switch /\ mark' = mark
    BY <1>4 DEF Launch, ServerCrash, LoadModel, GetHero, Tick, Renew
  <2> QED
    BY <1>1, <1>2, <2>1 DEF Steady, Honest, EffectiveTier, ModeTier
<1> QED
  BY <1>3, <1>4

\* A switch that takes effect selects its target; until then nothing selected
\* or served changes.
LEMMA ServesSwitch ==
  ASSUME ServeInv, SwitchStep \/ \E m \in Modes : BeginSwitch(m)
  PROVE  (~raced' => Swapped') /\ ServesSelection'
<1> SUFFICES ASSUME ~raced' PROVE Swapped' /\ ServesSelection'
  BY DEF ServesSelection
<1>1. detected' = detected /\ drifted' = drifted
  BY DEF SwitchStep, BeginSwitch, Download, CompleteRead, CompleteDecide,
         CompleteRename, CompleteRestart, CompleteSweep, history
<1>2. ~raced
  BY DEF SwitchStep, BeginSwitch, Download, CompleteRead, CompleteDecide,
         CompleteRename, CompleteRestart, CompleteSweep, history, ServeInv, Sound, TypeOK
<1>3. Swapped /\ ServesSelection
  BY <1>2 DEF ServeInv
<1>4. CASE (\E m \in Modes : BeginSwitch(m)) \/ Download \/ CompleteRead \/ CompleteDecide
  <2>1. sel' = sel /\ running' = running
    BY <1>4 DEF BeginSwitch, Download, CompleteRead, CompleteDecide, files, engine
  <2>2. switch.pc \notin {"restart", "sweep"}
    BY <1>4 DEF BeginSwitch, Download, CompleteRead, CompleteDecide
  <2>3. switch'.pc \notin {"restart", "sweep"}
    BY <1>4 DEF BeginSwitch, Download, CompleteRead, CompleteDecide, Idle,
                ServeInv, Sound, Switches
  <2> QED
    BY <1>1, <1>2, <1>3, <2>1, <2>2, <2>3
    DEF Swapped, ServesSelection, EffectiveTier, ModeTier
<1>5. CASE CompleteRename
  <2>1. switch.read = sel /\ ModeTier(tmp.mode) = switch.target
    BY <1>2, <1>5 DEF CompleteRename, ServeInv, Unraced, Decided
  <2>2. running' = running /\ switch.pc = "rename"
    BY <1>5 DEF CompleteRename, engine
  <2>3. CASE tmp = NoFile
    <3>1. sel' = sel /\ switch'.pc = "idle"
      BY <1>5, <2>3 DEF CompleteRename, Idle
    <3> QED
      BY <1>1, <1>2, <1>3, <2>2, <3>1
      DEF Swapped, ServesSelection, EffectiveTier, ModeTier
  <2>4. CASE tmp # NoFile /\ switch.changed
    <3>1. sel' = tmp /\ switch'.pc = "restart" /\ switch'.target = switch.target
      BY <1>5, <2>4 DEF CompleteRename
    <3> QED
      BY <1>1, <2>1, <3>1 DEF Swapped, ServesSelection, EffectiveTier, ModeTier
  <2>5. CASE tmp # NoFile /\ ~switch.changed
    <3>1. sel' = tmp /\ switch'.pc = "idle"
      BY <1>5, <2>5 DEF CompleteRename, Idle
    <3>2. ASSUME ~drifted PROVE switch.target = EffectiveTier
      BY <1>2, <2>2, <2>5, <3>2 DEF ServeInv, Steady
    <3>3. ~drifted => EffectiveTier' = EffectiveTier
      BY <1>1, <2>1, <3>1, <3>2 DEF EffectiveTier, ModeTier
    <3> QED
      BY <1>1, <1>2, <1>3, <2>2, <3>1, <3>3 DEF Swapped, ServesSelection
  <2> QED
    BY <2>3, <2>4, <2>5
<1>6. CASE CompleteRestart
  <2>1. /\ switch'.pc = "sweep" /\ switch'.target = switch.target
        /\ switch.pc = "restart" /\ sel' = sel /\ running' = NoTier
    BY <1>6 DEF CompleteRestart, files, ServeInv, Sound, Switches
  <2> QED
    BY <1>1, <1>3, <2>1 DEF Swapped, ServesSelection, EffectiveTier, ModeTier
<1>7. CASE CompleteSweep
  <2>1. /\ switch'.pc = "idle" /\ switch.pc = "sweep"
        /\ sel' = sel /\ running' = running
    BY <1>7 DEF CompleteSweep, Idle, engine
  <2> QED
    BY <1>1, <1>2, <1>3, <2>1 DEF Swapped, ServesSelection, EffectiveTier, ModeTier
<1> QED
  BY <1>4, <1>5, <1>6, <1>7 DEF SwitchStep

LEMMA ServesOther ==
  ASSUME ServeInv,
         \/ MarkRead \/ MarkWrite \/ MarkRename
         \/ Launch \/ ServerCrash \/ LoadModel \/ GetHero \/ Reboot \/ Tick \/ Renew
  PROVE  (~raced' => Swapped') /\ ServesSelection'
<1> SUFFICES ASSUME ~raced' PROVE Swapped' /\ ServesSelection'
  BY DEF ServesSelection
<1>1. ~raced
  BY DEF MarkRead, MarkWrite, MarkRename, Launch, ServerCrash, LoadModel, GetHero,
         Reboot, Tick, Renew, history, ServeInv, Sound, TypeOK
<1>2. Swapped /\ ServesSelection
  BY <1>1 DEF ServeInv
<1>3. CASE Reboot
  <2>1. switch'.pc = "idle" /\ running' = NoTier
    BY <1>3 DEF Reboot, Idle
  <2> QED
    BY <2>1 DEF Swapped, ServesSelection
<1>4. CASE MarkRename
  <2>1. sel = mark.read /\ mark.pc = "rename"
    BY <1>4 DEF MarkRename
  <2>2. tmp.mode = sel.mode
    BY <1>1, <2>1 DEF ServeInv, Unraced, Marked
  <2>3. sel'.mode = sel.mode /\ UNCHANGED <<detected, switch, running, drifted>>
    BY <1>4, <2>2 DEF MarkRename, engine
  <2> QED
    BY <1>1, <1>2, <2>3 DEF Swapped, ServesSelection, EffectiveTier, ModeTier
<1>5. CASE MarkRead \/ MarkWrite \/ Launch \/ ServerCrash \/ LoadModel \/ GetHero
           \/ Tick \/ Renew
  <2>1. UNCHANGED <<sel, detected, switch, drifted>>
    BY <1>5 DEF MarkRead, MarkWrite, Launch, ServerCrash, LoadModel, GetHero, Tick,
                Renew, files, history
  <2>2. running' \in {running, NoTier, EffectiveTier}
    BY <1>5 DEF MarkRead, MarkWrite, Launch, ServerCrash, LoadModel, GetHero, Tick,
                Renew, engine
  <2> QED
    BY <1>1, <1>2, <2>1, <2>2 DEF Swapped, ServesSelection, EffectiveTier, ModeTier
<1> QED
  BY <1>3, <1>4, <1>5

\* What is served and what is selected go together, in every run.
LEMMA ServeAlways == Spec => []ServeInv
<1>1. ServeInv /\ [Next]_vars => ServeInv'
  <2> SUFFICES ASSUME ServeInv, [Next]_vars PROVE ServeInv'
    OBVIOUS
  <2>1. Sound' /\ Unraced'
    BY SoundNext, UnracedNext DEF ServeInv
  <2>2. ASSUME UNCHANGED vars
        PROVE  (~drifted' => Steady') /\ (~raced' => Swapped') /\ ServesSelection'
    BY <2>2 DEF ServeInv, vars, files, engine, history, Steady, Swapped, ServesSelection,
                Honest, EffectiveTier, ModeTier
  <2>3. ASSUME Next
        PROVE  (~drifted' => Steady') /\ (~raced' => Swapped') /\ ServesSelection'
    BY <2>3, SteadySwitch, SteadyMark, SteadyWorld, ServesSwitch, ServesOther DEF Next
  <2> QED
    BY <2>1, <2>2, <2>3 DEF ServeInv
<1> QED
  BY <1>1, ServeInit, PTL DEF Spec

\* The engine serves the selected tier or nothing, but for the moment between
\* the rename of the selection and the engine's restart (complete_tier_switch).
THEOREM ServesWhatIsSelected == Spec => []ServesSelection
<1>1. ServeInv => ServesSelection
  BY DEF ServeInv
<1> QED
  BY <1>1, ServeAlways, PTL

\* sweep_models keeps the files of the tier that is served and of the one that
\* would be launched, however the hardware changes between two runs.
THEOREM SweepIsSafe == Spec => SweepKeepsInUse
<1>1. ServeInv /\ [Next]_vars =>
        [\A t \in onDisk \ onDisk' : ~raced => t \notin {running, EffectiveTier}]_vars
  <2> SUFFICES ASSUME ServeInv, Next, ~raced, NEW t \in onDisk \ onDisk'
               PROVE  t \notin {running, EffectiveTier}
    BY DEF Next
  <2>1. CompleteSweep
    BY DEF Next, SwitchStep, BeginSwitch, Download, CompleteRead, CompleteDecide,
           CompleteRename, CompleteRestart, MarkRead, MarkWrite, MarkRename, Launch,
           ServerCrash, LoadModel, GetHero, Reboot, Tick, Renew, files
  <2>2. switch.pc = "sweep" /\ t # switch.target /\ EffectiveTier \in onDisk
    BY <2>1 DEF CompleteSweep, Swept
  <2>3. switch.target = EffectiveTier /\ running \in {NoTier, EffectiveTier}
    BY <2>2 DEF ServeInv, Swapped
  <2>4. t # NoTier
    BY TierConstants DEF ServeInv, Sound, TypeOK
  <2> QED
    BY <2>2, <2>3, <2>4
<1> QED
  BY <1>1, ServeAlways, PTL DEF Spec, SweepKeepsInUse
=============================================================================
