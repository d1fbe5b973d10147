------------------------------ MODULE EngineSlot ------------------------------
(* What the engine promises its callers, whichever threads start, restart and
   tear it down: of the servers that this process launches one runs at a time,
   and each is launched on the tier that is selected at that moment. *)
CONSTANTS Servers, Tiers
VARIABLES serving,   \* the server that runs, with its tier: a set of at most one
          selected
vars == <<serving, selected>>

Init == serving = {} /\ selected \in Tiers

\* Only once the one before it has ended
Launch(s) ==
  /\ serving = {}
  /\ serving' = {<<s, selected>>}
  /\ UNCHANGED selected

End ==
  /\ serving # {} /\ serving' = {}
  /\ UNCHANGED selected

Select(t) ==
  /\ selected' = t
  /\ UNCHANGED serving

Next ==
  \/ \E s \in Servers : Launch(s)
  \/ End
  \/ \E t \in Tiers : Select(t)

Spec == Init /\ [][Next]_vars
=============================================================================
