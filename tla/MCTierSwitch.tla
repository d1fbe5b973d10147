----------------------------- MODULE MCTierSwitch -----------------------------
(* TierSwitch for TLC. *)
EXTENDS TierSwitch

\* The safety run stops where a stale selection has been written: no invariant
\* of it speaks of what comes after.
BeforeRace == ~raced
=============================================================================
