--------------------------- MODULE MCEngineLifecycle ---------------------------
(* Small instances of EngineLifecycle for TLC. *)
EXTENDS EngineLifecycle, TLC

\* The identities of slots, callers and launches do not matter (used with
\* invariants and action properties only).
Symmetry == Permutations(Watchdogs) \cup Permutations(Servers)
            \cup Permutations(Callers) \cup Permutations(Tiers)
\* Every property of the safety run is about what happens before the first
\* overlap of a start_if_no_model and a restart; nothing is explored past it.
BeforeOverlap == ~overlapped
=============================================================================
