------------------------------ MODULE MCDownload ------------------------------
(* Download for TLC: what the flows need. *)
EXTENDS Download

\* A flow that downloads a base, then its adapter.
CONSTANTS get, tier, base, adapter
PairNeeds == [f \in Flows |-> <<base, adapter>>]

\* Two flows at once, each at the file of its own tier.
SplitNeeds == [f \in Flows |-> IF f = get THEN <<base>> ELSE <<adapter>>]
=============================================================================
