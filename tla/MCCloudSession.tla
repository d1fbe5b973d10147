--------------------------- MODULE MCCloudSession ---------------------------
(* Two accounts, of which one wants the only model and either may be the
   device's owner, and two calls of the page beside the account dialog. *)
EXTENDS CloudSession, TLC
CONSTANTS a, b, m, c1, c2
MCUser == {a, b}
MCModel == {m}
MCCall == {c1, c2}
MCWants == a :> {m} @@ b :> {}
Sym == Permutations(MCCall)
Nothing == {}
Foreign == {"foreign"}
Fallback == {"fallback"}
=============================================================================
