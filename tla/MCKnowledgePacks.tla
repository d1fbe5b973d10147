-------------------------- MODULE MCKnowledgePacks --------------------------
(* Two accounts, one of which builds: one build holds the slot while the other
   is refused it, or has it next. *)
EXTENDS KnowledgePacks

CONSTANTS u1, u2, nobody
Users == {u1, u2}
Builders == {u1}
Nothing == {}
Late == {"late"}
=============================================================================
