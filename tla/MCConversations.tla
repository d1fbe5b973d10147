-------------------------- MODULE MCConversations --------------------------
(* Two accounts with up to two chats at a time, one with a folder. *)
EXTENDS Conversations
CONSTANTS a, b, f
MCUser == {a, b}
MCFolder == {f}
MCFiler == {a}
Nothing == {}
Cut == {"cut"}
Outlive == {"outlive"}
Late == {"late"}
=============================================================================
