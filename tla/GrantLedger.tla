---------------------------- MODULE GrantLedger ----------------------------
(* What the cloud session promises of a grant, whatever the network does. The
   device keeps one account's grants for the server. A grant lands or is queued
   for the account the device holds; it leaves the queue only once it has
   landed, or when the device lets go of the account. *)
CONSTANTS User, Model, NoUser
VARIABLES landed, queue, holder
vars == <<landed, queue, holder>>

Init ==
  /\ landed = [u \in User |-> {}]
  /\ queue = {} /\ holder = NoUser

Queue(m) ==
  /\ holder # NoUser
  /\ queue' = queue \cup {m}
  /\ UNCHANGED <<landed, holder>>

Land(u, new) ==
  /\ landed' = [landed EXCEPT ![u] = @ \cup new]
  /\ UNCHANGED <<queue, holder>>

Retire(done) ==
  /\ holder # NoUser /\ done \subseteq landed[holder]
  /\ queue' = queue \ done
  /\ UNCHANGED <<landed, holder>>

\* sign-out, expiry, removal, or another account's first sync
Hold(u) ==
  /\ u # holder
  /\ holder' = u /\ queue' = {}
  /\ UNCHANGED landed

Next ==
  \/ \E m \in Model : Queue(m)
  \/ \E models \in SUBSET Model : Retire(models) \/ \E u \in User : Land(u, models)
  \/ \E u \in User \cup {NoUser} : Hold(u)

Spec == Init /\ [][Next]_vars
=============================================================================
