------------------------------ MODULE PaidAccess ------------------------------
(* What a user is promised for a payment, whatever is lost, repeated or
   reordered on its way: access to the end of the period, not shortened by
   anything later, and a charge that is owed until that access is there. *)
EXTENDS Naturals
CONSTANTS Users, Subscriptions, Ends  \* the ends of periods, above 0
VARIABLES paidUntil,  \* to when each user's access is paid for, or 0
          forever,    \* the users who bought it for good
          charged,    \* every charge there has been
          owed        \* those that the user may not have got anything for
vars == <<paidUntil, forever, charged, owed>>

Charges == [user : Users, sub : Subscriptions, end : Ends]
HasAccess(c) == c.user \in forever \/ paidUntil[c.user] >= c.end

Init ==
  /\ paidUntil = [u \in Users |-> 0]
  /\ forever \in SUBSET Users
  /\ charged = {} /\ owed = {}

\* A period is charged once
Charge ==
  /\ \E c \in Charges \ charged : charged' = charged \cup {c} /\ owed' = owed \cup {c}
  /\ UNCHANGED <<paidUntil, forever>>

\* Access grows, and only to the end of a period that was charged
Extend ==
  /\ \E c \in charged :
       /\ ~HasAccess(c)
       /\ paidUntil' = [paidUntil EXCEPT ![c.user] = c.end]
  /\ UNCHANGED <<forever, charged, owed>>

\* Nothing is taken off the books before the user has got it
Settle ==
  /\ \E c \in owed : HasAccess(c) /\ owed' = owed \ {c}
  /\ UNCHANGED <<paidUntil, forever, charged>>

Next == Charge \/ Extend \/ Settle

Spec == Init /\ [][Next]_vars
=============================================================================
