----------------------------- MODULE Subscription -----------------------------
(***************************************************************************)
(* Paid access to the hero model (supabase/): create-checkout opens a      *)
(* Stripe session, Stripe charges it every period and reports each paid    *)
(* invoice to stripe-webhook, at least once and in any order, and          *)
(* apply_subscription_period (migration 0006) turns the invoices of a user *)
(* into one entitlements row.  stripe_customers remembers the Stripe       *)
(* customer whose subscriptions customer-portal can cancel.                *)
(*                                                                         *)
(* One model, the only one sold.  A subscription is named by the session   *)
(* that started it, and so is the customer that Stripe creates for a       *)
(* session opened without one.  Left out: requests that are refused before *)
(* they touch anything (signature, registry and price checks) and the      *)
(* entitlement cap, from which purchases are exempt (migration 0007).      *)
(***************************************************************************)
EXTENDS Naturals

CONSTANTS
  Users,
  Sessions,    \* Stripe Checkout sessions
  Handlers,    \* concurrent invocations of stripe-webhook
  Null,        \* no expiry
  NoSession,   \* no customer
  Period,      \* a billing period, in hours
  MaxHour      \* bound on the clock and on the ends of periods

ASSUME SubscriptionConstants ==
  /\ Null \notin Nat
  /\ NoSession \notin Sessions
  /\ Period \in Nat \ {0}
  /\ MaxHour \in Nat

VARIABLES
  hour,          \* the clock
  row,           \* public.entitlements, the hero's row of each user
  customerOf,    \* public.stripe_customers
  request,       \* create-checkout, one request of a user at a time
  session,       \* Stripe's sessions
  sub,           \* Stripe's subscriptions
  due, acked,    \* paid invoices Stripe has yet to report, and has reported
  handler,       \* stripe-webhook's invocations
  grandfathered, \* the users with a lifetime purchase from before
  applied        \* history: the period ends written to each user's row

database == <<row, customerOf>>
stripe == <<session, sub, due, acked>>
vars == <<hour, database, request, stripe, handler, grandfathered, applied>>

Row == [source : {"none", "trial", "library", "purchase"}, expires : Nat \cup {Null}]
NoRow == [source |-> "none", expires |-> Null]
Lifetime == [source |-> "purchase", expires |-> Null]

Invoice == [sub : Sessions, end : Nat]
Invocation == [pc : {"apply", "map", "reply"}, invoice : Invoice]
Request == [pc : {"idle", "lookup", "create"}, customer : Sessions \cup {NoSession}]
NoRequest == [pc |-> "idle", customer |-> NoSession]
Session == [state : {"open", "paid"}, user : Users, hour : Nat, customer : Sessions \cup {NoSession}]
Free == [state |-> "free"]
Opened(u, customer) == [state |-> "open", user |-> u, hour |-> hour, customer |-> customer]

\* A lifetime purchase may have landed (no code grants one any more) while the
\* user had a subscription session open.
Init ==
  /\ hour = 0
  /\ grandfathered \in SUBSET Users
  /\ row = [u \in Users |-> IF u \in grandfathered THEN Lifetime ELSE NoRow]
  /\ customerOf = [u \in Users |-> NoSession]
  /\ request = [u \in Users |-> NoRequest]
  /\ session \in [Sessions -> {Free} \cup {Opened(u, NoSession) : u \in grandfathered}]
  /\ \A s, t \in Sessions : session[s] = session[t] /\ session[s] # Free => s = t
  /\ sub = [s \in Sessions |-> [state |-> "none", paidTo |-> 0]]
  /\ due = {}
  /\ acked = {}
  /\ handler = [h \in Handlers |-> [pc |-> "idle"]]
  /\ applied = [u \in Users |-> {}]

-----------------------------------------------------------------------------
(* create-checkout                                                         *)

\* A purchase that has not expired.
Owned(u) == row[u].source = "purchase" /\ (row[u].expires = Null \/ row[u].expires > hour)

CheckoutCheck(u) ==
  /\ request[u].pc = "idle"
  /\ ~Owned(u)
  /\ request' = [request EXCEPT ![u].pc = "lookup"]
  /\ UNCHANGED <<hour, database, stripe, handler, grandfathered, applied>>

CheckoutLookup(u) ==
  /\ request[u].pc = "lookup"
  /\ request' = [request EXCEPT ![u] = [pc |-> "create", customer |-> customerOf[u]]]
  /\ UNCHANGED <<hour, database, stripe, handler, grandfathered, applied>>

\* The idempotency key is the user and the hour: a second request of the hour
\* gets the session of the first, or an error if its customer differs.  Stripe
\* may also not be reached.
CheckoutCreate(u) ==
  LET sameKey(s) == session[s] # Free /\ session[s].user = u /\ session[s].hour = hour IN
  /\ request[u].pc = "create"
  /\ request' = [request EXCEPT ![u] = NoRequest]
  /\ \/ UNCHANGED session
     \/ /\ ~ \E s \in Sessions : sameKey(s)
        /\ \E s \in Sessions :
             /\ session[s] = Free
             /\ session' = [session EXCEPT ![s] = Opened(u, request[u].customer)]
  /\ UNCHANGED <<hour, database, sub, due, acked, handler, grandfathered, applied>>

-----------------------------------------------------------------------------
(* Stripe                                                                  *)

CustomerOfSub(s) == IF session[s].customer = NoSession THEN s ELSE session[s].customer

\* The user completes a session: the first period is charged.
Pay(s) ==
  /\ session[s].state = "open"
  /\ hour + Period <= MaxHour
  /\ session' = [session EXCEPT ![s].state = "paid"]
  /\ sub' = [sub EXCEPT ![s] = [state |-> "active", paidTo |-> hour + Period]]
  /\ due' = due \cup {[sub |-> s, end |-> hour + Period]}
  /\ UNCHANGED <<hour, database, request, acked, handler, grandfathered, applied>>

\* The next period is charged, perhaps after some failed attempts.
Renew(s) ==
  /\ sub[s].state = "active"
  /\ hour >= sub[s].paidTo
  /\ sub[s].paidTo + Period <= MaxHour
  /\ sub' = [sub EXCEPT ![s].paidTo = @ + Period]
  /\ due' = due \cup {[sub |-> s, end |-> sub[s].paidTo + Period]}
  /\ UNCHANGED <<hour, database, request, session, acked, handler, grandfathered, applied>>

\* customer-portal opens on the mapped customer; without a payment Stripe
\* gives up by itself.
EndSub(s) ==
  /\ sub[s].state = "active"
  /\ customerOf[session[s].user] = CustomerOfSub(s) \/ hour > sub[s].paidTo
  /\ sub' = [sub EXCEPT ![s].state = "ended"]
  /\ UNCHANGED <<hour, database, request, session, due, acked, handler, grandfathered, applied>>

\* An invoice is reported until it is acknowledged, and perhaps once more.
Deliver(h, i) ==
  /\ handler[h].pc = "idle"
  /\ i \in due \cup acked
  /\ handler' = [handler EXCEPT ![h] = [pc |-> "apply", invoice |-> i]]
  /\ UNCHANGED <<hour, database, request, stripe, grandfathered, applied>>

-----------------------------------------------------------------------------
(* stripe-webhook: handleInvoicePaid                                       *)

\* Mutant: the last write wins.
Extended_Overwrite(r, end) ==
  IF r = Lifetime THEN r ELSE [source |-> "purchase", expires |-> end]

\* apply_subscription_period, one statement
Extended(r, end) ==
  IF r = Lifetime THEN r
  ELSE [source |-> "purchase",
        expires |-> IF r.expires = Null \/ end > r.expires THEN end ELSE r.expires]

\* The user of an invoice, from the subscription's metadata
Payer(i) == session[i.sub].user

HandleApply(h) ==
  /\ handler[h].pc = "apply"
  /\ LET i == handler[h].invoice
         u == Payer(i) IN
     /\ row' = [row EXCEPT ![u] = Extended(row[u], i.end)]
     /\ applied' = [applied EXCEPT ![u] = @ \cup {i.end}]
  /\ handler' = [handler EXCEPT ![h].pc = "map"]
  /\ UNCHANGED <<hour, customerOf, request, stripe, grandfathered>>

\* The customer is recorded, over any earlier one; an error (a customer that
\* is another user's, the network) is only logged.
HandleMap(h) ==
  /\ handler[h].pc = "map"
  /\ LET i == handler[h].invoice
         u == Payer(i)
         c == CustomerOfSub(i.sub) IN
     \/ /\ \A v \in Users \ {u} : customerOf[v] # c
        /\ customerOf' = [customerOf EXCEPT ![u] = c]
     \/ UNCHANGED customerOf
  /\ handler' = [handler EXCEPT ![h].pc = "reply"]
  /\ UNCHANGED <<hour, row, request, stripe, grandfathered, applied>>

HandleReply(h) ==
  /\ handler[h].pc = "reply"
  /\ due' = due \ {handler[h].invoice}
  /\ acked' = acked \cup {handler[h].invoice}
  /\ handler' = [handler EXCEPT ![h] = [pc |-> "idle"]]
  /\ UNCHANGED <<hour, database, request, session, sub, grandfathered, applied>>

\* Mutant: a storage error is acknowledged.
HandleFail_Ack(h) ==
  /\ handler[h].pc # "idle"
  /\ due' = due \ {handler[h].invoice}
  /\ acked' = acked \cup {handler[h].invoice}
  /\ handler' = [handler EXCEPT ![h] = [pc |-> "idle"]]
  /\ UNCHANGED <<hour, database, request, session, sub, grandfathered, applied>>

\* Misconfigured, a storage error, or the invocation or its answer is lost.
HandleFail(h) ==
  /\ handler[h].pc # "idle"
  /\ handler' = [handler EXCEPT ![h] = [pc |-> "idle"]]
  /\ UNCHANGED <<hour, database, request, stripe, grandfathered, applied>>

-----------------------------------------------------------------------------
(* The user's own grant (row-level security lets clients insert a trial or *)
(* library row and change none; a duplicate is ignored), and the clock.    *)

GrantFree(u) ==
  /\ row[u] = NoRow
  /\ \E source \in {"trial", "library"} :
       row' = [row EXCEPT ![u] = [source |-> source, expires |-> Null]]
  /\ UNCHANGED <<hour, customerOf, request, stripe, handler, grandfathered, applied>>

Tick ==
  /\ hour < MaxHour
  /\ hour' = hour + 1
  /\ UNCHANGED <<database, request, stripe, handler, grandfathered, applied>>

User(u) == CheckoutCheck(u) \/ CheckoutLookup(u) \/ CheckoutCreate(u) \/ GrantFree(u)
Handle(h) == HandleApply(h) \/ HandleMap(h) \/ HandleReply(h) \/ HandleFail(h)

Next ==
  \/ \E u \in Users : User(u)
  \/ \E s \in Sessions : Pay(s) \/ Renew(s) \/ EndSub(s)
  \/ \E h \in Handlers, i \in due \cup acked : Deliver(h, i)
  \/ \E h \in Handlers : Handle(h)
  \/ Tick

Spec == Init /\ [][Next]_vars

\* Stripe reports an invoice again and again until it is acknowledged, and a
\* handler that keeps being called for it does not fail for ever.
Invoices == [sub : Sessions, end : 1 .. MaxHour]
Reported(i) == i \in due /\ \E h \in Handlers : Deliver(h, i)
Stored(i) == \E h \in Handlers : handler[h].pc = "apply" /\ handler[h].invoice = i /\ HandleApply(h)
Fairness ==
  /\ \A i \in Invoices : SF_vars(Reported(i)) /\ SF_vars(Stored(i))
  /\ \A h \in Handlers : WF_vars(Handle(h))
FairSpec == Spec /\ Fairness

-----------------------------------------------------------------------------
(* Properties *)

\* Every variable has its type, subscriptions and invoices come from a session
\* that was opened, and what a client may insert never expires
\* ("Client trial/library rows are always null-expiry", migration 0006).
TypeOK ==
  /\ hour \in Nat
  /\ row \in [Users -> Row]
  /\ \A u \in Users : row[u].source # "purchase" => row[u].expires = Null
  /\ customerOf \in [Users -> Sessions \cup {NoSession}]
  /\ request \in [Users -> Request]
  /\ session \in [Sessions -> {Free} \cup Session]
  /\ sub \in [Sessions -> [state : {"none", "active", "ended"}, paidTo : Nat]]
  /\ \A s \in Sessions : sub[s].state # "none" => session[s] # Free
  /\ due \subseteq Invoice /\ acked \subseteq Invoice
  /\ \A i \in due \cup acked : session[i.sub] # Free
  /\ handler \in [Handlers -> {[pc |-> "idle"]} \cup Invocation]
  /\ \A h \in Handlers : handler[h].pc # "idle" => session[handler[h].invoice.sub] # Free
  /\ grandfathered \subseteq Users
  /\ applied \in [Users -> SUBSET Nat]

\* The row depends on which invoices were applied and on nothing else: not on
\* their order, their repetition or the moment a free grant was made.  A
\* lifetime purchase stays one, only an invoice makes a purchase, and its
\* expiry is the end of the last period paid for.
RowIsLastPeriod ==
  \A u \in Users :
    IF u \in grandfathered THEN row[u] = Lifetime
    ELSE IF applied[u] = {} THEN row[u].source # "purchase"
    ELSE /\ row[u].source = "purchase"
         /\ row[u].expires \in applied[u]
         /\ \A end \in applied[u] : end <= row[u].expires

\* Access, once paid for, is never shortened, whatever Stripe replays.
NeverShortened ==
  [][\A u \in Users : row[u].source = "purchase" =>
       /\ row'[u].source = "purchase"
       /\ row[u].expires = Null => row'[u].expires = Null
       /\ row[u].expires # Null => row'[u].expires # Null /\ row'[u].expires >= row[u].expires]_vars

\* Subscription implements PaidAccess: a user's access follows the periods charged
\* and nothing else, whatever the order of the reports, and Stripe is told that an
\* invoice has arrived only when its period is in the row.
Charged(invoices) == {[user |-> Payer(i), sub |-> i.sub, end |-> i.end] : i \in invoices}
PaidUntil(r) == IF r.source = "purchase" /\ r.expires # Null THEN r.expires ELSE 0
Account == INSTANCE PaidAccess WITH
  Subscriptions <- Sessions, Ends <- 1 .. MaxHour,
  paidUntil <- [u \in Users |-> PaidUntil(row[u])],
  forever <- {u \in Users : row[u] = Lifetime},
  charged <- Charged(due \cup acked),
  owed <- Charged(due)
AccessAsPaid == Account!Spec

\* Every invoice that was paid ends up as access at least that long.
PaidGetsAccess ==
  \A i \in Invoices, u \in Users :
    i \in due /\ Payer(i) = u ~>
      row[u].source = "purchase" /\ (row[u].expires = Null \/ row[u].expires >= i.end)

=============================================================================
