-------------------------- MODULE SubscriptionProofs --------------------------
(***************************************************************************)
(* Theorems about Subscription, for any number of users, sessions and      *)
(* concurrent webhook invocations, any billing period and any bound on the *)
(* clock.                                                                  *)
(***************************************************************************)
EXTENDS Subscription, TLAPS

-----------------------------------------------------------------------------
(* apply_subscription_period, as an operator on rows                       *)

\* It makes a purchase of any row.
LEMMA ExtendedType ==
  ASSUME NEW r \in Row, NEW end \in Nat
  PROVE  Extended(r, end) \in Row /\ Extended(r, end).source = "purchase"
BY DEF Extended, Row, Lifetime

\* A lifetime purchase is the row with source purchase that never expires.
LEMMA LifetimeRow ==
  ASSUME NEW r \in Row, r.source = "purchase", r.expires = Null
  PROVE  r = Lifetime
BY DEF Row, Lifetime

\* Any other purchase gets the later of the two ends.
LEMMA ExtendedExpiry ==
  ASSUME NEW r \in Row, NEW end \in Nat, r # Lifetime
  PROVE  /\ r.source = "purchase" => r.expires \in Nat /\ Extended(r, end).expires >= r.expires
         /\ Extended(r, end).expires >= end
         /\ Extended(r, end).expires \in {end} \cup {r.expires}
         /\ Extended(r, end).expires \in Nat
<1>1. r.expires \in Nat \cup {Null}
  BY DEF Row
<1>2. r.source = "purchase" => r.expires \in Nat
  BY <1>1, LifetimeRow
<1>3. Extended(r, end).expires = IF r.expires = Null \/ end > r.expires THEN end ELSE r.expires
  BY DEF Extended
<1> QED
  BY <1>1, <1>2, <1>3, SubscriptionConstants

-----------------------------------------------------------------------------
(* Types *)

\* A session that is not free names the user who will pay.
LEMMA PayerType ==
  ASSUME TypeOK, NEW s \in Sessions, session[s] # Free
  PROVE  /\ session[s] \in Session
         /\ session[s].user \in Users
BY DEF TypeOK, Session

LEMMA OpenIsNotFree == \A s \in Sessions : session[s].state \in {"open", "paid"} => session[s] # Free
BY DEF Free

\* What a working invocation holds.
LEMMA HandlerInvoice ==
  ASSUME TypeOK, NEW h \in Handlers, handler[h].pc # "idle"
  PROVE  /\ handler[h] \in Invocation
         /\ handler[h].invoice \in Invoice
         /\ handler[h].invoice.sub \in Sessions /\ handler[h].invoice.end \in Nat
         /\ session[handler[h].invoice.sub] # Free
         /\ Payer(handler[h].invoice) \in Users
<1>1. handler[h] \in Invocation
  BY DEF TypeOK
<1>2. handler[h].invoice \in Invoice
  BY <1>1 DEF Invocation
<1>3. handler[h].invoice.sub \in Sessions /\ handler[h].invoice.end \in Nat
  BY <1>2 DEF Invoice
<1>4. session[handler[h].invoice.sub] # Free
  BY DEF TypeOK
<1> QED
  BY <1>1, <1>2, <1>3, <1>4, PayerType DEF Payer

LEMMA TypeInit == Init => TypeOK
<1> SUFFICES ASSUME Init PROVE TypeOK
  OBVIOUS
<1>1. \A u \in Users : Opened(u, NoSession) \in Session
  BY DEF Init, Opened, Session
<1>2. session \in [Sessions -> {Free} \cup Session]
  BY <1>1 DEF Init
<1>3. /\ row \in [Users -> Row]
      /\ \A u \in Users : row[u].source # "purchase" => row[u].expires = Null
  BY DEF Init, Row, NoRow, Lifetime
<1>4. request \in [Users -> Request]
  BY DEF Init, NoRequest, Request
<1> QED
  BY <1>2, <1>3, <1>4 DEF Init, TypeOK

\* create-checkout and the user's own grant
LEMMA TypeUser == ASSUME TypeOK, NEW u \in Users, User(u) PROVE TypeOK'
<1>1. CASE CheckoutCheck(u)
  BY <1>1 DEF TypeOK, CheckoutCheck, database, stripe, Request
<1>2. CASE CheckoutLookup(u)
  BY <1>2 DEF TypeOK, CheckoutLookup, database, stripe, Request
<1>3. CASE CheckoutCreate(u)
  <2>1. UNCHANGED <<hour, database, sub, due, acked, handler, grandfathered, applied>>
    BY <1>3 DEF CheckoutCreate
  <2>2. request' \in [Users -> Request]
    BY <1>3 DEF CheckoutCreate, TypeOK, NoRequest, Request
  <2>3. Opened(u, request[u].customer) \in Session
    BY DEF Opened, TypeOK, Session, Request
  <2>4. Opened(u, request[u].customer) # Free
    BY DEF Opened, Free
  <2>5. UNCHANGED session \/ \E s \in Sessions :
          session[s] = Free /\ session' = [session EXCEPT ![s] = Opened(u, request[u].customer)]
    BY <1>3 DEF CheckoutCreate
  <2>6. /\ session' \in [Sessions -> {Free} \cup Session]
        /\ \A s \in Sessions : session[s] # Free => session'[s] # Free
    BY <2>3, <2>4, <2>5 DEF TypeOK
  <2>7. /\ \A i \in due \cup acked : i.sub \in Sessions
        /\ \A h \in Handlers : handler[h].pc # "idle" => handler[h].invoice.sub \in Sessions
    BY HandlerInvoice DEF TypeOK, Invoice
  <2> QED
    BY <2>1, <2>2, <2>6, <2>7 DEF TypeOK, database
<1>4. CASE GrantFree(u)
  BY <1>4 DEF TypeOK, GrantFree, Row, NoRow, stripe
<1> QED
  BY <1>1, <1>2, <1>3, <1>4 DEF User

\* Stripe's own steps
LEMMA TypeStripe ==
  ASSUME TypeOK, NEW s \in Sessions, Pay(s) \/ Renew(s) \/ EndSub(s)
  PROVE  TypeOK'
<1>0. /\ \A i \in due \cup acked : i.sub \in Sessions
      /\ \A h \in Handlers : handler[h].pc # "idle" => handler[h].invoice.sub \in Sessions
  BY HandlerInvoice DEF TypeOK, Invoice
<1>1. CASE Pay(s)
  <2>1. session[s] # Free
    BY <1>1, OpenIsNotFree DEF Pay
  <2>2. [session[s] EXCEPT !.state = "paid"] \in Session
    BY <2>1, PayerType DEF Session
  <2>3. [session[s] EXCEPT !.state = "paid"] # Free
    BY <2>2 DEF Free
  <2>4. /\ session' \in [Sessions -> {Free} \cup Session]
        /\ \A t \in Sessions : session[t] # Free => session'[t] # Free
        /\ session'[s] # Free
    BY <1>1, <2>2, <2>3 DEF TypeOK, Pay
  <2>5. hour + Period \in Nat
    BY SubscriptionConstants DEF TypeOK
  <2>6. /\ sub' \in [Sessions -> [state : {"none", "active", "ended"}, paidTo : Nat]]
        /\ due' \subseteq Invoice
        /\ \A i \in due' : i \in due \/ i.sub = s
    BY <1>1, <2>5 DEF Pay, TypeOK, Invoice
  <2> QED
    BY <1>0, <1>1, <2>4, <2>6 DEF TypeOK, Pay, database
<1>2. CASE Renew(s)
  <2>1. sub[s].paidTo + Period \in Nat
    BY SubscriptionConstants DEF TypeOK
  <2>2. /\ sub' \in [Sessions -> [state : {"none", "active", "ended"}, paidTo : Nat]]
        /\ due' \subseteq Invoice
        /\ \A i \in due' : i \in due \/ i.sub = s
    BY <1>2, <2>1 DEF Renew, TypeOK, Invoice
  <2>3. session[s] # Free
    BY <1>2 DEF Renew, TypeOK
  <2> QED
    BY <1>2, <2>2, <2>3 DEF TypeOK, Renew, database
<1>3. CASE EndSub(s)
  BY <1>3 DEF TypeOK, EndSub, database
<1> QED
  BY <1>1, <1>2, <1>3

\* An invoice is handed to stripe-webhook.
LEMMA TypeDeliver ==
  ASSUME TypeOK, NEW h \in Handlers, NEW i \in due \cup acked, Deliver(h, i)
  PROVE  TypeOK'
<1>1. i \in Invoice /\ session[i.sub] # Free
  BY DEF TypeOK
<1>2. [pc |-> "apply", invoice |-> i] \in Invocation
  BY <1>1 DEF Invocation
<1>3. handler' = [handler EXCEPT ![h] = [pc |-> "apply", invoice |-> i]]
  BY DEF Deliver
<1>4. handler' \in [Handlers -> {[pc |-> "idle"]} \cup Invocation]
  BY <1>2, <1>3 DEF TypeOK
<1>5. \A g \in Handlers : handler'[g].pc # "idle" => session[handler'[g].invoice.sub] # Free
  BY <1>1, <1>3 DEF TypeOK
<1> QED
  BY <1>4, <1>5 DEF TypeOK, Deliver, database, stripe

\* A working invocation changes its program counter, or ends.
LEMMA TypeAdvance ==
  ASSUME TypeOK, NEW h \in Handlers, handler[h].pc # "idle",
         \/ \E pc \in {"map", "reply"} : handler' = [handler EXCEPT ![h].pc = pc]
         \/ handler' = [handler EXCEPT ![h] = [pc |-> "idle"]],
         UNCHANGED session
  PROVE  /\ handler' \in [Handlers -> {[pc |-> "idle"]} \cup Invocation]
         /\ \A g \in Handlers : handler'[g].pc # "idle" => session'[handler'[g].invoice.sub] # Free
<1>1. CASE handler' = [handler EXCEPT ![h] = [pc |-> "idle"]]
  BY <1>1 DEF TypeOK
<1>2. ASSUME NEW pc \in {"map", "reply"}, handler' = [handler EXCEPT ![h].pc = pc]
      PROVE  /\ handler' \in [Handlers -> {[pc |-> "idle"]} \cup Invocation]
             /\ \A g \in Handlers :
                  handler'[g].pc # "idle" => session'[handler'[g].invoice.sub] # Free
  <2>1. [handler[h] EXCEPT !.pc = pc] \in Invocation
    BY HandlerInvoice DEF Invocation
  <2>2. handler' = [handler EXCEPT ![h] = [handler[h] EXCEPT !.pc = pc]]
    BY <1>2
  <2>3. [handler[h] EXCEPT !.pc = pc].invoice = handler[h].invoice
    BY HandlerInvoice
  <2>4. handler' \in [Handlers -> {[pc |-> "idle"]} \cup Invocation]
    BY <2>1, <2>2 DEF TypeOK
  <2>5. \A g \in Handlers : /\ g # h => handler'[g] = handler[g]
                           /\ handler'[h].invoice = handler[h].invoice
    BY <2>2, <2>3 DEF TypeOK
  <2> QED
    BY <2>4, <2>5, HandlerInvoice DEF TypeOK
<1> QED
  BY <1>1, <1>2

\* The row of the payer, written by apply_subscription_period
LEMMA AppliedRow ==
  ASSUME TypeOK, NEW h \in Handlers, HandleApply(h)
  PROVE  \E i \in Invoice, u \in Users :
           /\ i.end \in Nat
           /\ row' = [row EXCEPT ![u] = Extended(row[u], i.end)]
           /\ applied' = [applied EXCEPT ![u] = @ \cup {i.end}]
<1>1. handler[h].pc # "idle"
  BY DEF HandleApply
<1> QED
  BY <1>1, HandlerInvoice DEF HandleApply

LEMMA TypeHandle == ASSUME TypeOK, NEW h \in Handlers, Handle(h) PROVE TypeOK'
<1>0. handler[h].pc # "idle"
  BY DEF Handle, HandleApply, HandleMap, HandleReply, HandleFail
<1>1. UNCHANGED <<session, sub, hour, request, grandfathered>>
  BY DEF Handle, HandleApply, HandleMap, HandleReply, HandleFail, database, stripe
<1>2. /\ handler' \in [Handlers -> {[pc |-> "idle"]} \cup Invocation]
      /\ \A g \in Handlers : handler'[g].pc # "idle" => session'[handler'[g].invoice.sub] # Free
  <2>1. \/ \E pc \in {"map", "reply"} : handler' = [handler EXCEPT ![h].pc = pc]
        \/ handler' = [handler EXCEPT ![h] = [pc |-> "idle"]]
    BY DEF Handle, HandleApply, HandleMap, HandleReply, HandleFail
  <2> QED
    BY <1>0, <1>1, <2>1, TypeAdvance
<1>3. CASE HandleApply(h)
  <2>1. PICK i \in Invoice, u \in Users :
           /\ i.end \in Nat
           /\ row' = [row EXCEPT ![u] = Extended(row[u], i.end)]
           /\ applied' = [applied EXCEPT ![u] = @ \cup {i.end}]
    BY <1>3, AppliedRow
  <2>2. row[u] \in Row
    BY DEF TypeOK
  <2>3. Extended(row[u], i.end) \in Row /\ Extended(row[u], i.end).source = "purchase"
    BY <2>1, <2>2, ExtendedType
  <2>4. row' \in [Users -> Row] /\ applied' \in [Users -> SUBSET Nat]
    BY <2>1, <2>3 DEF TypeOK
  <2>5. \A v \in Users : row'[v].source # "purchase" => row'[v].expires = Null
    BY <2>1, <2>3 DEF TypeOK
  <2> QED
    BY <1>1, <1>2, <1>3, <2>4, <2>5 DEF TypeOK, HandleApply, stripe
<1>4. CASE HandleMap(h)
  <2>1. CustomerOfSub(handler[h].invoice.sub) \in Sessions \cup {NoSession}
    <3>1. handler[h].invoice.sub \in Sessions /\ session[handler[h].invoice.sub] # Free
      BY <1>0, HandlerInvoice
    <3> QED
      BY <3>1, PayerType DEF CustomerOfSub, Session
  <2>2. customerOf' \in [Users -> Sessions \cup {NoSession}]
    BY <1>4, <2>1 DEF HandleMap, TypeOK
  <2> QED
    BY <1>1, <1>2, <1>4, <2>2 DEF TypeOK, HandleMap, stripe
<1>5. CASE HandleReply(h)
  <2>1. handler[h].invoice \in Invoice /\ session[handler[h].invoice.sub] # Free
    BY <1>0, HandlerInvoice
  <2> QED
    BY <1>1, <1>2, <1>5, <2>1 DEF TypeOK, HandleReply, database
<1>6. CASE HandleFail(h)
  BY <1>1, <1>2, <1>6 DEF TypeOK, HandleFail, database, stripe
<1> QED
  BY <1>3, <1>4, <1>5, <1>6 DEF Handle

LEMMA TypeNext == TypeOK /\ [Next]_vars => TypeOK'
<1> SUFFICES ASSUME TypeOK, [Next]_vars PROVE TypeOK'
  OBVIOUS
<1>1. CASE \E u \in Users : User(u)
  BY <1>1, TypeUser
<1>2. CASE \E s \in Sessions : Pay(s) \/ Renew(s) \/ EndSub(s)
  BY <1>2, TypeStripe
<1>3. CASE \E h \in Handlers, i \in due \cup acked : Deliver(h, i)
  BY <1>3, TypeDeliver
<1>4. CASE \E h \in Handlers : Handle(h)
  BY <1>4, TypeHandle
<1>5. CASE Tick
  BY <1>5 DEF TypeOK, Tick, database, stripe
<1>6. CASE UNCHANGED vars
  BY <1>6 DEF TypeOK, vars, database, stripe
<1> QED
  BY <1>1, <1>2, <1>3, <1>4, <1>5, <1>6 DEF Next

\* Every reachable state is well typed, and every invoice in flight belongs to
\* a session that a user opened.
THEOREM Typing == Spec => []TypeOK
BY TypeInit, TypeNext, PTL DEF Spec

-----------------------------------------------------------------------------
(* The row is the last period paid for.                                    *)

LEMMA RowInit == Init => RowIsLastPeriod
<1> SUFFICES ASSUME Init, NEW u \in Users
    PROVE  IF u \in grandfathered THEN row[u] = Lifetime
           ELSE applied[u] = {} /\ row[u].source # "purchase"
  BY DEF RowIsLastPeriod
<1>1. applied[u] = {}
  BY DEF Init
<1>2. row[u] = IF u \in grandfathered THEN Lifetime ELSE NoRow
  BY DEF Init
<1> QED
  BY <1>1, <1>2 DEF NoRow

\* A free grant only fills an empty row, which no invoice has touched.
LEMMA RowGrant ==
  ASSUME TypeOK, RowIsLastPeriod, NEW u \in Users, GrantFree(u)
  PROVE  RowIsLastPeriod'
<1>1. row[u].source = "none"
  BY DEF GrantFree, NoRow
<1>2. u \notin grandfathered /\ applied[u] = {}
  BY <1>1 DEF RowIsLastPeriod, Lifetime
<1>3. \A v \in Users : v # u => row'[v] = row[v]
  BY DEF GrantFree, TypeOK
<1>4. row'[u].source # "purchase"
  BY DEF GrantFree, TypeOK
<1> QED
  BY <1>2, <1>3, <1>4 DEF RowIsLastPeriod, GrantFree

\* One application of a period, to a row that obeys the property.
LEMMA RowApply ==
  ASSUME TypeOK, RowIsLastPeriod, NEW h \in Handlers, HandleApply(h)
  PROVE  RowIsLastPeriod'
<1>1. PICK i \in Invoice, u \in Users :
         /\ i.end \in Nat
         /\ row' = [row EXCEPT ![u] = Extended(row[u], i.end)]
         /\ applied' = [applied EXCEPT ![u] = @ \cup {i.end}]
  BY AppliedRow
<1>2. UNCHANGED grandfathered
  BY DEF HandleApply
<1>3. /\ \A v \in Users : v # u => row'[v] = row[v] /\ applied'[v] = applied[v]
      /\ row'[u] = Extended(row[u], i.end)
      /\ applied'[u] = applied[u] \cup {i.end}
  BY <1>1 DEF TypeOK
<1>4. row[u] \in Row /\ applied[u] \subseteq Nat
  BY DEF TypeOK
<1>5. CASE u \in grandfathered
  <2>1. row[u] = Lifetime
    BY <1>5 DEF RowIsLastPeriod
  <2>2. row'[u] = Lifetime
    BY <1>3, <2>1 DEF Extended
  <2> QED
    BY <1>2, <1>3, <1>5, <2>2 DEF RowIsLastPeriod
<1>6. CASE u \notin grandfathered
  <2>1. row[u] # Lifetime
    <3>1. CASE applied[u] = {}
      BY <1>6, <3>1 DEF RowIsLastPeriod, Lifetime
    <3>2. CASE applied[u] # {}
      BY <1>4, <1>6, <3>2, SubscriptionConstants DEF RowIsLastPeriod, Lifetime
    <3> QED
      BY <3>1, <3>2
  <2>2. /\ row'[u].expires >= i.end
        /\ row'[u].expires \in {i.end} \cup {row[u].expires}
        /\ row'[u].expires \in Nat
        /\ row[u].source = "purchase" => row[u].expires \in Nat /\ row'[u].expires >= row[u].expires
    BY <1>1, <1>3, <1>4, <2>1, ExtendedExpiry
  <2>3. row'[u].source = "purchase"
    BY <1>1, <1>3, <1>4, ExtendedType
  <2>4. row'[u].expires \in applied'[u] /\ \A end \in applied'[u] : end <= row'[u].expires
    <3>1. CASE applied[u] = {}
      <4>1. row[u].expires = Null
        BY <1>6, <3>1 DEF RowIsLastPeriod, TypeOK
      <4> QED
        BY <1>1, <1>3, <2>2, <3>1, <4>1, SubscriptionConstants
    <3>2. CASE applied[u] # {}
      <4>1. /\ row[u].source = "purchase" /\ row[u].expires \in applied[u]
            /\ \A end \in applied[u] : end <= row[u].expires
        BY <1>6, <3>2 DEF RowIsLastPeriod
      <4> QED
        BY <1>1, <1>3, <1>4, <2>2, <4>1
    <3> QED
      BY <3>1, <3>2
  <2> QED
    BY <1>2, <1>3, <1>6, <2>3, <2>4 DEF RowIsLastPeriod
<1> QED
  BY <1>5, <1>6

\* No other step touches rows or what was applied to them.
LEMMA RowFrame ==
  ASSUME RowIsLastPeriod, UNCHANGED <<row, applied, grandfathered>>
  PROVE  RowIsLastPeriod'
BY DEF RowIsLastPeriod

LEMMA RowSteps ==
  ASSUME [Next]_vars
  PROVE  \/ \E u \in Users : GrantFree(u)
         \/ \E h \in Handlers : HandleApply(h)
         \/ UNCHANGED <<row, applied, grandfathered>>
BY DEF Next, User, Handle, CheckoutCheck, CheckoutLookup, CheckoutCreate, Pay, Renew, EndSub,
       Deliver, HandleMap, HandleReply, HandleFail, Tick, vars, database, stripe

LEMMA RowNext == TypeOK /\ RowIsLastPeriod /\ [Next]_vars => RowIsLastPeriod'
BY RowGrant, RowApply, RowFrame, RowSteps

\* apply_subscription_period makes late, repeated and reordered invoices
\* harmless: the row only depends on which of them were applied.
THEOREM LastPeriod == Spec => []RowIsLastPeriod
BY RowInit, RowNext, Typing, PTL DEF Spec

\* One step never takes paid access away ...
LEMMA KeepsStep ==
  ASSUME TypeOK, [Next]_vars
  PROVE  \A u \in Users : row[u].source = "purchase" =>
           /\ row'[u].source = "purchase"
           /\ row[u].expires = Null => row'[u].expires = Null
           /\ row[u].expires # Null => row'[u].expires # Null /\ row'[u].expires >= row[u].expires
<1> SUFFICES ASSUME NEW u \in Users, row[u].source = "purchase"
    PROVE  /\ row'[u].source = "purchase"
           /\ row[u].expires = Null => row'[u].expires = Null
           /\ row[u].expires # Null => row'[u].expires # Null /\ row'[u].expires >= row[u].expires
  OBVIOUS
<1>0. row[u] \in Row /\ row[u].expires \in Nat \cup {Null}
  BY DEF TypeOK, Row
<1>1. CASE row'[u] = row[u]
  BY <1>0, <1>1
<1>2. CASE \E end \in Nat : row'[u] = Extended(row[u], end)
  <2>1. PICK end \in Nat : row'[u] = Extended(row[u], end)
    BY <1>2
  <2>2. CASE row[u] = Lifetime
    BY <2>1, <2>2, <1>1 DEF Extended
  <2>3. CASE row[u] # Lifetime
    <3>1. row'[u].source = "purchase"
      BY <1>0, <2>1, ExtendedType
    <3>2. row[u].expires \in Nat /\ row'[u].expires \in Nat /\ row'[u].expires >= row[u].expires
      BY <1>0, <2>1, <2>3, ExtendedExpiry
    <3> QED
      BY <3>1, <3>2, SubscriptionConstants
  <2> QED
    BY <2>2, <2>3
<1>3. ASSUME NEW v \in Users, GrantFree(v) PROVE row'[u] = row[u]
  BY <1>3 DEF GrantFree, NoRow, TypeOK
<1>4. ASSUME NEW h \in Handlers, HandleApply(h)
      PROVE  row'[u] = row[u] \/ \E end \in Nat : row'[u] = Extended(row[u], end)
  BY <1>4, AppliedRow DEF TypeOK
<1> QED
  BY <1>1, <1>2, <1>3, <1>4, RowSteps

\* ... and so neither does any behaviour, whatever Stripe replays.
THEOREM Kept == Spec => NeverShortened
<1>1. TypeOK /\ [Next]_vars =>
        [\A u \in Users : row[u].source = "purchase" =>
           /\ row'[u].source = "purchase"
           /\ row[u].expires = Null => row'[u].expires = Null
           /\ row[u].expires # Null => row'[u].expires # Null /\ row'[u].expires >= row[u].expires]_vars
  BY KeepsStep
<1> QED
  BY <1>1, Typing, PTL DEF Spec, NeverShortened
-----------------------------------------------------------------------------
(* Subscription implements PaidAccess.                                     *)

\* What a row is worth to its user.
Covers(r, end) == r = Lifetime \/ PaidUntil(r) >= end

\* Stripe charges a period once, in order, of a session that has been paid.
Billed ==
  /\ \A s \in Sessions : sub[s].state # "none" => session[s].state = "paid"
  /\ \A i \in due \cup acked : /\ sub[i.sub].state # "none"
                               /\ i.end \in 1 .. MaxHour /\ i.end <= sub[i.sub].paidTo

\* stripe-webhook works on what Stripe has sent, and goes on once it is stored.
Served ==
  \A h \in Handlers : handler[h].pc # "idle" =>
    /\ handler[h].invoice \in due \cup acked
    /\ handler[h].pc # "apply" =>
         Covers(row[Payer(handler[h].invoice)], handler[h].invoice.end)

\* What Stripe no longer reports is in the row.
Delivered == \A i \in acked : Covers(row[Payer(i)], i.end)

AccountInv == TypeOK /\ Billed /\ Served /\ Delivered

\* A session keeps its user.
LEMMA UserKept ==
  ASSUME TypeOK, [Next]_vars, NEW s \in Sessions, session[s] # Free
  PROVE  session'[s] # Free /\ session'[s].user = session[s].user
<1>1. CASE UNCHANGED session
  BY <1>1
<1>2. ASSUME NEW u \in Users, CheckoutCreate(u)
      PROVE  session'[s] = session[s]
  BY <1>2 DEF CheckoutCreate, TypeOK
<1>3. ASSUME NEW t \in Sessions, Pay(t)
      PROVE  session'[s] # Free /\ session'[s].user = session[s].user
  <2>1. session[s] \in Session
    BY PayerType
  <2>2. session'[s] = session[s] \/ session'[s] = [session[s] EXCEPT !.state = "paid"]
    BY <1>3 DEF Pay, TypeOK
  <2> QED BY <2>1, <2>2 DEF Session, Free
<1> QED
  BY <1>1, <1>2, <1>3 DEF Next, User, Handle, CheckoutCheck, CheckoutLookup, GrantFree, Renew,
     EndSub, Deliver, HandleApply, HandleMap, HandleReply, HandleFail, Tick, vars, stripe

\* A row of any kind covers the period that it is extended to, and what it did.
LEMMA ExtendedCovers ==
  ASSUME NEW r \in Row, NEW end \in Nat
  PROVE  /\ Covers(Extended(r, end), end)
         /\ \A e \in Nat : Covers(r, e) => Covers(Extended(r, end), e)
<1>1. CASE r = Lifetime
  BY <1>1 DEF Covers, Extended
<1>2. CASE r # Lifetime
  <2>1. /\ Extended(r, end).source = "purchase"
        /\ Extended(r, end).expires \in Nat /\ Extended(r, end).expires >= end
        /\ r.source = "purchase" => r.expires \in Nat /\ Extended(r, end).expires >= r.expires
    BY <1>2, ExtendedType, ExtendedExpiry
  <2>2. PaidUntil(Extended(r, end)) = Extended(r, end).expires
    BY <2>1, SubscriptionConstants DEF PaidUntil
  <2>3. PaidUntil(r) = IF r.source = "purchase" THEN r.expires ELSE 0
    BY <2>1, SubscriptionConstants DEF PaidUntil
  <2> QED BY <1>2, <2>1, <2>2, <2>3 DEF Covers
<1> QED BY <1>1, <1>2

\* No step takes away what a row covers.
LEMMA CoversStep ==
  ASSUME TypeOK, [Next]_vars, NEW u \in Users, NEW end \in 1 .. MaxHour, Covers(row[u], end)
  PROVE  Covers(row'[u], end)
<1>0. row[u] \in Row /\ end \in Nat /\ end > 0
  BY SubscriptionConstants DEF TypeOK
<1>1. CASE row'[u] = row[u]
  BY <1>1
<1>2. ASSUME NEW n \in Nat, row'[u] = Extended(row[u], n) PROVE Covers(row'[u], end)
  BY <1>0, <1>2, ExtendedCovers
<1>3. ASSUME NEW v \in Users, GrantFree(v) PROVE row'[u] = row[u]
  BY <1>0, <1>3 DEF GrantFree, TypeOK, Covers, PaidUntil, NoRow, Lifetime
<1>4. ASSUME NEW h \in Handlers, HandleApply(h)
      PROVE  row'[u] = row[u] \/ \E n \in Nat : row'[u] = Extended(row[u], n)
  BY <1>4, AppliedRow DEF TypeOK
<1> QED
  BY <1>1, <1>2, <1>3, <1>4, RowSteps

\* What an invocation that stays at its invoice, or answers, rests on.
LEMMA CoversInvoice ==
  ASSUME TypeOK, [Next]_vars, NEW i \in due \cup acked, i.end \in 1 .. MaxHour,
         Covers(row[Payer(i)], i.end)
  PROVE  Covers(row'[Payer(i)'], i.end)
<1>1. i.sub \in Sessions /\ session[i.sub] # Free
  BY DEF TypeOK, Invoice
<1>2. Payer(i)' = Payer(i) /\ Payer(i) \in Users
  BY <1>1, UserKept, PayerType DEF Payer
<1> QED BY <1>2, CoversStep

LEMMA AccountInit == Init => AccountInv
<1> SUFFICES ASSUME Init PROVE AccountInv
  OBVIOUS
<1>1. Billed /\ Served /\ Delivered
  BY DEF Init, Billed, Served, Delivered
<1> QED BY <1>1, TypeInit DEF AccountInv

LEMMA BilledNext == ASSUME AccountInv, [Next]_vars PROVE Billed'
<1>0. TypeOK /\ Billed /\ Served
  BY DEF AccountInv
<1>1. \A s \in Sessions : session[s].state = "paid" => session'[s].state = "paid"
  <2>1. SUFFICES ASSUME NEW s \in Sessions, session[s].state = "paid"
        PROVE session'[s].state = "paid"
    OBVIOUS
  <2>2. session[s] # Free
    BY <2>1 DEF Free
  <2>3. CASE UNCHANGED session
    BY <2>1, <2>3
  <2>4. ASSUME NEW u \in Users, CheckoutCreate(u) PROVE session'[s] = session[s]
    BY <1>0, <2>2, <2>4 DEF CheckoutCreate, TypeOK
  <2>5. ASSUME NEW t \in Sessions, Pay(t) PROVE session'[s] = session[s]
    BY <1>0, <2>1, <2>5 DEF Pay, TypeOK
  <2> QED
    BY <2>1, <2>3, <2>4, <2>5 DEF Next, User, Handle, CheckoutCheck, CheckoutLookup, GrantFree,
       Renew, EndSub, Deliver, HandleApply, HandleMap, HandleReply, HandleFail, Tick, vars, stripe
<1>2. ASSUME NEW s \in Sessions, Pay(s) \/ Renew(s) PROVE Billed'
  <2>1. PICK n \in 1 .. MaxHour :
          /\ sub[s].paidTo <= n \/ sub[s].state = "none"
          /\ \A t \in Sessions : t # s => sub'[t] = sub[t]
          /\ sub'[s].paidTo = n /\ sub'[s].state = "active"
          /\ due' = due \cup {[sub |-> s, end |-> n]} /\ acked' = acked
          /\ session'[s].state = "paid"
    <3>1. CASE Pay(s)
      <4>1. hour + Period \in 1 .. MaxHour
        <5>1. hour \in Nat /\ hour + Period <= MaxHour /\ Period \in Nat \ {0} /\ MaxHour \in Nat
          BY <1>0, <3>1, SubscriptionConstants DEF Pay, TypeOK
        <5> QED BY ONLY <5>1
      <4>2. session[s].state = "open" /\ session[s] # Free
        BY <3>1, OpenIsNotFree DEF Pay
      <4>3. sub[s].state = "none"
        BY <1>0, <4>2 DEF Billed, TypeOK
      <4>4. session'[s].state = "paid"
        BY <1>0, <3>1, <4>2, PayerType DEF Pay, TypeOK, Session
      <4> QED BY <1>0, <3>1, <4>1, <4>3, <4>4 DEF Pay, TypeOK
    <3>2. CASE Renew(s)
      <4>1. /\ sub[s].paidTo + Period \in 1 .. MaxHour
            /\ sub[s].paidTo <= sub[s].paidTo + Period
        <5>1. /\ sub[s].paidTo \in Nat /\ sub[s].paidTo + Period <= MaxHour
              /\ Period \in Nat \ {0} /\ MaxHour \in Nat
          BY <1>0, <3>2, SubscriptionConstants DEF Renew, TypeOK
        <5> QED BY ONLY <5>1
      <4>2. session'[s].state = "paid" /\ sub[s].state = "active"
        BY <1>0, <1>1, <3>2 DEF Renew, Billed
      <4> QED BY <1>0, <3>2, <4>1, <4>2 DEF Renew, TypeOK
    <3> QED BY <1>2, <3>1, <3>2
  <2>2. \A t \in Sessions : sub'[t].state # "none" => session'[t].state = "paid"
    BY <1>0, <1>1, <2>1 DEF Billed
  <2>3. ASSUME NEW i \in due' \cup acked'
        PROVE /\ sub'[i.sub].state # "none"
              /\ i.end \in 1 .. MaxHour /\ i.end <= sub'[i.sub].paidTo
    <3>1. CASE i = [sub |-> s, end |-> n]
      BY <2>1, <3>1, SubscriptionConstants
    <3>2. CASE i \in due \cup acked
      <4>1. /\ i.sub \in Sessions /\ sub[i.sub].state # "none"
            /\ i.end \in 1 .. MaxHour /\ i.end <= sub[i.sub].paidTo
        BY <1>0, <3>2 DEF Billed, TypeOK, Invoice
      <4>2. sub[i.sub].paidTo \in Nat /\ i.end \in Nat
        BY <1>0, <4>1, SubscriptionConstants DEF TypeOK
      <4> QED BY <2>1, <4>1, <4>2, SubscriptionConstants
    <3> QED BY <2>1, <3>1, <3>2
  <2> QED BY <2>2, <2>3 DEF Billed
<1>3. CASE /\ due' \cup acked' = due \cup acked
           /\ \A s \in Sessions : /\ sub'[s].paidTo = sub[s].paidTo
                                  /\ sub'[s].state = "none" <=> sub[s].state = "none"
  <2>1. \A i \in due \cup acked : i.sub \in Sessions
    BY <1>0 DEF TypeOK, Invoice
  <2>2. \A s \in Sessions : sub'[s].state # "none" => session'[s].state = "paid"
    BY <1>0, <1>1, <1>3 DEF Billed
  <2>3. \A i \in due' \cup acked' : /\ sub'[i.sub].state # "none"
                                    /\ i.end \in 1 .. MaxHour /\ i.end <= sub'[i.sub].paidTo
    BY <1>0, <1>3, <2>1 DEF Billed
  <2> QED BY <2>2, <2>3 DEF Billed
<1>4. ASSUME NEW h \in Handlers, HandleReply(h)
      PROVE due' \cup acked' = due \cup acked /\ UNCHANGED sub
  BY <1>0, <1>4 DEF HandleReply, Served
<1>5. ASSUME NEW s \in Sessions, EndSub(s)
      PROVE /\ UNCHANGED <<due, acked>>
            /\ \A t \in Sessions : /\ sub'[t].paidTo = sub[t].paidTo
                                   /\ sub'[t].state = "none" <=> sub[t].state = "none"
  BY <1>0, <1>5 DEF EndSub, TypeOK
<1> QED
  BY <1>2, <1>3, <1>4, <1>5 DEF Next, User, Handle, CheckoutCheck, CheckoutLookup, CheckoutCreate,
     GrantFree, Deliver, HandleApply, HandleMap, HandleFail, Tick, vars, stripe

LEMMA ServedNext == ASSUME AccountInv, [Next]_vars PROVE Served' /\ Delivered'
<1>0. TypeOK /\ Billed /\ Served /\ Delivered
  BY DEF AccountInv
<1>1. \A i \in due \cup acked : i.end \in 1 .. MaxHour /\ i.end \in Nat
  BY <1>0, SubscriptionConstants DEF Billed
<1>2. due \cup acked \subseteq due' \cup acked'
  BY <1>0 DEF Next, User, Handle, CheckoutCheck, CheckoutLookup, CheckoutCreate, GrantFree, Pay,
     Renew, EndSub, Deliver, HandleApply, HandleMap, HandleReply, HandleFail, Tick, vars, stripe
\* What was stored stays stored.
<1>3. \A i \in acked : Covers(row'[Payer(i)'], i.end)
  BY <1>0, <1>1, CoversInvoice DEF Delivered
<1>4. \A h \in Handlers, i \in Invoice : handler[h].pc # "idle" /\ i = handler[h].invoice =>
        /\ i \in due' \cup acked'
        /\ handler[h].pc # "apply" => Covers(row'[Payer(i)'], i.end)
  <2>1. SUFFICES ASSUME NEW h \in Handlers, NEW i \in Invoice,
                        handler[h].pc # "idle", i = handler[h].invoice
        PROVE /\ i \in due' \cup acked'
              /\ handler[h].pc # "apply" => Covers(row'[Payer(i)'], i.end)
    OBVIOUS
  <2>2. /\ i \in due \cup acked
        /\ handler[h].pc # "apply" => Covers(row[Payer(i)], i.end)
    BY <1>0, <2>1 DEF Served
  <2>3. i.end \in 1 .. MaxHour
    BY <1>1, <2>2
  <2> QED BY <1>0, <1>2, <2>2, <2>3, CoversInvoice
<1>5. CASE UNCHANGED <<handler, acked>>
  <2>1. ASSUME NEW h \in Handlers, handler'[h].pc # "idle"
        PROVE  /\ handler'[h].invoice \in due' \cup acked'
               /\ handler'[h].pc # "apply" =>
                    Covers(row'[Payer(handler[h].invoice)'], handler'[h].invoice.end)
    <3>1. PICK i \in Invoice : i = handler[h].invoice
      BY <1>0, <1>5, <2>1, HandlerInvoice
    <3>2. i = handler'[h].invoice /\ handler[h].pc = handler'[h].pc
      BY <1>5, <3>1
    <3> QED BY <1>4, <2>1, <3>1, <3>2 DEF Payer
  <2> QED BY <1>3, <1>5, <2>1 DEF Served, Delivered
<1>6. ASSUME NEW h \in Handlers, NEW i \in due \cup acked, Deliver(h, i)
      PROVE Served' /\ Delivered'
  <2>1. /\ handler' = [handler EXCEPT ![h] = [pc |-> "apply", invoice |-> i]]
        /\ UNCHANGED acked
    BY <1>6 DEF Deliver, stripe
  <2>2. /\ handler'[h].pc = "apply" /\ handler'[h].invoice = i
        /\ \A g \in Handlers : g # h => handler'[g] = handler[g]
    BY <1>0, <2>1 DEF TypeOK
  <2>3. ASSUME NEW g \in Handlers, handler'[g].pc # "idle"
        PROVE  /\ handler'[g].invoice \in due' \cup acked'
               /\ handler'[g].pc # "apply" =>
                    Covers(row'[Payer(handler[g].invoice)'], handler'[g].invoice.end)
    <3>1. CASE g = h
      BY <1>2, <2>2, <3>1
    <3>2. CASE g # h
      <4>1. PICK j \in Invoice : j = handler[g].invoice
        BY <1>0, <2>2, <2>3, <3>2, HandlerInvoice
      <4>2. j = handler'[g].invoice /\ handler[g].pc = handler'[g].pc
        BY <2>2, <3>2, <4>1
      <4> QED BY <1>4, <2>3, <4>1, <4>2 DEF Payer
    <3> QED BY <3>1, <3>2
  <2> QED BY <1>3, <2>1, <2>3 DEF Served, Delivered
<1>7. ASSUME NEW h \in Handlers, Handle(h) PROVE Served' /\ Delivered'
  <2>0. handler[h].pc # "idle"
    BY <1>7 DEF Handle, HandleApply, HandleMap, HandleReply, HandleFail
  <2>1. PICK i \in Invoice : i = handler[h].invoice
    BY <1>0, <2>0, HandlerInvoice
  <2>2. /\ \A g \in Handlers : g # h => handler'[g] = handler[g]
        /\ handler'[h].pc # "idle" => handler'[h].pc # "apply" /\ handler'[h].invoice = i
    <3>1. handler[h] \in Invocation
      BY <2>0, <1>0, HandlerInvoice
    <3> QED
      BY <1>0, <1>7, <2>1, <3>1 DEF Handle, HandleApply, HandleMap, HandleReply, HandleFail, TypeOK,
         Invocation
  <2>3. i \in due' \cup acked' /\ i.sub \in Sessions /\ i.end \in Nat /\ Payer(i) \in Users
    BY <1>0, <1>4, <2>0, <2>1, HandlerInvoice
  <2>4. handler'[h].pc # "idle" => Covers(row'[Payer(i)'], i.end)
    <3>1. CASE HandleApply(h)
      <4>1. row'[Payer(i)] = Extended(row[Payer(i)], i.end) /\ Payer(i)' = Payer(i)
        BY <1>0, <2>1, <2>3, <3>1 DEF HandleApply, TypeOK, Payer, stripe
      <4> QED BY <1>0, <2>3, <4>1, ExtendedCovers DEF TypeOK
    <3>2. CASE HandleMap(h)
      <4>1. handler[h].pc = "map"
        BY <3>2 DEF HandleMap
      <4> QED BY <1>4, <2>0, <2>1, <4>1
    <3>3. CASE HandleReply(h) \/ HandleFail(h)
      BY <1>0, <3>3 DEF HandleReply, HandleFail, TypeOK
    <3> QED BY <1>7, <3>1, <3>2, <3>3 DEF Handle
  <2>5. ASSUME NEW g \in Handlers, handler'[g].pc # "idle"
        PROVE  /\ handler'[g].invoice \in due' \cup acked'
               /\ handler'[g].pc # "apply" =>
                    Covers(row'[Payer(handler[g].invoice)'], handler'[g].invoice.end)
    <3>1. CASE g = h
      BY <2>2, <2>3, <2>4, <2>5, <3>1 DEF Payer
    <3>2. CASE g # h
      <4>1. PICK j \in Invoice : j = handler[g].invoice
        BY <1>0, <2>2, <2>5, <3>2, HandlerInvoice
      <4>2. j = handler'[g].invoice /\ handler[g].pc = handler'[g].pc
        BY <2>2, <3>2, <4>1
      <4> QED BY <1>4, <2>5, <4>1, <4>2 DEF Payer
    <3> QED BY <3>1, <3>2
  <2>6. ASSUME NEW j \in acked' PROVE Covers(row'[Payer(j)'], j.end)
    <3>1. CASE j \in acked
      BY <1>3, <3>1
    <3>2. CASE j = i /\ handler[h].pc = "reply"
      BY <1>4, <2>0, <2>1, <3>2
    <3>3. j \in acked \/ (j = i /\ handler[h].pc = "reply")
      BY <1>7, <2>1, <2>6 DEF Handle, HandleApply, HandleMap, HandleReply, HandleFail, stripe
    <3> QED BY <3>1, <3>2, <3>3
  <2> QED BY <2>5, <2>6 DEF Served, Delivered
<1> QED
  BY <1>5, <1>6, <1>7 DEF Next, User, CheckoutCheck, CheckoutLookup, CheckoutCreate, GrantFree,
     Pay, Renew, EndSub, Tick, vars, stripe

LEMMA AccountNext == AccountInv /\ [Next]_vars => AccountInv'
BY BilledNext, ServedNext, TypeNext DEF AccountInv

LEMMA AccountHolds == Spec => []AccountInv
BY AccountInit, AccountNext, PTL DEF Spec

\* Stripe is never told of an invoice's arrival whose period is not in the row, so
\* that none is forgotten (stripe-webhook answers after apply_subscription_period).
THEOREM NoneForgotten == Spec => []Delivered
<1>1. AccountInv => Delivered
  BY DEF AccountInv
<1> QED BY <1>1, AccountHolds, PTL

\* A charge that is not new stays what it was, and a row covers it as it is owed.
LEMMA ChargeKept ==
  ASSUME AccountInv, [Next]_vars, NEW i \in due \cup acked
  PROVE  /\ i.sub \in Sessions /\ Payer(i)' = Payer(i) /\ Payer(i) \in Users
         /\ i.end \in 1 .. MaxHour
<1>1. TypeOK /\ Billed
  BY DEF AccountInv
<1>2. i.sub \in Sessions /\ session[i.sub] # Free
  BY <1>1 DEF TypeOK, Invoice
<1> QED BY <1>1, <1>2, UserKept, PayerType DEF Payer, Billed

LEMMA ChargedKept ==
  ASSUME AccountInv, [Next]_vars, UNCHANGED <<due, acked>>
  PROVE  Charged(due)' = Charged(due) /\ Charged(due \cup acked)' = Charged(due \cup acked)
BY ChargeKept DEF Charged

\* What leaves the rows and the books alone stutters.
LEMMA AccountRests ==
  ASSUME AccountInv, [Next]_vars, UNCHANGED <<row, due, acked>>
  PROVE  [Account!Next]_Account!vars
BY ChargedKept DEF Account!vars

\* So does a free grant: it is worth nothing here.
LEMMA AccountGrant ==
  ASSUME AccountInv, [Next]_vars, NEW u \in Users, GrantFree(u)
  PROVE  [Account!Next]_Account!vars
<1>1. /\ UNCHANGED <<due, acked>> /\ row[u] = NoRow
      /\ \A v \in Users : v # u => row'[v] = row[v]
      /\ row'[u].source \in {"trial", "library"}
  BY DEF AccountInv, TypeOK, GrantFree, stripe
<1>2. \A v \in Users : /\ PaidUntil(row'[v]) = PaidUntil(row[v])
                       /\ row'[v] = Lifetime <=> row[v] = Lifetime
  BY <1>1 DEF PaidUntil, NoRow, Lifetime
<1>3. /\ [v \in Users |-> PaidUntil(row[v])]' = [v \in Users |-> PaidUntil(row[v])]
      /\ {v \in Users : row[v] = Lifetime}' = {v \in Users : row[v] = Lifetime}
  BY <1>2
<1> QED BY <1>1, <1>3, ChargedKept DEF Account!vars

LEMMA AccountCharge ==
  ASSUME AccountInv, [Next]_vars, NEW s \in Sessions, Pay(s) \/ Renew(s)
  PROVE  [Account!Next]_Account!vars
<1>0. TypeOK /\ Billed
  BY DEF AccountInv
\* The period is charged for the first time.
<1>1. PICK n \in 1 .. MaxHour :
        /\ due' = due \cup {[sub |-> s, end |-> n]} /\ acked' = acked /\ row' = row
        /\ \A i \in due \cup acked : i.sub = s => i.end # n
        /\ session[s] # Free
  <2>1. CASE Pay(s)
    <3>1. hour + Period \in 1 .. MaxHour
      <4>1. hour \in Nat /\ hour + Period <= MaxHour /\ Period \in Nat \ {0} /\ MaxHour \in Nat
        BY <1>0, <2>1, SubscriptionConstants DEF Pay, TypeOK
      <4> QED BY ONLY <4>1
    <3>2. session[s].state = "open" /\ session[s] # Free
      BY <2>1, OpenIsNotFree DEF Pay
    <3>3. sub[s].state = "none"
      BY <1>0, <3>2 DEF Billed, TypeOK
    <3>4. \A i \in due \cup acked : i.sub # s
      BY <1>0, <3>3 DEF Billed
    <3> QED BY <2>1, <3>1, <3>2, <3>4 DEF Pay, database
  <2>2. CASE Renew(s)
    <3>1. DEFINE m == sub[s].paidTo + Period
    <3>2. /\ sub[s].paidTo \in Nat /\ m <= MaxHour
          /\ Period \in Nat \ {0} /\ MaxHour \in Nat
      BY <1>0, <2>2, SubscriptionConstants DEF Renew, TypeOK
    <3>3. m \in 1 .. MaxHour /\ \A n \in Nat : n <= sub[s].paidTo => n # m
      BY ONLY <3>2
    <3>4. \A i \in due \cup acked : i.sub = s => i.end \in Nat /\ i.end <= sub[s].paidTo
      BY <1>0, SubscriptionConstants DEF Billed
    <3>5. session[s] # Free
      BY <1>0, <2>2 DEF Renew, TypeOK
    <3>6. due' = due \cup {[sub |-> s, end |-> m]} /\ acked' = acked /\ row' = row
      BY <2>2 DEF Renew, database
    <3> QED BY <3>3, <3>4, <3>5, <3>6
  <2> QED BY <2>1, <2>2
<1>2. PICK i : i = [sub |-> s, end |-> n]
  OBVIOUS
<1>3. PICK c : c = [user |-> Payer(i), sub |-> s, end |-> n]
  OBVIOUS
<1>4. Payer(i)' = Payer(i) /\ Payer(i) \in Users
  BY <1>0, <1>1, <1>2, UserKept, PayerType DEF Payer
<1>5. c \in Account!Charges \ Charged(due \cup acked)
  BY <1>1, <1>2, <1>3, <1>4 DEF Account!Charges, Charged
<1>6. /\ Charged(due)' = Charged(due) \cup {c}
      /\ Charged(due \cup acked)' = Charged(due \cup acked) \cup {c}
  BY <1>1, <1>2, <1>3, <1>4, ChargeKept DEF Charged
<1>7. Account!Charge
  BY <1>1, <1>5, <1>6 DEF Account!Charge
<1> QED BY <1>7 DEF Account!Next

LEMMA AccountExtend ==
  ASSUME AccountInv, [Next]_vars, NEW h \in Handlers, HandleApply(h)
  PROVE  [Account!Next]_Account!vars
<1>0. TypeOK /\ Served
  BY DEF AccountInv
<1>1. handler[h].pc # "idle" /\ UNCHANGED <<due, acked>>
  BY DEF HandleApply, stripe
<1>2. PICK i \in due \cup acked : i = handler[h].invoice
  BY <1>0, <1>1 DEF Served
<1>3. PICK u \in Users : u = Payer(i)
  BY ChargeKept
<1>4. /\ i.end \in 1 .. MaxHour /\ i.end \in Nat /\ i.end > 0 /\ row[u] \in Row
      /\ row'[u] = Extended(row[u], i.end)
      /\ \A v \in Users : v # u => row'[v] = row[v]
  BY <1>0, <1>2, <1>3, ChargeKept, SubscriptionConstants DEF HandleApply, TypeOK
<1>5. row'[u] = Lifetime <=> row[u] = Lifetime
  <2>1. CASE row[u] = Lifetime
    BY <1>4, <2>1 DEF Extended
  <2>2. CASE row[u] # Lifetime
    BY <1>4, <2>2, ExtendedExpiry, SubscriptionConstants DEF Lifetime
  <2> QED BY <2>1, <2>2
<1>6. {v \in Users : row[v] = Lifetime}' = {v \in Users : row[v] = Lifetime}
  BY <1>4, <1>5
\* A period that the row covers changes nothing ...
<1>7. CASE Covers(row[u], i.end)
  <2>1. PaidUntil(row'[u]) = PaidUntil(row[u])
    BY <1>4, <1>7, SubscriptionConstants DEF Covers, Extended, PaidUntil, Row
  <2>2. [v \in Users |-> PaidUntil(row[v])]' = [v \in Users |-> PaidUntil(row[v])]
    BY <1>4, <2>1
  <2> QED BY <1>1, <1>6, <2>2, ChargedKept DEF Account!vars
\* ... any other is what the row is extended to.
<1>8. CASE ~Covers(row[u], i.end)
  <2>1. PaidUntil(row'[u]) = i.end
    <3>1. row[u] # Lifetime /\ ~(PaidUntil(row[u]) >= i.end)
      BY <1>8 DEF Covers
    <3>2. /\ row[u].expires \in Nat \cup {Null}
          /\ row[u].source = "purchase" => row[u].expires \in Nat
      BY <1>4, <3>1, ExtendedExpiry DEF Row
    <3>3. row[u].expires = Null \/ row[u].source # "purchase" \/ i.end > row[u].expires
      BY <1>4, <3>1, <3>2, SubscriptionConstants DEF PaidUntil
    <3>4. row[u].source # "purchase" => row[u].expires = Null
      BY <1>0 DEF TypeOK
    <3>5. row'[u] = [source |-> "purchase", expires |-> i.end]
      BY <1>4, <3>1, <3>3, <3>4 DEF Extended
    <3> QED BY <1>4, <3>5, SubscriptionConstants DEF PaidUntil
  <2>2. PICK c : c = [user |-> u, sub |-> i.sub, end |-> i.end]
    OBVIOUS
  <2>3. c \in Charged(due \cup acked)
    BY <1>3, <2>2 DEF Charged
  <2>4. /\ c.user \notin {v \in Users : row[v] = Lifetime}
        /\ ~([v \in Users |-> PaidUntil(row[v])][c.user] >= c.end)
    BY <1>8, <2>2 DEF Covers
  <2>5. [v \in Users |-> PaidUntil(row[v])]'
          = [[v \in Users |-> PaidUntil(row[v])] EXCEPT ![c.user] = c.end]
    <3>1. \A v \in Users : PaidUntil(row'[v]) = IF v = u THEN i.end ELSE PaidUntil(row[v])
      BY <1>4, <2>1
    <3>2. c.user = u /\ c.end = i.end
      BY <2>2
    <3> QED BY <3>1, <3>2
  <2>6. Account!Extend
    BY <1>1, <1>6, <2>3, <2>4, <2>5, ChargedKept DEF Account!Extend, Account!HasAccess
  <2> QED BY <2>6 DEF Account!Next
<1> QED BY <1>7, <1>8

LEMMA AccountSettle ==
  ASSUME AccountInv, [Next]_vars, NEW h \in Handlers, HandleReply(h)
  PROVE  [Account!Next]_Account!vars
<1>0. TypeOK /\ Served
  BY DEF AccountInv
<1>1. PICK i \in due \cup acked :
        /\ i = handler[h].invoice /\ i \in Invoice
        /\ Covers(row[Payer(i)], i.end)
  BY <1>0 DEF HandleReply, Served, TypeOK
<1>2. due' = due \ {i} /\ acked' = acked \cup {i} /\ UNCHANGED row
  BY <1>1 DEF HandleReply, database
\* A second report of the invoice has been answered before.
<1>3. CASE i \notin due
  <2>1. UNCHANGED <<row, due, acked>>
    BY <1>1, <1>2, <1>3
  <2> QED BY <2>1, AccountRests
<1>4. CASE i \in due
  <2>1. PICK c : c = [user |-> Payer(i), sub |-> i.sub, end |-> i.end]
    OBVIOUS
  <2>2. c \in Charged(due) /\ Payer(i) \in Users
    BY <1>4, <2>1, ChargeKept DEF Charged
  <2>3. Charged(due)' = Charged(due) \ {c}
    <3>1. \A j \in due : j # i => [user |-> Payer(j), sub |-> j.sub, end |-> j.end] # c
      BY <1>1, <1>0, <2>1 DEF TypeOK, Invoice
    <3> QED BY <1>2, <2>1, <3>1, ChargeKept DEF Charged
  <2>4. Charged(due \cup acked)' = Charged(due \cup acked)
    <3>1. due' \cup acked' = due \cup acked
      BY <1>2, <1>4
    <3> QED BY <3>1, ChargeKept DEF Charged
  <2>5. \/ c.user \in {v \in Users : row[v] = Lifetime}
        \/ [v \in Users |-> PaidUntil(row[v])][c.user] >= c.end
    BY <1>1, <2>1, <2>2 DEF Covers
  <2>6. Account!Settle
    BY <1>2, <2>2, <2>3, <2>4, <2>5 DEF Account!Settle, Account!HasAccess
  <2> QED BY <2>6 DEF Account!Next
<1> QED BY <1>3, <1>4

\* A user's access is that of the periods charged, in whatever order and how often
\* Stripe reports them, and an invoice is acknowledged only once it is in the row
\* (stripe-webhook, apply_subscription_period).
THEOREM ImplementsAccount == Spec => AccessAsPaid
<1>1. Init => Account!Init
  <2>1. SUFFICES ASSUME Init PROVE Account!Init
    OBVIOUS
  <2>2. \A u \in Users : PaidUntil(row[u]) = 0
    BY <2>1 DEF Init, PaidUntil, NoRow, Lifetime
  <2>3. Charged(due) = {} /\ Charged(due \cup acked) = {}
    BY <2>1 DEF Init, Charged
  <2> QED BY <2>2, <2>3 DEF Account!Init
<1>2. AccountInv /\ [Next]_vars => [Account!Next]_Account!vars
  <2> SUFFICES ASSUME AccountInv, [Next]_vars PROVE [Account!Next]_Account!vars
    OBVIOUS
  <2>1. CASE UNCHANGED <<row, due, acked>>
    BY <2>1, AccountRests
  <2>2. \/ UNCHANGED <<row, due, acked>>
        \/ \E u \in Users : GrantFree(u)
        \/ \E s \in Sessions : Pay(s) \/ Renew(s)
        \/ \E h \in Handlers : HandleApply(h) \/ HandleReply(h)
    BY DEF Next, User, Handle, CheckoutCheck, CheckoutLookup, CheckoutCreate, EndSub, Deliver,
       HandleMap, HandleFail, Tick, vars, database, stripe
  <2> QED BY <2>1, <2>2, AccountGrant, AccountCharge, AccountExtend, AccountSettle
<1> QED
  BY <1>1, <1>2, AccountHolds, PTL DEF Spec, AccessAsPaid, Account!Spec
=============================================================================
