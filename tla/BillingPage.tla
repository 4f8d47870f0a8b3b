----------------------------- MODULE BillingPage -----------------------------
(***************************************************************************)
(* The plan of an organisation: the subscription at Stripe (external), the *)
(* copy in the organisation's document that webhooks and page loads write  *)
(* (Server/routes/billing.py), and the billing tab of the admin console    *)
(* (WebUI/src/components/settings/BillingTab.jsx).                         *)
(*                                                                         *)
(* Every checkout makes a new customer at Stripe.  Webhooks are events     *)
(* that arrive later, in any order, more than once or never.  A load of    *)
(* the tab reads the document, then asks Stripe, then writes the status    *)
(* back, then answers; loads overlap.                                      *)
(***************************************************************************)
EXTENDS Naturals, Sequences, FiniteSets

CONSTANTS
    PaidPlans,      \* the plans above "basic"
    MaxCheckouts,   \* checkouts that are paid, a bound
    MaxChanges,     \* changes made at Stripe, a bound
    MaxEvents,      \* webhooks on their way, a bound
    MaxLoads,       \* loads of the tab in progress, a bound
    BillNets,       \* networks a behaviour may have
    NoCustomer

\* Whether webhooks arrive in the order of what they tell, and whether they may
\* be lost or repeated.
BillNet == [ordered : BOOLEAN, lossy : BOOLEAN]

ASSUME BillingAssumption ==
    /\ "basic" \notin PaidPlans
    /\ MaxCheckouts \in Nat \ {0} /\ MaxChanges \in Nat
    /\ MaxEvents \in Nat /\ MaxLoads \in Nat \ {0}
    /\ BillNets \subseteq BillNet
    /\ NoCustomer \notin 1..MaxCheckouts

Customers == 1..MaxCheckouts

VARIABLES
    billNet,        \* chosen once
    sub,            \* Stripe: the subscription of each customer
    events,         \* the webhooks on their way
    org,            \* the organisation's document
    loads,          \* the requests for the payment method
    card,           \* what the tab shows
    changes,        \* changes at Stripe so far
    shownFresh      \* nothing has changed since what the tab shows was asked for
                    \* (history)

billVars == <<billNet, sub, events, org, loads, card, changes, shownFresh>>

Plans == PaidPlans \cup {"basic"}
SubStates == {"none", "active", "canceling", "canceled"}
DbStates == {"active", "canceled"}

Sub == [plan : Plans, state : SubStates]
Event == [type : {"completed", "updated", "deleted"}, cust : Customers, sub : Sub]
\* A limit is named by the plan it belongs to.
Org == [cust : Customers \cup {NoCustomer}, package : Plans, limit : Plans,
        state : DbStates, dated : BOOLEAN]
Load == [pc : {"read", "asked", "synced"}, cust : Customers \cup {NoCustomer},
         package : Plans, state : DbStates, dated : BOOLEAN, fresh : BOOLEAN]

\* is_subscription_canceling: scheduled to end, or ended.
IsCanceling(s) == s.state \in {"canceling", "canceled"}

DbState(s) == IF IsCanceling(s) THEN "canceled" ELSE "active"

\* cancel_at is set while an end is scheduled, and stays.
Dated(s) == IsCanceling(s)

Happened(type, c, s) == [type |-> type, cust |-> c, sub |-> s]

\* Whatever is being loaded or shown may be of before.
Outdate ==
    /\ loads' = [i \in 1..Len(loads) |-> [loads[i] EXCEPT !.fresh = FALSE]]
    /\ shownFresh' = FALSE

Leave(seq, i) ==
    [j \in 1..(Len(seq) - 1) |-> IF j < i THEN seq[j] ELSE seq[j + 1]]

------------------------------------------------------------------------------
\* Stripe, as far as the server sees it.

\* A checkout is paid: a customer, an active subscription, and two events.
Checkout(p) ==
    LET s == [plan |-> p, state |-> "active"]
    IN  \E c \in Customers :
        /\ sub[c].state = "none"
        /\ \A d \in 1..(c - 1) : sub[d].state # "none"
        /\ Len(events) + 2 <= MaxEvents
        /\ sub' = [sub EXCEPT ![c] = s]
        /\ events' = events \o <<Happened("updated", c, s), Happened("completed", c, s)>>
        /\ Outdate
        /\ UNCHANGED <<billNet, org, card, changes>>

\* The customer portal, opened for the customer of the document.
UsePortal(s) ==
    LET c == org.cust
    IN  /\ c # NoCustomer
        /\ sub[c].state \in {"active", "canceling"}
        /\ s.state \in {"active", "canceling"}
        /\ s # sub[c]
        /\ changes < MaxChanges /\ Len(events) < MaxEvents
        /\ changes' = changes + 1
        /\ sub' = [sub EXCEPT ![c] = s]
        /\ events' = Append(events, Happened("updated", c, s))
        /\ Outdate
        /\ UNCHANGED <<billNet, org, card>>

\* The paid period of a subscription that was to end is over.
PeriodEnds(c) ==
    LET s == [sub[c] EXCEPT !.state = "canceled"]
    IN  /\ sub[c].state = "canceling"
        /\ Len(events) < MaxEvents
        /\ sub' = [sub EXCEPT ![c] = s]
        /\ events' = Append(events, Happened("deleted", c, s))
        /\ Outdate
        /\ UNCHANGED <<billNet, org, card, changes>>

------------------------------------------------------------------------------
\* update_org_subscription: the organisation is found by the session's metadata.
Completed(e) ==
    [cust |-> e.cust, package |-> e.sub.plan, limit |-> e.sub.plan,
     state |-> "active", dated |-> FALSE]

\* The other two events find the organisation by the customer, or nobody.
Updated(e) ==
    IF org.cust # e.cust THEN org
    ELSE [org EXCEPT !.package = e.sub.plan, !.limit = e.sub.plan,
                     !.state = DbState(e.sub), !.dated = Dated(e.sub)]

\* A mutant: the limit is left as it was paid for.
Deleted_KeepsLimit(e) ==
    IF org.cust # e.cust THEN org
    ELSE [org EXCEPT !.package = "basic", !.state = "canceled"]

\* The organisation falls back to the basic plan.
Deleted(e) ==
    IF org.cust # e.cust THEN org
    ELSE [org EXCEPT !.package = "basic", !.limit = "basic", !.state = "canceled"]

\* A webhook is handled; a repeated one stays on its way.
StripeWebhook(i) ==
    LET e == events[i]
    IN  /\ billNet.ordered => i = 1
        /\ org' = CASE e.type = "completed" -> Completed(e)
                    [] e.type = "updated"   -> Updated(e)
                    [] e.type = "deleted"   -> Deleted(e)
        /\ \/ events' = Leave(events, i)
           \/ billNet.lossy /\ UNCHANGED events
        /\ Outdate
        /\ UNCHANGED <<billNet, sub, card, changes>>

LoseWebhook(i) ==
    /\ billNet.lossy
    /\ events' = Leave(events, i)
    /\ UNCHANGED <<billNet, sub, org, loads, card, changes, shownFresh>>

------------------------------------------------------------------------------
\* fetchData: on opening the tab, on each focus of the window, and five times
\* after the return from Stripe.  get_payment_method reads the document first.
FetchData ==
    /\ Len(loads) < MaxLoads
    /\ loads' = Append(loads,
           [pc |-> IF org.cust = NoCustomer THEN "synced" ELSE "read",
            cust |-> org.cust, package |-> org.package, state |-> org.state,
            dated |-> org.dated, fresh |-> TRUE])
    /\ UNCHANGED <<billNet, sub, events, org, card, changes, shownFresh>>

\* The customer's active subscription, or else a canceled one.
AskStripe(i) ==
    LET s == sub[loads[i].cust]
    IN  /\ loads[i].pc = "read"
        /\ loads' = [loads EXCEPT ![i].pc = "asked", ![i].state = DbState(s),
                                  ![i].dated = Dated(s)]
        /\ UNCHANGED <<billNet, sub, events, org, card, changes, shownFresh>>

\* The status is written to the document that has this customer.  One asked for
\* before a change undoes what others wrote since.
WriteStatus(i) ==
    LET x == loads[i]
        Mine == [loads EXCEPT ![i].pc = "synced"]
    IN  /\ x.pc = "asked"
        /\ org' = IF org.cust = x.cust
                  THEN [org EXCEPT !.state = x.state, !.dated = x.dated] ELSE org
        /\ loads' = IF x.fresh THEN Mine
                    ELSE [j \in 1..Len(loads) |-> [Mine[j] EXCEPT !.fresh = FALSE]]
        /\ shownFresh' = (shownFresh /\ x.fresh)
        /\ UNCHANGED <<billNet, sub, events, card, changes>>

\* The answer is shown, whatever was shown before.
ShowCard(i) ==
    LET x == loads[i]
    IN  /\ x.pc = "synced"
        /\ card' = [package |-> x.package, state |-> x.state, dated |-> x.dated]
        /\ shownFresh' = x.fresh
        /\ loads' = Leave(loads, i)
        /\ UNCHANGED <<billNet, sub, events, org, changes>>

\* A request fails where it is, and the tab keeps what it shows.
LoadFails(i) ==
    /\ billNet.lossy
    /\ loads' = Leave(loads, i)
    /\ UNCHANGED <<billNet, sub, events, org, card, changes, shownFresh>>

------------------------------------------------------------------------------
\* Signing up has chosen a plan, which the document has before it is paid.
BillingInit ==
    /\ billNet \in BillNets
    /\ sub = [c \in Customers |-> [plan |-> "basic", state |-> "none"]]
    /\ events = <<>>
    /\ org \in {[cust |-> NoCustomer, package |-> p, limit |-> p,
                 state |-> "active", dated |-> FALSE] : p \in Plans}
    /\ loads = <<>>
    /\ card = [package |-> org.package, state |-> "active", dated |-> FALSE]
    /\ changes = 0
    /\ shownFresh = FALSE

BillingNext ==
    \/ \E p \in Plans : Checkout(p)
    \/ \E s \in Sub : UsePortal(s)
    \/ \E c \in Customers : PeriodEnds(c)
    \/ \E i \in 1..Len(events) : StripeWebhook(i) \/ LoseWebhook(i)
    \/ FetchData
    \/ \E i \in 1..Len(loads) :
          AskStripe(i) \/ WriteStatus(i) \/ ShowCard(i) \/ LoadFails(i)

------------------------------------------------------------------------------
(***************************************************************************)
(* Properties                                                              *)
(***************************************************************************)

\* Every variable of the tab keeps its type.
BillingTypeOK ==
    /\ billNet \in BillNets
    /\ sub \in [Customers -> Sub]
    /\ events \in Seq(Event)
    /\ org \in Org
    /\ loads \in Seq(Load)
    /\ card \in [package : Plans, state : DbStates, dated : BOOLEAN]
    /\ changes \in 0..MaxChanges
    /\ shownFresh \in BOOLEAN

\* Whatever webhooks were lost, repeated or overtaken, one undisturbed load of
\* the tab sets both the tab and the document right about whether the
\* customer's subscription ends.
StatusHeals ==
    shownFresh /\ org.cust # NoCustomer
    => LET s == sub[org.cust]
       IN  /\ card.state = DbState(s) /\ card.dated = Dated(s)
           /\ org.state = DbState(s) /\ org.dated = Dated(s)

\* The limit is always the one of the package.  When webhooks arrive in order and
\* once, and all have, the package is the plan that is paid, or basic when the
\* subscription has ended, whatever loads wrote meanwhile.
PackageFollows ==
    /\ org.limit = org.package
    /\ billNet.ordered /\ ~billNet.lossy /\ events = <<>> /\ org.cust # NoCustomer
       => LET s == sub[org.cust]
          IN  org.package = IF s.state = "canceled" THEN "basic" ELSE s.plan

==============================================================================
