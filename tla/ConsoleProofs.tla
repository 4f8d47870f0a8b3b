---------------------------- MODULE ConsoleProofs ----------------------------
(***************************************************************************)
(* Proofs about the admin console: the types of its pages, that no page    *)
(* waits for what will never come, that billing follows Stripe, and that a *)
(* page at rest shows what the server has, for any shares, templates,      *)
(* people, groups, plans, bounds and networks.                             *)
(***************************************************************************)
EXTENDS Console, SequenceTheorems, TLAPS

------------------------------------------------------------------------------
(***************************************************************************)
(* Requests in flight: what taking one out, adding one or changing one     *)
(* does to the others.                                                     *)
(***************************************************************************)

\* The three pages take an element out alike.
LEMMA SameTaking ==
    ASSUME NEW seq, NEW i
    PROVE  Without(seq, i) = Leave(seq, i) /\ Drop(seq, i) = Leave(seq, i)
  BY DEF Leave, Without, Drop

\* Taking out one element leaves the others, in their order.
LEMMA TakenOut ==
    ASSUME NEW S, NEW seq \in Seq(S), NEW i \in 1..Len(seq)
    PROVE  /\ Leave(seq, i) \in Seq(S)
           /\ Len(Leave(seq, i)) = Len(seq) - 1
           /\ \A j \in 1..Len(Leave(seq, i)) :
                 Leave(seq, i)[j] = IF j < i THEN seq[j] ELSE seq[j + 1]
           /\ \A k \in 1..Len(Leave(seq, i)) :
                 \E j \in 1..Len(seq) : Leave(seq, i)[k] = seq[j]
           /\ \A j \in 1..Len(seq) : j # i =>
                 \E k \in 1..Len(Leave(seq, i)) : Leave(seq, i)[k] = seq[j]
<1> DEFINE t == Leave(seq, i)
<1>0. t = [j \in 1..(Len(seq) - 1) |-> IF j < i THEN seq[j] ELSE seq[j + 1]]
  BY DEF Leave
<1> HIDE DEF t
<1>1. Len(seq) \in Nat /\ Len(seq) - 1 \in Nat
  OBVIOUS
<1>2. \A j \in 1..(Len(seq) - 1) : t[j] \in S
  BY <1>0, <1>1
<1>3. t \in Seq(S) /\ Len(t) = Len(seq) - 1
  BY <1>0, <1>1, <1>2
<1>4. \A j \in 1..Len(t) : t[j] = IF j < i THEN seq[j] ELSE seq[j + 1]
  BY <1>0, <1>3
<1>5. ASSUME NEW k \in 1..Len(t) PROVE \E j \in 1..Len(seq) : t[k] = seq[j]
  <2>1. CASE k < i
    BY <1>1, <1>3, <1>4, <2>1
  <2>2. CASE ~(k < i)
    <3>1. k + 1 \in 1..Len(seq) /\ t[k] = seq[k + 1]
      BY <1>1, <1>3, <1>4, <2>2
    <3> QED
      BY <3>1
  <2> QED
    BY <2>1, <2>2
<1>6. ASSUME NEW j \in 1..Len(seq), j # i
      PROVE  \E k \in 1..Len(t) : t[k] = seq[j]
  <2>1. CASE j < i
    <3>1. j \in 1..Len(t) /\ t[j] = seq[j]
      BY <1>1, <1>3, <1>4, <2>1
    <3> QED
      BY <3>1
  <2>2. CASE ~(j < i)
    <3>1. j - 1 \in 1..Len(t) /\ ~(j - 1 < i) /\ (j - 1) + 1 = j
      BY <1>1, <1>3, <1>6, <2>2
    <3>2. t[j - 1] = seq[j]
      BY <1>4, <3>1
    <3> QED
      BY <3>1, <3>2
  <2> QED
    BY <2>1, <2>2
<1> QED
  BY <1>3, <1>4, <1>5, <1>6 DEF t

\* Adding one element.
LEMMA Added ==
    ASSUME NEW S, NEW seq \in Seq(S), NEW e \in S
    PROVE  /\ Append(seq, e) \in Seq(S)
           /\ Len(Append(seq, e)) = Len(seq) + 1
           /\ \A k \in 1..Len(seq) : Append(seq, e)[k] = seq[k]
           /\ Append(seq, e)[Len(seq) + 1] = e
           /\ \A k \in 1..Len(Append(seq, e)) :
                 Append(seq, e)[k] = e \/ \E j \in 1..Len(seq) :
                                             Append(seq, e)[k] = seq[j]
<1>1. Len(seq) \in Nat
  OBVIOUS
<1>2. /\ Append(seq, e) \in Seq(S)
      /\ Len(Append(seq, e)) = Len(seq) + 1
      /\ \A k \in 1..Len(seq) : Append(seq, e)[k] = seq[k]
      /\ Append(seq, e)[Len(seq) + 1] = e
  BY AppendProperties
<1>3. ASSUME NEW k \in 1..(Len(seq) + 1)
      PROVE  k \in 1..Len(seq) \/ k = Len(seq) + 1
  BY <1>1
<1> QED
  BY <1>2, <1>3

\* Changing every element by the same rule.
LEMMA Changed ==
    ASSUME NEW S, NEW seq, NEW t, NEW n \in Nat,
           t = [j \in 1..n |-> seq[j]],
           \A j \in 1..n : seq[j] \in S
    PROVE  t \in Seq(S) /\ Len(t) = n
  OBVIOUS

------------------------------------------------------------------------------
(***************************************************************************)
(* The billing tab.                                                        *)
(***************************************************************************)

\* A load after a step is a load.
LEMMA LoadSteps ==
    ASSUME NEW x \in Load, NEW b \in BOOLEAN, NEW s \in DbStates
    PROVE  /\ [x EXCEPT !.fresh = FALSE] \in Load
           /\ [x EXCEPT !.pc = "synced"] \in Load
           /\ [x EXCEPT !.pc = "asked", !.state = s, !.dated = b] \in Load
<1>1. [x EXCEPT !.fresh = FALSE] \in Load
  BY DEF Load
<1>2. [x EXCEPT !.pc = "synced"] \in Load
  BY DEF Load
<1>3. [x EXCEPT !.pc = "asked", !.state = s, !.dated = b] \in Load
  BY DEF Load
<1> QED
  BY <1>1, <1>2, <1>3

\* The document after an event or a status is a document.
LEMMA OrgSteps ==
    ASSUME NEW o \in Org, NEW p \in Plans, NEW s \in DbStates, NEW b \in BOOLEAN
    PROVE  /\ [o EXCEPT !.state = s, !.dated = b] \in Org
           /\ [o EXCEPT !.package = p, !.limit = p, !.state = s, !.dated = b] \in Org
           /\ [o EXCEPT !.package = "basic", !.limit = "basic",
                        !.state = "canceled"] \in Org
<1>1. [o EXCEPT !.state = s, !.dated = b] \in Org
  BY DEF Org
<1>2. [o EXCEPT !.package = p, !.limit = p, !.state = s, !.dated = b] \in Org
  BY DEF Org
<1>3. [o EXCEPT !.package = "basic", !.limit = "basic",
                !.state = "canceled"] \in Org
  BY DEF Org, Plans, DbStates
<1> QED
  BY <1>1, <1>2, <1>3

LEMMA StatusOf ==
    ASSUME NEW s
    PROVE  DbState(s) \in DbStates /\ Dated(s) \in BOOLEAN
  BY DEF DbState, DbStates, Dated, IsCanceling

\* What outdating the loads leaves of them.
LEMMA Outdated ==
    ASSUME loads \in Seq(Load), Outdate
    PROVE  /\ loads' \in Seq(Load) /\ Len(loads') = Len(loads)
           /\ \A i \in 1..Len(loads') :
                 loads'[i] = [loads[i] EXCEPT !.fresh = FALSE]
           /\ shownFresh' = FALSE
<1>1. Len(loads) \in Nat
  OBVIOUS
<1>2. \A i \in 1..Len(loads) : loads[i] \in Load
  OBVIOUS
<1>3. \A i \in 1..Len(loads) : [loads[i] EXCEPT !.fresh = FALSE] \in Load
  BY <1>2, LoadSteps DEF DbStates
<1> QED
  BY <1>1, <1>3 DEF Outdate

LEMMA BillingTyped ==
    ASSUME BillingAssumption, BillingTypeOK, BillingNext
    PROVE  BillingTypeOK'
<1> USE BillingAssumption
<1>1. ASSUME NEW p \in Plans, Checkout(p) PROVE BillingTypeOK'
  <2>1. PICK c \in Customers :
           LET s == [plan |-> p, state |-> "active"]
           IN  /\ sub' = [sub EXCEPT ![c] = s]
               /\ events' = events \o <<Happened("updated", c, s),
                                        Happened("completed", c, s)>>
    BY <1>1 DEF Checkout
  <2> DEFINE s == [plan |-> p, state |-> "active"]
  <2>2. s \in Sub
    BY DEF Sub, SubStates
  <2>3. Happened("updated", c, s) \in Event /\ Happened("completed", c, s) \in Event
    BY <2>2 DEF Happened, Event
  <2>4. events' \in Seq(Event)
    BY <2>1, <2>3, ConcatProperties DEF BillingTypeOK
  <2>5. sub' \in [Customers -> Sub]
    BY <2>1, <2>2 DEF BillingTypeOK
  <2> QED
    BY <1>1, <2>4, <2>5, Outdated DEF Checkout, BillingTypeOK
<1>2. ASSUME NEW s \in Sub, UsePortal(s) PROVE BillingTypeOK'
  <2>1. org.cust \in Customers
    BY <1>2 DEF UsePortal, BillingTypeOK, Org
  <2>2. Happened("updated", org.cust, s) \in Event
    BY <2>1 DEF Happened, Event
  <2> QED
    BY <1>2, <2>1, <2>2, Outdated DEF UsePortal, BillingTypeOK
<1>3. ASSUME NEW c \in Customers, PeriodEnds(c) PROVE BillingTypeOK'
  <2>1. [sub[c] EXCEPT !.state = "canceled"] \in Sub
    BY DEF BillingTypeOK, Sub, SubStates
  <2>2. Happened("deleted", c, [sub[c] EXCEPT !.state = "canceled"]) \in Event
    BY <2>1 DEF Happened, Event
  <2> QED
    BY <1>3, <2>1, <2>2, Outdated DEF PeriodEnds, BillingTypeOK
<1>4. ASSUME NEW i \in 1..Len(events), StripeWebhook(i) PROVE BillingTypeOK'
  <2> DEFINE e == events[i]
  <2>1. e \in Event
    BY DEF BillingTypeOK
  <2>2. e.cust \in Customers /\ e.sub.plan \in Plans
    BY <2>1 DEF Event, Sub
  <2>3. Completed(e) \in Org
    BY <2>2 DEF Completed, Org, DbStates
  <2>4. org \in Org
    BY DEF BillingTypeOK
  <2>5. Updated(e) \in Org
    BY <2>2, <2>4, OrgSteps, StatusOf DEF Updated
  <2>6. Deleted(e) \in Org
    BY <2>2, <2>4, OrgSteps, StatusOf DEF Deleted
  <2>7. Completed(e) \in Org /\ Updated(e) \in Org /\ Deleted(e) \in Org
    BY <2>3, <2>5, <2>6
  <2>8. org' \in Org
    BY <1>4, <2>1, <2>7 DEF StripeWebhook, Event
  <2>9. events' \in Seq(Event)
    BY <1>4, TakenOut DEF StripeWebhook, BillingTypeOK
  <2> QED
    BY <1>4, <2>8, <2>9, Outdated DEF StripeWebhook, BillingTypeOK
<1>5. ASSUME NEW i \in 1..Len(events), LoseWebhook(i) PROVE BillingTypeOK'
  <2>1. events' \in Seq(Event)
    BY <1>5, TakenOut DEF LoseWebhook, BillingTypeOK
  <2> QED
    BY <1>5, <2>1 DEF LoseWebhook, BillingTypeOK
<1>6. ASSUME FetchData PROVE BillingTypeOK'
  <2>1. [pc |-> IF org.cust = NoCustomer THEN "synced" ELSE "read",
         cust |-> org.cust, package |-> org.package, state |-> org.state,
         dated |-> org.dated, fresh |-> TRUE] \in Load
    BY DEF BillingTypeOK, Org, Load
  <2> QED
    BY <1>6, <2>1 DEF FetchData, BillingTypeOK
<1>7. ASSUME NEW i \in 1..Len(loads), AskStripe(i) PROVE BillingTypeOK'
  <2>1. loads[i] \in Load
    BY DEF BillingTypeOK
  <2>2. [loads[i] EXCEPT !.pc = "asked", !.state = DbState(sub[loads[i].cust]),
                         !.dated = Dated(sub[loads[i].cust])] \in Load
    BY <2>1, LoadSteps, StatusOf
  <2>3. loads' = [loads EXCEPT ![i] =
            [loads[i] EXCEPT !.pc = "asked", !.state = DbState(sub[loads[i].cust]),
                             !.dated = Dated(sub[loads[i].cust])]]
    BY <1>7, <2>1 DEF AskStripe, BillingTypeOK
  <2>4. loads' \in Seq(Load)
    BY <2>2, <2>3 DEF BillingTypeOK
  <2> QED
    BY <1>7, <2>4 DEF AskStripe, BillingTypeOK
<1>8. ASSUME NEW i \in 1..Len(loads), WriteStatus(i) PROVE BillingTypeOK'
  <2> DEFINE x == loads[i]
             Mine == [loads EXCEPT ![i].pc = "synced"]
  <2>1. x \in Load /\ Len(loads) \in Nat
    BY DEF BillingTypeOK
  <2>2. [x EXCEPT !.pc = "synced"] \in Load
    BY <2>1, LoadSteps DEF DbStates
  <2>3. Mine \in Seq(Load) /\ Len(Mine) = Len(loads)
    BY <2>2 DEF BillingTypeOK
  <2>4. \A j \in 1..Len(loads) : [Mine[j] EXCEPT !.fresh = FALSE] \in Load
    <3>1. \A j \in 1..Len(loads) : Mine[j] \in Load
      BY <2>1, <2>3
    <3> HIDE DEF Mine
    <3> QED
      BY <3>1, LoadSteps DEF DbStates
  <2>5. [j \in 1..Len(loads) |-> [Mine[j] EXCEPT !.fresh = FALSE]] \in Seq(Load)
    BY <2>1, <2>4
  <2>6. loads' \in Seq(Load)
    BY <1>8, <2>3, <2>5 DEF WriteStatus
  <2>7. org' \in Org
    BY <1>8, <2>1 DEF WriteStatus, BillingTypeOK, Org, Load
  <2>8. shownFresh' \in BOOLEAN
    BY <1>8, <2>1 DEF WriteStatus, BillingTypeOK, Load
  <2> QED
    BY <1>8, <2>6, <2>7, <2>8 DEF WriteStatus, BillingTypeOK
<1>9. ASSUME NEW i \in 1..Len(loads), ShowCard(i) PROVE BillingTypeOK'
  <2>1. loads[i] \in Load
    BY DEF BillingTypeOK
  <2>2. loads' \in Seq(Load)
    BY <1>9, TakenOut DEF ShowCard, BillingTypeOK
  <2> QED
    BY <1>9, <2>1, <2>2 DEF ShowCard, BillingTypeOK, Load
<1>10. ASSUME NEW i \in 1..Len(loads), LoadFails(i) PROVE BillingTypeOK'
  <2>1. loads' \in Seq(Load)
    BY <1>10, TakenOut DEF LoadFails, BillingTypeOK
  <2> QED
    BY <1>10, <2>1 DEF LoadFails, BillingTypeOK
<1> QED
  BY <1>1, <1>2, <1>3, <1>4, <1>5, <1>6, <1>7, <1>8, <1>9, <1>10 DEF BillingNext

\* What a fresh load knows is what holds: the customer of the document, once
\* Stripe was asked its subscription's state, and once that was written the
\* document's.  Only a load that has a customer asks Stripe.
LoadKnows(x) ==
    /\ x.pc \in {"read", "asked"} => x.cust # NoCustomer
    /\ x.fresh =>
         /\ x.cust = org.cust
         /\ x.cust # NoCustomer /\ x.pc \in {"asked", "synced"} =>
              x.state = DbState(sub[x.cust]) /\ x.dated = Dated(sub[x.cust])
         /\ x.cust # NoCustomer /\ x.pc = "synced" =>
              org.state = DbState(sub[x.cust]) /\ org.dated = Dated(sub[x.cust])

LoadsKnow == \A i \in 1..Len(loads) : LoadKnows(loads[i])

LEMMA OutdatedKnow ==
    ASSUME BillingTypeOK, LoadsKnow, Outdate
    PROVE  LoadsKnow' /\ StatusHeals'
<1>1. loads \in Seq(Load)
  BY DEF BillingTypeOK
<1>2. ASSUME NEW i \in 1..Len(loads') PROVE LoadKnows(loads[i])'
  <2>1. loads[i] \in Load /\ i \in 1..Len(loads)
    BY <1>1, <1>2, Outdated
  <2>2. loads'[i] = [loads[i] EXCEPT !.fresh = FALSE]
    BY <1>1, <1>2, Outdated
  <2>3. /\ loads'[i].pc = loads[i].pc /\ loads'[i].cust = loads[i].cust
        /\ loads'[i].fresh = FALSE
    BY <2>1, <2>2 DEF Load
  <2>4. LoadKnows(loads[i])
    BY <2>1 DEF LoadsKnow
  <2> QED
    BY <2>3, <2>4 DEF LoadKnows
<1> QED
  BY <1>1, <1>2, Outdated DEF LoadsKnow, StatusHeals

LEMMA LoadsKnowStep ==
    ASSUME BillingAssumption, BillingTypeOK, LoadsKnow, StatusHeals, BillingNext
    PROVE  LoadsKnow' /\ StatusHeals'
<1> USE BillingAssumption
<1>0. loads \in Seq(Load) /\ Len(loads) \in Nat
  BY DEF BillingTypeOK
<1>1. ASSUME NEW i \in 1..Len(events), LoseWebhook(i)
      PROVE  LoadsKnow' /\ StatusHeals'
  BY <1>1 DEF LoseWebhook, LoadsKnow, LoadKnows, StatusHeals
<1>2. ASSUME FetchData PROVE LoadsKnow' /\ StatusHeals'
  <2> DEFINE x == [pc |-> IF org.cust = NoCustomer THEN "synced" ELSE "read",
                   cust |-> org.cust, package |-> org.package,
                   state |-> org.state, dated |-> org.dated, fresh |-> TRUE]
  <2>1. x \in Load
    BY DEF BillingTypeOK, Org, Load
  <2>2. LoadKnows(x)
    BY DEF LoadKnows
  <2>3. loads' = Append(loads, x) /\ UNCHANGED <<org, sub, card, shownFresh>>
    BY <1>2 DEF FetchData
  <2> HIDE DEF x
  <2>4. \A k \in 1..Len(loads') : LoadKnows(loads'[k])
    BY <1>0, <2>1, <2>2, <2>3, Added DEF LoadsKnow
  <2> QED
    BY <2>3, <2>4 DEF LoadsKnow, LoadKnows, StatusHeals
<1>3. ASSUME NEW i \in 1..Len(loads), AskStripe(i)
      PROVE  LoadsKnow' /\ StatusHeals'
  <2> DEFINE x == loads[i]
             y == [x EXCEPT !.pc = "asked", !.state = DbState(sub[x.cust]),
                            !.dated = Dated(sub[x.cust])]
  <2>1. x \in Load /\ LoadKnows(x) /\ x.pc = "read"
    BY <1>0, <1>3 DEF LoadsKnow, AskStripe
  <2>2. loads' = [loads EXCEPT ![i] = y] /\ UNCHANGED <<org, sub, card, shownFresh>>
    BY <1>0, <1>3 DEF AskStripe
  <2>3. /\ y.pc = "asked" /\ y.cust = x.cust /\ y.fresh = x.fresh
        /\ y.state = DbState(sub[x.cust]) /\ y.dated = Dated(sub[x.cust])
    BY <2>1 DEF Load
  <2> HIDE DEF x, y
  <2>4. LoadKnows(y)
    BY <2>1, <2>3 DEF LoadKnows
  <2>5. \A k \in 1..Len(loads') : LoadKnows(loads'[k])
    BY <1>0, <2>2, <2>4 DEF LoadsKnow
  <2> QED
    BY <2>2, <2>5 DEF LoadsKnow, LoadKnows, StatusHeals
<1>4. ASSUME NEW i \in 1..Len(loads), WriteStatus(i)
      PROVE  LoadsKnow' /\ StatusHeals'
  <2> DEFINE x == loads[i]
             z == [x EXCEPT !.pc = "synced"]
             Mine == [loads EXCEPT ![i].pc = "synced"]
  <2>1. x \in Load /\ LoadKnows(x) /\ x.pc = "asked" /\ x.cust # NoCustomer
    BY <1>0, <1>4 DEF LoadsKnow, LoadKnows, WriteStatus
  <2>2. z.pc = "synced" /\ z.cust = x.cust /\ z.fresh = x.fresh
        /\ z.state = x.state /\ z.dated = x.dated
    BY <2>1 DEF Load
  <2>3. Mine = [loads EXCEPT ![i] = z] /\ z \in Load
    BY <2>1, LoadSteps DEF DbStates
  <2>4. /\ shownFresh' = (shownFresh /\ x.fresh)
        /\ UNCHANGED <<sub, card>>
    BY <1>4 DEF WriteStatus
  <2>5. org' = IF org.cust = x.cust
               THEN [org EXCEPT !.state = x.state, !.dated = x.dated] ELSE org
    BY <1>4 DEF WriteStatus
  <2>6. org'.cust = org.cust
    BY <2>5 DEF BillingTypeOK, Org
  <2>7. CASE x.fresh
    <3>1. loads' = [loads EXCEPT ![i] = z]
      BY <1>4, <2>3, <2>7 DEF WriteStatus
    <3>2. /\ org.cust = x.cust
          /\ x.state = DbState(sub[x.cust]) /\ x.dated = Dated(sub[x.cust])
      BY <2>1, <2>7 DEF LoadKnows
    <3>3. org'.state = x.state /\ org'.dated = x.dated
      BY <2>5, <3>2 DEF BillingTypeOK, Org
    <3> HIDE DEF x, z
    <3>4. ASSUME NEW k \in 1..Len(loads') PROVE LoadKnows(loads[k])'
      <4>1. k \in 1..Len(loads) /\ loads'[k] = IF k = i THEN z ELSE loads[k]
        BY <1>0, <3>1
      <4>2. LoadKnows(loads[k])
        BY <4>1 DEF LoadsKnow
      <4>3. sub' = sub
        BY <2>4
      <4>4. CASE k = i
        <5>1. loads'[k] = z
          BY <4>1, <4>4
        <5> QED
          BY <2>1, <2>2, <2>6, <3>2, <3>3, <4>3, <5>1 DEF LoadKnows
      <4>5. CASE k # i
        <5>1. loads'[k] = loads[k]
          BY <4>1, <4>5
        <5> QED
          BY <2>6, <3>2, <3>3, <4>2, <4>3, <5>1 DEF LoadKnows
      <4> QED
        BY <4>4, <4>5
    <3>5. StatusHeals'
      BY <2>4, <2>6, <3>2, <3>3 DEF StatusHeals
    <3> QED
      BY <3>4, <3>5 DEF LoadsKnow
  <2>8. CASE ~x.fresh
    <3>1. loads' = [j \in 1..Len(loads) |-> [Mine[j] EXCEPT !.fresh = FALSE]]
      BY <1>4, <2>8 DEF WriteStatus
    <3>2. Len(loads') = Len(loads)
      BY <1>0, <3>1
    <3>3. ASSUME NEW k \in 1..Len(loads') PROVE LoadKnows(loads[k])'
      <4>1. k \in 1..Len(loads)
        BY <3>2
      <4>2. Mine[k] \in Load /\ Mine[k] = IF k = i THEN z ELSE loads[k]
        <5> HIDE DEF Mine, z
        <5> QED
          BY <1>0, <2>3, <4>1
      <4>3. LoadKnows(loads[k])
        BY <4>1 DEF LoadsKnow
      <4>4. Mine[k].pc \in {"read", "asked"} => Mine[k].cust # NoCustomer
        <5> HIDE DEF x, z, Mine
        <5> QED
          BY <2>1, <2>2, <4>2, <4>3 DEF LoadKnows
      <4>5. loads'[k] = [Mine[k] EXCEPT !.fresh = FALSE]
        BY <3>1, <4>1
      <4> HIDE DEF x, z, Mine
      <4>6. /\ loads'[k].pc = Mine[k].pc /\ loads'[k].cust = Mine[k].cust
            /\ loads'[k].fresh = FALSE
        BY <4>2, <4>5 DEF Load
      <4> QED
        BY <4>4, <4>6 DEF LoadKnows
    <3> QED
      BY <2>4, <2>8, <3>3 DEF LoadsKnow, StatusHeals
  <2> QED
    BY <2>7, <2>8
<1>5. ASSUME NEW i \in 1..Len(loads), ShowCard(i)
      PROVE  LoadsKnow' /\ StatusHeals'
  <2> DEFINE x == loads[i]
  <2>1. x \in Load /\ LoadKnows(x) /\ x.pc = "synced"
    BY <1>0, <1>5 DEF LoadsKnow, ShowCard
  <2>2. /\ card' = [package |-> x.package, state |-> x.state, dated |-> x.dated]
        /\ shownFresh' = x.fresh /\ loads' = Leave(loads, i)
        /\ UNCHANGED <<org, sub>>
    BY <1>5 DEF ShowCard
  <2>3. \A k \in 1..Len(loads') : \E j \in 1..Len(loads) : loads'[k] = loads[j]
    BY <1>0, <2>2, TakenOut
  <2>4. \A k \in 1..Len(loads') : LoadKnows(loads'[k])
    BY <2>3 DEF LoadsKnow
  <2> HIDE DEF x
  <2>5. StatusHeals'
    BY <2>1, <2>2 DEF LoadKnows, StatusHeals
  <2> QED
    BY <2>2, <2>4, <2>5 DEF LoadsKnow, LoadKnows
<1>6. ASSUME NEW i \in 1..Len(loads), LoadFails(i)
      PROVE  LoadsKnow' /\ StatusHeals'
  <2>1. loads' = Leave(loads, i) /\ UNCHANGED <<org, sub, card, shownFresh>>
    BY <1>6 DEF LoadFails
  <2>2. \A k \in 1..Len(loads') : \E j \in 1..Len(loads) : loads'[k] = loads[j]
    BY <1>0, <2>1, TakenOut
  <2>3. \A k \in 1..Len(loads') : LoadKnows(loads'[k])
    BY <2>2 DEF LoadsKnow
  <2> QED
    BY <2>1, <2>3 DEF LoadsKnow, LoadKnows, StatusHeals
<1>7. ASSUME Outdate PROVE LoadsKnow' /\ StatusHeals'
  BY <1>7, OutdatedKnow
<1> QED
  BY <1>1, <1>2, <1>3, <1>4, <1>5, <1>6, <1>7 DEF BillingNext, Checkout,
     UsePortal, PeriodEnds, StripeWebhook

\* What the last event about a customer says of its subscription.
Tells(e) ==
    IF e.type = "deleted"
    THEN sub[e.cust].state = "canceled"
    ELSE sub[e.cust].state # "canceled" /\ e.sub.plan = sub[e.cust].plan

LastTells ==
    \A i \in 1..Len(events) :
        (\A j \in 1..Len(events) : j > i => events[j].cust # events[i].cust)
        => Tells(events[i])

\* The package of a customer about whom nothing is on its way.
DocumentFollows ==
    org.cust # NoCustomer
    /\ (\A i \in 1..Len(events) : events[i].cust # org.cust)
    => org.package = IF sub[org.cust].state = "canceled"
                     THEN "basic" ELSE sub[org.cust].plan

EventsFollow ==
    /\ org.limit = org.package
    /\ billNet.ordered /\ ~billNet.lossy => LastTells /\ DocumentFollows

\* Stripe changes one subscription and sends the event that tells of it last.
LEMMA SubscriptionMoves ==
    ASSUME BillingTypeOK, EventsFollow,
           NEW c \in Customers, NEW s \in Sub, NEW e \in Event,
           sub' = [sub EXCEPT ![c] = s],
           events' = Append(events, e),
           e.cust = c,
           IF e.type = "deleted" THEN s.state = "canceled"
           ELSE s.state # "canceled" /\ e.sub.plan = s.plan,
           UNCHANGED <<billNet, org>>
    PROVE  EventsFollow'
<1> DEFINE n == Len(events)
<1>1. /\ events \in Seq(Event) /\ n \in Nat /\ sub \in [Customers -> Sub]
  BY DEF BillingTypeOK
<1>2. /\ Len(events') = n + 1 /\ events'[n + 1] = e
      /\ \A k \in 1..n : events'[k] = events[k]
  BY <1>1, AppendProperties
<1>3. \A d \in Customers : d # c => sub'[d] = sub[d]
  BY <1>1
<1>4. sub'[c] = s
  BY <1>1
<1>5. ASSUME billNet.ordered /\ ~billNet.lossy PROVE LastTells' /\ DocumentFollows'
  <2> LastTells /\ DocumentFollows
    BY <1>5 DEF EventsFollow
  <2>1. ASSUME NEW i \in 1..Len(events'),
               \A j \in 1..Len(events') : j > i => events'[j].cust # events'[i].cust
        PROVE  Tells(events[i])'
    <3>1. CASE i = n + 1
      BY <1>2, <1>4, <3>1 DEF Tells
    <3>2. CASE i # n + 1
      <4>1. i \in 1..n /\ n + 1 > i
        BY <1>1, <1>2, <3>2
      <4>2. events'[i] = events[i] /\ events[i].cust # c
        BY <1>2, <2>1, <4>1
      <4>3. \A j \in 1..n : j > i => events[j].cust # events[i].cust
        BY <1>1, <1>2, <2>1, <4>1, <4>2
      <4>4. Tells(events[i])
        BY <4>1, <4>3 DEF LastTells
      <4>5. events[i].cust \in Customers
        <5>1. events[i] \in Event
          BY <1>1, <4>1
        <5> QED
          BY <5>1 DEF Event
      <4> QED
        BY <1>3, <4>2, <4>4, <4>5 DEF Tells
    <3> QED
      BY <3>1, <3>2
  <2>2. ASSUME org.cust # NoCustomer,
               \A i \in 1..Len(events') : events'[i].cust # org.cust
        PROVE  org.package = IF sub'[org.cust].state = "canceled"
                             THEN "basic" ELSE sub'[org.cust].plan
    <3>1. n + 1 \in 1..Len(events')
      BY <1>1, <1>2
    <3>2. org.cust # c /\ org.cust \in Customers
      BY <1>2, <2>2, <3>1 DEF BillingTypeOK, Org
    <3>3. \A i \in 1..n : events[i].cust # org.cust
      BY <1>1, <1>2, <2>2
    <3>4. sub'[org.cust] = sub[org.cust]
      BY <1>3, <3>2
    <3> QED
      BY <2>2, <3>3, <3>4 DEF DocumentFollows
  <2> QED
    BY <2>1, <2>2 DEF LastTells, DocumentFollows
<1> QED
  BY <1>5 DEF EventsFollow

LEMMA CheckoutFollows ==
    ASSUME BillingTypeOK, EventsFollow, NEW p \in Plans, Checkout(p)
    PROVE  EventsFollow'
<1> DEFINE s == [plan |-> p, state |-> "active"]
           n == Len(events)
<1>1. PICK c \in Customers :
         /\ sub' = [sub EXCEPT ![c] = s]
         /\ events' = events \o <<Happened("updated", c, s),
                                  Happened("completed", c, s)>>
         /\ UNCHANGED <<billNet, org>>
  BY DEF Checkout
<1> DEFINE u == Happened("updated", c, s)
           d == Happened("completed", c, s)
<1>2. s \in Sub
  BY DEF Sub, SubStates
<1>3. u \in Event /\ d \in Event
  BY <1>2 DEF Event, Happened
<1>4. /\ events \in Seq(Event) /\ n \in Nat /\ sub \in [Customers -> Sub]
  BY DEF BillingTypeOK
<1>5. /\ Len(events') = n + 2 /\ events'[n + 1] = u /\ events'[n + 2] = d
      /\ \A k \in 1..n : events'[k] = events[k]
  BY <1>1, <1>3, <1>4, ConcatProperties
<1>6. sub'[c] = s /\ \A x \in Customers : x # c => sub'[x] = sub[x]
  BY <1>1, <1>4
<1>7. u.cust = c /\ d.cust = c /\ d.type = "completed" /\ d.sub = s
  BY DEF Happened
<1> HIDE DEF u, d
<1>8. ASSUME billNet.ordered /\ ~billNet.lossy PROVE LastTells' /\ DocumentFollows'
  <2> LastTells /\ DocumentFollows
    BY <1>8 DEF EventsFollow
  <2>1. ASSUME NEW i \in 1..Len(events'),
               \A j \in 1..Len(events') : j > i => events'[j].cust # events'[i].cust
        PROVE  Tells(events[i])'
    <3>1. n + 1 \in 1..Len(events') /\ n + 2 \in 1..Len(events') /\ n + 2 > n + 1
      BY <1>4, <1>5
    <3>2. i # n + 1
      BY <1>5, <1>7, <2>1, <3>1
    <3>3. CASE i = n + 2
      BY <1>5, <1>6, <1>7, <3>3 DEF Tells
    <3>4. CASE i # n + 2
      <4>1. i \in 1..n /\ n + 1 > i
        BY <1>4, <1>5, <3>2, <3>4
      <4>2. events'[i] = events[i] /\ events[i].cust # c
        BY <1>5, <1>7, <2>1, <3>1, <4>1
      <4>3. \A j \in 1..n : j > i => events[j].cust # events[i].cust
        BY <1>4, <1>5, <2>1, <4>1, <4>2
      <4>4. Tells(events[i])
        BY <4>1, <4>3 DEF LastTells
      <4>5. events[i].cust \in Customers
        <5>1. events[i] \in Event
          BY <1>4, <4>1
        <5> QED
          BY <5>1 DEF Event
      <4> QED
        BY <1>6, <4>2, <4>4, <4>5 DEF Tells
    <3> QED
      BY <3>3, <3>4
  <2>2. ASSUME org.cust # NoCustomer,
               \A i \in 1..Len(events') : events'[i].cust # org.cust
        PROVE  org.package = IF sub'[org.cust].state = "canceled"
                             THEN "basic" ELSE sub'[org.cust].plan
    <3>1. n + 1 \in 1..Len(events')
      BY <1>4, <1>5
    <3>2. org.cust # c /\ org.cust \in Customers
      BY <1>5, <1>7, <2>2, <3>1 DEF BillingTypeOK, Org
    <3>3. \A i \in 1..n : events[i].cust # org.cust
      BY <1>4, <1>5, <2>2
    <3>4. sub'[org.cust] = sub[org.cust]
      BY <1>6, <3>2
    <3> QED
      BY <2>2, <3>3, <3>4 DEF DocumentFollows
  <2> QED
    BY <1>1, <2>1, <2>2 DEF LastTells, DocumentFollows
<1> QED
  BY <1>1, <1>8 DEF EventsFollow

\* The first event on its way is handled.
LEMMA WebhookFollows ==
    ASSUME BillingTypeOK, EventsFollow, NEW i \in 1..Len(events), StripeWebhook(i)
    PROVE  EventsFollow'
<1> DEFINE e == events[i]
<1>1. /\ events \in Seq(Event) /\ Len(events) \in Nat
      /\ org \in Org /\ e \in Event
  BY DEF BillingTypeOK
<1>2. /\ org' = CASE e.type = "completed" -> Completed(e)
                  [] e.type = "updated"   -> Updated(e)
                  [] e.type = "deleted"   -> Deleted(e)
      /\ UNCHANGED <<billNet, sub>>
  BY DEF StripeWebhook
<1>3. \/ e.type = "completed" /\ org' = Completed(e)
      \/ e.type = "updated" /\ org' = Updated(e)
      \/ e.type = "deleted" /\ org' = Deleted(e)
  BY <1>1, <1>2 DEF Event
<1> HIDE DEF e
<1>4. \/ org' = org /\ org.cust # e.cust
      \/ /\ org'.cust = e.cust /\ org'.limit = org'.package
         /\ org'.package = IF e.type = "deleted" THEN "basic" ELSE e.sub.plan
  <2>1. CASE e.type = "completed" /\ org' = Completed(e)
    BY <2>1 DEF Completed
  <2>2. CASE e.type = "updated" /\ org' = Updated(e)
    BY <1>1, <2>2 DEF Updated, Org
  <2>3. CASE e.type = "deleted" /\ org' = Deleted(e)
    BY <1>1, <2>3 DEF Deleted, Org
  <2> QED
    BY <1>3, <2>1, <2>2, <2>3
<1>5. org'.limit = org'.package
  BY <1>4 DEF EventsFollow
<1>6. ASSUME billNet.ordered /\ ~billNet.lossy PROVE LastTells' /\ DocumentFollows'
  <2> LastTells /\ DocumentFollows
    BY <1>6 DEF EventsFollow
  <2>1. i = 1 /\ events' = Leave(events, i)
    BY <1>6 DEF StripeWebhook
  <2>2. /\ Len(events') = Len(events) - 1
        /\ \A k \in 1..Len(events') : events'[k] = events[k + 1]
    <3>1. /\ Len(events') = Len(events) - 1
          /\ \A k \in 1..Len(events') :
                events'[k] = IF k < 1 THEN events[k] ELSE events[k + 1]
      BY <1>1, <2>1, TakenOut
    <3>2. \A k \in 1..Len(events') : ~(k < 1)
      OBVIOUS
    <3> QED
      BY <3>1, <3>2
  <2>3. ASSUME NEW k \in 1..Len(events'),
               \A j \in 1..Len(events') : j > k => events'[j].cust # events'[k].cust
        PROVE  Tells(events[k])'
    <3>1. k + 1 \in 1..Len(events) /\ events'[k] = events[k + 1]
      BY <1>1, <2>2
    <3>2. ASSUME NEW j \in 1..Len(events), j > k + 1
          PROVE  events[j].cust # events[k + 1].cust
      <4>1. j - 1 \in 1..Len(events') /\ j - 1 > k /\ events'[j - 1] = events[j]
        BY <1>1, <2>2, <3>2
      <4> QED
        BY <2>3, <3>1, <4>1
    <3>3. Tells(events[k + 1])
      BY <3>1, <3>2 DEF LastTells
    <3> QED
      BY <1>2, <3>1, <3>3 DEF Tells
  <2>4. ASSUME org'.cust # NoCustomer,
               \A k \in 1..Len(events') : events'[k].cust # org'.cust
        PROVE  org'.package = IF sub[org'.cust].state = "canceled"
                              THEN "basic" ELSE sub[org'.cust].plan
    <3>1. ASSUME NEW j \in 1..Len(events), j > 1 PROVE events[j].cust # org'.cust
      <4>1. j - 1 \in 1..Len(events') /\ events'[j - 1] = events[j]
        BY <1>1, <2>2, <3>1
      <4> QED
        BY <2>4, <4>1
    <3>2. e = events[1]
      BY <2>1 DEF e
    <3>3. CASE org' = org /\ org.cust # e.cust
      <4>1. \A j \in 1..Len(events) : events[j].cust # org.cust
        BY <1>1, <3>1, <3>2, <3>3
      <4> QED
        BY <2>4, <3>3, <4>1 DEF DocumentFollows
    <3>4. CASE /\ org'.cust = e.cust
               /\ org'.package = IF e.type = "deleted" THEN "basic" ELSE e.sub.plan
      <4>1. Tells(e)
        BY <2>1, <3>1, <3>2, <3>4 DEF LastTells
      <4> QED
        BY <3>4, <4>1 DEF Tells
    <3> QED
      BY <1>4, <3>3, <3>4
  <2>5. sub' = sub
    BY <1>2
  <2>6. LastTells'
    BY <2>3 DEF LastTells
  <2>7. DocumentFollows'
    BY <2>4, <2>5 DEF DocumentFollows
  <2> QED
    BY <2>6, <2>7
<1> QED
  BY <1>2, <1>5, <1>6 DEF EventsFollow

BillingInv == BillingTypeOK /\ LoadsKnow /\ StatusHeals /\ EventsFollow

LEMMA BillingStarts ==
    ASSUME BillingAssumption, BillingInit
    PROVE  BillingInv
<1>1. \A c \in Customers : [plan |-> "basic", state |-> "none"] \in Sub
  BY DEF Sub, Plans, SubStates
<1>2. PICK p \in Plans : org = [cust |-> NoCustomer, package |-> p, limit |-> p,
                                state |-> "active", dated |-> FALSE]
  BY DEF BillingInit
<1>3. org \in Org
  BY <1>2 DEF Org, DbStates
<1>4. card \in [package : Plans, state : DbStates, dated : BOOLEAN]
  BY <1>2 DEF BillingInit, DbStates
<1>5. BillingTypeOK
  <2>1. sub \in [Customers -> Sub]
    BY <1>1 DEF BillingInit
  <2>2. events \in Seq(Event) /\ loads \in Seq(Load)
    BY DEF BillingInit
  <2>3. changes \in 0..MaxChanges
    BY BillingAssumption DEF BillingInit
  <2> QED
    BY <1>3, <1>4, <2>1, <2>2, <2>3 DEF BillingInit, BillingTypeOK
<1>6. LoadsKnow /\ StatusHeals
  <2>1. loads = <<>> /\ shownFresh = FALSE
    BY DEF BillingInit
  <2>2. ASSUME NEW i \in 1..Len(loads) PROVE FALSE
    BY <2>1, <2>2
  <2> QED
    BY <2>1, <2>2 DEF LoadsKnow, StatusHeals
<1>7. EventsFollow
  BY <1>2 DEF BillingInit, EventsFollow, LastTells, DocumentFollows
<1> QED
  BY <1>5, <1>6, <1>7 DEF BillingInv

LEMMA BillingKeeps ==
    ASSUME BillingAssumption, BillingInv, BillingNext
    PROVE  BillingInv'
<1> BillingTypeOK /\ EventsFollow
  BY DEF BillingInv
<1>1. ASSUME NEW p \in Plans, Checkout(p) PROVE EventsFollow'
  BY <1>1, CheckoutFollows
<1>2. ASSUME NEW s \in Sub, UsePortal(s) PROVE EventsFollow'
  <2> DEFINE e == Happened("updated", org.cust, s)
  <2>1. org.cust \in Customers
    BY <1>2 DEF UsePortal, BillingTypeOK, Org
  <2>2. e \in Event
    BY <2>1 DEF Happened, Event
  <2>3. /\ sub' = [sub EXCEPT ![org.cust] = s] /\ events' = Append(events, e)
        /\ s.state \in {"active", "canceling"} /\ UNCHANGED <<billNet, org>>
    BY <1>2 DEF UsePortal
  <2>4. e.type = "updated" /\ e.cust = org.cust /\ e.sub = s
    BY DEF Happened
  <2> HIDE DEF e
  <2> QED
    BY <2>1, <2>2, <2>3, <2>4, SubscriptionMoves
<1>3. ASSUME NEW c \in Customers, PeriodEnds(c) PROVE EventsFollow'
  <2> DEFINE s == [sub[c] EXCEPT !.state = "canceled"]
             e == Happened("deleted", c, s)
  <2>1. s \in Sub /\ s.state = "canceled"
    BY DEF BillingTypeOK, Sub, SubStates
  <2>2. e \in Event
    BY <2>1 DEF Happened, Event
  <2>3. /\ sub' = [sub EXCEPT ![c] = s] /\ events' = Append(events, e)
        /\ UNCHANGED <<billNet, org>>
    BY <1>3 DEF PeriodEnds
  <2>4. e.type = "deleted" /\ e.cust = c
    BY DEF Happened
  <2> HIDE DEF e, s
  <2> QED
    BY <2>1, <2>2, <2>3, <2>4, SubscriptionMoves
<1>4. ASSUME NEW i \in 1..Len(events), StripeWebhook(i) PROVE EventsFollow'
  BY <1>4, WebhookFollows
<1>5. ASSUME NEW i \in 1..Len(events), LoseWebhook(i) PROVE EventsFollow'
  BY <1>5 DEF LoseWebhook, EventsFollow
<1>6. ASSUME UNCHANGED <<billNet, sub, events, org>> PROVE EventsFollow'
  BY <1>6 DEF EventsFollow, LastTells, Tells, DocumentFollows
<1>7. ASSUME NEW i \in 1..Len(loads), WriteStatus(i) PROVE EventsFollow'
  <2>1. /\ org' = IF org.cust = loads[i].cust
                  THEN [org EXCEPT !.state = loads[i].state, !.dated = loads[i].dated]
                  ELSE org
        /\ UNCHANGED <<billNet, sub, events>>
    BY <1>7 DEF WriteStatus
  <2>2. org'.cust = org.cust /\ org'.package = org.package /\ org'.limit = org.limit
    BY <2>1 DEF BillingTypeOK, Org
  <2> QED
    BY <2>1, <2>2 DEF EventsFollow, LastTells, Tells, DocumentFollows
<1>8. EventsFollow'
  BY <1>1, <1>2, <1>3, <1>4, <1>5, <1>6, <1>7 DEF BillingNext, FetchData,
     AskStripe, ShowCard, LoadFails
<1>9. BillingTypeOK'
  BY BillingTyped
<1>10. LoadsKnow' /\ StatusHeals'
  BY LoadsKnowStep DEF BillingInv
<1> QED
  BY <1>8, <1>9, <1>10 DEF BillingInv

LEMMA BillingRests ==
    ASSUME BillingInv, UNCHANGED billVars
    PROVE  BillingInv'
  BY DEF BillingInv, billVars, BillingTypeOK, LoadsKnow, LoadKnows,
     StatusHeals, EventsFollow, LastTells, Tells, DocumentFollows

LEMMA BillingPromises ==
    ASSUME BillingInv
    PROVE  StatusHeals /\ PackageFollows
<1>1. events = <<>> => \A i \in 1..Len(events) : FALSE
  OBVIOUS
<1> QED
  BY <1>1 DEF BillingInv, EventsFollow, DocumentFollows, PackageFollows

------------------------------------------------------------------------------
(***************************************************************************)
(* The file shares page.                                                   *)
(***************************************************************************)

\* An operation's request names its share, and a poll's request its poll.
CallShape(x) ==
    /\ x.kind \notin {"tree", "poll"} => x.share \in Shares
    /\ x.kind = "poll" => x.poll \in 1..Len(filePolls)

CallsShaped == \A i \in 1..Len(fileCalls) : CallShape(fileCalls[i])

ShareJob == [op : JobOps, share : Shares]
FilePoll == [op : JobOps, share : Shares, attempts : 0..MaxAttempts, live : BOOLEAN]

FilesTyped == FilesTypeOK /\ CallsShaped

\* A request, and a request after its answer, is one.
LEMMA CallSteps ==
    ASSUME NEW x \in FileCall, NEW at \in {"sent", "ok", "failed"}, NEW l \in Listing
    PROVE  [x EXCEPT !.at = at, !.list = l] \in FileCall
  BY DEF FileCall

LEMMA NoListing == NoList \in Listing
  BY DEF NoList, Listing, Forms

LEMMA Requests ==
    ASSUME NEW kind \in FileCallKinds, NEW s \in Shares \cup {NoShare}, NEW p \in Nat
    PROVE  /\ Request(kind, s, p) \in FileCall
           /\ Request(kind, s, p).kind = kind
           /\ Request(kind, s, p).share = s
           /\ Request(kind, s, p).poll = p
<1>1. NoList \in Listing /\ "sent" \in {"sent", "ok", "failed"}
  BY NoListing
<1> QED
  BY <1>1 DEF Request, FileCall

LEMMA Fetches ==
    Fetch \in FileCall /\ Fetch.kind = "tree"
  BY Requests DEF Fetch, FileCallKinds, JobOps

\* A request is sent, and polls are only added to.
LEMMA CallSent ==
    ASSUME FilesTyped, NEW r \in FileCall, CallShape(r)',
           fileCalls' = Append(fileCalls, r),
           Len(filePolls') \in Nat, Len(filePolls') >= Len(filePolls)
    PROVE  fileCalls' \in Seq(FileCall) /\ CallsShaped'
<1>1. /\ fileCalls \in Seq(FileCall) /\ Len(fileCalls) \in Nat
      /\ Len(filePolls) \in Nat
  BY DEF FilesTyped, FilesTypeOK
<1>2. /\ fileCalls' \in Seq(FileCall) /\ Len(fileCalls') = Len(fileCalls) + 1
      /\ \A k \in 1..Len(fileCalls) : fileCalls'[k] = fileCalls[k]
      /\ fileCalls'[Len(fileCalls) + 1] = r
  BY <1>1, AppendProperties
<1>3. ASSUME NEW k \in 1..Len(fileCalls') PROVE CallShape(fileCalls[k])'
  <2>1. CASE k = Len(fileCalls) + 1
    BY <1>2, <2>1 DEF CallShape
  <2>2. CASE k # Len(fileCalls) + 1
    <3>1. k \in 1..Len(fileCalls)
      BY <1>1, <1>2, <2>2
    <3>2. CallShape(fileCalls[k]) /\ fileCalls'[k] = fileCalls[k]
      BY <1>2, <3>1 DEF FilesTyped, CallsShaped
    <3> QED
      BY <1>1, <3>2 DEF CallShape
  <2> QED
    BY <2>1, <2>2
<1> QED
  BY <1>2, <1>3 DEF CallsShaped

\* The requests beside request i.
LEMMA CallsLeft ==
    ASSUME fileCalls \in Seq(FileCall), NEW i \in 1..Len(fileCalls)
    PROVE  /\ Without(fileCalls, i) \in Seq(FileCall)
           /\ \A k \in 1..Len(Without(fileCalls, i)) :
                 \E j \in 1..Len(fileCalls) :
                     Without(fileCalls, i)[k] = fileCalls[j]
           /\ \A j \in 1..Len(fileCalls) : j # i =>
                 \E k \in 1..Len(Without(fileCalls, i)) :
                     Without(fileCalls, i)[k] = fileCalls[j]
<1> DEFINE t == Leave(fileCalls, i)
<1>1. Without(fileCalls, i) = t
  BY SameTaking
<1>2. t \in Seq(FileCall)
  BY TakenOut
<1>3. \A k \in 1..Len(t) : \E j \in 1..Len(fileCalls) : t[k] = fileCalls[j]
  BY TakenOut
<1>4. \A j \in 1..Len(fileCalls) : j # i => \E k \in 1..Len(t) : t[k] = fileCalls[j]
  BY TakenOut
<1> HIDE DEF t
<1> QED
  BY <1>1, <1>2, <1>3, <1>4

\* A request is answered and gone.
LEMMA CallGone ==
    ASSUME FilesTyped, NEW i \in 1..Len(fileCalls),
           fileCalls' = Without(fileCalls, i),
           Len(filePolls') \in Nat, Len(filePolls') >= Len(filePolls)
    PROVE  fileCalls' \in Seq(FileCall) /\ CallsShaped'
<1> DEFINE w == Without(fileCalls, i)
<1>1. /\ fileCalls \in Seq(FileCall) /\ Len(filePolls) \in Nat
  BY DEF FilesTyped, FilesTypeOK
<1>2. /\ fileCalls' \in Seq(FileCall)
      /\ \A k \in 1..Len(fileCalls') :
            \E j \in 1..Len(fileCalls) : fileCalls'[k] = fileCalls[j]
  <2>1. /\ w \in Seq(FileCall)
        /\ \A k \in 1..Len(w) : \E j \in 1..Len(fileCalls) : w[k] = fileCalls[j]
    BY <1>1, CallsLeft
  <2>2. fileCalls' = w
    OBVIOUS
  <2> HIDE DEF w
  <2> QED
    BY <2>1, <2>2
<1>3. ASSUME NEW k \in 1..Len(fileCalls') PROVE CallShape(fileCalls[k])'
  <2>1. PICK j \in 1..Len(fileCalls) : fileCalls'[k] = fileCalls[j]
    BY <1>2
  <2>2. CallShape(fileCalls[j])
    BY DEF FilesTyped, CallsShaped
  <2> QED
    BY <1>1, <2>1, <2>2 DEF CallShape
<1> QED
  BY <1>2, <1>3 DEF CallsShaped

\* A request is answered, and the list is fetched.
LEMMA CallReplaced ==
    ASSUME FilesTyped, NEW i \in 1..Len(fileCalls),
           fileCalls' = Append(Without(fileCalls, i), Fetch),
           Len(filePolls') = Len(filePolls)
    PROVE  fileCalls' \in Seq(FileCall) /\ CallsShaped'
<1> DEFINE w == Without(fileCalls, i)
<1>1. /\ fileCalls \in Seq(FileCall) /\ Len(filePolls) \in Nat
  BY DEF FilesTyped, FilesTypeOK
<1>2. /\ w \in Seq(FileCall) /\ Len(w) \in Nat
      /\ \A k \in 1..Len(w) : \E j \in 1..Len(fileCalls) : w[k] = fileCalls[j]
  <2>1. /\ w \in Seq(FileCall)
        /\ \A k \in 1..Len(w) : \E j \in 1..Len(fileCalls) : w[k] = fileCalls[j]
    BY <1>1, CallsLeft
  <2> HIDE DEF w
  <2> QED
    BY <2>1
<1> HIDE DEF w
<1>3. /\ fileCalls' \in Seq(FileCall) /\ Len(fileCalls') = Len(w) + 1
      /\ \A k \in 1..Len(w) : fileCalls'[k] = w[k]
      /\ fileCalls'[Len(w) + 1] = Fetch
  BY <1>2, AppendProperties, Fetches DEF w
<1>4. ASSUME NEW k \in 1..Len(fileCalls') PROVE CallShape(fileCalls[k])'
  <2>1. CASE k = Len(w) + 1
    BY <1>3, <2>1, Fetches DEF CallShape
  <2>2. CASE k # Len(w) + 1
    <3>1. k \in 1..Len(w)
      BY <1>2, <1>3, <2>2
    <3>2. PICK j \in 1..Len(fileCalls) : fileCalls'[k] = fileCalls[j]
      BY <1>2, <1>3, <3>1
    <3>3. CallShape(fileCalls[j])
      BY DEF FilesTyped, CallsShaped
    <3> QED
      BY <3>2, <3>3 DEF CallShape
  <2> QED
    BY <2>1, <2>2
<1> QED
  BY <1>3, <1>4 DEF CallsShaped

\* The answer to a request is on its way.
LEMMA CallAnswered ==
    ASSUME FilesTyped, NEW i \in 1..Len(fileCalls),
           NEW at \in {"sent", "ok", "failed"}, NEW l \in Listing,
           fileCalls' = [fileCalls EXCEPT
                            ![i] = [fileCalls[i] EXCEPT !.at = at, !.list = l]],
           UNCHANGED filePolls
    PROVE  /\ fileCalls' \in Seq(FileCall) /\ CallsShaped'
           /\ Len(fileCalls') = Len(fileCalls)
           /\ \A k \in 1..Len(fileCalls) :
                 /\ fileCalls'[k].kind = fileCalls[k].kind
                 /\ fileCalls'[k].share = fileCalls[k].share
<1> DEFINE y == [fileCalls[i] EXCEPT !.at = at, !.list = l]
<1>1. fileCalls \in Seq(FileCall) /\ fileCalls[i] \in FileCall
  BY DEF FilesTyped, FilesTypeOK
<1>2. /\ y \in FileCall /\ y.kind = fileCalls[i].kind
      /\ y.share = fileCalls[i].share /\ y.poll = fileCalls[i].poll
  <2>1. y \in FileCall
    BY <1>1, CallSteps
  <2> QED
    BY <1>1, <2>1 DEF FileCall
<1> HIDE DEF y
<1>3. fileCalls' = [fileCalls EXCEPT ![i] = y]
  BY DEF y
<1>4. /\ fileCalls' \in Seq(FileCall) /\ Len(fileCalls') = Len(fileCalls)
      /\ \A k \in 1..Len(fileCalls) :
            fileCalls'[k] = IF k = i THEN y ELSE fileCalls[k]
  BY <1>1, <1>2, <1>3
<1>5. ASSUME NEW k \in 1..Len(fileCalls)
      PROVE  /\ fileCalls'[k].kind = fileCalls[k].kind
             /\ fileCalls'[k].share = fileCalls[k].share
             /\ CallShape(fileCalls[k])'
  <2>1. /\ fileCalls'[k].kind = fileCalls[k].kind
        /\ fileCalls'[k].share = fileCalls[k].share
        /\ fileCalls'[k].poll = fileCalls[k].poll
    BY <1>2, <1>4
  <2>2. CallShape(fileCalls[k])
    BY DEF FilesTyped, CallsShaped
  <2> QED
    BY <2>1, <2>2 DEF CallShape
<1> QED
  BY <1>4, <1>5 DEF CallsShaped

\* The names the banner holds for an operation, and what will take one away.
Owed(op) == IF op = "create" THEN creating ELSE deleting

AwaitedBy(op, s) ==
    \/ \E i \in 1..Len(fileCalls) :
          fileCalls[i].kind = op /\ fileCalls[i].share = s
    \/ \E p \in 1..Len(filePolls) :
          filePolls[p].live /\ filePolls[p].op = op /\ filePolls[p].share = s

Banners == \A op \in JobOps : \A s \in Owed(op) : AwaitedBy(op, s)

FilesInv == FilesTyped /\ Banners

\* A step that keeps every request and poll whose share stays in the banner.
LEMMA BannersStay ==
    ASSUME Banners,
           \A op \in JobOps : \A s \in Owed(op)' :
              /\ s \in Owed(op)
              /\ \A i \in 1..Len(fileCalls) :
                    fileCalls[i].kind = op /\ fileCalls[i].share = s
                    => AwaitedBy(op, s)'
              /\ \A p \in 1..Len(filePolls) :
                    filePolls[p].live /\ filePolls[p].op = op
                    /\ filePolls[p].share = s
                    => AwaitedBy(op, s)'
    PROVE  Banners'
<1>1. ASSUME NEW op \in JobOps, NEW s \in Owed(op)' PROVE AwaitedBy(op, s)'
  <2>1. AwaitedBy(op, s)
    BY <1>1 DEF Banners
  <2> QED
    BY <1>1, <2>1 DEF AwaitedBy
<1> QED
  BY <1>1 DEF Banners

\* A request is sent, and a name may be put in the banner for it.
LEMMA OperationKeeps ==
    ASSUME FilesInv, NEW kind \in FileCallKinds, NEW s \in Shares \cup {NoShare},
           NEW p \in Nat,
           fileCalls' = Append(fileCalls, Request(kind, s, p)),
           kind \notin {"tree", "poll"} => s \in Shares,
           kind = "poll" => p \in 1..Len(filePolls),
           Len(filePolls') = Len(filePolls),
           \A k \in 1..Len(filePolls) :
              /\ filePolls'[k].live = filePolls[k].live
              /\ filePolls'[k].op = filePolls[k].op
              /\ filePolls'[k].share = filePolls[k].share,
           \A op \in JobOps : Owed(op)' \subseteq Owed(op)
                              \/ (op = kind /\ Owed(op)' \subseteq Owed(op) \cup {s})
    PROVE  fileCalls' \in Seq(FileCall) /\ CallsShaped' /\ Banners'
<1> DEFINE r == Request(kind, s, p)
<1>1. r \in FileCall /\ r.kind = kind /\ r.share = s /\ r.poll = p
  <2>1. r \in FileCall
    BY Requests
  <2>2. r.kind = kind /\ r.share = s /\ r.poll = p
    BY DEF Request
  <2> QED
    BY <2>1, <2>2
<1>2. fileCalls \in Seq(FileCall) /\ Len(fileCalls) \in Nat /\ Len(filePolls) \in Nat
  BY DEF FilesInv, FilesTyped, FilesTypeOK
<1> HIDE DEF r
<1>3. fileCalls' = Append(fileCalls, r)
  BY DEF r
<1>4. CallShape(r)'
  BY <1>1 DEF CallShape
<1>5. fileCalls' \in Seq(FileCall) /\ CallsShaped'
  BY <1>1, <1>2, <1>3, <1>4, CallSent DEF FilesInv
<1>6. /\ Len(fileCalls') = Len(fileCalls) + 1
      /\ \A k \in 1..Len(fileCalls) : fileCalls'[k] = fileCalls[k]
      /\ fileCalls'[Len(fileCalls) + 1] = r
  BY <1>1, <1>2, <1>3, AppendProperties
<1>7. ASSUME NEW op \in JobOps, NEW x \in Owed(op)' PROVE AwaitedBy(op, x)'
  <2>1. CASE x \in Owed(op)
    <3>1. AwaitedBy(op, x)
      BY <2>1 DEF FilesInv, Banners
    <3>2. \A k \in 1..Len(fileCalls) : k \in 1..Len(fileCalls')
      BY <1>2, <1>6
    <3> QED
      BY <1>6, <3>1, <3>2 DEF AwaitedBy
  <2>2. CASE x \notin Owed(op)
    <3>1. op = kind /\ x = s
      BY <2>2
    <3>2. Len(fileCalls) + 1 \in 1..Len(fileCalls')
      BY <1>2, <1>6
    <3> QED
      BY <1>1, <1>6, <3>1, <3>2 DEF AwaitedBy
  <2> QED
    BY <2>1, <2>2
<1> QED
  BY <1>5, <1>7 DEF Banners

\* A request is answered and gone, beside polls that stay.
LEMMA AnswerKeeps ==
    ASSUME FilesInv, NEW i \in 1..Len(fileCalls),
           \/ fileCalls' = Without(fileCalls, i)
           \/ fileCalls' = Append(Without(fileCalls, i), Fetch),
           Len(filePolls') = Len(filePolls)
    PROVE  /\ fileCalls' \in Seq(FileCall) /\ CallsShaped'
           /\ \A j \in 1..Len(fileCalls) : j # i =>
                 \E k \in 1..Len(fileCalls') : fileCalls'[k] = fileCalls[j]
<1> DEFINE w == Without(fileCalls, i)
<1>1. fileCalls \in Seq(FileCall) /\ Len(filePolls) \in Nat
  BY DEF FilesInv, FilesTyped, FilesTypeOK
<1>2. /\ w \in Seq(FileCall)
      /\ \A j \in 1..Len(fileCalls) : j # i =>
            \E k \in 1..Len(w) : w[k] = fileCalls[j]
  BY <1>1, CallsLeft
<1> HIDE DEF w
<1>3. CASE fileCalls' = w
  <2>1. fileCalls' \in Seq(FileCall) /\ CallsShaped'
    BY <1>1, <1>3, CallGone DEF FilesInv, w
  <2> QED
    BY <1>2, <1>3, <2>1
<1>4. CASE fileCalls' = Append(w, Fetch)
  <2>1. fileCalls' \in Seq(FileCall) /\ CallsShaped'
    BY <1>4, CallReplaced DEF FilesInv, w
  <2>2. /\ Len(fileCalls') = Len(w) + 1 /\ Len(w) \in Nat
        /\ \A k \in 1..Len(w) : fileCalls'[k] = w[k]
    BY <1>2, <1>4, AppendProperties, Fetches
  <2>3. \A k \in 1..Len(w) : k \in 1..Len(fileCalls')
    BY <2>2
  <2>4. ASSUME NEW j \in 1..Len(fileCalls), j # i
        PROVE  \E k \in 1..Len(fileCalls') : fileCalls'[k] = fileCalls[j]
    <3>1. PICK k \in 1..Len(w) : w[k] = fileCalls[j]
      BY <1>2, <2>4
    <3> QED
      BY <2>2, <2>3, <3>1
  <2> QED
    BY <2>1, <2>4
<1> QED
  BY <1>3, <1>4 DEF w

LEMMA FilesKeep ==
    ASSUME FilesAssumption, FilesInv, FilesNext
    PROVE  FilesInv'
<1> USE FilesAssumption
<1>0. /\ FilesTypeOK /\ FilesTyped
      /\ fileCalls \in Seq(FileCall) /\ Len(fileCalls) \in Nat
      /\ filePolls \in Seq(FilePoll) /\ Len(filePolls) \in Nat
      /\ \A i \in 1..Len(fileCalls) : fileCalls[i] \in FileCall /\ CallShape(fileCalls[i])
      /\ \A p \in 1..Len(filePolls) : filePolls[p] \in FilePoll
  <2>1. /\ FilesTypeOK /\ FilesTyped
        /\ fileCalls \in Seq(FileCall) /\ filePolls \in Seq(FilePoll)
    BY DEF FilesInv, FilesTyped, FilesTypeOK, FilePoll
  <2>2. \A i \in 1..Len(fileCalls) : fileCalls[i] \in FileCall
    BY <2>1
  <2>3. \A i \in 1..Len(fileCalls) : CallShape(fileCalls[i])
    BY <2>1 DEF FilesTyped, CallsShaped
  <2>4. \A p \in 1..Len(filePolls) : filePolls[p] \in FilePoll
    BY <2>1
  <2> QED
    BY <2>1, <2>2, <2>3, <2>4, LenProperties
<1>1. ASSUME NEW s \in Shares, SubmitShare(s) PROVE FilesInv'
  <2>1. fileCalls' = Append(fileCalls, Request("create", s, 0))
    BY <1>1 DEF SubmitShare, Operate
  <2>2. /\ UNCHANGED filePolls /\ Owed("create")' = creating \cup {s}
        /\ Owed("delete")' = deleting
    BY <1>1 DEF SubmitShare, Owed
  <2>3. fileCalls' \in Seq(FileCall) /\ CallsShaped' /\ Banners'
    <3>1. "create" \in FileCallKinds /\ 0 \in Nat
      BY DEF FileCallKinds, JobOps
    <3>2. \A op \in JobOps : Owed(op)' \subseteq Owed(op)
                             \/ (op = "create" /\ Owed(op)' \subseteq Owed(op) \cup {s})
      BY <2>2 DEF Owed, JobOps
    <3> QED
      BY <2>1, <2>2, <3>1, <3>2, OperationKeeps
  <2>4. FilesTypeOK'
    BY <1>0, <1>1, <2>3 DEF SubmitShare, Operate, FilesTypeOK
  <2> QED
    BY <2>3, <2>4 DEF FilesInv, FilesTyped
<1>2. ASSUME NEW s \in Shares, DeleteRow(s) PROVE FilesInv'
  <2>1. fileCalls' = Append(fileCalls, Request("delete", s, 0))
    BY <1>2 DEF DeleteRow, Operate
  <2>2. /\ UNCHANGED filePolls /\ Owed("create")' = creating
        /\ Owed("delete")' = deleting \cup {s}
    BY <1>2 DEF DeleteRow, Owed
  <2>3. fileCalls' \in Seq(FileCall) /\ CallsShaped' /\ Banners'
    <3>1. "delete" \in FileCallKinds /\ 0 \in Nat
      BY DEF FileCallKinds, JobOps
    <3>2. \A op \in JobOps : Owed(op)' \subseteq Owed(op)
                             \/ (op = "delete" /\ Owed(op)' \subseteq Owed(op) \cup {s})
      BY <2>2 DEF Owed, JobOps
    <3> QED
      BY <2>1, <2>2, <3>1, <3>2, OperationKeeps
  <2>4. FilesTypeOK'
    BY <1>0, <1>2, <2>3 DEF DeleteRow, Operate, FilesTypeOK
  <2> QED
    BY <2>3, <2>4 DEF FilesInv, FilesTyped
<1>3. ASSUME NEW s \in Shares, NEW kind \in {"edit", "dialog"}, UseDialog(s, kind)
      PROVE  FilesInv'
  <2>1. fileCalls' = Append(fileCalls, Request(kind, s, 0))
    BY <1>3 DEF UseDialog, Operate
  <2>2. UNCHANGED <<filePolls, creating, deleting>>
    BY <1>3 DEF UseDialog
  <2>3. fileCalls' \in Seq(FileCall) /\ CallsShaped' /\ Banners'
    <3>1. kind \in FileCallKinds /\ 0 \in Nat
      BY DEF FileCallKinds, JobOps
    <3>2. \A op \in JobOps : Owed(op)' \subseteq Owed(op)
      BY <2>2 DEF Owed
    <3> QED
      BY <2>1, <2>2, <3>1, <3>2, OperationKeeps
  <2>4. FilesTypeOK'
    BY <1>0, <1>3, <2>3 DEF UseDialog, Operate, FilesTypeOK
  <2> QED
    BY <2>3, <2>4 DEF FilesInv, FilesTyped
<1>4. ASSUME RefreshTree PROVE FilesInv'
  <2>1. fileCalls' = Append(fileCalls, Request("tree", NoShare, 0))
    BY <1>4 DEF RefreshTree, Fetch
  <2>2. UNCHANGED <<filePolls, creating, deleting>>
    BY <1>4 DEF RefreshTree
  <2>3. fileCalls' \in Seq(FileCall) /\ CallsShaped' /\ Banners'
    <3>1. "tree" \in FileCallKinds /\ 0 \in Nat
      BY DEF FileCallKinds
    <3>2. \A op \in JobOps : Owed(op)' \subseteq Owed(op)
      BY <2>2 DEF Owed
    <3> QED
      BY <2>1, <2>2, <3>1, <3>2, OperationKeeps
  <2>4. FilesTypeOK'
    BY <1>0, <1>4, <2>3 DEF RefreshTree, FilesTypeOK
  <2> QED
    BY <2>3, <2>4 DEF FilesInv, FilesTyped
<1>5. ASSUME NEW p \in 1..Len(filePolls), Tick(p) PROVE FilesInv'
  <2> DEFINE n == IF filePolls[p].attempts < MaxAttempts
                  THEN filePolls[p].attempts + 1 ELSE filePolls[p].attempts
             y == [filePolls[p] EXCEPT !.attempts = n]
  <2>1. fileCalls' = Append(fileCalls, Request("poll", NoShare, p))
    BY <1>5 DEF Tick
  <2>2. UNCHANGED <<creating, deleting>>
    BY <1>5 DEF Tick
  <2>3. filePolls' = [filePolls EXCEPT ![p] = y]
    BY <1>0, <1>5 DEF Tick
  <2>4. n \in 0..MaxAttempts
    <3>1. filePolls[p].attempts \in 0..MaxAttempts
      BY <1>0 DEF FilePoll
    <3> QED
      BY <3>1
  <2>5. /\ y \in FilePoll /\ y.live = filePolls[p].live /\ y.op = filePolls[p].op
        /\ y.share = filePolls[p].share
    <3> HIDE DEF n
    <3>1. filePolls[p] \in FilePoll
      BY <1>0
    <3>2. y \in FilePoll
      BY <2>4, <3>1 DEF FilePoll
    <3> QED
      BY <3>1, <3>2 DEF FilePoll
  <2> HIDE DEF y
  <2>6. /\ filePolls' \in Seq(FilePoll) /\ Len(filePolls') = Len(filePolls)
        /\ \A k \in 1..Len(filePolls) :
              filePolls'[k] = IF k = p THEN y ELSE filePolls[k]
    BY <1>0, <2>3, <2>5
  <2>7. fileCalls' \in Seq(FileCall) /\ CallsShaped' /\ Banners'
    <3>1. "poll" \in FileCallKinds /\ p \in Nat
      BY <1>0 DEF FileCallKinds
    <3>2. \A op \in JobOps : Owed(op)' \subseteq Owed(op)
      BY <2>2 DEF Owed
    <3>3. \A k \in 1..Len(filePolls) :
             /\ filePolls'[k].live = filePolls[k].live
             /\ filePolls'[k].op = filePolls[k].op
             /\ filePolls'[k].share = filePolls[k].share
      BY <2>5, <2>6
    <3> QED
      BY <2>1, <2>6, <3>1, <3>2, <3>3, OperationKeeps
  <2>8. FilesTypeOK'
    BY <1>0, <1>5, <2>6, <2>7 DEF Tick, FilesTypeOK, FilePoll
  <2> QED
    BY <2>7, <2>8 DEF FilesInv, FilesTyped
<1>6. ASSUME NEW k \in 1..Len(shareJobs), EndShareJob(k) PROVE FilesInv'
  <2>1. shareJobs \in Seq(ShareJob)
    BY <1>0 DEF FilesTypeOK, ShareJob
  <2>2. shareJobs' \in Seq(ShareJob)
    BY <1>6, <2>1, TakenOut, SameTaking DEF EndShareJob
  <2>3. shareJobs[k].share \in Shares
    <3>1. shareJobs[k] \in ShareJob
      BY <2>1
    <3> QED
      BY <3>1 DEF ShareJob
  <2>4. \/ stored' = [stored EXCEPT ![shareJobs[k].share] = "absent"]
        \/ stored' = [stored EXCEPT ![shareJobs[k].share] = "new"]
        \/ stored' = stored
    BY <1>6 DEF EndShareJob
  <2>5. stored' \in Listing
    BY <1>0, <2>3, <2>4 DEF FilesTypeOK, Listing, Forms
  <2>6. FilesTypeOK'
    BY <1>0, <1>6, <2>2, <2>5 DEF EndShareJob, FilesTypeOK, ShareJob
  <2> QED
    BY <1>6, <2>6 DEF EndShareJob, FilesInv, FilesTyped, CallsShaped,
       CallShape, Banners, Owed, AwaitedBy
<1>7. ASSUME NEW i \in 1..Len(fileCalls), NEW at \in {"sent", "ok", "failed"},
             NEW l \in Listing,
             fileCalls' = [fileCalls EXCEPT
                              ![i] = [fileCalls[i] EXCEPT !.at = at, !.list = l]],
             UNCHANGED <<creating, deleting, filePolls>>
      PROVE  fileCalls' \in Seq(FileCall) /\ CallsShaped' /\ Banners'
  <2>1. /\ fileCalls' \in Seq(FileCall) /\ CallsShaped'
        /\ Len(fileCalls') = Len(fileCalls)
        /\ \A k \in 1..Len(fileCalls) :
              /\ fileCalls'[k].kind = fileCalls[k].kind
              /\ fileCalls'[k].share = fileCalls[k].share
    BY <1>0, <1>7, CallAnswered
  <2>2. ASSUME NEW op \in JobOps, NEW s \in Owed(op)' PROVE AwaitedBy(op, s)'
    <3>1. AwaitedBy(op, s)
      BY <1>7, <2>2 DEF Owed, FilesInv, Banners
    <3> QED
      BY <1>7, <2>1, <3>1 DEF AwaitedBy
  <2> QED
    BY <2>1, <2>2 DEF Banners
<1>8. ASSUME NEW i \in 1..Len(fileCalls), ServeShares(i) PROVE FilesInv'
  <2> DEFINE c == fileCalls[i]
             refused == c.kind = "edit" /\ stored[c.share] = "absent"
             at == IF refused THEN "failed" ELSE "ok"
             l == IF c.kind \in {"tree", "poll"} THEN stored ELSE NoList
  <2>1. fileCalls' = [fileCalls EXCEPT ![i] = [c EXCEPT !.at = at, !.list = l]]
    BY <1>0, <1>8 DEF ServeShares
  <2>2. at \in {"sent", "ok", "failed"} /\ l \in Listing
    BY <1>0, NoListing DEF FilesTypeOK
  <2>3. UNCHANGED <<creating, deleting, filePolls>>
    BY <1>8 DEF ServeShares
  <2>4. fileCalls' \in Seq(FileCall) /\ CallsShaped' /\ Banners'
    <3> HIDE DEF at, l
    <3> QED
      BY <1>7, <2>1, <2>2, <2>3
  <2>5. c \in FileCall /\ (c.kind \notin {"tree", "poll"} => c.share \in Shares)
    BY <1>0 DEF CallShape
  <2>6. stored' \in Listing
    BY <1>0, <1>8, <2>5 DEF ServeShares, FilesTypeOK, Listing, Forms
  <2>7. shareJobs' \in Seq(ShareJob)
    <3>1. \/ shareJobs' = shareJobs
          \/ /\ c.kind \in {"create", "delete", "dialog"}
             /\ \/ shareJobs' = Append(shareJobs, [op |-> "create", share |-> c.share])
                \/ shareJobs' = Append(shareJobs, [op |-> "delete", share |-> c.share])
      BY <1>8 DEF ServeShares
    <3>2. c.kind \in {"create", "delete", "dialog"} => c.share \in Shares
      BY <2>5
    <3>3. shareJobs \in Seq(ShareJob)
      BY <1>0 DEF FilesTypeOK, ShareJob
    <3>4. c.share \in Shares => /\ [op |-> "create", share |-> c.share] \in ShareJob
                               /\ [op |-> "delete", share |-> c.share] \in ShareJob
      BY DEF JobOps, ShareJob
    <3> HIDE DEF c
    <3> QED
      <4>1. \A e \in ShareJob : Append(shareJobs, e) \in Seq(ShareJob)
        BY <3>3, AppendProperties
      <4> QED
        BY <3>1, <3>2, <3>3, <3>4, <4>1
  <2>8. FilesTypeOK'
    BY <1>0, <1>8, <2>4, <2>6, <2>7 DEF ServeShares, FilesTypeOK, ShareJob
  <2> QED
    BY <2>4, <2>8 DEF FilesInv, FilesTyped
<1>9. ASSUME NEW i \in 1..Len(fileCalls), LoseFileCall(i) PROVE FilesInv'
  <2>1. fileCalls' = [fileCalls EXCEPT
                         ![i] = [fileCalls[i] EXCEPT !.at = "failed", !.list = NoList]]
    BY <1>0, <1>9 DEF LoseFileCall
  <2>2. UNCHANGED <<creating, deleting, filePolls>>
    BY <1>9 DEF LoseFileCall
  <2>3. fileCalls' \in Seq(FileCall) /\ CallsShaped' /\ Banners'
    BY <1>7, <2>1, <2>2, NoListing
  <2>4. FilesTypeOK'
    BY <1>0, <1>9, <2>3 DEF LoseFileCall, FilesTypeOK
  <2> QED
    BY <2>3, <2>4 DEF FilesInv, FilesTyped
<1>10. ASSUME NEW i \in 1..Len(fileCalls),
              \/ fileCalls' = Without(fileCalls, i)
              \/ fileCalls' = Append(Without(fileCalls, i), Fetch),
              fileCalls[i].kind \notin JobOps,
              UNCHANGED <<creating, deleting, filePolls>>
       PROVE  fileCalls' \in Seq(FileCall) /\ CallsShaped' /\ Banners'
  <2>1. /\ fileCalls' \in Seq(FileCall) /\ CallsShaped'
        /\ \A j \in 1..Len(fileCalls) : j # i =>
              \E k \in 1..Len(fileCalls') : fileCalls'[k] = fileCalls[j]
    BY <1>10, AnswerKeeps
  <2>2. ASSUME NEW op \in JobOps, NEW s \in Owed(op)' PROVE AwaitedBy(op, s)'
    <3>1. AwaitedBy(op, s)
      BY <1>10, <2>2 DEF Owed, FilesInv, Banners
    <3> QED
      BY <1>10, <2>1, <3>1 DEF AwaitedBy
  <2> QED
    BY <2>1, <2>2 DEF Banners
<1>11. ASSUME NEW i \in 1..Len(fileCalls), ShowTree(i) PROVE FilesInv'
  <2>1. fileCalls' \in Seq(FileCall) /\ CallsShaped' /\ Banners'
    BY <1>10, <1>11 DEF ShowTree, JobOps
  <2>2. fileCalls[i].list \in Listing
    BY <1>0 DEF FileCall
  <2>3. FilesTypeOK'
    BY <1>0, <1>11, <2>1, <2>2 DEF ShowTree, FilesTypeOK
  <2> QED
    BY <2>1, <2>3 DEF FilesInv, FilesTyped
<1>12. ASSUME NEW i \in 1..Len(fileCalls), DialogDone(i) PROVE FilesInv'
  <2>1. fileCalls' \in Seq(FileCall) /\ CallsShaped' /\ Banners'
    BY <1>10, <1>12 DEF DialogDone, JobOps
  <2>2. FilesTypeOK'
    BY <1>0, <1>12, <2>1 DEF DialogDone, FilesTypeOK
  <2> QED
    BY <2>1, <2>2 DEF FilesInv, FilesTyped
<1>13. ASSUME NEW i \in 1..Len(fileCalls), StartPolling(i) PROVE FilesInv'
  <2> DEFINE c == fileCalls[i]
             y == [op |-> c.kind, share |-> c.share, attempts |-> 0, live |-> TRUE]
             n == Len(filePolls)
  <2>1. /\ c.kind \in JobOps /\ filePolls' = Append(filePolls, y)
        /\ fileCalls' = Without(fileCalls, i) /\ UNCHANGED <<creating, deleting>>
    BY <1>13 DEF StartPolling
  <2>2. y \in FilePoll
    <3>1. c.share \in Shares
      BY <1>0, <2>1 DEF CallShape, JobOps
    <3>2. 0 \in 0..MaxAttempts
      BY DEF FilesAssumption
    <3> QED
      BY <2>1, <3>1, <3>2 DEF FilePoll
  <2>3. /\ filePolls' \in Seq(FilePoll) /\ Len(filePolls') = n + 1
        /\ filePolls'[n + 1] = y
        /\ \A p \in 1..n : filePolls'[p] = filePolls[p]
    <3> HIDE DEF y
    <3> QED
      BY <1>0, <2>1, <2>2, AppendProperties
  <2>4. fileCalls' \in Seq(FileCall) /\ CallsShaped'
    BY <1>0, <2>1, <2>3, CallGone
  <2>5. \A j \in 1..Len(fileCalls) : j # i =>
           \E k \in 1..Len(fileCalls') : fileCalls'[k] = fileCalls[j]
    BY <1>0, <2>1, CallsLeft
  <2>6. ASSUME NEW op \in JobOps, NEW s \in Owed(op)' PROVE AwaitedBy(op, s)'
    <3>1. AwaitedBy(op, s)
      BY <2>1, <2>6 DEF Owed, FilesInv, Banners
    <3>2. n + 1 \in 1..Len(filePolls') /\ \A p \in 1..n : p \in 1..Len(filePolls')
      BY <1>0, <2>3
    <3>3. CASE c.kind = op /\ c.share = s
      BY <2>3, <3>2, <3>3 DEF AwaitedBy
    <3>4. CASE ~(c.kind = op /\ c.share = s)
      <4>1. CASE \E j \in 1..Len(fileCalls) :
                    fileCalls[j].kind = op /\ fileCalls[j].share = s
        BY <2>5, <3>4, <4>1 DEF AwaitedBy
      <4>2. CASE \E p \in 1..n : filePolls[p].live /\ filePolls[p].op = op
                                 /\ filePolls[p].share = s
        BY <2>3, <3>2, <4>2 DEF AwaitedBy
      <4> QED
        BY <3>1, <4>1, <4>2 DEF AwaitedBy
    <3> QED
      BY <3>3, <3>4
  <2>7. FilesTypeOK'
    BY <1>0, <1>13, <2>3, <2>4 DEF StartPolling, FilesTypeOK, FilePoll
  <2> QED
    BY <2>4, <2>6, <2>7 DEF FilesInv, FilesTyped, Banners
<1>14. ASSUME NEW i \in 1..Len(fileCalls), CallFailed(i) PROVE FilesInv'
  <2> DEFINE c == fileCalls[i]
  <2>1. /\ fileCalls' = Without(fileCalls, i) /\ UNCHANGED filePolls
        /\ creating' = IF c.kind = "create" THEN creating \ {c.share} ELSE creating
        /\ deleting' = IF c.kind = "delete" THEN deleting \ {c.share} ELSE deleting
    BY <1>14 DEF CallFailed
  <2>2. /\ fileCalls' \in Seq(FileCall) /\ CallsShaped'
        /\ \A j \in 1..Len(fileCalls) : j # i =>
              \E k \in 1..Len(fileCalls') : fileCalls'[k] = fileCalls[j]
    BY <2>1, AnswerKeeps
  <2>3. ASSUME NEW op \in JobOps, NEW s \in Owed(op)' PROVE AwaitedBy(op, s)'
    <3>1. s \in Owed(op) /\ ~(c.kind = op /\ c.share = s)
      BY <2>1, <2>3 DEF Owed, JobOps
    <3>2. AwaitedBy(op, s)
      BY <3>1 DEF FilesInv, Banners
    <3> QED
      BY <2>1, <2>2, <3>1, <3>2 DEF AwaitedBy
  <2>4. FilesTypeOK'
    BY <1>0, <1>14, <2>1, <2>2 DEF CallFailed, FilesTypeOK
  <2> QED
    BY <2>2, <2>3, <2>4 DEF FilesInv, FilesTyped, Banners
<1>15. ASSUME NEW i \in 1..Len(fileCalls), LookAtPoll(i) PROVE FilesInv'
  <2> DEFINE p == fileCalls[i].poll
             s == filePolls[p].share
             y == [filePolls[p] EXCEPT !.live = FALSE]
  <2>1. p \in 1..Len(filePolls) /\ fileCalls[i].kind \notin JobOps
    BY <1>0, <1>15 DEF LookAtPoll, CallShape, JobOps
  <2>2. CASE /\ fileCalls' = Without(fileCalls, i)
             /\ UNCHANGED <<filePolls, creating, deleting, fileTold>>
    <3>1. fileCalls' \in Seq(FileCall) /\ CallsShaped' /\ Banners'
      BY <1>10, <2>1, <2>2
    <3>2. FilesTypeOK'
      BY <1>0, <1>15, <2>2, <3>1 DEF LookAtPoll, FilesTypeOK
    <3> QED
      BY <3>1, <3>2 DEF FilesInv, FilesTyped
  <2>3. CASE /\ filePolls' = [filePolls EXCEPT ![p].live = FALSE]
             /\ creating' = IF filePolls[p].op = "create"
                            THEN creating \ {s} ELSE creating
             /\ deleting' = IF filePolls[p].op = "delete"
                            THEN deleting \ {s} ELSE deleting
             /\ fileTold' \in BOOLEAN
             /\ fileCalls' = Append(Without(fileCalls, i), Fetch)
    <3>1. filePolls[p] \in FilePoll
      BY <1>0, <2>1
    <3>2. y \in FilePoll
      BY <3>1 DEF FilePoll
    <3>3. filePolls' = [filePolls EXCEPT ![p] = y]
      BY <2>3
    <3> HIDE DEF y
    <3>4. /\ filePolls' \in Seq(FilePoll) /\ Len(filePolls') = Len(filePolls)
          /\ \A k \in 1..Len(filePolls) : k # p => filePolls'[k] = filePolls[k]
      BY <1>0, <2>1, <3>2, <3>3
    <3>5. /\ fileCalls' \in Seq(FileCall) /\ CallsShaped'
          /\ \A j \in 1..Len(fileCalls) : j # i =>
                \E k \in 1..Len(fileCalls') : fileCalls'[k] = fileCalls[j]
      BY <2>3, <3>4, AnswerKeeps
    <3>6. ASSUME NEW op \in JobOps, NEW x \in Owed(op)' PROVE AwaitedBy(op, x)'
      <4>1. x \in Owed(op) /\ ~(filePolls[p].op = op /\ s = x)
        BY <2>3, <3>6 DEF Owed, JobOps
      <4>2. AwaitedBy(op, x)
        BY <4>1 DEF FilesInv, Banners
      <4>3. CASE \E j \in 1..Len(fileCalls) :
                    fileCalls[j].kind = op /\ fileCalls[j].share = x
        BY <2>1, <3>5, <4>3 DEF AwaitedBy
      <4>4. CASE \E k \in 1..Len(filePolls) : filePolls[k].live
                    /\ filePolls[k].op = op /\ filePolls[k].share = x
        BY <3>4, <4>1, <4>4 DEF AwaitedBy
      <4> QED
        BY <4>2, <4>3, <4>4 DEF AwaitedBy
    <3>7. creating' \subseteq Shares /\ deleting' \subseteq Shares
      BY <1>0, <2>3 DEF FilesTypeOK
    <3>8. FilesTypeOK'
      BY <1>0, <1>15, <2>3, <3>4, <3>5, <3>7 DEF LookAtPoll, FilesTypeOK,
         FilePoll
    <3> QED
      BY <3>5, <3>6, <3>8 DEF FilesInv, FilesTyped, Banners
  <2>4. fileTold' \in BOOLEAN
    BY <1>0, <1>15 DEF LookAtPoll, FilesTypeOK
  <2> QED
    BY <1>15, <2>2, <2>3, <2>4 DEF LookAtPoll
<1> QED
  BY <1>1, <1>2, <1>3, <1>4, <1>5, <1>6, <1>8, <1>9, <1>11, <1>12, <1>13,
     <1>14, <1>15
     DEF FilesNext

LEMMA FilesStart ==
    ASSUME FilesAssumption, FilesInit
    PROVE  FilesInv
<1>1. fileCalls = <<Fetch>> /\ filePolls = <<>> /\ shareJobs = <<>>
      /\ creating = {} /\ deleting = {}
  BY DEF FilesInit
<1>2. fileCalls \in Seq(FileCall) /\ CallsShaped
  BY <1>1, Fetches DEF CallsShaped, CallShape
<1>3. stored \in Listing /\ tree \in Listing
  <2>1. PICK S \in SUBSET Shares :
           stored = [s \in Shares |-> IF s \in S THEN "new" ELSE "absent"]
    BY DEF FilesInit
  <2> QED
    BY <2>1, NoListing DEF FilesInit, Listing, Forms
<1>4. shareOps \in 0..MaxShareOps
  BY FilesAssumption DEF FilesInit, FilesAssumption
<1>5. FilesTypeOK
  <2>1. shareJobs \in Seq(ShareJob) /\ filePolls \in Seq(FilePoll)
    BY <1>1
  <2> QED
    BY <1>1, <1>2, <1>3, <1>4, <2>1 DEF FilesInit, FilesTypeOK, ShareJob,
       FilePoll
<1>6. Banners
  BY <1>1 DEF Banners, Owed
<1> QED
  BY <1>2, <1>5, <1>6 DEF FilesInv, FilesTyped

LEMMA FilesRest ==
    ASSUME FilesInv, UNCHANGED filesVars
    PROVE  FilesInv'
  BY DEF FilesInv, FilesTyped, FilesTypeOK, CallsShaped, CallShape, Banners,
     Owed, AwaitedBy, filesVars

LEMMA FilesPromise ==
    ASSUME FilesInv
    PROVE  BannerIsTakenDown
<1>1. ASSUME NEW s \in creating \cup deleting
      PROVE  \E op \in JobOps : s \in Owed(op)
  BY DEF Owed, JobOps
<1>2. ASSUME NEW s \in creating \cup deleting
      PROVE  \E op \in JobOps : AwaitedBy(op, s)
  BY <1>1 DEF FilesInv, Banners
<1> QED
  BY <1>2 DEF AwaitedBy, BannerIsTakenDown

------------------------------------------------------------------------------
(***************************************************************************)
(* The templates page.                                                     *)
(***************************************************************************)

\* Every request but one for rows is about a template.
TplShaped ==
    \A i \in 1..Len(tplCalls) : tplCalls[i].kind # "rows" => tplCalls[i].tpl \in Templates

TemplatesInv == TemplatesTypeOK /\ TplShaped /\ BuildingIsPolled

\* A request, sent.
LEMMA Asks ==
    ASSUME NEW kind \in {"create", "rows", "status", "load"},
           NEW t \in Templates \cup {NoTemplate}, NEW v \in Visits
    PROVE  /\ Ask(kind, t, v) \in TplCall
           /\ Ask(kind, t, v).kind = kind /\ Ask(kind, t, v).tpl = t
  BY DEF Ask, TplCall, MadeStates, JobStates

LEMMA TplSent ==
    ASSUME TemplatesInv, NEW r \in TplCall,
           r.kind # "rows" => r.tpl \in Templates,
           tplCalls' = Append(tplCalls, r)
    PROVE  tplCalls' \in Seq(TplCall) /\ TplShaped'
<1>1. tplCalls \in Seq(TplCall) /\ Len(tplCalls) \in Nat
  BY DEF TemplatesInv, TemplatesTypeOK
<1>2. /\ tplCalls' \in Seq(TplCall) /\ Len(tplCalls') = Len(tplCalls) + 1
      /\ \A k \in 1..Len(tplCalls) : tplCalls'[k] = tplCalls[k]
      /\ tplCalls'[Len(tplCalls) + 1] = r
  BY <1>1, AppendProperties
<1>3. \A k \in 1..Len(tplCalls') : k \in 1..Len(tplCalls) \/ k = Len(tplCalls) + 1
  BY <1>1, <1>2
<1> QED
  BY <1>2, <1>3 DEF TemplatesInv, TplShaped

LEMMA TplGone ==
    ASSUME TemplatesInv, NEW i \in 1..Len(tplCalls)
    PROVE  /\ Others(i) \in Seq(TplCall)
           /\ \A k \in 1..Len(Others(i)) :
                 Others(i)[k].kind # "rows" => Others(i)[k].tpl \in Templates
<1>1. tplCalls \in Seq(TplCall)
  BY DEF TemplatesInv, TemplatesTypeOK
<1>2. /\ Others(i) \in Seq(TplCall)
      /\ \A k \in 1..Len(Others(i)) :
            \E j \in 1..Len(tplCalls) : Others(i)[k] = tplCalls[j]
  BY <1>1, TakenOut DEF Others, Leave
<1> QED
  BY <1>2 DEF TemplatesInv, TplShaped

LEMMA TplChanged ==
    ASSUME TemplatesInv, NEW i \in 1..Len(tplCalls), NEW r \in TplCall,
           r.kind = tplCalls[i].kind, r.tpl = tplCalls[i].tpl,
           tplCalls' = [tplCalls EXCEPT ![i] = r]
    PROVE  tplCalls' \in Seq(TplCall) /\ TplShaped'
<1>1. tplCalls \in Seq(TplCall)
  BY DEF TemplatesInv, TemplatesTypeOK
<1>2. /\ tplCalls' \in Seq(TplCall) /\ Len(tplCalls') = Len(tplCalls)
      /\ \A k \in 1..Len(tplCalls) :
            tplCalls'[k] = IF k = i THEN r ELSE tplCalls[k]
  BY <1>1
<1> QED
  BY <1>2 DEF TemplatesInv, TplShaped

\* Rows that arrive leave the rows and what is tracked typed, and track nothing
\* anew.
LEMMA RowsLoaded ==
    ASSUME TemplatesInv, NEW i \in 1..Len(tplCalls), LoadRows(i)
    PROVE  /\ tracked' \in [Templates -> {"none", "building", "failed"}]
           /\ rows' \in [Templates -> RowStates]
           /\ blanked' \in BOOLEAN
           /\ \A t \in Templates :
                 tracked'[t] = IF Listed(i)[t] = "ready" THEN "none" ELSE tracked[t]
<1> DEFINE list == Listed(i)
<1>1. tplCalls[i] \in TplCall
  BY DEF TemplatesInv, TemplatesTypeOK
<1>2. list \in [Templates -> MadeStates]
  BY <1>1 DEF Listed, TplCall, MadeStates
<1>3. /\ tracked \in [Templates -> {"none", "building", "failed"}]
      /\ rows \in [Templates -> RowStates] /\ blanked \in BOOLEAN
  BY DEF TemplatesInv, TemplatesTypeOK
<1> HIDE DEF list
<1>4. Merged(list) \in [Templates -> RowStates]
  <2>1. ASSUME NEW t \in Templates
        PROVE  Merged(list)[t] \in RowStates
    BY <1>2, <1>3 DEF Merged, RowStates, MadeStates
  <2> QED
    BY <2>1 DEF Merged
<1>5. StillTracked(list) \in [Templates -> {"none", "building", "failed"}]
  BY <1>3 DEF StillTracked
<1>6. /\ tracked' = StillTracked(list)
      /\ rows' = Merged(list) \/ rows' = rows
      /\ blanked' \in BOOLEAN
  BY <1>3 DEF LoadRows, list
<1>7. \A t \in Templates :
         tracked'[t] = IF list[t] = "ready" THEN "none" ELSE tracked[t]
  BY <1>6 DEF StillTracked
<1> QED
  BY <1>3, <1>4, <1>5, <1>6, <1>7 DEF list

LEMMA TemplatesKeep ==
    ASSUME TemplatesAssumption, TemplatesInv, TemplatesNext
    PROVE  TemplatesInv'
<1>0. /\ TemplatesTypeOK /\ TplShaped /\ BuildingIsPolled
      /\ tplCalls \in Seq(TplCall) /\ Len(tplCalls) \in Nat
      /\ \A i \in 1..Len(tplCalls) : tplCalls[i] \in TplCall
  BY DEF TemplatesInv, TemplatesTypeOK
<1>1. ASSUME OpenTemplates PROVE TemplatesInv'
  <2>1. visit + 1 \in Visits /\ visit' = visit + 1
    BY <1>0, <1>1, TemplatesAssumption DEF OpenTemplates, TemplatesTypeOK,
       Visits, TemplatesAssumption
  <2> DEFINE g == [t \in Templates |-> IF tracked[t] = "building" THEN "timer" ELSE "off"]
             r == Ask("rows", NoTemplate, visit + 1)
  <2>2. g \in [Templates -> {"off", "timer", "busy"}]
    OBVIOUS
  <2>3. chain' = [chain EXCEPT ![visit + 1] = g] /\ tplCalls' = Append(tplCalls, r)
    BY <1>1 DEF OpenTemplates
  <2>4. r \in TplCall /\ r.kind = "rows"
    BY <2>1, Asks
  <2>5. \A t \in Templates : g[t] = IF tracked[t] = "building" THEN "timer" ELSE "off"
    OBVIOUS
  <2> HIDE DEF r, g
  <2>6. tplCalls' \in Seq(TplCall) /\ TplShaped'
    BY <2>3, <2>4, TplSent
  <2>7. /\ chain' \in [Visits -> [Templates -> {"off", "timer", "busy"}]]
        /\ chain'[visit + 1] = g
    BY <1>0, <2>1, <2>2, <2>3 DEF TemplatesTypeOK
  <2>8. rows' \in [Templates -> RowStates]
    BY <1>1 DEF OpenTemplates, RowStates
  <2>9. BuildingIsPolled'
    BY <1>1, <2>1, <2>5, <2>7 DEF OpenTemplates, BuildingIsPolled
  <2>10. TemplatesTypeOK'
    BY <1>0, <1>1, <2>1, <2>6, <2>7, <2>8 DEF OpenTemplates, TemplatesTypeOK
  <2> QED
    BY <2>6, <2>9, <2>10 DEF TemplatesInv
<1>2. ASSUME LeaveTemplates PROVE TemplatesInv'
  <2> DEFINE g == [t \in Templates |-> IF chain[visit][t] = "timer" THEN "off"
                                                             ELSE chain[visit][t]]
  <2>1. chain[visit] \in [Templates -> {"off", "timer", "busy"}] /\ visit \in Visits
    BY <1>0 DEF TemplatesTypeOK
  <2>2. g \in [Templates -> {"off", "timer", "busy"}]
    BY <2>1
  <2>3. chain' = [chain EXCEPT ![visit] = g]
    BY <1>0, <1>2 DEF LeaveTemplates, TemplatesTypeOK
  <2> HIDE DEF g
  <2>4. chain' \in [Visits -> [Templates -> {"off", "timer", "busy"}]]
    BY <1>0, <2>1, <2>2, <2>3 DEF TemplatesTypeOK
  <2>5. TemplatesTypeOK'
    BY <1>0, <1>2, <2>4 DEF LeaveTemplates, TemplatesTypeOK
  <2> QED
    BY <1>0, <1>2, <2>5 DEF LeaveTemplates, TemplatesInv, TplShaped,
       BuildingIsPolled
<1>3. ASSUME RefreshTemplates PROVE TemplatesInv'
  <2> DEFINE r == Ask("rows", NoTemplate, visit)
  <2>1. r \in TplCall /\ r.kind = "rows"
    BY <1>0, Asks DEF TemplatesTypeOK
  <2>2. tplCalls' = Append(tplCalls, r)
    BY <1>3 DEF RefreshTemplates
  <2> HIDE DEF r
  <2>3. tplCalls' \in Seq(TplCall) /\ TplShaped'
    BY <2>1, <2>2, TplSent
  <2> QED
    BY <1>0, <1>3, <2>3 DEF RefreshTemplates, TemplatesInv, TemplatesTypeOK,
       BuildingIsPolled
<1>4. ASSUME NEW t \in Templates, CreateTemplate(t) PROVE TemplatesInv'
  <2> DEFINE r == Ask("create", t, visit)
  <2>1. r \in TplCall /\ r.tpl = t
    BY <1>0, Asks DEF TemplatesTypeOK
  <2>2. tplCalls' = Append(tplCalls, r)
    BY <1>4 DEF CreateTemplate
  <2> HIDE DEF r
  <2>3. tplCalls' \in Seq(TplCall) /\ TplShaped'
    BY <2>1, <2>2, TplSent
  <2> QED
    BY <1>0, <1>4, <2>3 DEF CreateTemplate, TemplatesInv, TemplatesTypeOK,
       BuildingIsPolled
<1>5. ASSUME NEW t \in Templates, DropTemplate(t) PROVE TemplatesInv'
  <2>1. /\ rows' \in [Templates -> RowStates]
        /\ tracked' \in [Templates -> {"none", "building", "failed"}]
        /\ \A u \in Templates : tracked'[u] = "building" => tracked[u] = "building"
    BY <1>0, <1>5 DEF DropTemplate, TemplatesTypeOK, RowStates
  <2>2. BuildingIsPolled'
    BY <1>0, <1>5, <2>1 DEF DropTemplate, BuildingIsPolled
  <2> QED
    BY <1>0, <1>5, <2>1, <2>2 DEF DropTemplate, TemplatesInv, TemplatesTypeOK,
       TplShaped
<1>6. ASSUME NEW t \in Templates,
             MarkTemplateReady(t) \/ EndTemplateJob(t) \/ ExpireTemplateJob(t)
      PROVE  TemplatesInv'
  <2>1. /\ made' \in [Templates -> MadeStates] /\ tplJob' \in [Templates -> JobStates]
        /\ stray' \subseteq Templates
    BY <1>0, <1>6 DEF MarkTemplateReady, EndTemplateJob, ExpireTemplateJob,
       TemplatesTypeOK, MadeStates, JobStates
  <2>2. UNCHANGED <<tplNet, visit, mounted, rows, tracked, chain, tplCalls, blanked>>
    BY <1>6 DEF MarkTemplateReady, EndTemplateJob, ExpireTemplateJob
  <2> QED
    BY <1>0, <2>1, <2>2 DEF TemplatesInv, TemplatesTypeOK, TplShaped,
       BuildingIsPolled
<1>7. ASSUME NEW t \in Templates, NEW v \in Visits, PollTemplate(v, t)
      PROVE  TemplatesInv'
  <2> DEFINE r == Ask("status", t, v)
  <2>1. r \in TplCall /\ r.tpl = t
    BY Asks
  <2>2. tplCalls' = Append(tplCalls, r) /\ chain' = [chain EXCEPT ![v][t] = "busy"]
    BY <1>7 DEF PollTemplate
  <2> HIDE DEF r
  <2>3. tplCalls' \in Seq(TplCall) /\ TplShaped'
    BY <2>1, <2>2, TplSent
  <2>4. /\ chain' \in [Visits -> [Templates -> {"off", "timer", "busy"}]]
        /\ \A w \in Visits, u \in Templates : chain[w][u] # "off" => chain'[w][u] # "off"
    BY <1>0, <2>2 DEF TemplatesTypeOK
  <2>5. BuildingIsPolled'
    BY <1>0, <1>7, <2>4 DEF PollTemplate, BuildingIsPolled
  <2> QED
    BY <1>0, <1>7, <2>3, <2>4, <2>5 DEF PollTemplate, TemplatesInv,
       TemplatesTypeOK
<1>8. ASSUME NEW i \in 1..Len(tplCalls), ServeTemplate(i) PROVE TemplatesInv'
  <2> DEFINE c == tplCalls[i]
             at == IF c.kind = "status" /\ tplJob[c.tpl] = "gone" THEN "failed" ELSE "ok"
             saw == IF c.kind \in {"rows", "load"} THEN made ELSE c.saw
             said == IF c.kind = "status" THEN tplJob[c.tpl] ELSE c.said
             r == [c EXCEPT !.at = at, !.saw = saw, !.said = said]
  <2>1. c \in TplCall /\ (c.kind # "rows" => c.tpl \in Templates)
    BY <1>0 DEF TplShaped
  <2>2. /\ at \in {"sent", "ok", "failed"} /\ saw \in [Templates -> MadeStates]
        /\ said \in JobStates
    BY <1>0, <2>1 DEF TemplatesTypeOK, TplCall
  <2>3. tplCalls' = [tplCalls EXCEPT ![i] = r]
    BY <1>8 DEF ServeTemplate
  <2>4. r \in TplCall /\ r.kind = c.kind /\ r.tpl = c.tpl
    <3> HIDE DEF at, saw, said, c
    <3>1. r \in TplCall
      BY <2>1, <2>2 DEF TplCall
    <3> QED
      BY <2>1, <3>1 DEF TplCall
  <2>5. tplCalls' \in Seq(TplCall) /\ TplShaped'
    <3> HIDE DEF r
    <3> QED
      BY <2>3, <2>4, TplChanged
  <2>6. made' \in [Templates -> MadeStates] /\ tplJob' \in [Templates -> JobStates]
    BY <1>0, <1>8, <2>1 DEF ServeTemplate, TemplatesTypeOK, MadeStates,
       JobStates
  <2>7. UNCHANGED <<tplNet, visit, mounted, rows, tracked, chain, blanked, stray>>
    BY <1>8 DEF ServeTemplate
  <2> QED
    BY <1>0, <2>5, <2>6, <2>7 DEF TemplatesInv, TemplatesTypeOK,
       BuildingIsPolled
<1>9. ASSUME NEW i \in 1..Len(tplCalls), LoseTemplateCall(i) PROVE TemplatesInv'
  <2> DEFINE c == tplCalls[i]
             q == Ask(c.kind, c.tpl, c.visit)
             r == [q EXCEPT !.at = "failed"]
  <2>1. q \in TplCall /\ q.kind = c.kind /\ q.tpl = c.tpl
    <3>1. c \in TplCall
      BY <1>0
    <3>2. /\ c.kind \in {"create", "rows", "status", "load"}
          /\ c.tpl \in Templates \cup {NoTemplate} /\ c.visit \in Visits
      BY <3>1 DEF TplCall
    <3> QED
      BY <3>2, Asks
  <2>2. tplCalls' = [tplCalls EXCEPT ![i] = r]
    BY <1>0, <1>9 DEF LoseTemplateCall
  <2>3. r \in TplCall /\ r.kind = c.kind /\ r.tpl = c.tpl
    <3> HIDE DEF q
    <3>1. r \in TplCall
      BY <2>1 DEF TplCall
    <3> QED
      BY <2>1, <3>1 DEF TplCall
  <2>4. tplCalls' \in Seq(TplCall) /\ TplShaped'
    <3> HIDE DEF r
    <3> QED
      BY <2>2, <2>3, TplChanged
  <2> QED
    BY <1>0, <1>9, <2>4 DEF LoseTemplateCall, TemplatesInv, TemplatesTypeOK,
       BuildingIsPolled
<1>10. ASSUME NEW i \in 1..Len(tplCalls), RowsAnswered(i) PROVE TemplatesInv'
  <2>1. LoadRows(i) /\ tplCalls' = Others(i)
        /\ UNCHANGED <<tplNet, made, tplJob, visit, mounted, chain, stray>>
    BY <1>10 DEF RowsAnswered
  <2>2. /\ tracked' \in [Templates -> {"none", "building", "failed"}]
        /\ rows' \in [Templates -> RowStates] /\ blanked' \in BOOLEAN
        /\ \A t \in Templates :
              tracked'[t] = IF Listed(i)[t] = "ready" THEN "none" ELSE tracked[t]
    BY <2>1, RowsLoaded
  <2>3. tplCalls' \in Seq(TplCall) /\ TplShaped'
    BY <2>1, TplGone DEF TplShaped
  <2>4. BuildingIsPolled'
    BY <1>0, <2>1, <2>2 DEF BuildingIsPolled
  <2> QED
    BY <1>0, <2>1, <2>2, <2>3, <2>4 DEF TemplatesInv, TemplatesTypeOK
<1>11. ASSUME NEW i \in 1..Len(tplCalls), CreateAnswered(i) PROVE TemplatesInv'
  <2> DEFINE t == tplCalls[i].tpl
             v == tplCalls[i].visit
  <2>1. t \in Templates /\ v \in Visits
    BY <1>0, <1>11 DEF CreateAnswered, Arrives, TplShaped, TplCall
  <2>2. tplCalls' = Others(i) /\ UNCHANGED <<tplNet, made, tplJob, visit, mounted, blanked>>
    BY <1>11 DEF CreateAnswered
  <2>3. \/ /\ tracked' = [tracked EXCEPT ![t] = "building"]
           /\ chain' = [chain EXCEPT ![v][t] = "timer"]
        \/ UNCHANGED <<tracked, chain>>
    BY <1>11 DEF CreateAnswered
  <2>4. (rows' = rows \/ rows' = [rows EXCEPT ![t] = "building"])
        /\ (stray' = stray \/ stray' = stray \cup {t})
    BY <1>11 DEF CreateAnswered
  <2> HIDE DEF t, v
  <2>5. tplCalls' \in Seq(TplCall) /\ TplShaped'
    BY <2>2, TplGone DEF TplShaped
  <2>6. rows' \in [Templates -> RowStates] /\ stray' \subseteq Templates
    BY <1>0, <2>1, <2>4 DEF TemplatesTypeOK, RowStates
  <2>7. /\ tracked' \in [Templates -> {"none", "building", "failed"}]
        /\ chain' \in [Visits -> [Templates -> {"off", "timer", "busy"}]]
    <3>1. /\ tracked \in [Templates -> {"none", "building", "failed"}]
          /\ chain \in [Visits -> [Templates -> {"off", "timer", "busy"}]]
      BY <1>0 DEF TemplatesTypeOK
    <3>2. [tracked EXCEPT ![t] = "building"] \in [Templates -> {"none", "building", "failed"}]
      BY <2>1, <3>1
    <3>3. [chain[v] EXCEPT ![t] = "timer"] \in [Templates -> {"off", "timer", "busy"}]
      BY <2>1, <3>1
    <3>4. [chain EXCEPT ![v][t] = "timer"]
             \in [Visits -> [Templates -> {"off", "timer", "busy"}]]
      BY <2>1, <3>1, <3>3
    <3> QED
      BY <2>3, <3>1, <3>2, <3>4
  <2>8. /\ \A w \in Visits, u \in Templates : chain[w][u] # "off" => chain'[w][u] # "off"
        /\ \A u \in Templates : tracked'[u] = "building" =>
              tracked[u] = "building" \/ (u = t /\ chain'[v][t] # "off")
    <3>1. CASE /\ tracked' = [tracked EXCEPT ![t] = "building"]
               /\ chain' = [chain EXCEPT ![v][t] = "timer"]
      BY <1>0, <2>1, <3>1 DEF TemplatesTypeOK
    <3>2. CASE UNCHANGED <<tracked, chain>>
      <4>1. tracked' = tracked /\ chain' = chain
        BY <3>2
      <4> QED
        BY <4>1
    <3> QED
      BY <2>3, <3>1, <3>2
  <2>9. BuildingIsPolled'
    BY <1>0, <2>1, <2>2, <2>8 DEF BuildingIsPolled
  <2> QED
    BY <1>0, <2>2, <2>5, <2>6, <2>7, <2>9 DEF TemplatesInv, TemplatesTypeOK
<1>12. ASSUME NEW t \in Templates, NEW v \in Visits, NEW to \in {"off", "timer"},
              chain' = [chain EXCEPT ![v][t] = to],
              tracked' \in [Templates -> {"none", "building", "failed"}],
              \A u \in Templates : tracked'[u] = "building" =>
                  /\ u # t => tracked[u] = "building"
                  /\ u = t => to # "off",
              UNCHANGED mounted
       PROVE  /\ chain' \in [Visits -> [Templates -> {"off", "timer", "busy"}]]
              /\ BuildingIsPolled'
  <2>1. chain' \in [Visits -> [Templates -> {"off", "timer", "busy"}]]
    BY <1>0, <1>12 DEF TemplatesTypeOK
  <2>2. /\ chain'[v][t] = to
        /\ \A w \in Visits, u \in Templates : u # t => chain'[w][u] = chain[w][u]
    BY <1>0, <1>12 DEF TemplatesTypeOK
  <2>3. ASSUME mounted', NEW u \in Templates, tracked'[u] = "building"
        PROVE  \E w \in Visits : chain'[w][u] # "off"
    <3>1. CASE u = t
      BY <1>12, <2>2, <2>3, <3>1
    <3>2. CASE u # t
      BY <1>0, <1>12, <2>2, <2>3, <3>2 DEF BuildingIsPolled
    <3> QED
      BY <3>1, <3>2
  <2> QED
    BY <2>1, <2>3 DEF BuildingIsPolled
<1>13. ASSUME NEW i \in 1..Len(tplCalls), StatusAnswered(i) PROVE TemplatesInv'
  <2> DEFINE t == tplCalls[i].tpl
             v == tplCalls[i].visit
             r == Ask("load", t, v)
  <2>1. t \in Templates /\ v \in Visits
    BY <1>0, <1>13 DEF StatusAnswered, Arrives, TplShaped, TplCall
  <2>2. UNCHANGED <<tplNet, made, tplJob, visit, mounted, blanked, stray>>
    BY <1>13 DEF StatusAnswered
  <2>3. \/ /\ rows' = rows \/ rows' = [rows EXCEPT ![t] = "failed"]
           /\ tracked' = Noted(t, "failed")
           /\ chain' = [chain EXCEPT ![v][t] = "off"]
           /\ tplCalls' = Others(i)
        \/ tplCalls' = Append(Others(i), r) /\ UNCHANGED <<rows, tracked, chain>>
        \/ /\ tracked' = Noted(t, "building")
           /\ chain' = [chain EXCEPT ![v][t] = "timer"]
           /\ tplCalls' = Others(i) /\ UNCHANGED rows
        \/ /\ chain' = [chain EXCEPT ![v][t] = "timer"]
           /\ tplCalls' = Others(i) /\ UNCHANGED <<rows, tracked>>
    BY <1>13 DEF StatusAnswered
  <2>4. r \in TplCall /\ r.tpl = t
    BY <2>1, Asks
  <2> HIDE DEF t, v, r
  <2>5. tplCalls' \in Seq(TplCall) /\ TplShaped'
    <3>1. CASE tplCalls' = Others(i)
      BY <3>1, TplGone DEF TplShaped
    <3>2. CASE tplCalls' = Append(Others(i), r)
      <4> DEFINE w == Others(i)
      <4>1. /\ w \in Seq(TplCall)
            /\ \A k \in 1..Len(w) : w[k].kind # "rows" => w[k].tpl \in Templates
        BY TplGone
      <4> HIDE DEF w
      <4>2. /\ tplCalls' \in Seq(TplCall) /\ Len(tplCalls') = Len(w) + 1
            /\ \A k \in 1..Len(w) : tplCalls'[k] = w[k]
            /\ tplCalls'[Len(w) + 1] = r /\ Len(w) \in Nat
        BY <2>4, <3>2, <4>1, AppendProperties DEF w
      <4>3. \A k \in 1..Len(tplCalls') : k \in 1..Len(w) \/ k = Len(w) + 1
        BY <4>2
      <4> QED
        BY <2>1, <2>4, <4>1, <4>2, <4>3 DEF TplShaped
    <3> QED
      BY <2>3, <3>1, <3>2
  <2>6. rows' \in [Templates -> RowStates]
    BY <1>0, <2>3 DEF TemplatesTypeOK, RowStates
  <2>7. /\ chain' \in [Visits -> [Templates -> {"off", "timer", "busy"}]]
        /\ tracked' \in [Templates -> {"none", "building", "failed"}]
        /\ BuildingIsPolled'
    <3>1. CASE /\ tracked' = Noted(t, "failed")
               /\ chain' = [chain EXCEPT ![v][t] = "off"]
      <4>1. /\ tracked' \in [Templates -> {"none", "building", "failed"}]
            /\ \A u \in Templates : u # t => tracked'[u] = tracked[u]
            /\ tracked'[t] # "building"
        BY <1>0, <2>1, <3>1 DEF Noted, TemplatesTypeOK
      <4> QED
        BY <1>12, <2>1, <2>2, <3>1, <4>1
    <3>2. CASE UNCHANGED <<tracked, chain>>
      BY <1>0, <2>2, <3>2 DEF TemplatesTypeOK, BuildingIsPolled
    <3>3. CASE /\ tracked' = Noted(t, "building") \/ tracked' = tracked
               /\ chain' = [chain EXCEPT ![v][t] = "timer"]
      <4>1. /\ tracked' \in [Templates -> {"none", "building", "failed"}]
            /\ \A u \in Templates : u # t => tracked'[u] = tracked[u]
        BY <1>0, <2>1, <3>3 DEF Noted, TemplatesTypeOK
      <4> QED
        BY <1>12, <2>1, <2>2, <3>3, <4>1
    <3> QED
      BY <2>3, <3>1, <3>2, <3>3
  <2> QED
    BY <1>0, <2>2, <2>5, <2>6, <2>7 DEF TemplatesInv, TemplatesTypeOK
<1>14. ASSUME NEW i \in 1..Len(tplCalls), LoadAnswered(i) PROVE TemplatesInv'
  <2> DEFINE t == tplCalls[i].tpl
             v == tplCalls[i].visit
             to == IF Listed(i)[t] = "ready" THEN "off" ELSE "timer"
  <2>1. t \in Templates /\ v \in Visits
    BY <1>0, <1>14 DEF LoadAnswered, Arrives, TplShaped, TplCall
  <2>2. /\ LoadRows(i) /\ tplCalls' = Others(i)
        /\ chain' = [chain EXCEPT ![v][t] = to]
        /\ UNCHANGED <<tplNet, made, tplJob, visit, mounted, stray>>
    BY <1>14 DEF LoadAnswered
  <2>3. /\ tracked' \in [Templates -> {"none", "building", "failed"}]
        /\ rows' \in [Templates -> RowStates] /\ blanked' \in BOOLEAN
        /\ \A u \in Templates :
              tracked'[u] = IF Listed(i)[u] = "ready" THEN "none" ELSE tracked[u]
    BY <2>2, RowsLoaded
  <2>4. tplCalls' \in Seq(TplCall) /\ TplShaped'
    BY <2>2, TplGone DEF TplShaped
  <2>5. to \in {"off", "timer"} /\ (to = "off" => Listed(i)[t] = "ready")
    OBVIOUS
  <2> HIDE DEF to, t, v
  <2>6. /\ chain' \in [Visits -> [Templates -> {"off", "timer", "busy"}]]
        /\ BuildingIsPolled'
    BY <1>12, <2>1, <2>2, <2>3, <2>5
  <2> QED
    BY <1>0, <2>2, <2>3, <2>4, <2>6 DEF TemplatesInv, TemplatesTypeOK
<1> QED
  BY <1>1, <1>2, <1>3, <1>4, <1>5, <1>6, <1>7, <1>8, <1>9, <1>10, <1>11, <1>13,
     <1>14
     DEF TemplatesNext

LEMMA TemplatesStart ==
    ASSUME TemplatesAssumption, TemplatesInit
    PROVE  TemplatesInv
<1>1. 1 \in Visits
  BY DEF TemplatesAssumption, Visits
<1>2. /\ Ask("rows", NoTemplate, 1) \in TplCall
      /\ Ask("rows", NoTemplate, 1).kind = "rows"
  BY <1>1, Asks
<1>3. tplCalls \in Seq(TplCall) /\ TplShaped
  BY <1>2 DEF TemplatesInit, TplShaped
<1>4. TemplatesTypeOK
  BY <1>1, <1>3 DEF TemplatesInit, TemplatesTypeOK, MadeStates, JobStates,
     RowStates
<1>5. BuildingIsPolled
  BY DEF TemplatesInit, BuildingIsPolled
<1> QED
  BY <1>3, <1>4, <1>5 DEF TemplatesInv

LEMMA TemplatesRest ==
    ASSUME TemplatesInv, UNCHANGED tplVars
    PROVE  TemplatesInv'
  BY DEF TemplatesInv, TemplatesTypeOK, TplShaped, BuildingIsPolled, tplVars

------------------------------------------------------------------------------
(***************************************************************************)
(* The pages for users and groups.                                         *)
(***************************************************************************)

\* The reference that holds groups holds their user.
PendingShaped == pending.want # {} => pending.user \in People

\* While the dialog says it is creating a user, the POST is in flight, or the
\* first poll, or the hook's interval polls its job.
HookWorks ==
    ~crossed =>
      /\ status = "starting" =>
           \E i \in 1..Len(polls) : polls[i].kind = "create"
      /\ status = "running" =>
           /\ jobId \in People
           /\ \/ \E i \in 1..Len(polls) :
                    polls[i].kind = "first" /\ polls[i].job = jobId
              \/ timerRef = jobId /\ jobId \in intervals

PeopleInv == PeopleTypeOK /\ PendingShaped /\ HookWorks

LEMMA Sends ==
    ASSUME NEW kind \in {"create", "first", "next"}, NEW u \in People
    PROVE  /\ Send(kind, u) \in HookCall
           /\ Send(kind, u).kind = kind /\ Send(kind, u).job = u
  BY DEF Send, HookCall, UserJobs

LEMMA ChangeBegins ==
    ASSUME NEW u \in People, NEW W \in SUBSET Teams
    PROVE  Change(u, W) \in Update
  BY DEF Change, Update

\* One more request of the hook, and the others.
LEMMA HookSends ==
    ASSUME polls \in Seq(HookCall), NEW c \in HookCall, polls' = Append(polls, c)
    PROVE  /\ polls' \in Seq(HookCall)
           /\ \E i \in 1..Len(polls') : polls'[i] = c
           /\ \A j \in 1..Len(polls) : \E i \in 1..Len(polls') : polls'[i] = polls[j]
<1>1. /\ polls' \in Seq(HookCall) /\ Len(polls') = Len(polls) + 1
      /\ \A k \in 1..Len(polls) : polls'[k] = polls[k]
      /\ polls'[Len(polls) + 1] = c /\ Len(polls) \in Nat
  BY AppendProperties
<1>2. Len(polls) + 1 \in 1..Len(polls') /\ \A j \in 1..Len(polls) : j \in 1..Len(polls')
  BY <1>1
<1> QED
  BY <1>1, <1>2

\* A request of the hook gone, and the others.
LEMMA HookHears ==
    ASSUME polls \in Seq(HookCall), NEW i \in 1..Len(polls)
    PROVE  /\ Drop(polls, i) \in Seq(HookCall)
           /\ \A j \in 1..Len(polls) : j # i =>
                 \E k \in 1..Len(Drop(polls, i)) : Drop(polls, i)[k] = polls[j]
<1> DEFINE t == Leave(polls, i)
<1>1. Drop(polls, i) = t
  BY SameTaking
<1>2. t \in Seq(HookCall)
  BY TakenOut
<1>3. \A k \in 1..Len(t) : \E j \in 1..Len(polls) : t[k] = polls[j]
  BY TakenOut
<1>4. \A j \in 1..Len(polls) : j # i => \E k \in 1..Len(t) : t[k] = polls[j]
  BY TakenOut
<1> HIDE DEF t
<1> QED
  BY <1>1, <1>2, <1>3, <1>4

\* A change of groups gone.
LEMMA UpdateGone ==
    ASSUME updates \in Seq(Update), NEW k \in 1..Len(updates)
    PROVE  Drop(updates, k) \in Seq(Update)
  BY TakenOut, SameTaking

\* What the steps of the hook, and what the steps of the groups, leave alone.
LEMMA HookRests ==
    ASSUME PeopleInv, UNCHANGED <<status, jobId, timerRef, intervals, polls, crossed>>
    PROVE  HookWorks'
  BY DEF PeopleInv, HookWorks

LEMMA PeopleKeep ==
    ASSUME PeopleAssumption, PeopleInv, PeopleNext
    PROVE  PeopleInv'
<1>0. /\ PeopleTypeOK /\ PendingShaped /\ HookWorks
      /\ polls \in Seq(HookCall) /\ updates \in Seq(Update)
      /\ \A i \in 1..Len(polls) : polls[i] \in HookCall
      /\ \A k \in 1..Len(updates) : updates[k] \in Update
  <2>1. PeopleTypeOK /\ PendingShaped /\ HookWorks
        /\ polls \in Seq(HookCall) /\ updates \in Seq(Update)
    BY DEF PeopleInv, PeopleTypeOK
  <2>2. \A i \in 1..Len(polls) : polls[i] \in HookCall
    BY <2>1
  <2>3. \A k \in 1..Len(updates) : updates[k] \in Update
    BY <2>1
  <2> QED
    BY <2>1, <2>2, <2>3
<1>1. ASSUME OpenDialog PROVE PeopleInv'
  BY <1>0, <1>1, HookRests DEF OpenDialog, PeopleInv, PeopleTypeOK,
     PendingShaped, serverVars, hookVars
<1>2. ASSUME CloseDialog PROVE PeopleInv'
  <2>1. /\ status' = "idle" /\ jobId' = NoPerson
        /\ intervals' = intervals \ {timerRef} /\ timerRef' = NoPerson
        /\ crossed' \in BOOLEAN /\ dialogOpen' = FALSE
        /\ unfollowed' \subseteq People
    BY <1>0, <1>2 DEF CloseDialog, Reset, Cleared, PeopleTypeOK
  <2>2. HookWorks'
    BY <2>1 DEF HookWorks
  <2> QED
    BY <1>0, <1>2, <2>1, <2>2 DEF CloseDialog, PeopleInv, PeopleTypeOK,
       PendingShaped, serverVars, HookStates
<1>3. ASSUME NEW u \in People, NEW W \in SUBSET Teams, SubmitUser(u, W)
      PROVE  PeopleInv'
  <2> DEFINE c == Send("create", u)
  <2>1. c \in HookCall /\ c.kind = "create"
    BY Sends
  <2>2. polls' = Append(polls, c)
    BY <1>3 DEF SubmitUser
  <2> HIDE DEF c
  <2>3. polls' \in Seq(HookCall) /\ \E i \in 1..Len(polls') : polls'[i] = c
    BY <1>0, <2>1, <2>2, HookSends
  <2>4. /\ status' = "starting" /\ jobId' = NoPerson
        /\ pending' = [user |-> u, want |-> W] /\ asked' = [asked EXCEPT ![u] = W]
        /\ UNCHANGED <<lossy, userJob, members, dialogOpen, intervals, timerRef,
                       updates, draft, edits, crossed, overlapped, unfollowed>>
    BY <1>3 DEF SubmitUser, serverVars
  <2>5. HookWorks'
    BY <2>1, <2>3, <2>4 DEF HookWorks
  <2>6. PendingShaped'
    BY <2>4 DEF PendingShaped
  <2>7. PeopleTypeOK'
    BY <1>0, <2>3, <2>4 DEF PeopleTypeOK, HookStates
  <2> QED
    BY <2>5, <2>6, <2>7 DEF PeopleInv
<1>4. ASSUME NEW i \in 1..Len(polls), NEW at \in {"sent", "ok", "failed"},
             NEW said \in UserJobs,
             polls' = [polls EXCEPT ![i] = [polls[i] EXCEPT !.at = at, !.said = said]],
             UNCHANGED <<status, jobId, timerRef, intervals, crossed>>
      PROVE  polls' \in Seq(HookCall) /\ HookWorks'
  <2> DEFINE y == [polls[i] EXCEPT !.at = at, !.said = said]
  <2>1. polls[i] \in HookCall
    BY <1>0
  <2>2. y \in HookCall
    BY <2>1 DEF HookCall
  <2>3. y.kind = polls[i].kind /\ y.job = polls[i].job
    BY <2>1, <2>2 DEF HookCall
  <2>4. polls' = [polls EXCEPT ![i] = y]
    BY <1>4
  <2> HIDE DEF y
  <2>5. /\ polls' \in Seq(HookCall) /\ Len(polls') = Len(polls)
        /\ \A k \in 1..Len(polls) : polls'[k].kind = polls[k].kind
                                    /\ polls'[k].job = polls[k].job
    BY <1>0, <2>2, <2>3, <2>4
  <2> QED
    BY <1>0, <1>4, <2>5 DEF HookWorks
<1>5. ASSUME NEW i \in 1..Len(polls), ServeHook(i) PROVE PeopleInv'
  <2> DEFINE c == polls[i]
             said == IF c.kind = "create" THEN "none" ELSE userJob[c.job]
  <2>1. c \in HookCall /\ c.job \in People
    BY <1>0 DEF HookCall
  <2>2. said \in UserJobs
    BY <1>0, <2>1 DEF PeopleTypeOK, UserJobs
  <2>3. polls' = [polls EXCEPT ![i] = [c EXCEPT !.at = "ok", !.said = said]]
    BY <1>0, <1>5 DEF ServeHook
  <2>4. UNCHANGED <<lossy, members, dialogOpen, status, jobId, intervals, timerRef,
                    pending, updates, draft, edits, asked, crossed, overlapped,
                    unfollowed>>
    BY <1>5 DEF ServeHook
  <2>5. polls' \in Seq(HookCall) /\ HookWorks'
    <3> HIDE DEF said
    <3> QED
      BY <1>4, <2>2, <2>3, <2>4
  <2>6. userJob' \in [People -> UserJobs]
    BY <1>0, <1>5, <2>1 DEF ServeHook, PeopleTypeOK, UserJobs
  <2> QED
    BY <1>0, <2>4, <2>5, <2>6 DEF PeopleInv, PeopleTypeOK, PendingShaped
<1>6. ASSUME NEW i \in 1..Len(polls), LoseHookCall(i) PROVE PeopleInv'
  <2>1. polls' = [polls EXCEPT ![i] = [polls[i] EXCEPT !.at = "failed", !.said = "none"]]
    BY <1>0, <1>6 DEF LoseHookCall
  <2>2. UNCHANGED <<lossy, userJob, members, dialogOpen, status, jobId, intervals,
                    timerRef, pending, updates, draft, edits, asked, crossed,
                    overlapped, unfollowed>>
    BY <1>6 DEF LoseHookCall, serverVars
  <2>3. polls' \in Seq(HookCall) /\ HookWorks'
    BY <1>4, <2>1, <2>2 DEF UserJobs
  <2> QED
    BY <1>0, <2>2, <2>3 DEF PeopleInv, PeopleTypeOK, PendingShaped
<1>7. ASSUME NEW u \in People, EndUserJob(u) PROVE PeopleInv'
  <2>1. userJob' \in [People -> UserJobs]
    BY <1>0, <1>7 DEF EndUserJob, PeopleTypeOK, UserJobs
  <2> QED
    BY <1>0, <1>7, <2>1, HookRests DEF EndUserJob, PeopleInv, PeopleTypeOK,
       PendingShaped, hookVars
<1>8. ASSUME NEW u \in People, PollUser(u) PROVE PeopleInv'
  <2> DEFINE c == Send("next", u)
  <2>1. c \in HookCall
    BY Sends
  <2>2. polls' = Append(polls, c)
    BY <1>8 DEF PollUser
  <2> HIDE DEF c
  <2>3. /\ polls' \in Seq(HookCall)
        /\ \A j \in 1..Len(polls) : \E i \in 1..Len(polls') : polls'[i] = polls[j]
    BY <1>0, <2>1, <2>2, HookSends
  <2>4. UNCHANGED <<lossy, userJob, members, dialogOpen, status, jobId, intervals,
                    timerRef, pending, updates, draft, edits, asked, crossed,
                    overlapped, unfollowed>>
    BY <1>8 DEF PollUser, serverVars
  <2>5. HookWorks'
    BY <1>0, <2>3, <2>4 DEF HookWorks
  <2> QED
    BY <1>0, <2>3, <2>4, <2>5 DEF PeopleInv, PeopleTypeOK, PendingShaped
<1>9. ASSUME NEW i \in 1..Len(polls), CreateUserAnswered(i) PROVE PeopleInv'
  <2> DEFINE u == polls[i].job
             c == Send("first", u)
             w == Drop(polls, i)
  <2>1. u \in People
    BY <1>0 DEF HookCall
  <2>2. c \in HookCall /\ c.kind = "first" /\ c.job = u
    BY <2>1, Sends
  <2>3. w \in Seq(HookCall)
    BY <1>0, HookHears
  <2>4. UNCHANGED <<lossy, userJob, members, draft, edits, asked, crossed>>
    BY <1>9 DEF CreateUserAnswered, serverVars
  <2>5. CASE /\ status' = "running" /\ jobId' = u /\ intervals' = Cleared
             /\ polls' = Append(w, c)
             /\ UNCHANGED <<timerRef, pending, dialogOpen, updates, overlapped,
                            unfollowed>>
    <3> HIDE DEF w, c, u
    <3>1. /\ polls' \in Seq(HookCall) /\ Len(polls') = Len(w) + 1
          /\ polls'[Len(w) + 1] = c /\ Len(w) \in Nat
      BY <2>2, <2>3, <2>5, AppendProperties
    <3>2. Len(w) + 1 \in 1..Len(polls')
      BY <3>1
    <3>3. HookWorks'
      BY <2>1, <2>2, <2>5, <3>1, <3>2 DEF HookWorks
    <3>4. PeopleTypeOK'
      BY <1>0, <2>1, <2>4, <2>5, <3>1 DEF PeopleTypeOK, HookStates, Cleared
    <3> QED
      BY <1>0, <2>5, <3>3, <3>4 DEF PeopleInv, PendingShaped
  <2>6. CASE /\ SawFailure(u) /\ polls' = w
             /\ UNCHANGED <<jobId, intervals, timerRef>>
    <3> HIDE DEF w, u
    <3>1. /\ status' = "failed" /\ pending' = Nothing
          /\ unfollowed' = unfollowed \cup {u}
          /\ UNCHANGED <<dialogOpen, updates, overlapped>>
      BY <2>6 DEF SawFailure
    <3>2. HookWorks' /\ PendingShaped'
      BY <3>1 DEF HookWorks, PendingShaped, Nothing
    <3>3. PeopleTypeOK'
      BY <1>0, <2>1, <2>3, <2>4, <2>6, <3>1 DEF PeopleTypeOK, HookStates,
         Nothing
    <3> QED
      BY <3>2, <3>3 DEF PeopleInv
  <2> QED
    BY <1>9, <2>5, <2>6 DEF CreateUserAnswered
<1>10. ASSUME NEW i \in 1..Len(polls), PollAnswered(i) PROVE PeopleInv'
  <2> DEFINE c == polls[i]
             u == c.job
  <2>1. c \in HookCall /\ u \in People /\ c.kind # "create"
    BY <1>0, <1>10 DEF HookCall, PollAnswered
  <2>2. /\ polls' = Drop(polls, i)
        /\ crossed' = (crossed \/ u # jobId \/ status # "running")
        /\ UNCHANGED <<lossy, userJob, members, draft, edits, asked>>
    BY <1>10 DEF PollAnswered, serverVars
  <2>3. /\ polls' \in Seq(HookCall)
        /\ \A j \in 1..Len(polls) : j # i =>
              \E k \in 1..Len(polls') : polls'[k] = polls[j]
    BY <1>0, <2>2, HookHears
  <2>4. crossed' \in BOOLEAN
    BY <1>0, <2>2 DEF PeopleTypeOK
  <2>5. CASE /\ SawSuccess /\ intervals' = Cleared /\ timerRef' = NoPerson
             /\ jobId' = NoPerson
    <3>1. /\ status' = "idle" /\ dialogOpen' = FALSE /\ pending' = Nothing
          /\ UNCHANGED unfollowed
          /\ updates' = IF pending.want # {}
                        THEN Append(updates, Change(pending.user, pending.want))
                        ELSE updates
          /\ overlapped' \in BOOLEAN
      BY <1>0, <2>5 DEF SawSuccess, PeopleTypeOK
    <3>2. updates' \in Seq(Update)
      <4>1. CASE pending.want # {}
        <5>1. pending.user \in People /\ pending.want \in SUBSET Teams
          BY <1>0, <4>1 DEF PendingShaped, PeopleTypeOK
        <5>2. Change(pending.user, pending.want) \in Update
          BY <5>1, ChangeBegins
        <5> QED
          BY <1>0, <3>1, <4>1, <5>2, AppendProperties
      <4>2. CASE pending.want = {}
        BY <1>0, <3>1, <4>2
      <4> QED
        BY <4>1, <4>2
    <3>3. HookWorks' /\ PendingShaped'
      BY <3>1 DEF HookWorks, PendingShaped, Nothing
    <3>4. PeopleTypeOK'
      BY <1>0, <2>2, <2>3, <2>4, <2>5, <3>1, <3>2 DEF PeopleTypeOK, HookStates,
         Nothing, Cleared
    <3> QED
      BY <3>3, <3>4 DEF PeopleInv
  <2>6. CASE /\ SawFailure(u) /\ intervals' = Cleared /\ timerRef' = NoPerson
             /\ UNCHANGED jobId
    <3> HIDE DEF u
    <3>1. /\ status' = "failed" /\ pending' = Nothing
          /\ unfollowed' = unfollowed \cup {u}
          /\ UNCHANGED <<dialogOpen, updates, overlapped>>
      BY <2>6 DEF SawFailure
    <3>2. HookWorks' /\ PendingShaped'
      BY <3>1 DEF HookWorks, PendingShaped, Nothing
    <3>3. PeopleTypeOK'
      BY <1>0, <2>1, <2>2, <2>3, <2>4, <2>6, <3>1 DEF PeopleTypeOK, HookStates,
         Nothing, Cleared
    <3> QED
      BY <3>2, <3>3 DEF PeopleInv
  <2>7. CASE /\ status' = IF c.at = "ok" THEN "running" ELSE status
             /\ IF c.kind = "first"
                THEN intervals' = intervals \cup {u} /\ timerRef' = u
                ELSE UNCHANGED <<intervals, timerRef>>
             /\ UNCHANGED <<jobId, pending, dialogOpen, updates, overlapped,
                            unfollowed>>
    <3>1. ASSUME ~crossed' PROVE HookWorks'
      <4>1. ~crossed /\ u = jobId /\ status = "running" /\ status' = "running"
        BY <2>2, <2>7, <3>1
      <4>2. CASE c.kind = "first"
        BY <2>1, <2>7, <4>1, <4>2 DEF HookWorks
      <4>3. CASE c.kind # "first"
        BY <1>0, <2>3, <2>7, <4>1, <4>3 DEF HookWorks
      <4> QED
        BY <4>2, <4>3
    <3>2. HookWorks'
      BY <3>1 DEF HookWorks
    <3>3. /\ status' \in HookStates /\ intervals' \subseteq People
          /\ timerRef' \in People \cup {NoPerson}
      BY <1>0, <2>1, <2>7 DEF PeopleTypeOK, HookStates
    <3>4. PeopleTypeOK'
      BY <1>0, <2>2, <2>3, <2>4, <2>7, <3>3 DEF PeopleTypeOK
    <3> QED
      BY <1>0, <2>7, <3>2, <3>4 DEF PeopleInv, PendingShaped
  <2> QED
    BY <1>10, <2>5, <2>6, <2>7 DEF PollAnswered
<1>11. ASSUME updates' \in Seq(Update), members' \in [Teams -> SUBSET People],
              draft' = NoDraft \/ draft' \in [team : Teams, list : SUBSET People],
              edits' \in 0..MaxEdits, asked' \in [People -> SUBSET Teams],
              overlapped' \in BOOLEAN,
              UNCHANGED <<lossy, userJob, dialogOpen, status, jobId, intervals,
                          timerRef, polls, pending, crossed, unfollowed>>
       PROVE  PeopleInv'
  <2>1. HookWorks'
    BY <1>11, HookRests
  <2>2. PeopleTypeOK'
    BY <1>0, <1>11 DEF PeopleTypeOK
  <2> QED
    BY <1>0, <1>11, <2>1, <2>2 DEF PeopleInv, PendingShaped
<1>12. ASSUME NEW k \in 1..Len(updates), ReadTeams(k) PROVE PeopleInv'
  <2> DEFINE x == updates[k]
             D == {g \in Teams : (g \in x.want) # (x.user \in members[g])}
             y == [x EXCEPT !.pc = "patch", !.copy = members, !.todo = D]
  <2>1. y \in Update
    <3>1. x \in Update /\ D \in SUBSET Teams
      BY <1>0
    <3> HIDE DEF x, D
    <3> QED
      BY <1>0, <3>1 DEF Update, PeopleTypeOK
  <2>2. updates' = [updates EXCEPT ![k] = y] \/ updates' = Drop(updates, k)
    BY <1>0, <1>12 DEF ReadTeams
  <2> HIDE DEF y
  <2>3. updates' \in Seq(Update)
    <3>1. updates \in Seq(Update)
      BY <1>0
    <3>2. CASE updates' = [updates EXCEPT ![k] = y]
      BY <2>1, <3>1, <3>2
    <3>3. CASE updates' = Drop(updates, k)
      BY <3>1, <3>3, UpdateGone
    <3> QED
      BY <2>2, <3>2, <3>3
  <2> QED
    BY <1>0, <1>11, <1>12, <2>3 DEF ReadTeams, serverVars, hookVars,
       PeopleTypeOK
<1>13. ASSUME NEW k \in 1..Len(updates), NEW g \in Teams, PatchTeam(k, g)
       PROVE  PeopleInv'
  <2> DEFINE x == updates[k]
             y == [x EXCEPT !.todo = x.todo \ {g}]
  <2>1. x \in Update
    BY <1>0
  <2>2. y \in Update
    BY <2>1 DEF Update
  <2>3. updates' = [updates EXCEPT ![k] = y] \/ updates' = Drop(updates, k)
    BY <1>0, <1>13 DEF PatchTeam
  <2> HIDE DEF y
  <2>4. updates' \in Seq(Update)
    <3>1. updates \in Seq(Update)
      BY <1>0
    <3>2. CASE updates' = [updates EXCEPT ![k] = y]
      BY <2>2, <3>1, <3>2
    <3>3. CASE updates' = Drop(updates, k)
      BY <3>1, <3>3, UpdateGone
    <3> QED
      BY <2>3, <3>2, <3>3
  <2>5. Rewritten(x, g) \in SUBSET People
    BY <2>1 DEF Update, Rewritten
  <2>6. members' \in [Teams -> SUBSET People]
    <3>1. members' = members \/ members' = [members EXCEPT ![g] = Rewritten(x, g)]
      BY <1>13 DEF PatchTeam
    <3>2. members \in [Teams -> SUBSET People]
      BY <1>0 DEF PeopleTypeOK
    <3> HIDE DEF x
    <3> QED
      BY <2>5, <3>1, <3>2
  <2> QED
    BY <1>0, <1>11, <1>13, <2>4, <2>6 DEF PatchTeam, hookVars, PeopleTypeOK
<1>14. ASSUME NEW k \in 1..Len(updates), EndUpdate(k) PROVE PeopleInv'
  <2>1. updates' \in Seq(Update)
    BY <1>0, <1>14, UpdateGone DEF EndUpdate
  <2> QED
    BY <1>0, <1>11, <1>14, <2>1 DEF EndUpdate, serverVars, hookVars,
       PeopleTypeOK
<1>15. ASSUME NEW u \in People, NEW W \in SUBSET Teams, EditUser(u, W)
       PROVE  PeopleInv'
  <2>1. updates' \in Seq(Update)
    BY <1>0, <1>15, ChangeBegins, AppendProperties DEF EditUser
  <2>2. edits' \in 0..MaxEdits
    BY <1>0, <1>15, PeopleAssumption DEF EditUser, PeopleTypeOK,
       PeopleAssumption
  <2>3. asked' \in [People -> SUBSET Teams] /\ overlapped' \in BOOLEAN
    BY <1>0, <1>15 DEF EditUser, PeopleTypeOK
  <2> QED
    BY <1>0, <1>11, <1>15, <2>1, <2>2, <2>3 DEF EditUser, serverVars, hookVars,
       PeopleTypeOK
<1>16. ASSUME NEW g \in Teams, OpenTeam(g) PROVE PeopleInv'
  <2>1. edits' \in 0..MaxEdits
    BY <1>0, <1>16, PeopleAssumption DEF OpenTeam, PeopleTypeOK,
       PeopleAssumption
  <2>2. draft' \in [team : Teams, list : SUBSET People] /\ overlapped' \in BOOLEAN
    BY <1>0, <1>16 DEF OpenTeam, PeopleTypeOK
  <2> QED
    BY <1>0, <1>11, <1>16, <2>1, <2>2 DEF OpenTeam, serverVars, hookVars,
       PeopleTypeOK
<1>17. ASSUME NEW M \in SUBSET People, SaveTeam(M) PROVE PeopleInv'
  <2>1. draft \in [team : Teams, list : SUBSET People]
    BY <1>0, <1>17 DEF SaveTeam, PeopleTypeOK
  <2>2. members' \in [Teams -> SUBSET People] /\ overlapped' \in BOOLEAN
    BY <1>0, <1>17, <2>1 DEF SaveTeam, PeopleTypeOK
  <2>3. asked' \in [People -> SUBSET Teams]
    <3> DEFINE a(u) == CASE u \in M \ draft.list -> asked[u] \cup {draft.team}
                         [] u \in draft.list \ M -> asked[u] \ {draft.team}
                         [] OTHER -> asked[u]
    <3>1. ASSUME NEW u \in People PROVE a(u) \in SUBSET Teams
      BY <1>0, <2>1 DEF PeopleTypeOK
    <3>2. asked' = [u \in People |-> a(u)]
      BY <1>17 DEF SaveTeam
    <3> HIDE DEF a
    <3> QED
      BY <3>1, <3>2
  <2> QED
    BY <1>0, <1>11, <1>17, <2>2, <2>3 DEF SaveTeam, hookVars, PeopleTypeOK
<1> QED
  BY <1>1, <1>2, <1>3, <1>5, <1>6, <1>7, <1>8, <1>9, <1>10, <1>12, <1>13,
     <1>14, <1>15, <1>16, <1>17
     DEF PeopleNext

LEMMA PeopleStart ==
    ASSUME PeopleAssumption, PeopleInit
    PROVE  PeopleInv
<1>1. polls \in Seq(HookCall) /\ updates \in Seq(Update)
  BY DEF PeopleInit
<1>2. PeopleTypeOK
  <2>1. /\ userJob \in [People -> UserJobs] /\ members \in [Teams -> SUBSET People]
        /\ asked \in [People -> SUBSET Teams]
    BY DEF PeopleInit, UserJobs
  <2>2. pending \in [user : People \cup {NoPerson}, want : SUBSET Teams]
    BY DEF PeopleInit, Nothing
  <2>3. edits \in 0..MaxEdits
    BY PeopleAssumption DEF PeopleInit, PeopleAssumption
  <2> QED
    BY <1>1, <2>1, <2>2, <2>3 DEF PeopleInit, PeopleTypeOK, HookStates
<1> QED
  BY <1>2 DEF PeopleInit, PeopleInv, PendingShaped, HookWorks, Nothing

LEMMA PeopleRest ==
    ASSUME PeopleInv, UNCHANGED peopleVars
    PROVE  PeopleInv'
  BY DEF PeopleInv, PeopleTypeOK, PendingShaped, HookWorks, peopleVars

LEMMA PeoplePromise ==
    ASSUME PeopleAssumption, PeopleInv
    PROVE  RunningIsPolled
<1>1. ASSUME NEW i \in 1..Len(polls) PROVE polls # <<>>
  BY <1>1
<1> QED
  BY <1>1, PeopleAssumption DEF PeopleAssumption, PeopleInv, HookWorks,
     RunningIsPolled

------------------------------------------------------------------------------
(***************************************************************************)
(* The console.                                                            *)
(***************************************************************************)

\* Each page keeps its invariant: its own steps do, and those of the others
\* leave it alone.
Inv == page \in Pages /\ FilesInv /\ TemplatesInv /\ PeopleInv /\ BillingInv

LEMMA InvStarts == Init => Inv
  BY FilesAssumption, TemplatesAssumption, PeopleAssumption, BillingAssumption,
     FilesStart, TemplatesStart, PeopleStart, BillingStarts
     DEF Init, Inv

LEMMA InvKept == Inv /\ [Next]_vars => Inv'
<1> SUFFICES ASSUME Inv, [Next]_vars PROVE Inv'
  OBVIOUS
<1>1. CASE OnFilesPage
  BY <1>1, FilesAssumption, FilesKeep, TemplatesRest, PeopleRest, BillingRests
     DEF OnFilesPage, Inv
<1>2. CASE OnTemplatesPage
  BY <1>2, TemplatesAssumption, TemplatesKeep, FilesRest, PeopleRest,
     BillingRests
     DEF OnTemplatesPage, Inv
<1>3. CASE OnPeoplePages
  BY <1>3, PeopleAssumption, PeopleKeep, FilesRest, TemplatesRest, BillingRests
     DEF OnPeoplePages, Inv
<1>4. CASE OnBillingTab
  BY <1>4, BillingAssumption, BillingKeeps, FilesRest, TemplatesRest,
     PeopleRest
     DEF OnBillingTab, Inv
<1>5. CASE UNCHANGED vars
  BY <1>5, FilesRest, TemplatesRest, PeopleRest, BillingRests DEF vars, Inv
<1> QED
  BY <1>1, <1>2, <1>3, <1>4, <1>5 DEF Next

\* Every variable of every page keeps its type, whatever its handlers meet.
THEOREM TypeCorrect == Spec => []TypeOK
<1>1. Inv => TypeOK
  BY DEF Inv, TypeOK, FilesInv, FilesTyped, TemplatesInv, PeopleInv, BillingInv
<1> QED
  BY <1>1, InvStarts, InvKept, PTL DEF Spec

\* Nothing a page shows as under way (setCreatingShares, setDeletingShares,
\* the tracked templates, useAsyncTask's status) is left without the request or
\* the timer that ends it.
THEOREM NobodyWaitsForEver == Spec => []NothingWaitsForEver
<1>1. Inv => NothingWaitsForEver
  BY PeopleAssumption, FilesPromise, PeoplePromise DEF Inv, TemplatesInv,
     NothingWaitsForEver
<1> QED
  BY <1>1, InvStarts, InvKept, PTL DEF Spec

\* One undisturbed load of the billing tab (fetchData, get_payment_method) sets
\* tab and document right, and the package follows webhooks that come in order.
THEOREM BillingFollowsStripe == Spec => []BillingHeals
<1>1. Inv => BillingHeals
  BY BillingPromises DEF Inv, BillingHeals
<1> QED
  BY <1>1, InvStarts, InvKept, PTL DEF Spec

-----------------------------------------------------------------------------
(***************************************************************************)
(* The users page at rest (GroupsFollowCreation): users are in the groups last*)
(* asked for them when their creations and changes did not overlap.        *)
(***************************************************************************)

\* Where the element that is now at k was before the one at i was taken out.
Was(i, k) == IF k < i THEN k ELSE k + 1

\* What is left keeps its order.
LEMMA LeftInOrder ==
    ASSUME NEW S, NEW seq \in Seq(S), NEW i \in 1..Len(seq)
    PROVE  /\ Leave(seq, i) \in Seq(S) /\ Len(Leave(seq, i)) = Len(seq) - 1
           /\ \A k \in 1..Len(Leave(seq, i)) :
                 /\ Was(i, k) \in 1..Len(seq) /\ Was(i, k) # i
                 /\ Leave(seq, i)[k] = seq[Was(i, k)]
           /\ \A k, l \in 1..Len(Leave(seq, i)) :
                 /\ Was(i, k) = Was(i, l) => k = l
                 /\ Was(i, k) <= Was(i, l) => k <= l
           /\ \A j \in 1..Len(seq) : j # i =>
                 \E k \in 1..Len(Leave(seq, i)) : Was(i, k) = j
<1> DEFINE t == Leave(seq, i)
<1>1. /\ t \in Seq(S) /\ Len(t) = Len(seq) - 1 /\ Len(seq) \in Nat
      /\ \A j \in 1..Len(t) : t[j] = IF j < i THEN seq[j] ELSE seq[j + 1]
  BY TakenOut
<1> HIDE DEF t
<1>2. \A k \in 1..Len(t) :
         /\ Was(i, k) \in 1..Len(seq) /\ Was(i, k) # i
         /\ t[k] = seq[Was(i, k)]
  BY <1>1 DEF Was
<1>3. \A k, l \in 1..Len(t) : /\ Was(i, k) = Was(i, l) => k = l
                              /\ Was(i, k) <= Was(i, l) => k <= l
  BY <1>1 DEF Was
<1>4. ASSUME NEW j \in 1..Len(seq), j # i PROVE \E k \in 1..Len(t) : Was(i, k) = j
  <2>1. CASE j < i
    <3>1. j \in 1..Len(t) /\ Was(i, j) = j
      BY <1>1, <2>1 DEF Was
    <3> QED
      BY <3>1
  <2>2. CASE ~(j < i)
    <3>1. j - 1 \in 1..Len(t) /\ Was(i, j - 1) = j
      BY <1>1, <1>4, <2>2 DEF Was
    <3> QED
      BY <3>1
  <2> QED
    BY <2>1, <2>2
<1> QED
  BY <1>1, <1>2, <1>3, <1>4 DEF t

\* Only the dialog's own POST is a creation in flight, and it is of the user
\* the reference holds.
OwnCreation ==
    /\ \A i \in 1..Len(polls) : polls[i].kind = "create" =>
          status = "starting" /\ polls[i].job = pending.user /\ jobId = NoPerson
    /\ \A i, j \in 1..Len(polls) :
          polls[i].kind = "create" /\ polls[j].kind = "create" => i = j
    /\ \A i \in 1..Len(polls) :
          polls[i].said = "done" => userJob[polls[i].job] # "none"

\* While the dialog waits, the reference holds the user it waits for, with the
\* groups last asked for it and in none yet; when it does not wait, it holds
\* nobody or one whose job the page did not see succeed.
OwnReference ==
    /\ status \in {"starting", "running"} =>
         /\ dialogOpen
         /\ pending.user \in People
         /\ pending.want = asked[pending.user]
         /\ TeamsOf(pending.user, members) = {}
         /\ \A k \in 1..Len(updates) : updates[k].user # pending.user
    /\ status = "running" => pending.user = jobId
    /\ status \notin {"starting", "running"} =>
         pending.user \in unfollowed \cup {NoPerson}

\* One change of groups at a time.
OneAtATime ==
    /\ \A j, k \in 1..Len(updates) : j = k
    /\ draft # NoDraft => updates = <<>> /\ draft.list = members[draft.team]

\* The groups a change has yet to patch are as it copied them, and of the others
\* its user is in those it should be in.
ChangeIsCurrent(x) ==
    /\ userJob[x.user] # "none"
    /\ x.want = asked[x.user]
    /\ x.pc = "patch" =>
         \A g \in Teams :
            IF g \in x.todo THEN x.copy[g] = members[g]
                            ELSE g \in x.want <=> x.user \in members[g]

ChangesAreCurrent == \A k \in 1..Len(updates) : ChangeIsCurrent(updates[k])

NobodyBefore ==
    \A u \in People : userJob[u] = "none" => TeamsOf(u, members) = {}

\* Who is not in the groups asked for it is waited for, or being changed.
Followed ==
    \A u \in People \ unfollowed :
       \/ TeamsOf(u, members) = asked[u]
       \/ u = pending.user
       \/ \E k \in 1..Len(updates) : updates[k].user = u

Groups ==
    /\ OwnCreation /\ OwnReference /\ OneAtATime /\ ChangesAreCurrent
    /\ NobodyBefore /\ Followed

GroupsKept == ~crossed /\ ~overlapped => Groups

\* The hook's requests after one more, and after one less.
LEMMA HookAdds ==
    ASSUME polls \in Seq(HookCall), NEW c \in HookCall, polls' = Append(polls, c)
    PROVE  \A k \in 1..Len(polls') :
              \/ k \in 1..Len(polls) /\ polls'[k] = polls[k]
              \/ k = Len(polls) + 1 /\ polls'[k] = c
<1>1. /\ Len(polls') = Len(polls) + 1 /\ Len(polls) \in Nat
      /\ \A k \in 1..Len(polls) : polls'[k] = polls[k]
      /\ polls'[Len(polls) + 1] = c
  BY AppendProperties
<1>2. \A k \in 1..(Len(polls) + 1) : k \in 1..Len(polls) \/ k = Len(polls) + 1
  BY <1>1
<1> QED
  BY <1>1, <1>2

\* What taking one of the hook's requests out leaves of the others.
LEMMA HookLeft ==
    ASSUME polls \in Seq(HookCall), NEW i \in 1..Len(polls)
    PROVE  /\ Drop(polls, i) \in Seq(HookCall)
           /\ Len(Drop(polls, i)) = Len(polls) - 1
           /\ \A k \in 1..Len(Drop(polls, i)) :
                 /\ Was(i, k) \in 1..Len(polls) /\ Was(i, k) # i
                 /\ Drop(polls, i)[k] = polls[Was(i, k)]
           /\ \A k, l \in 1..Len(Drop(polls, i)) : Was(i, k) = Was(i, l) => k = l
<1> DEFINE t == Leave(polls, i)
<1>1. Drop(polls, i) = t
  BY SameTaking
<1>2. /\ t \in Seq(HookCall) /\ Len(t) = Len(polls) - 1
      /\ \A k \in 1..Len(t) : /\ Was(i, k) \in 1..Len(polls) /\ Was(i, k) # i
                              /\ t[k] = polls[Was(i, k)]
      /\ \A k, l \in 1..Len(t) : Was(i, k) = Was(i, l) => k = l
  BY LeftInOrder
<1> HIDE DEF t
<1> QED
  BY <1>1, <1>2

\* A request of the hook that is not a creation is sent.
LEMMA CreationsStay ==
    ASSUME polls \in Seq(HookCall), OwnCreation, NEW c \in HookCall,
           polls' = Append(polls, c), c.kind # "create", c.said = "none",
           UNCHANGED <<status, jobId, userJob, pending>>
    PROVE  OwnCreation'
<1>1. \A k \in 1..Len(polls') :
         \/ k \in 1..Len(polls) /\ polls'[k] = polls[k]
         \/ k = Len(polls) + 1 /\ polls'[k] = c
  BY HookAdds
<1> QED
  BY <1>1 DEF OwnCreation

\* What the answers and the losses change of a request.
LEMMA CreationAnswered ==
    ASSUME polls \in Seq(HookCall), OwnCreation, NEW i \in 1..Len(polls),
           NEW at \in {"ok", "failed"}, NEW said \in UserJobs,
           polls' = [polls EXCEPT ![i] = [polls[i] EXCEPT !.at = at, !.said = said]],
           said = "done" => userJob'[polls[i].job] # "none",
           \A u \in People : userJob[u] # "none" => userJob'[u] # "none",
           UNCHANGED <<status, jobId, pending>>
    PROVE  OwnCreation'
<1>0. \A k \in 1..Len(polls) : polls[k] \in HookCall
  OBVIOUS
<1>1. polls[i] \in HookCall /\ \A k \in 1..Len(polls) : polls[k].job \in People
  BY <1>0 DEF HookCall
<1>2. /\ Len(polls') = Len(polls)
      /\ \A k \in 1..Len(polls) :
            /\ polls'[k].kind = polls[k].kind /\ polls'[k].job = polls[k].job
            /\ k # i => polls'[k] = polls[k]
      /\ polls'[i].said = said
  BY <1>1 DEF HookCall
<1>3. ASSUME NEW k \in 1..Len(polls'), polls'[k].said = "done"
      PROVE  userJob'[polls'[k].job] # "none"
  <2>1. CASE k = i
    BY <1>2, <1>3, <2>1
  <2>2. CASE k # i
    BY <1>1, <1>2, <1>3, <2>2 DEF OwnCreation
  <2> QED
    BY <2>1, <2>2
<1>4. ASSUME NEW k \in 1..Len(polls'), polls'[k].kind = "create"
      PROVE  status' = "starting" /\ polls'[k].job = pending'.user /\ jobId' = NoPerson
  BY <1>2, <1>4 DEF OwnCreation
<1>5. ASSUME NEW k \in 1..Len(polls'), NEW l \in 1..Len(polls'),
             polls'[k].kind = "create", polls'[l].kind = "create"
      PROVE  k = l
  BY <1>2, <1>5 DEF OwnCreation
<1> QED
  BY <1>3, <1>4, <1>5 DEF OwnCreation

\* A request that was answered is gone, and the creations with it.
LEMMA CreationsGone ==
    ASSUME polls \in Seq(HookCall), OwnCreation, NEW i \in 1..Len(polls),
           polls' = Drop(polls, i),
           \A j \in 1..Len(polls) : polls[j].kind = "create" => j = i,
           UNCHANGED userJob
    PROVE  OwnCreation'
<1>1. \A k \in 1..Len(polls') : /\ Was(i, k) \in 1..Len(polls) /\ Was(i, k) # i
                                /\ polls'[k] = polls[Was(i, k)]
  BY HookLeft
<1> QED
  BY <1>1 DEF OwnCreation

\* The creation was answered, and its job's first poll is sent.
LEMMA FirstPollSent ==
    ASSUME polls \in Seq(HookCall), OwnCreation, NEW i \in 1..Len(polls),
           NEW u \in People,
           polls' = Append(Drop(polls, i), Send("first", u)),
           \A j \in 1..Len(polls) : polls[j].kind = "create" => j = i,
           UNCHANGED userJob
    PROVE  OwnCreation'
<1> DEFINE d == Drop(polls, i)
           c == Send("first", u)
<1>1. /\ d \in Seq(HookCall)
      /\ \A k \in 1..Len(d) : /\ Was(i, k) \in 1..Len(polls) /\ Was(i, k) # i
                              /\ d[k] = polls[Was(i, k)]
  BY HookLeft
<1>2. c \in HookCall /\ c.kind = "first" /\ c.said = "none"
  BY Sends DEF Send
<1> HIDE DEF d, c
<1>3. /\ Len(polls') = Len(d) + 1 /\ Len(d) \in Nat
      /\ \A k \in 1..Len(d) : polls'[k] = d[k]
      /\ polls'[Len(d) + 1] = c
  BY <1>1, <1>2, AppendProperties DEF d, c
<1>4. \A k \in 1..Len(polls') :
         \/ \E j \in 1..Len(polls) : j # i /\ polls'[k] = polls[j]
         \/ polls'[k] = c
  <2>1. \A k \in 1..Len(polls') : k \in 1..Len(d) \/ k = Len(d) + 1
    BY <1>3
  <2>2. \A k \in 1..Len(d) : \E j \in 1..Len(polls) : j # i /\ polls'[k] = polls[j]
    BY <1>1, <1>3
  <2> QED
    BY <1>3, <2>1, <2>2
<1> QED
  BY <1>2, <1>4 DEF OwnCreation

\* The steps of the hook leave the groups, and the changes of them, alone.
GroupsAlone == <<members, updates, draft, asked>>

\* A step that touches no change of groups leaves the changes as they are.
LEMMA ChangesStay ==
    ASSUME PeopleTypeOK, OneAtATime, ChangesAreCurrent, NobodyBefore,
           UNCHANGED GroupsAlone,
           \A u \in People : userJob[u] # "none" => userJob'[u] # "none"
    PROVE  OneAtATime' /\ ChangesAreCurrent' /\ NobodyBefore'
<1>1. \A k \in 1..Len(updates) : updates[k] \in Update
  BY DEF PeopleTypeOK
<1>2. \A k \in 1..Len(updates) : updates[k].user \in People
  BY <1>1 DEF Update
<1>3. OneAtATime'
  BY DEF OneAtATime, GroupsAlone
<1>4. ChangesAreCurrent'
  BY <1>2 DEF ChangesAreCurrent, ChangeIsCurrent, GroupsAlone
<1>5. NobodyBefore'
  BY DEF NobodyBefore, TeamsOf, GroupsAlone
<1> QED
  BY <1>3, <1>4, <1>5

\* Steps that leave alone what the dialog waits for.
LEMMA ReferenceStays ==
    ASSUME OwnReference, Followed, UNCHANGED GroupsAlone,
           UNCHANGED <<status, jobId, dialogOpen, pending, unfollowed>>
    PROVE  OwnReference' /\ Followed'
  BY DEF OwnReference, Followed, TeamsOf, GroupsAlone

\* The dialog is opened, or closed.
LEMMA DialogKeeps ==
    ASSUME PeopleAssumption, PeopleInv, Groups, ~crossed', OpenDialog \/ CloseDialog
    PROVE  Groups'
<1>1. ASSUME OpenDialog PROVE Groups'
  <2>1. /\ UNCHANGED <<polls, status, jobId, userJob, pending, unfollowed>>
        /\ UNCHANGED GroupsAlone /\ dialogOpen' = TRUE
    BY <1>1 DEF OpenDialog, serverVars, hookVars, GroupsAlone
  <2>2. OwnCreation'
    BY <2>1 DEF Groups, OwnCreation
  <2>3. OwnReference' /\ Followed'
    BY <2>1 DEF Groups, OwnReference, Followed, TeamsOf, GroupsAlone
  <2> QED
    BY <2>1, <2>2, <2>3, ChangesStay DEF Groups, PeopleInv
<1>2. ASSUME CloseDialog PROVE Groups'
  <2>1. /\ UNCHANGED <<polls, userJob, pending>> /\ UNCHANGED GroupsAlone
        /\ status' = "idle" /\ jobId' = NoPerson /\ polls = <<>>
        /\ unfollowed' = IF jobId # NoPerson THEN unfollowed \cup {jobId} ELSE unfollowed
        /\ ~crossed
    BY <1>2 DEF CloseDialog, serverVars, GroupsAlone, Reset
  <2>2. OwnCreation'
    BY <2>1 DEF OwnCreation
  <2>3. status # "starting"
    BY <2>1 DEF PeopleInv, HookWorks
  <2>4. status = "running" => jobId \in People /\ pending.user = jobId
    BY <2>1 DEF PeopleInv, HookWorks, Groups, OwnReference
  <2>5. OwnReference'
    BY <2>1, <2>3, <2>4 DEF PeopleAssumption, Groups, OwnReference
  <2>6. Followed'
    BY <2>1 DEF Groups, Followed, TeamsOf, GroupsAlone
  <2> QED
    BY <2>1, <2>2, <2>5, <2>6, ChangesStay DEF Groups, PeopleInv
<1> QED
  BY <1>1, <1>2

\* A user is submitted.
LEMMA SubmitKeeps ==
    ASSUME PeopleAssumption, PeopleInv, Groups,
           NEW u \in People, NEW W \in SUBSET Teams, SubmitUser(u, W)
    PROVE  Groups'
<1> DEFINE c == Send("create", u)
<1>1. /\ pending' = [user |-> u, want |-> W] /\ asked' = [asked EXCEPT ![u] = W]
      /\ status' = "starting" /\ jobId' = NoPerson
      /\ polls' = Append(polls, c)
      /\ UNCHANGED <<userJob, members, dialogOpen, updates, draft, unfollowed>>
      /\ dialogOpen /\ status \notin {"starting", "running"}
      /\ userJob[u] = "none" /\ u \notin unfollowed
  BY DEF SubmitUser, serverVars
<1>2. c \in HookCall /\ c.kind = "create" /\ c.job = u /\ c.said = "none"
  BY Sends DEF Send
<1>3. /\ polls \in Seq(HookCall) /\ asked \in [People -> SUBSET Teams]
      /\ \A k \in 1..Len(updates) : updates[k] \in Update
  BY DEF PeopleInv, PeopleTypeOK
<1> HIDE DEF c
<1>4. \A k \in 1..Len(polls') :
         \/ k \in 1..Len(polls) /\ polls'[k] = polls[k]
         \/ k = Len(polls) + 1 /\ polls'[k] = c
  BY <1>1, <1>2, <1>3, HookAdds
<1>5. \A k \in 1..Len(polls) : polls[k].kind # "create"
  BY <1>1 DEF Groups, OwnCreation
<1>6. OwnCreation'
  BY <1>1, <1>2, <1>4, <1>5 DEF Groups, OwnCreation
<1>7. \A k \in 1..Len(updates) : updates[k].user # u
  BY <1>1 DEF Groups, ChangesAreCurrent, ChangeIsCurrent
<1>8. asked'[u] = W /\ \A v \in People \ {u} : asked'[v] = asked[v]
  BY <1>1, <1>3
<1>9. TeamsOf(u, members) = {}
  BY <1>1 DEF Groups, NobodyBefore
<1>10. OwnReference'
  BY <1>1, <1>7, <1>8, <1>9 DEF OwnReference, TeamsOf
<1>11. OneAtATime' /\ NobodyBefore'
  BY <1>1 DEF Groups, OneAtATime, NobodyBefore, TeamsOf
<1>12. \A k \in 1..Len(updates) : updates[k].user \in People
  BY <1>3 DEF Update
<1>13. ChangesAreCurrent'
  BY <1>1, <1>7, <1>8, <1>12 DEF Groups, ChangesAreCurrent, ChangeIsCurrent
<1>14. ASSUME NEW v \in People \ unfollowed, v # u
       PROVE  \/ TeamsOf(v, members) = asked[v]
              \/ \E k \in 1..Len(updates) : updates[k].user = v
  <2>1. pending.user # v
    BY <1>1, PeopleAssumption DEF Groups, OwnReference, PeopleAssumption
  <2> QED
    BY <1>14, <2>1 DEF Groups, Followed
<1>15. Followed'
  BY <1>1, <1>8, <1>14 DEF Followed, TeamsOf
<1> QED
  BY <1>6, <1>10, <1>11, <1>13, <1>15 DEF Groups

\* The server's steps, and the polls of an interval.
LEMMA ServerKeeps ==
    ASSUME PeopleAssumption, PeopleInv, Groups,
           \/ \E i \in 1..Len(polls) : ServeHook(i) \/ LoseHookCall(i)
           \/ \E u \in People : EndUserJob(u) \/ PollUser(u)
    PROVE  Groups'
<1>0. /\ polls \in Seq(HookCall) /\ userJob \in [People -> UserJobs]
      /\ \A i \in 1..Len(polls) : polls[i] \in HookCall
  <2>1. polls \in Seq(HookCall) /\ userJob \in [People -> UserJobs]
    BY DEF PeopleInv, PeopleTypeOK
  <2> QED
    BY <2>1
<1>1. ASSUME NEW i \in 1..Len(polls), ServeHook(i) PROVE Groups'
  <2> DEFINE c == polls[i]
             said == IF c.kind = "create" THEN "none" ELSE userJob[c.job]
  <2>1. c \in HookCall /\ c.job \in People /\ said \in UserJobs
    BY <1>0 DEF HookCall, UserJobs
  <2>2. /\ polls' = [polls EXCEPT ![i] = [polls[i] EXCEPT !.at = "ok", !.said = said]]
        /\ userJob' = IF c.kind = "create" THEN [userJob EXCEPT ![c.job] = "queued"]
                                           ELSE userJob
        /\ UNCHANGED <<status, jobId, dialogOpen, pending, unfollowed>>
        /\ UNCHANGED GroupsAlone
    BY <1>0, <1>1 DEF ServeHook, GroupsAlone
  <2>3. \A u \in People : userJob[u] # "none" => userJob'[u] # "none"
    BY <1>0, <2>1, <2>2
  <2>4. said = "done" => userJob'[polls[i].job] # "none"
    BY <2>1, <2>2
  <2> HIDE DEF said
  <2>5. OwnCreation'
    BY <1>0, <2>1, <2>2, <2>3, <2>4, CreationAnswered DEF Groups
  <2> QED
    BY <2>2, <2>3, <2>5, ChangesStay, ReferenceStays DEF Groups, PeopleInv
<1>2. ASSUME NEW i \in 1..Len(polls), LoseHookCall(i) PROVE Groups'
  <2>1. /\ polls' = [polls EXCEPT ![i] = [polls[i] EXCEPT !.at = "failed",
                                                          !.said = "none"]]
        /\ UNCHANGED <<userJob, status, jobId, dialogOpen, pending, unfollowed>>
        /\ UNCHANGED GroupsAlone
    BY <1>0, <1>2 DEF LoseHookCall, GroupsAlone, serverVars
  <2>2. "none" \in UserJobs
    BY DEF UserJobs
  <2>3. OwnCreation'
    BY <1>0, <2>1, <2>2, CreationAnswered DEF Groups
  <2> QED
    BY <2>1, <2>3, ChangesStay, ReferenceStays DEF Groups, PeopleInv
<1>3. ASSUME NEW u \in People, EndUserJob(u) PROVE Groups'
  <2>1. /\ UNCHANGED <<polls, status, jobId, dialogOpen, pending, unfollowed>>
        /\ UNCHANGED GroupsAlone
        /\ \A v \in People : userJob[v] # "none" => userJob'[v] # "none"
    BY <1>0, <1>3 DEF EndUserJob, GroupsAlone, hookVars
  <2>2. OwnCreation'
    BY <1>0, <2>1 DEF Groups, OwnCreation, HookCall
  <2> QED
    BY <2>1, <2>2, ChangesStay, ReferenceStays DEF Groups, PeopleInv
<1>4. ASSUME NEW u \in People, PollUser(u) PROVE Groups'
  <2> DEFINE c == Send("next", u)
  <2>1. c \in HookCall /\ c.kind # "create" /\ c.said = "none"
    BY Sends DEF Send
  <2>2. /\ polls' = Append(polls, c)
        /\ UNCHANGED <<userJob, status, jobId, dialogOpen, pending, unfollowed>>
        /\ UNCHANGED GroupsAlone
    BY <1>4 DEF PollUser, GroupsAlone, serverVars
  <2> HIDE DEF c
  <2>3. OwnCreation'
    BY <1>0, <2>1, <2>2, CreationsStay DEF Groups
  <2> QED
    BY <2>2, <2>3, ChangesStay, ReferenceStays DEF Groups, PeopleInv
<1> QED
  BY <1>1, <1>2, <1>3, <1>4

\* The page sees the job of the user it waits for fail, or its creation refused:
\* the groups are forgotten.
LEMMA FailureSeen ==
    ASSUME PeopleAssumption, PeopleInv, Groups, OwnCreation',
           SawFailure(pending.user),
           status \in {"starting", "running"},
           UNCHANGED GroupsAlone, UNCHANGED userJob
    PROVE  Groups'
<1>1. /\ status' = "failed" /\ pending' = Nothing
      /\ unfollowed' = unfollowed \cup {pending.user}
      /\ UNCHANGED GroupsAlone
  BY DEF SawFailure
<1>2. pending'.user = NoPerson
  BY <1>1 DEF Nothing
<1>3. OwnReference'
  BY <1>1, <1>2 DEF OwnReference
<1>4. Followed'
  BY <1>1 DEF Groups, Followed, TeamsOf, GroupsAlone
<1> QED
  BY <1>3, <1>4, ChangesStay DEF Groups, PeopleInv

\* The POST for the new user is answered.
LEMMA CreationKeeps ==
    ASSUME PeopleAssumption, PeopleInv, Groups,
           NEW i \in 1..Len(polls), CreateUserAnswered(i)
    PROVE  Groups'
<1>0. polls \in Seq(HookCall) /\ polls[i] \in HookCall /\ polls[i].job \in People
  <2>1. polls \in Seq(HookCall)
    BY DEF PeopleInv, PeopleTypeOK
  <2>2. polls[i] \in HookCall
    BY <2>1
  <2> QED
    BY <2>1, <2>2 DEF HookCall
<1>1. /\ polls[i].kind = "create" /\ status = "starting"
      /\ polls[i].job = pending.user
      /\ \A j \in 1..Len(polls) : polls[j].kind = "create" => j = i
  BY DEF CreateUserAnswered, Groups, OwnCreation
<1>2. UNCHANGED <<userJob, members, draft, asked>>
  BY DEF CreateUserAnswered, serverVars
<1>3. CASE polls[i].at = "ok"
  <2>1. /\ status' = "running" /\ jobId' = polls[i].job
        /\ polls' = Append(Drop(polls, i), Send("first", polls[i].job))
        /\ UNCHANGED <<pending, dialogOpen, updates, unfollowed>>
    BY <1>3 DEF CreateUserAnswered
  <2>2. OwnCreation'
    BY <1>0, <1>1, <1>2, <2>1, FirstPollSent DEF Groups
  <2>3. OwnReference'
    BY <1>1, <1>2, <2>1 DEF Groups, OwnReference, TeamsOf
  <2>4. Followed'
    BY <1>2, <2>1 DEF Groups, Followed, TeamsOf
  <2>5. UNCHANGED GroupsAlone
    BY <1>2, <2>1 DEF GroupsAlone
  <2> QED
    BY <1>2, <2>2, <2>3, <2>4, <2>5, ChangesStay DEF Groups, PeopleInv
<1>4. CASE polls[i].at # "ok"
  <2>1. SawFailure(pending.user) /\ polls' = Drop(polls, i)
    BY <1>1, <1>4 DEF CreateUserAnswered
  <2>2. OwnCreation'
    BY <1>0, <1>1, <1>2, <2>1, CreationsGone DEF Groups
  <2>3. UNCHANGED GroupsAlone
    BY <1>2, <2>1 DEF GroupsAlone, SawFailure
  <2> QED
    BY <1>1, <1>2, <2>1, <2>2, <2>3, FailureSeen
<1> QED
  BY <1>3, <1>4

\* The page sees the job succeed: the change of the user's groups is begun.
LEMMA SuccessSeen ==
    ASSUME PeopleAssumption, PeopleInv, Groups, OwnCreation', ~overlapped',
           SawSuccess, status = "running",
           userJob[pending.user] # "none",
           UNCHANGED <<userJob, members, draft, asked>>
    PROVE  Groups'
<1> DEFINE u == pending.user
           x == Change(u, pending.want)
<1>1. /\ u \in People /\ pending.want = asked[u] /\ TeamsOf(u, members) = {}
  BY DEF Groups, OwnReference
<1>2. /\ updates' = IF pending.want # {} THEN Append(updates, x) ELSE updates
      /\ pending.want # {} => updates = <<>> /\ draft = NoDraft
      /\ pending' = Nothing /\ status' = "idle" /\ UNCHANGED unfollowed
  BY DEF SawSuccess, Quiet
<1>3. pending'.user = NoPerson
  BY <1>2 DEF Nothing
<1>4. OwnReference'
  BY <1>2, <1>3 DEF OwnReference
<1>5. CASE pending.want = {}
  <2>1. UNCHANGED GroupsAlone
    BY <1>2, <1>5 DEF GroupsAlone
  <2>2. ASSUME NEW v \in People \ unfollowed
        PROVE  \/ TeamsOf(v, members) = asked[v]
               \/ \E k \in 1..Len(updates) : updates[k].user = v
    <3>1. CASE v = u
      BY <1>1, <1>5, <3>1
    <3>2. CASE v # u
      BY <3>2 DEF Groups, Followed
    <3> QED
      BY <3>1, <3>2
  <2>3. Followed'
    BY <1>2, <2>1, <2>2 DEF Followed, TeamsOf, GroupsAlone
  <2> QED
    BY <1>4, <2>1, <2>3, ChangesStay DEF Groups, PeopleInv
<1>6. CASE pending.want # {}
  <2>1. /\ x.user = u /\ x.pc = "read" /\ x.want = asked[u]
    BY <1>1 DEF Change
  <2> HIDE DEF x
  <2>2. Len(updates') = 1 /\ updates'[1] = x
    BY <1>2, <1>6
  <2>3. OneAtATime'
    BY <1>2, <1>6, <2>2 DEF OneAtATime
  <2>4. ChangesAreCurrent'
    BY <2>1, <2>2 DEF ChangesAreCurrent, ChangeIsCurrent
  <2>5. NobodyBefore'
    BY DEF Groups, NobodyBefore, TeamsOf
  <2>6. ASSUME NEW v \in People \ unfollowed
        PROVE  \/ TeamsOf(v, members) = asked[v]
               \/ \E k \in 1..Len(updates') : updates'[k].user = v
    <3>1. CASE v = u
      BY <2>1, <2>2, <3>1
    <3>2. CASE v # u
      BY <1>2, <1>6, <3>2 DEF Groups, Followed
    <3> QED
      BY <3>1, <3>2
  <2>7. Followed'
    BY <1>2, <2>6 DEF Followed, TeamsOf
  <2> QED
    BY <1>4, <2>3, <2>4, <2>5, <2>7 DEF Groups
<1> QED
  BY <1>5, <1>6

\* A poll is answered.
LEMMA PollKeeps ==
    ASSUME PeopleAssumption, PeopleInv, Groups, ~crossed', ~overlapped',
           NEW i \in 1..Len(polls), PollAnswered(i)
    PROVE  Groups'
<1>0. polls \in Seq(HookCall) /\ polls[i] \in HookCall /\ polls[i].said \in UserJobs
  <2>1. polls \in Seq(HookCall)
    BY DEF PeopleInv, PeopleTypeOK
  <2>2. polls[i] \in HookCall
    BY <2>1
  <2> QED
    BY <2>1, <2>2 DEF HookCall
<1>1. /\ polls[i].job = jobId /\ status = "running" /\ polls' = Drop(polls, i)
      /\ UNCHANGED <<userJob, members, draft, asked>>
  BY DEF PollAnswered, serverVars
<1>2. pending.user = polls[i].job
  BY <1>1 DEF Groups, OwnReference
<1>3. \A j \in 1..Len(polls) : polls[j].kind # "create"
  BY <1>1 DEF Groups, OwnCreation
<1>4. OwnCreation'
  BY <1>0, <1>1, <1>3, CreationsGone DEF Groups
<1>5. CASE polls[i].said = "done"
  <2>1. SawSuccess
    BY <1>5 DEF PollAnswered
  <2>2. userJob[pending.user] # "none"
    BY <1>2, <1>5 DEF Groups, OwnCreation
  <2> QED
    BY <1>1, <1>4, <2>1, <2>2, SuccessSeen
<1>6. CASE polls[i].said = "failed"
  <2>1. SawFailure(pending.user)
    BY <1>2, <1>6 DEF PollAnswered
  <2>2. UNCHANGED GroupsAlone
    BY <1>1, <2>1 DEF SawFailure, GroupsAlone
  <2> QED
    BY <1>1, <1>4, <2>1, <2>2, FailureSeen
<1>7. CASE polls[i].said \in {"queued", "none"}
  <2>1. /\ status' = status
        /\ UNCHANGED <<jobId, pending, dialogOpen, updates, unfollowed>>
    BY <1>1, <1>7 DEF PollAnswered
  <2>2. UNCHANGED GroupsAlone
    BY <1>1, <2>1 DEF GroupsAlone
  <2> QED
    BY <1>1, <1>4, <2>1, <2>2, ChangesStay, ReferenceStays DEF Groups, PeopleInv
<1> QED
  BY <1>0, <1>5, <1>6, <1>7 DEF UserJobs

\* The steps that change groups leave the hook, and what is stored of users,
\* alone.
HookAlone == <<polls, status, jobId, userJob, dialogOpen, pending, unfollowed>>

\* A step that touches nothing of the hook leaves the creation alone.
LEMMA CreationsRest ==
    ASSUME OwnCreation, UNCHANGED HookAlone
    PROVE  OwnCreation'
  BY DEF OwnCreation, HookAlone

\* The only change of groups there is.
LEMMA OnlyChange ==
    ASSUME PeopleTypeOK, OneAtATime, NEW k \in 1..Len(updates)
    PROVE  /\ \A j \in 1..Len(updates) : j = k
           /\ draft = NoDraft
           /\ updates[k] \in Update /\ Drop(updates, k) = <<>>
<1>1. updates \in Seq(Update) /\ updates[k] \in Update
  BY DEF PeopleTypeOK
<1>2. \A j \in 1..Len(updates) : j = k
  BY DEF OneAtATime
<1>3. draft = NoDraft
  BY <1>1 DEF OneAtATime
<1>4. Len(updates) = 1
  <2> DEFINE n == Len(updates)
  <2>1. n \in Nat /\ k \in 1..n /\ \A j \in 1..n : j = k
    BY <1>1, <1>2
  <2> HIDE DEF n
  <2>2. n = 1
    <3>1. 1 \in 1..n /\ n \in 1..n
      BY <2>1
    <3> QED
      BY <2>1, <3>1
  <2> QED
    BY <2>2 DEF n
<1>5. Leave(updates, k) \in Seq(Update) /\ Len(Leave(updates, k)) = 0
  <2> DEFINE t == Leave(updates, k)
  <2>1. t \in Seq(Update) /\ Len(t) = Len(updates) - 1
    BY <1>1, TakenOut
  <2> HIDE DEF t
  <2>2. Len(t) = 0
    BY <1>4, <2>1
  <2> QED
    BY <2>1, <2>2 DEF t
<1>6. Leave(updates, k) = <<>>
  BY <1>5
<1> QED
  BY <1>1, <1>2, <1>3, <1>6, SameTaking

\* A change reads the groups it is about.
LEMMA ReadKeeps ==
    ASSUME PeopleAssumption, PeopleInv, Groups, ~overlapped',
           NEW k \in 1..Len(updates), ReadTeams(k)
    PROVE  Groups'
<1> DEFINE x == updates[k]
           todo == {g \in Teams : (g \in x.want) # (x.user \in members[g])}
           y == [x EXCEPT !.pc = "patch", !.copy = members, !.todo = todo]
<1>1. /\ \A j \in 1..Len(updates) : j = k
      /\ draft = NoDraft /\ x \in Update
  BY OnlyChange DEF Groups, PeopleInv
<1>2. /\ updates' = [updates EXCEPT ![k] = y]
      /\ UNCHANGED HookAlone /\ UNCHANGED <<members, draft, asked>>
  BY DEF ReadTeams, HookAlone, hookVars, serverVars
<1>3. updates \in Seq(Update) /\ members \in [Teams -> SUBSET People]
  BY DEF PeopleInv, PeopleTypeOK
<1>4. /\ y.user = x.user /\ y.want = x.want /\ y.pc = "patch" /\ y.copy = members
      /\ y.todo = todo
  BY <1>1 DEF Update
<1> HIDE DEF y
<1>5. Len(updates') = Len(updates) /\ updates'[k] = y
  BY <1>1, <1>2, <1>3
<1>6. OwnCreation'
  BY <1>2, CreationsRest DEF Groups
<1>7. OneAtATime'
  BY <1>1, <1>2, <1>5 DEF OneAtATime
<1>8. ChangeIsCurrent(x)
  BY DEF Groups, ChangesAreCurrent
<1>9. ChangesAreCurrent'
  <2>1. \A g \in Teams :
           IF g \in y.todo THEN y.copy[g] = members[g]
                           ELSE g \in y.want <=> y.user \in members[g]
    BY <1>4
  <2>2. /\ userJob'[y.user] # "none" /\ y.want = asked'[y.user]
        /\ members' = members
    BY <1>2, <1>4, <1>8 DEF ChangeIsCurrent, HookAlone
  <2>3. ASSUME NEW j \in 1..Len(updates') PROVE updates'[j] = y
    BY <1>1, <1>5, <2>3
  <2> QED
    BY <2>1, <2>2, <2>3 DEF ChangesAreCurrent, ChangeIsCurrent
<1>10. NobodyBefore'
  BY <1>2 DEF Groups, NobodyBefore, TeamsOf, HookAlone
<1>11. OwnReference'
  BY <1>1, <1>2, <1>4, <1>5 DEF Groups, OwnReference, TeamsOf, HookAlone
<1>12. Followed'
  BY <1>1, <1>2, <1>4, <1>5 DEF Groups, Followed, TeamsOf, HookAlone
<1> QED
  BY <1>6, <1>7, <1>9, <1>10, <1>11, <1>12 DEF Groups

\* A change patches one group.
LEMMA PatchKeeps ==
    ASSUME PeopleAssumption, PeopleInv, Groups, ~overlapped',
           NEW k \in 1..Len(updates), NEW g \in Teams, PatchTeam(k, g)
    PROVE  Groups'
<1> DEFINE x == updates[k]
           y == [x EXCEPT !.todo = @ \ {g}]
<1>1. /\ \A j \in 1..Len(updates) : j = k
      /\ draft = NoDraft /\ x \in Update
  BY OnlyChange DEF Groups, PeopleInv
<1>2. updates \in Seq(Update) /\ members \in [Teams -> SUBSET People]
  BY DEF PeopleInv, PeopleTypeOK
<1>3. /\ updates' = [updates EXCEPT ![k] = y]
      /\ members' = [members EXCEPT ![g] = Rewritten(x, g)]
      /\ x.pc = "patch" /\ g \in x.todo
      /\ UNCHANGED HookAlone /\ UNCHANGED <<draft, asked>>
  BY <1>1, <1>2 DEF PatchTeam, HookAlone, hookVars
<1>4. /\ y.user = x.user /\ y.want = x.want /\ y.pc = "patch" /\ y.copy = x.copy
      /\ y.todo = x.todo \ {g} /\ x.user \in People
  BY <1>1, <1>3 DEF Update
<1> HIDE DEF y
<1>5. Len(updates') = Len(updates) /\ updates'[k] = y
  BY <1>1, <1>2, <1>3
<1>6. ChangeIsCurrent(x)
  BY DEF Groups, ChangesAreCurrent
<1>7. \A h \in Teams \ {g} : members'[h] = members[h]
  BY <1>2, <1>3
<1>8. /\ \A u \in People : u # x.user => (u \in members'[g] <=> u \in members[g])
      /\ x.user \in members'[g] <=> g \in x.want
  BY <1>2, <1>3, <1>6 DEF ChangeIsCurrent, Rewritten
<1>9. \A u \in People : u # x.user => TeamsOf(u, members') = TeamsOf(u, members)
  BY <1>7, <1>8 DEF TeamsOf
<1>10. OwnCreation'
  BY <1>3, CreationsRest DEF Groups
<1>11. OneAtATime'
  BY <1>1, <1>3, <1>5 DEF OneAtATime
<1>12. ChangesAreCurrent'
  <2>1. ASSUME NEW h \in Teams
        PROVE  IF h \in y.todo THEN y.copy[h] = members'[h]
                               ELSE h \in y.want <=> y.user \in members'[h]
    <3>1. CASE h = g
      BY <1>4, <1>8, <3>1
    <3>2. CASE h # g
      BY <1>3, <1>4, <1>6, <1>7, <3>2 DEF ChangeIsCurrent
    <3> QED
      BY <3>1, <3>2
  <2>2. userJob'[y.user] # "none" /\ y.want = asked'[y.user]
    BY <1>3, <1>4, <1>6 DEF ChangeIsCurrent, HookAlone
  <2>3. ASSUME NEW j \in 1..Len(updates') PROVE updates'[j] = y
    BY <1>1, <1>5, <2>3
  <2> QED
    BY <2>1, <2>2, <2>3 DEF ChangesAreCurrent, ChangeIsCurrent
<1>13. userJob[x.user] # "none"
  BY <1>6 DEF ChangeIsCurrent
<1>14. NobodyBefore'
  BY <1>3, <1>9, <1>13 DEF Groups, NobodyBefore, HookAlone
<1>15. OwnReference'
  BY <1>1, <1>3, <1>4, <1>5, <1>9 DEF Groups, OwnReference, HookAlone
<1>16. Followed'
  BY <1>1, <1>3, <1>4, <1>5, <1>9 DEF Groups, Followed, HookAlone
<1> QED
  BY <1>10, <1>11, <1>12, <1>14, <1>15, <1>16 DEF Groups

\* A change ends.
LEMMA EndKeeps ==
    ASSUME PeopleAssumption, PeopleInv, Groups,
           NEW k \in 1..Len(updates), EndUpdate(k)
    PROVE  Groups'
<1> DEFINE x == updates[k]
<1>1. /\ \A j \in 1..Len(updates) : j = k
      /\ draft = NoDraft /\ x \in Update
      /\ Drop(updates, k) = <<>>
  BY OnlyChange DEF Groups, PeopleInv
<1>2. /\ updates' = <<>> /\ x.pc = "patch" /\ x.todo = {}
      /\ UNCHANGED HookAlone /\ UNCHANGED <<members, draft, asked>>
  BY <1>1 DEF EndUpdate, HookAlone, hookVars, serverVars
<1>3. ChangeIsCurrent(x) /\ x.want \subseteq Teams
  BY <1>1 DEF Groups, ChangesAreCurrent, Update
<1>4. TeamsOf(x.user, members) = asked[x.user]
  BY <1>2, <1>3 DEF ChangeIsCurrent, TeamsOf
<1>5. OwnCreation'
  BY <1>2, CreationsRest DEF Groups
<1>6. OneAtATime' /\ ChangesAreCurrent'
  BY <1>1, <1>2 DEF OneAtATime, ChangesAreCurrent
<1>7. NobodyBefore' /\ OwnReference'
  BY <1>2 DEF Groups, NobodyBefore, OwnReference, TeamsOf, HookAlone
<1>8. ASSUME NEW v \in People \ unfollowed
      PROVE  TeamsOf(v, members) = asked[v] \/ v = pending.user
  BY <1>1, <1>4 DEF Groups, Followed
<1>9. Followed'
  BY <1>2, <1>8 DEF Followed, TeamsOf, HookAlone
<1> QED
  BY <1>5, <1>6, <1>7, <1>9 DEF Groups

\* The groups of a user are edited.
LEMMA EditKeeps ==
    ASSUME PeopleAssumption, PeopleInv, Groups, ~overlapped',
           NEW u \in People, NEW W \in SUBSET Teams, EditUser(u, W)
    PROVE  Groups'
<1> DEFINE x == Change(u, W)
<1>1. /\ updates = <<>> /\ draft = NoDraft /\ ~dialogOpen /\ userJob[u] # "none"
      /\ updates' = Append(updates, x) /\ asked' = [asked EXCEPT ![u] = W]
      /\ UNCHANGED HookAlone /\ UNCHANGED <<members, draft>>
  BY DEF EditUser, Quiet, HookAlone, hookVars, serverVars
<1>2. x.user = u /\ x.want = W /\ x.pc = "read"
  BY DEF Change
<1> HIDE DEF x
<1>3. Len(updates') = 1 /\ updates'[1] = x
  BY <1>1
<1>4. asked \in [People -> SUBSET Teams]
  BY DEF PeopleInv, PeopleTypeOK
<1>5. asked'[u] = W /\ \A v \in People \ {u} : asked'[v] = asked[v]
  BY <1>1, <1>4
<1>6. status \notin {"starting", "running"}
  BY <1>1 DEF Groups, OwnReference
<1>7. OwnCreation'
  BY <1>1, CreationsRest DEF Groups
<1>8. OneAtATime'
  BY <1>1, <1>3 DEF OneAtATime
<1>9. ChangesAreCurrent'
  BY <1>1, <1>2, <1>3, <1>5 DEF ChangesAreCurrent, ChangeIsCurrent, HookAlone
<1>10. NobodyBefore'
  BY <1>1 DEF Groups, NobodyBefore, TeamsOf, HookAlone
<1>11. OwnReference'
  BY <1>1, <1>6 DEF Groups, OwnReference, HookAlone
<1>12. ASSUME NEW v \in People \ unfollowed, v # u
       PROVE  TeamsOf(v, members) = asked[v] \/ v = pending.user
  BY <1>1, <1>12 DEF Groups, Followed
<1>13. Followed'
  BY <1>1, <1>2, <1>3, <1>5, <1>12 DEF Followed, TeamsOf, HookAlone
<1> QED
  BY <1>7, <1>8, <1>9, <1>10, <1>11, <1>13 DEF Groups

\* The dialog of a group is opened.
LEMMA TeamOpened ==
    ASSUME PeopleAssumption, PeopleInv, Groups, ~overlapped',
           NEW g \in Teams, OpenTeam(g)
    PROVE  Groups'
<1>1. /\ updates = <<>> /\ draft' = [team |-> g, list |-> members[g]]
      /\ UNCHANGED HookAlone /\ UNCHANGED <<members, updates, asked>>
  BY DEF OpenTeam, HookAlone, hookVars, serverVars
<1>2. OneAtATime'
  BY <1>1 DEF OneAtATime
<1>3. ChangesAreCurrent' /\ NobodyBefore' /\ OwnReference' /\ Followed'
  BY <1>1 DEF Groups, ChangesAreCurrent, NobodyBefore, OwnReference, Followed,
     TeamsOf, HookAlone
<1> QED
  BY <1>1, <1>2, <1>3, CreationsRest DEF Groups

\* The members of a group are saved.
LEMMA TeamSaved ==
    ASSUME PeopleAssumption, PeopleInv, Groups, ~overlapped',
           NEW M \in SUBSET People, SaveTeam(M)
    PROVE  Groups'
<1> DEFINE g == draft.team
           L == draft.list
<1>1. /\ draft # NoDraft /\ draft' = NoDraft
      /\ M \subseteq {u \in People : userJob[u] # "none"}
      /\ members' = [members EXCEPT ![g] = M]
      /\ asked' = [u \in People |-> CASE u \in M \ L -> asked[u] \cup {g}
                                      [] u \in L \ M -> asked[u] \ {g}
                                      [] OTHER -> asked[u]]
      /\ pending.user \notin M \cup L
      /\ UNCHANGED HookAlone /\ UNCHANGED updates
  BY DEF SaveTeam, HookAlone, hookVars
<1>2. g \in Teams /\ L \subseteq People /\ members \in [Teams -> SUBSET People]
  BY <1>1 DEF PeopleInv, PeopleTypeOK
<1>3. updates = <<>> /\ L = members[g]
  BY <1>1 DEF Groups, OneAtATime
<1> HIDE DEF g, L
<1>4. members'[g] = M /\ \A h \in Teams \ {g} : members'[h] = members[h]
  BY <1>1, <1>2
<1>5. asked \in [People -> SUBSET Teams]
  BY DEF PeopleInv, PeopleTypeOK
<1>6. ASSUME NEW u \in People
      PROVE  /\ TeamsOf(u, members) = asked[u] => TeamsOf(u, members') = asked'[u]
             /\ u \notin M \cup L =>
                   /\ TeamsOf(u, members') = TeamsOf(u, members)
                   /\ asked'[u] = asked[u]
  <2>1. CASE u \in M \ L
    <3>1. TeamsOf(u, members') = TeamsOf(u, members) \cup {g}
      BY <1>2, <1>4, <2>1 DEF TeamsOf
    <3>2. asked'[u] = asked[u] \cup {g}
      BY <1>1, <2>1
    <3> QED
      BY <2>1, <3>1, <3>2
  <2>2. CASE u \in L \ M
    <3>1. TeamsOf(u, members') = TeamsOf(u, members) \ {g}
      BY <1>2, <1>4, <2>2 DEF TeamsOf
    <3>2. asked'[u] = asked[u] \ {g}
      BY <1>1, <2>2
    <3> QED
      BY <2>2, <3>1, <3>2
  <2>3. CASE u \notin M \ L /\ u \notin L \ M
    <3>1. TeamsOf(u, members') = TeamsOf(u, members)
      BY <1>2, <1>3, <1>4, <2>3 DEF TeamsOf
    <3>2. asked'[u] = asked[u]
      BY <1>1, <2>3
    <3> QED
      BY <3>1, <3>2
  <2> QED
    BY <2>1, <2>2, <2>3
<1>7. OneAtATime' /\ ChangesAreCurrent'
  BY <1>1, <1>3 DEF OneAtATime, ChangesAreCurrent
<1>8. ASSUME NEW u \in People, userJob[u] = "none" PROVE TeamsOf(u, members') = {}
  <2>1. u \notin M /\ TeamsOf(u, members) = {}
    BY <1>1, <1>8 DEF Groups, NobodyBefore
  <2>2. u \notin L
    BY <1>2, <1>3, <2>1 DEF TeamsOf
  <2> QED
    BY <1>6, <2>1, <2>2
<1>9. NobodyBefore'
  BY <1>1, <1>8 DEF NobodyBefore, HookAlone
<1>10. OwnReference'
  BY <1>1, <1>6 DEF Groups, OwnReference, HookAlone
<1>11. ASSUME NEW v \in People \ unfollowed
       PROVE  TeamsOf(v, members) = asked[v] \/ v = pending.user
  BY <1>3, <1>11 DEF Groups, Followed
<1>12. Followed'
  BY <1>1, <1>6, <1>11 DEF Followed, HookAlone
<1> QED
  BY <1>1, <1>7, <1>9, <1>10, <1>12, CreationsRest DEF Groups

\* What was crossed or overlapped once stays so.
LEMMA HistoryGrows ==
    ASSUME PeopleTypeOK, PeopleNext
    PROVE  (crossed => crossed') /\ (overlapped => overlapped')
<1>0. crossed \in BOOLEAN /\ overlapped \in BOOLEAN
  BY DEF PeopleTypeOK
<1>1. CASE OpenDialog \/ CloseDialog
  BY <1>0, <1>1 DEF OpenDialog, CloseDialog
<1>2. CASE \E u \in People :
              \/ EndUserJob(u) \/ PollUser(u)
              \/ \E W \in SUBSET Teams : SubmitUser(u, W) \/ EditUser(u, W)
  BY <1>0, <1>2 DEF EndUserJob, PollUser, SubmitUser, EditUser
<1>3. ASSUME NEW i \in 1..Len(polls), ServeHook(i) \/ LoseHookCall(i)
      PROVE  (crossed => crossed') /\ (overlapped => overlapped')
  BY <1>0, <1>3 DEF ServeHook, LoseHookCall
<1>4. ASSUME NEW i \in 1..Len(polls), CreateUserAnswered(i)
      PROVE  (crossed => crossed') /\ (overlapped => overlapped')
  BY <1>0, <1>4 DEF CreateUserAnswered, SawFailure
<1>5. ASSUME NEW i \in 1..Len(polls), PollAnswered(i)
      PROVE  (crossed => crossed') /\ (overlapped => overlapped')
  BY <1>0, <1>5 DEF PollAnswered, SawFailure, SawSuccess
<1>6. ASSUME NEW k \in 1..Len(updates), ReadTeams(k) \/ EndUpdate(k)
      PROVE  (crossed => crossed') /\ (overlapped => overlapped')
  BY <1>0, <1>6 DEF ReadTeams, EndUpdate
<1>7. ASSUME NEW k \in 1..Len(updates), NEW g \in Teams, PatchTeam(k, g)
      PROVE  (crossed => crossed') /\ (overlapped => overlapped')
  BY <1>0, <1>7 DEF PatchTeam
<1>8. ASSUME NEW g \in Teams, OpenTeam(g)
      PROVE  (crossed => crossed') /\ (overlapped => overlapped')
  BY <1>0, <1>8 DEF OpenTeam
<1>9. ASSUME NEW M \in SUBSET People, SaveTeam(M)
      PROVE  (crossed => crossed') /\ (overlapped => overlapped')
  BY <1>0, <1>9 DEF SaveTeam
<1> QED
  BY <1>1, <1>2, <1>3, <1>4, <1>5, <1>6, <1>7, <1>8, <1>9 DEF PeopleNext

\* A step of the people's pages keeps the groups followed.
LEMMA GroupsStay ==
    ASSUME PeopleAssumption, PeopleInv, GroupsKept, PeopleNext
    PROVE  GroupsKept'
<1>1. (crossed => crossed') /\ (overlapped => overlapped')
  BY HistoryGrows DEF PeopleInv
<1> SUFFICES ASSUME ~crossed', ~overlapped' PROVE Groups'
  BY DEF GroupsKept
<1>2. Groups
  BY <1>1 DEF GroupsKept
<1>3. CASE OpenDialog \/ CloseDialog
  BY <1>2, <1>3, DialogKeeps
<1>4. CASE \E u \in People : \E W \in SUBSET Teams : SubmitUser(u, W)
  BY <1>2, <1>4, SubmitKeeps
<1>5. CASE \E u \in People : \E W \in SUBSET Teams : EditUser(u, W)
  BY <1>2, <1>5, EditKeeps
<1>6. CASE \/ \E i \in 1..Len(polls) : ServeHook(i) \/ LoseHookCall(i)
           \/ \E u \in People : EndUserJob(u) \/ PollUser(u)
  BY <1>2, <1>6, ServerKeeps
<1>7. CASE \E i \in 1..Len(polls) : CreateUserAnswered(i)
  BY <1>2, <1>7, CreationKeeps
<1>8. CASE \E i \in 1..Len(polls) : PollAnswered(i)
  BY <1>2, <1>8, PollKeeps
<1>9. CASE \E k \in 1..Len(updates) : ReadTeams(k) \/ EndUpdate(k)
  BY <1>2, <1>9, ReadKeeps, EndKeeps
<1>10. CASE \E k \in 1..Len(updates) : \E g \in Teams : PatchTeam(k, g)
  BY <1>2, <1>10, PatchKeeps
<1>11. CASE \E g \in Teams : OpenTeam(g)
  BY <1>2, <1>11, TeamOpened
<1>12. CASE \E M \in SUBSET People : SaveTeam(M)
  BY <1>2, <1>12, TeamSaved
<1> QED
  BY <1>3, <1>4, <1>5, <1>6, <1>7, <1>8, <1>9, <1>10, <1>11, <1>12
     DEF PeopleNext

\* Nobody is asked for yet.
LEMMA GroupsStart ==
    ASSUME PeopleAssumption, PeopleInit
    PROVE  GroupsKept
<1>1. OwnCreation /\ ChangesAreCurrent /\ OneAtATime
  BY DEF PeopleInit, OwnCreation, ChangesAreCurrent, OneAtATime
<1>2. \A u \in People : TeamsOf(u, members) = {} /\ asked[u] = {}
  BY DEF PeopleInit, TeamsOf
<1>3. NobodyBefore /\ Followed
  BY <1>2 DEF NobodyBefore, Followed
<1>4. OwnReference
  BY DEF PeopleInit, OwnReference, Nothing
<1> QED
  BY <1>1, <1>3, <1>4 DEF GroupsKept, Groups

\* The other pages leave the groups alone.
LEMMA GroupsRest ==
    ASSUME GroupsKept, UNCHANGED peopleVars
    PROVE  GroupsKept'
  BY DEF GroupsKept, Groups, OwnCreation, OwnReference, OneAtATime,
     ChangesAreCurrent, ChangeIsCurrent, NobodyBefore, Followed, TeamsOf,
     peopleVars

\* At rest, users are in the groups last asked for them.
LEMMA GroupsPromise ==
    ASSUME PeopleAssumption, PeopleInv, GroupsKept
    PROVE  GroupsFollowCreation
<1> SUFFICES ASSUME polls = <<>>, intervals = {}, Quiet, ~crossed, ~overlapped,
                    NEW u \in People \ unfollowed
             PROVE  TeamsOf(u, members) = asked[u]
  BY DEF GroupsFollowCreation
<1>1. Groups
  BY DEF GroupsKept
<1>2. status \notin {"starting", "running"}
  BY DEF PeopleInv, HookWorks
<1>3. u # pending.user
  BY <1>1, <1>2 DEF Groups, OwnReference, PeopleAssumption
<1> QED
  BY <1>1, <1>3 DEF Groups, Followed, Quiet

-----------------------------------------------------------------------------
(***************************************************************************)
(* The files page at rest (TreeIsStored): a share is shown as it is stored, or*)
(* an operation, a poll or a tree on its way will see to it.               *)
(***************************************************************************)

Agrees(op, form) == (form # "absent") <=> (op = "create")

\* One operation on a share at a time: one request, one job, and both only while
\* the job is that request's.
OneOperation(s) ==
    /\ \A i \in 1..Len(fileCalls) : fileCalls[i].share = s =>
          fileCalls[i].kind \in {"create", "delete", "edit"}
    /\ \A i, j \in 1..Len(fileCalls) :
          fileCalls[i].share = s /\ fileCalls[j].share = s => i = j
    /\ \A k, l \in 1..Len(shareJobs) :
          shareJobs[k].share = s /\ shareJobs[l].share = s => k = l
    /\ \A i \in 1..Len(fileCalls) : \A k \in 1..Len(shareJobs) :
          fileCalls[i].share = s /\ shareJobs[k].share = s =>
             fileCalls[i].at # "sent" /\ fileCalls[i].kind = shareJobs[k].op

\* A live poll that waits for an operation on s and has not seen its effect.
Unseen(p, op, s) ==
    /\ filePolls[p].live /\ filePolls[p].share = s /\ filePolls[p].op = op
    /\ \A i \in 1..Len(fileCalls) :
          fileCalls[i].kind = "poll" /\ fileCalls[i].at = "ok"
          /\ fileCalls[i].poll = p => ~Agrees(op, fileCalls[i].list[s])

\* A job whose effect is to come is one the page has yet to see.
JobAwaited(s) ==
    \A k \in 1..Len(shareJobs) : shareJobs[k].share = s =>
        \/ \E i \in 1..Len(fileCalls) :
              fileCalls[i].share = s /\ fileCalls[i].kind = shareJobs[k].op
        \/ Agrees(shareJobs[k].op, stored[s])
        \/ \E p \in 1..Len(filePolls) : Unseen(p, shareJobs[k].op, s)

\* What the page shows, or will when the last list it has asked for arrives.
Current(s) ==
    \/ /\ \A i \in 1..Len(fileCalls) : fileCalls[i].kind # "tree"
       /\ tree[s] = stored[s]
    \/ \E i \in 1..Len(fileCalls) :
         /\ fileCalls[i].kind = "tree"
         /\ fileCalls[i].at = "ok" => fileCalls[i].list[s] = stored[s]
         /\ \A j \in 1..Len(fileCalls) : fileCalls[j].kind = "tree" => j <= i

WillBeCurrent(s) ==
    \/ Current(s)
    \/ \E i \in 1..Len(fileCalls) : fileCalls[i].share = s
    \/ \E p \in 1..Len(filePolls) : filePolls[p].live /\ filePolls[p].share = s

ShareFollowed(s) == OneOperation(s) /\ JobAwaited(s) /\ WillBeCurrent(s)

TreeKept ==
    fileNet.inorder /\ ~fileTold =>
        \A s \in Shares \ muddled : ShareFollowed(s)

\* How the requests in flight follow from those before a step: m says where each
\* was, or 0 of one that was sent; the one at gone was answered.
Follows(m, gone, old, new, sent) ==
    /\ m \in [1..Len(new) -> 0..Len(old)]
    /\ \A k \in 1..Len(new) :
          IF m[k] = 0 THEN new[k] \in sent ELSE m[k] # gone /\ new[k] = old[m[k]]
    /\ \A k, l \in 1..Len(new) : m[k] # 0 /\ m[l] # 0 =>
          /\ m[k] <= m[l] => k <= l
          /\ m[k] = m[l] => k = l
    /\ \A j \in 1..Len(old) : j # gone => \E k \in 1..Len(new) : m[k] = j

\* A request is sent.
LEMMA SentFollows ==
    ASSUME NEW S, NEW old \in Seq(S), NEW e \in S
    PROVE  \E m : Follows(m, 0, old, Append(old, e), {e})
<1> DEFINE new == Append(old, e)
           n == Len(old)
           m == [k \in 1..(n + 1) |-> IF k = n + 1 THEN 0 ELSE k]
<1>1. /\ Len(new) = n + 1 /\ n \in Nat
      /\ \A k \in 1..n : new[k] = old[k]
      /\ new[n + 1] = e
  BY AppendProperties
<1> HIDE DEF new, n
<1>2. \A k \in 1..(n + 1) : k = n + 1 \/ k \in 1..n
  BY <1>1
<1>3. m \in [1..(n + 1) -> 0..n]
  BY <1>1, <1>2
<1>4. \A k \in 1..(n + 1) :
         IF m[k] = 0 THEN new[k] \in {e} ELSE m[k] # 0 /\ new[k] = old[m[k]]
  BY <1>1, <1>2
<1>5. \A k, l \in 1..(n + 1) : m[k] # 0 /\ m[l] # 0 =>
         /\ m[k] <= m[l] => k <= l
         /\ m[k] = m[l] => k = l
  BY <1>1
<1>6. \A j \in 1..n : j # 0 => j \in 1..(n + 1) /\ m[j] = j
  BY <1>1
<1> HIDE DEF m
<1>7. Follows(m, 0, old, new, {e})
  BY <1>1, <1>3, <1>4, <1>5, <1>6 DEF Follows, n
<1> QED
  BY <1>7 DEF new

\* A request is answered.
LEMMA TakenFollows ==
    ASSUME NEW S, NEW old \in Seq(S), NEW i \in 1..Len(old)
    PROVE  \E m : Follows(m, i, old, Leave(old, i), {})
<1> DEFINE new == Leave(old, i)
           m == [k \in 1..Len(new) |-> Was(i, k)]
<1>1. /\ \A k \in 1..Len(new) :
            /\ Was(i, k) \in 1..Len(old) /\ Was(i, k) # i
            /\ new[k] = old[Was(i, k)]
      /\ \A k, l \in 1..Len(new) :
            /\ Was(i, k) = Was(i, l) => k = l
            /\ Was(i, k) <= Was(i, l) => k <= l
      /\ \A j \in 1..Len(old) : j # i => \E k \in 1..Len(new) : Was(i, k) = j
      /\ Len(old) \in Nat
  BY LeftInOrder
<1> HIDE DEF new
<1>2. \A k \in 1..Len(new) : m[k] = Was(i, k) /\ m[k] # 0 /\ m[k] \in 0..Len(old)
  BY <1>1
<1>3. m \in [1..Len(new) -> 0..Len(old)]
  BY <1>2
<1> HIDE DEF m
<1>4. Follows(m, i, old, new, {})
  BY <1>1, <1>2, <1>3 DEF Follows
<1> QED
  BY <1>4 DEF new

\* A request is answered, and its answer sends another.
LEMMA ReplacedFollows ==
    ASSUME NEW S, NEW old \in Seq(S), NEW i \in 1..Len(old), NEW e \in S
    PROVE  \E m : Follows(m, i, old, Append(Leave(old, i), e), {e})
<1> DEFINE d == Leave(old, i)
           n == Len(d)
           new == Append(d, e)
           m == [k \in 1..(n + 1) |-> IF k = n + 1 THEN 0 ELSE Was(i, k)]
<1>1. /\ d \in Seq(S)
      /\ \A k \in 1..n :
            /\ Was(i, k) \in 1..Len(old) /\ Was(i, k) # i
            /\ d[k] = old[Was(i, k)]
      /\ \A k, l \in 1..n :
            /\ Was(i, k) = Was(i, l) => k = l
            /\ Was(i, k) <= Was(i, l) => k <= l
      /\ \A j \in 1..Len(old) : j # i => \E k \in 1..n : Was(i, k) = j
      /\ Len(old) \in Nat
  <2>1. d \in Seq(S) /\ Len(old) \in Nat
    BY TakenOut
  <2>2. \A k \in 1..Len(d) : /\ Was(i, k) \in 1..Len(old) /\ Was(i, k) # i
                             /\ d[k] = old[Was(i, k)]
    BY LeftInOrder
  <2>3. /\ \A k, l \in 1..Len(d) :
              /\ Was(i, k) = Was(i, l) => k = l
              /\ Was(i, k) <= Was(i, l) => k <= l
        /\ \A j \in 1..Len(old) : j # i => \E k \in 1..Len(d) : Was(i, k) = j
    BY LeftInOrder
  <2> HIDE DEF d
  <2> QED
    BY <2>1, <2>2, <2>3
<1> HIDE DEF d
<1>2. /\ Len(new) = n + 1 /\ n \in Nat
      /\ \A k \in 1..n : new[k] = d[k]
      /\ new[n + 1] = e
  BY <1>1, AppendProperties
<1> HIDE DEF new, n
<1>3. \A k \in 1..(n + 1) : k = n + 1 \/ k \in 1..n
  BY <1>2
<1>4. \A k \in 1..(n + 1) :
         m[k] = (IF k = n + 1 THEN 0 ELSE Was(i, k)) /\ m[k] \in 0..Len(old)
  BY <1>1, <1>3
<1>5. m \in [1..(n + 1) -> 0..Len(old)]
  BY <1>4
<1> HIDE DEF m
<1>6. \A k \in 1..(n + 1) :
         IF m[k] = 0 THEN new[k] \in {e} ELSE m[k] # i /\ new[k] = old[m[k]]
  BY <1>1, <1>2, <1>3, <1>4
<1>7. \A k, l \in 1..(n + 1) : m[k] # 0 /\ m[l] # 0 =>
         /\ m[k] <= m[l] => k <= l
         /\ m[k] = m[l] => k = l
  BY <1>1, <1>2, <1>3, <1>4
<1>8. ASSUME NEW j \in 1..Len(old), j # i PROVE \E k \in 1..(n + 1) : m[k] = j
  <2>1. PICK k \in 1..n : Was(i, k) = j
    BY <1>1, <1>8
  <2>2. k \in 1..(n + 1) /\ k # n + 1
    BY <1>2, <2>1
  <2> QED
    BY <1>4, <2>1, <2>2
<1>9. Follows(m, i, old, new, {e})
  BY <1>2, <1>5, <1>6, <1>7, <1>8 DEF Follows
<1> QED
  BY <1>9 DEF new, d

\* What each part of ShareFollowed needs of a step that sends or ends requests.
LEMMA OperationFollows ==
    ASSUME NEW s, NEW m, NEW gone, NEW sent,
           Follows(m, gone, fileCalls, fileCalls', sent),
           OneOperation(s), \A r \in sent : r.share # s, UNCHANGED shareJobs
    PROVE  OneOperation(s)'
<1>1. ASSUME NEW k \in 1..Len(fileCalls'), fileCalls'[k].share = s
      PROVE  /\ m[k] # 0 /\ m[k] \in 1..Len(fileCalls)
             /\ fileCalls'[k] = fileCalls[m[k]]
  BY <1>1 DEF Follows
<1>2. ASSUME NEW k \in 1..Len(fileCalls'), fileCalls'[k].share = s
      PROVE  fileCalls'[k].kind \in {"create", "delete", "edit"}
  BY <1>1, <1>2 DEF OneOperation
<1>3. ASSUME NEW k \in 1..Len(fileCalls'), NEW l \in 1..Len(fileCalls'),
             fileCalls'[k].share = s, fileCalls'[l].share = s
      PROVE  k = l
  <2>1. m[k] # 0 /\ m[l] # 0 /\ m[k] = m[l]
    BY <1>1, <1>3 DEF OneOperation
  <2> QED
    BY <2>1 DEF Follows
<1>4. ASSUME NEW k \in 1..Len(fileCalls'), NEW j \in 1..Len(shareJobs),
             fileCalls'[k].share = s, shareJobs[j].share = s
      PROVE  fileCalls'[k].at # "sent" /\ fileCalls'[k].kind = shareJobs[j].op
  BY <1>1, <1>4 DEF OneOperation
<1>5. \A k, l \in 1..Len(shareJobs) :
         shareJobs[k].share = s /\ shareJobs[l].share = s => k = l
  BY DEF OneOperation
<1> QED
  BY <1>2, <1>3, <1>4, <1>5 DEF OneOperation

\* A poll that stays and has seen nothing still has seen nothing.
PollsStay ==
    \A p \in 1..Len(filePolls) :
       /\ p \in 1..Len(filePolls')
       /\ filePolls'[p].live = filePolls[p].live
       /\ filePolls'[p].share = filePolls[p].share
       /\ filePolls'[p].op = filePolls[p].op

\* A poll that has not seen the effect still has not.
LEMMA UnseenFollows ==
    ASSUME NEW s, NEW op, NEW m, NEW gone, NEW sent,
           Follows(m, gone, fileCalls, fileCalls', sent),
           \A r \in sent : r.at # "ok" \/ r.kind # "poll",
           NEW p \in 1..Len(filePolls), Unseen(p, op, s),
           filePolls'[p].live = filePolls[p].live,
           filePolls'[p].share = filePolls[p].share,
           filePolls'[p].op = filePolls[p].op
    PROVE  Unseen(p, op, s)'
<1>1. ASSUME NEW k \in 1..Len(fileCalls'), fileCalls'[k].kind = "poll",
             fileCalls'[k].at = "ok", fileCalls'[k].poll = p
      PROVE  ~Agrees(op, fileCalls'[k].list[s])
  <2>1. m[k] # 0 /\ m[k] \in 1..Len(fileCalls) /\ fileCalls'[k] = fileCalls[m[k]]
    BY <1>1 DEF Follows
  <2> QED
    BY <1>1, <2>1 DEF Unseen
<1> QED
  BY <1>1 DEF Unseen

\* A job whose effect is to come stays awaited.
LEMMA AwaitFollows ==
    ASSUME NEW s, NEW m, NEW gone, NEW sent,
           Follows(m, gone, fileCalls, fileCalls', sent),
           \A r \in sent : r.at # "ok" \/ r.kind # "poll",
           gone \in 1..Len(fileCalls) => fileCalls[gone].share # s,
           JobAwaited(s), PollsStay,
           stored'[s] = stored[s], UNCHANGED shareJobs
    PROVE  JobAwaited(s)'
<1> SUFFICES ASSUME NEW k \in 1..Len(shareJobs), shareJobs[k].share = s
             PROVE  \/ \E i \in 1..Len(fileCalls') :
                          /\ fileCalls'[i].share = s
                          /\ fileCalls'[i].kind = shareJobs[k].op
                    \/ Agrees(shareJobs[k].op, stored'[s])
                    \/ \E p \in 1..Len(filePolls') : Unseen(p, shareJobs[k].op, s)'
  BY DEF JobAwaited
<1>1. CASE \E i \in 1..Len(fileCalls) :
              fileCalls[i].share = s /\ fileCalls[i].kind = shareJobs[k].op
  <2>1. PICK i \in 1..Len(fileCalls) :
              fileCalls[i].share = s /\ fileCalls[i].kind = shareJobs[k].op
    BY <1>1
  <2>2. i # gone
    BY <2>1
  <2>3. PICK j \in 1..Len(fileCalls') : m[j] = i
    BY <2>2 DEF Follows
  <2>4. fileCalls'[j] = fileCalls[i]
    BY <2>3 DEF Follows
  <2> QED
    BY <2>1, <2>4
<1>2. CASE Agrees(shareJobs[k].op, stored[s])
  BY <1>2
<1>3. CASE \E p \in 1..Len(filePolls) : Unseen(p, shareJobs[k].op, s)
  <2>1. PICK p \in 1..Len(filePolls) : Unseen(p, shareJobs[k].op, s)
    BY <1>3
  <2>2. Unseen(p, shareJobs[k].op, s)'
    BY <2>1, UnseenFollows DEF PollsStay
  <2> QED
    BY <2>2 DEF PollsStay
<1> QED
  BY <1>1, <1>2, <1>3 DEF JobAwaited

\* What a list on its way shows of a share stays as current as it was.
LEMMA CurrentFollows ==
    ASSUME NEW s, NEW m, NEW gone, NEW sent,
           Follows(m, gone, fileCalls, fileCalls', sent),
           \A r \in sent : r.kind # "tree",
           gone \in 1..Len(fileCalls) => fileCalls[gone].kind # "tree",
           Current(s), tree'[s] = tree[s], stored'[s] = stored[s]
    PROVE  Current(s)'
<1>1. ASSUME NEW k \in 1..Len(fileCalls'), fileCalls'[k].kind = "tree"
      PROVE  /\ m[k] # 0 /\ m[k] \in 1..Len(fileCalls)
             /\ fileCalls'[k] = fileCalls[m[k]]
  BY <1>1 DEF Follows
<1>2. CASE \A i \in 1..Len(fileCalls) : fileCalls[i].kind # "tree"
  <2>1. tree[s] = stored[s]
    BY <1>2 DEF Current
  <2>2. \A k \in 1..Len(fileCalls') : fileCalls'[k].kind # "tree"
    BY <1>1, <1>2
  <2> QED
    BY <2>1, <2>2 DEF Current
<1>3. CASE \E i \in 1..Len(fileCalls) : fileCalls[i].kind = "tree"
  <2>1. PICK i \in 1..Len(fileCalls) :
           /\ fileCalls[i].kind = "tree"
           /\ fileCalls[i].at = "ok" => fileCalls[i].list[s] = stored[s]
           /\ \A j \in 1..Len(fileCalls) : fileCalls[j].kind = "tree" => j <= i
    BY <1>3 DEF Current
  <2>2. i # gone
    BY <2>1
  <2>3. PICK k \in 1..Len(fileCalls') : m[k] = i
    BY <2>2 DEF Follows
  <2>4. m[k] # 0 /\ fileCalls'[k] = fileCalls[i]
    BY <2>3 DEF Follows
  <2>5. ASSUME NEW l \in 1..Len(fileCalls'), fileCalls'[l].kind = "tree"
        PROVE  l <= k
    <3>1. m[l] # 0 /\ m[l] <= m[k]
      BY <1>1, <2>1, <2>3, <2>5
    <3> QED
      BY <2>4, <3>1 DEF Follows
  <2> QED
    BY <2>1, <2>4, <2>5 DEF Current
<1> QED
  BY <1>2, <1>3

\* A share that is, or will be, shown as stored stays so.
LEMMA WillFollows ==
    ASSUME NEW s, NEW m, NEW gone, NEW sent,
           Follows(m, gone, fileCalls, fileCalls', sent),
           \A r \in sent : r.kind # "tree",
           gone \in 1..Len(fileCalls) =>
              fileCalls[gone].kind # "tree" /\ fileCalls[gone].share # s,
           WillBeCurrent(s), PollsStay,
           tree'[s] = tree[s], stored'[s] = stored[s]
    PROVE  WillBeCurrent(s)'
<1>1. CASE Current(s)
  BY <1>1, CurrentFollows DEF WillBeCurrent
<1>2. ASSUME NEW i \in 1..Len(fileCalls), fileCalls[i].share = s
      PROVE  WillBeCurrent(s)'
  <2>1. PICK k \in 1..Len(fileCalls') : m[k] = i
    BY <1>2 DEF Follows
  <2>2. fileCalls'[k] = fileCalls[i]
    BY <2>1 DEF Follows
  <2> QED
    BY <1>2, <2>2 DEF WillBeCurrent
<1>3. CASE \E p \in 1..Len(filePolls) : filePolls[p].live /\ filePolls[p].share = s
  BY <1>3 DEF WillBeCurrent, PollsStay
<1> QED
  BY <1>1, <1>2, <1>3 DEF WillBeCurrent

\* The list that was asked for last is the one that counts.
LEMMA FetchSettles ==
    ASSUME NEW s, NEW w \in Seq(FileCall), fileCalls' = Append(w, Fetch)
    PROVE  Current(s)'
<1>1. /\ Len(fileCalls') = Len(w) + 1 /\ Len(w) \in Nat
      /\ fileCalls'[Len(w) + 1] = Fetch
  BY AppendProperties, Fetches
<1>2. Fetch.kind = "tree" /\ Fetch.at = "sent"
  BY DEF Fetch, Request
<1>3. /\ Len(w) + 1 \in 1..Len(fileCalls')
      /\ \A j \in 1..Len(fileCalls') : j <= Len(w) + 1
  BY <1>1
<1> QED
  BY <1>1, <1>2, <1>3 DEF Current

\* A step that is about no operation on s and about no list.
LEMMA Bystander ==
    ASSUME NEW s, NEW m, NEW gone, NEW sent,
           Follows(m, gone, fileCalls, fileCalls', sent),
           \A r \in sent : /\ r.share # s /\ r.kind # "tree"
                           /\ r.at # "ok" \/ r.kind # "poll",
           gone \in 1..Len(fileCalls) =>
              fileCalls[gone].kind # "tree" /\ fileCalls[gone].share # s,
           ShareFollowed(s), PollsStay,
           tree'[s] = tree[s], stored'[s] = stored[s], UNCHANGED shareJobs
    PROVE  ShareFollowed(s)'
<1>1. OneOperation(s)'
  BY OperationFollows DEF ShareFollowed
<1>2. JobAwaited(s)'
  BY AwaitFollows DEF ShareFollowed
<1>3. WillBeCurrent(s)'
  BY WillFollows DEF ShareFollowed
<1> QED
  BY <1>1, <1>2, <1>3 DEF ShareFollowed

\* An operation on a share is asked for, or its dialog opened.
LEMMA OperateFollowed ==
    ASSUME FilesAssumption, FilesTyped,
           NEW kind \in {"create", "delete", "edit", "dialog"},
           NEW x \in Shares, Operate(kind, x),
           UNCHANGED <<stored, shareJobs, tree, filePolls>>,
           NEW s \in Shares \ muddled', s \notin muddled => ShareFollowed(s)
    PROVE  ShareFollowed(s)'
<1> DEFINE r == Request(kind, x, 0)
<1>1. /\ r \in FileCall /\ r.kind = kind /\ r.share = x /\ r.at = "sent"
  <2>1. r \in FileCall
    BY Requests DEF FileCallKinds, JobOps
  <2> QED
    BY <2>1 DEF Request
<1>2. /\ fileCalls' = Append(fileCalls, r)
      /\ muddled' = IF Open(x) \/ kind = "dialog" THEN muddled \cup {x} ELSE muddled
  BY DEF Operate
<1>3. fileCalls \in Seq(FileCall) /\ s \notin muddled /\ PollsStay
  BY <1>2 DEF FilesTyped, FilesTypeOK, PollsStay
<1> HIDE DEF r
<1>4. PICK m : Follows(m, 0, fileCalls, fileCalls', {r})
  BY <1>1, <1>2, <1>3, SentFollows
<1>5. CASE s # x
  BY <1>1, <1>3, <1>4, <1>5, Bystander
<1>6. CASE s = x
  <2>1. /\ kind # "dialog"
        /\ \A k \in 1..Len(shareJobs) : shareJobs[k].share # s
        /\ \A i \in 1..Len(fileCalls) : fileCalls[i].share # s
    BY <1>2, <1>6 DEF Open
  <2>2. /\ Len(fileCalls') = Len(fileCalls) + 1 /\ Len(fileCalls) \in Nat
        /\ \A k \in 1..Len(fileCalls) : fileCalls'[k] = fileCalls[k]
        /\ fileCalls'[Len(fileCalls) + 1] = r
    BY <1>1, <1>2, <1>3, AppendProperties
  <2>3. \A k \in 1..Len(fileCalls') : fileCalls'[k].share = s =>
           k = Len(fileCalls) + 1 /\ fileCalls'[k] = r
    <3>1. \A k \in 1..Len(fileCalls') :
             k \in 1..Len(fileCalls) \/ k = Len(fileCalls) + 1
      BY <2>2
    <3> QED
      BY <2>1, <2>2, <3>1
  <2>4. OneOperation(s)'
    BY <1>1, <2>1, <2>3 DEF OneOperation
  <2>5. JobAwaited(s)'
    BY <2>1 DEF JobAwaited
  <2>6. Len(fileCalls) + 1 \in 1..Len(fileCalls')
    BY <2>2
  <2>7. WillBeCurrent(s)'
    BY <1>1, <1>6, <2>2, <2>6 DEF WillBeCurrent
  <2> QED
    BY <2>4, <2>5, <2>7 DEF ShareFollowed
<1> QED
  BY <1>5, <1>6

\* The tree is asked for again.
LEMMA RefreshFollowed ==
    ASSUME FilesAssumption, FilesTyped, RefreshTree,
           NEW s \in Shares \ muddled, ShareFollowed(s)
    PROVE  ShareFollowed(s)'
<1>1. /\ fileCalls' = Append(fileCalls, Fetch)
      /\ UNCHANGED <<stored, shareJobs, tree, filePolls>>
      /\ fileCalls \in Seq(FileCall)
  BY DEF RefreshTree, FilesTyped, FilesTypeOK
<1>2. PICK m : Follows(m, 0, fileCalls, fileCalls', {Fetch})
  BY <1>1, SentFollows, Fetches
<1>3. Fetch.share # s /\ Fetch.at = "sent" /\ PollsStay
  BY <1>1 DEF Fetch, Request, FilesAssumption, PollsStay
<1>4. OneOperation(s)'
  BY <1>1, <1>2, <1>3, OperationFollows DEF ShareFollowed
<1>5. JobAwaited(s)'
  BY <1>1, <1>2, <1>3, AwaitFollows DEF ShareFollowed
<1>6. WillBeCurrent(s)'
  BY <1>1, FetchSettles DEF WillBeCurrent
<1> QED
  BY <1>4, <1>5, <1>6 DEF ShareFollowed

\* A poll asks.
LEMMA TickFollowed ==
    ASSUME FilesAssumption, FilesTyped, NEW p \in 1..Len(filePolls), Tick(p),
           NEW s \in Shares \ muddled, ShareFollowed(s)
    PROVE  ShareFollowed(s)'
<1> DEFINE r == Request("poll", NoShare, p)
<1>1. /\ fileCalls' = Append(fileCalls, r)
      /\ filePolls' = [filePolls EXCEPT ![p].attempts =
                          IF @ < MaxAttempts THEN @ + 1 ELSE @]
      /\ UNCHANGED <<stored, shareJobs, tree>>
      /\ fileCalls \in Seq(FileCall) /\ filePolls \in Seq(FilePoll)
  BY DEF Tick, FilesTyped, FilesTypeOK, FilePoll
<1>2. p \in Nat
  BY <1>1
<1>3. /\ r \in FileCall /\ r.share # s /\ r.kind # "tree" /\ r.at = "sent"
  <2>1. r \in FileCall
    BY <1>2, Requests DEF FileCallKinds
  <2> QED
    BY <2>1 DEF Request, FilesAssumption
<1> HIDE DEF r
<1>4. PICK m : Follows(m, 0, fileCalls, fileCalls', {r})
  BY <1>1, <1>3, SentFollows
<1>5. \A q \in 1..Len(filePolls) : filePolls[q] \in FilePoll
  BY <1>1
<1>6. PollsStay
  BY <1>1, <1>5 DEF PollsStay, FilePoll
<1> QED
  BY <1>1, <1>3, <1>4, <1>6, Bystander

\* A request is answered that is about no operation on s and about no list.
LEMMA AnswerFollowed ==
    ASSUME FilesTyped, NEW i \in 1..Len(fileCalls),
           fileCalls' = Without(fileCalls, i),
           NEW s, fileCalls[i].kind # "tree", fileCalls[i].share # s,
           PollsStay, UNCHANGED <<stored, shareJobs, tree>>, ShareFollowed(s)
    PROVE  ShareFollowed(s)'
<1>1. fileCalls \in Seq(FileCall) /\ fileCalls' = Leave(fileCalls, i)
  BY SameTaking DEF FilesTyped, FilesTypeOK
<1>2. PICK m : Follows(m, i, fileCalls, fileCalls', {})
  BY <1>1, TakenFollows
<1> QED
  BY <1>2, Bystander

\* A request failed.
LEMMA FailureFollowed ==
    ASSUME FilesTyped, NEW i \in 1..Len(fileCalls), CallFailed(i), ~fileTold',
           NEW s \in Shares \ muddled, ShareFollowed(s)
    PROVE  ShareFollowed(s)'
<1>1. /\ fileCalls[i].kind = "poll" /\ fileCalls' = Without(fileCalls, i)
      /\ UNCHANGED <<stored, shareJobs, tree, filePolls>>
  BY DEF CallFailed
<1>2. fileCalls[i].share # s
  BY <1>1 DEF ShareFollowed, OneOperation
<1>3. PollsStay
  BY <1>1 DEF PollsStay
<1> QED
  BY <1>1, <1>2, <1>3, AnswerFollowed

\* A tree arrives and is shown.
LEMMA ShowFollowed ==
    ASSUME FilesTyped, fileNet.inorder, NEW i \in 1..Len(fileCalls), ShowTree(i),
           NEW s \in Shares \ muddled, ShareFollowed(s)
    PROVE  ShareFollowed(s)'
<1>1. /\ fileCalls[i].kind = "tree" /\ fileCalls[i].at = "ok" /\ i = 1
      /\ tree' = fileCalls[i].list
      /\ fileCalls' = Leave(fileCalls, i)
      /\ UNCHANGED <<stored, shareJobs, filePolls>>
      /\ fileCalls \in Seq(FileCall)
  BY SameTaking DEF ShowTree, Answered, FilesTyped, FilesTypeOK
<1>2. fileCalls[i].share # s
  BY <1>1 DEF ShareFollowed, OneOperation
<1>3. PollsStay
  BY <1>1 DEF PollsStay
<1>4. PICK m : Follows(m, i, fileCalls, fileCalls', {})
  BY <1>1, TakenFollows
<1>5. OneOperation(s)' /\ JobAwaited(s)'
  BY <1>1, <1>2, <1>3, <1>4, OperationFollows, AwaitFollows DEF ShareFollowed
<1>6. \A k \in 1..Len(fileCalls') :
         /\ m[k] # 0 /\ m[k] # i /\ m[k] \in 1..Len(fileCalls)
         /\ fileCalls'[k] = fileCalls[m[k]]
  BY <1>4 DEF Follows
<1>7. ASSUME Current(s) PROVE Current(s)'
  <2>1. PICK l \in 1..Len(fileCalls) :
           /\ fileCalls[l].kind = "tree"
           /\ fileCalls[l].at = "ok" => fileCalls[l].list[s] = stored[s]
           /\ \A j \in 1..Len(fileCalls) : fileCalls[j].kind = "tree" => j <= l
    BY <1>1, <1>7 DEF Current
  <2>2. CASE l = i
    <3>1. tree'[s] = stored'[s]
      BY <1>1, <2>1, <2>2
    <3>2. ASSUME NEW k \in 1..Len(fileCalls') PROVE fileCalls'[k].kind # "tree"
      <4>1. m[k] > i
        BY <1>1, <1>6
      <4> QED
        BY <1>1, <1>6, <2>1, <2>2, <4>1
    <3> QED
      BY <3>1, <3>2 DEF Current
  <2>3. CASE l # i
    <3>1. PICK k \in 1..Len(fileCalls') : m[k] = l
      BY <1>4, <2>3 DEF Follows
    <3>2. ASSUME NEW j \in 1..Len(fileCalls'), fileCalls'[j].kind = "tree"
          PROVE  j <= k
      <4>1. m[j] <= m[k]
        BY <1>6, <2>1, <3>1, <3>2
      <4> QED
        BY <1>4, <1>6, <4>1 DEF Follows
    <3>3. fileCalls'[k] = fileCalls[l]
      BY <1>6, <3>1
    <3> QED
      BY <1>1, <2>1, <3>2, <3>3 DEF Current
  <2> QED
    BY <2>2, <2>3
<1>8. ASSUME NEW j \in 1..Len(fileCalls), fileCalls[j].share = s
      PROVE  WillBeCurrent(s)'
  <2>1. PICK k \in 1..Len(fileCalls') : m[k] = j
    BY <1>2, <1>4, <1>8 DEF Follows
  <2> QED
    BY <1>6, <1>8, <2>1 DEF WillBeCurrent
<1>9. ASSUME NEW p \in 1..Len(filePolls), filePolls[p].live, filePolls[p].share = s
      PROVE  WillBeCurrent(s)'
  <2>1. /\ p \in 1..Len(filePolls')
        /\ filePolls'[p].live /\ filePolls'[p].share = s
    BY <1>3, <1>9 DEF PollsStay
  <2> QED
    BY <2>1 DEF WillBeCurrent
<1>10. WillBeCurrent(s)'
  BY <1>7, <1>8, <1>9 DEF ShareFollowed, WillBeCurrent
<1> QED
  BY <1>5, <1>10 DEF ShareFollowed

\* The answer to a request on its way, or lost: what it is of stays.
AnswerComes(i, at, list) ==
    /\ Len(fileCalls') = Len(fileCalls)
    /\ \A k \in 1..Len(fileCalls) :
          /\ fileCalls'[k].kind = fileCalls[k].kind
          /\ fileCalls'[k].share = fileCalls[k].share
          /\ fileCalls'[k].poll = fileCalls[k].poll
          /\ k # i => fileCalls'[k] = fileCalls[k]
    /\ fileCalls'[i].at = at /\ fileCalls'[i].list = list

\* An answer is written into its request and changes nothing else of it.
LEMMA AnswerCame ==
    ASSUME FilesTyped, NEW i \in 1..Len(fileCalls),
           NEW at \in {"sent", "ok", "failed"}, NEW l \in Listing,
           fileCalls' = [fileCalls EXCEPT
                            ![i] = [fileCalls[i] EXCEPT !.at = at, !.list = l]]
    PROVE  AnswerComes(i, at, l)
<1> DEFINE y == [fileCalls[i] EXCEPT !.at = at, !.list = l]
<1>1. fileCalls \in Seq(FileCall) /\ fileCalls[i] \in FileCall
  BY DEF FilesTyped, FilesTypeOK
<1>2. /\ y.kind = fileCalls[i].kind /\ y.share = fileCalls[i].share
      /\ y.poll = fileCalls[i].poll /\ y.at = at /\ y.list = l /\ y \in FileCall
  <2>1. y \in FileCall
    BY <1>1, CallSteps
  <2> QED
    BY <1>1, <2>1 DEF FileCall
<1> HIDE DEF y
<1>3. fileCalls' = [fileCalls EXCEPT ![i] = y]
  BY DEF y
<1>4. /\ Len(fileCalls') = Len(fileCalls)
      /\ \A k \in 1..Len(fileCalls) :
            fileCalls'[k] = IF k = i THEN y ELSE fileCalls[k]
  BY <1>1, <1>2, <1>3
<1> QED
  BY <1>2, <1>4 DEF AnswerComes

\* It changes nothing of the operations on s, nor of the lists that are awaited,
\* when it says what the server has.
LEMMA ComingKeeps ==
    ASSUME NEW i \in 1..Len(fileCalls), NEW at \in {"ok", "failed"}, NEW list,
           AnswerComes(i, at, list),
           NEW s, ShareFollowed(s),
           at = "ok" /\ fileCalls[i].kind \in {"tree", "poll"} => list = stored,
           \A k \in 1..Len(shareJobs') : shareJobs'[k].share = s =>
              \E j \in 1..Len(shareJobs) : shareJobs'[k] = shareJobs[j],
           UNCHANGED <<tree, filePolls>>, stored'[s] = stored[s]
    PROVE  JobAwaited(s)' /\ WillBeCurrent(s)'
<1>1. ASSUME NEW op, NEW p \in 1..Len(filePolls), Unseen(p, op, s),
             ~Agrees(op, stored[s])
      PROVE  Unseen(p, op, s)'
  <2>1. ASSUME NEW j \in 1..Len(fileCalls'), fileCalls'[j].kind = "poll",
               fileCalls'[j].at = "ok", fileCalls'[j].poll = p
        PROVE  ~Agrees(op, fileCalls'[j].list[s])
    <3>1. CASE j = i
      BY <1>1, <2>1, <3>1 DEF AnswerComes
    <3>2. CASE j # i
      BY <1>1, <2>1, <3>2 DEF AnswerComes, Unseen
    <3> QED
      BY <3>1, <3>2
  <2> QED
    BY <1>1, <2>1 DEF Unseen
<1>2. JobAwaited(s)'
  <2> SUFFICES ASSUME NEW k \in 1..Len(shareJobs'), shareJobs'[k].share = s,
                      NEW op, op = shareJobs'[k].op
               PROVE  \/ \E j \in 1..Len(fileCalls') :
                            fileCalls'[j].share = s /\ fileCalls'[j].kind = op
                      \/ Agrees(op, stored'[s])
                      \/ \E p \in 1..Len(filePolls') : Unseen(p, op, s)'
    BY DEF JobAwaited, Unseen
  <2>1. \/ \E j \in 1..Len(fileCalls) :
                 fileCalls[j].share = s /\ fileCalls[j].kind = op
        \/ Agrees(op, stored[s])
        \/ \E p \in 1..Len(filePolls) : Unseen(p, op, s)
    <3>1. PICK j \in 1..Len(shareJobs) : shareJobs'[k] = shareJobs[j]
      OBVIOUS
    <3>2. shareJobs[j].share = s /\ op = shareJobs[j].op
      BY <3>1
    <3> QED
      BY <3>2 DEF ShareFollowed, JobAwaited
  <2>2. CASE \E j \in 1..Len(fileCalls) :
                fileCalls[j].share = s /\ fileCalls[j].kind = op
    BY <2>2 DEF AnswerComes
  <2>3. CASE Agrees(op, stored[s])
    BY <2>3
  <2>4. CASE \E p \in 1..Len(filePolls) : Unseen(p, op, s)
    BY <1>1, <2>3, <2>4
  <2> QED
    BY <2>1, <2>2, <2>3, <2>4
<1>3. ASSUME Current(s) PROVE Current(s)'
  <2>1. CASE \A j \in 1..Len(fileCalls) : fileCalls[j].kind # "tree"
    BY <1>3, <2>1 DEF Current, AnswerComes
  <2>2. CASE \E j \in 1..Len(fileCalls) : fileCalls[j].kind = "tree"
    <3>1. PICK l \in 1..Len(fileCalls) :
             /\ fileCalls[l].kind = "tree"
             /\ fileCalls[l].at = "ok" => fileCalls[l].list[s] = stored[s]
             /\ \A j \in 1..Len(fileCalls) : fileCalls[j].kind = "tree" => j <= l
      BY <1>3, <2>2 DEF Current
    <3>2. /\ l \in 1..Len(fileCalls') /\ fileCalls'[l].kind = "tree"
          /\ \A j \in 1..Len(fileCalls') : fileCalls'[j].kind = "tree" => j <= l
      BY <3>1 DEF AnswerComes
    <3>3. fileCalls'[l].at = "ok" => fileCalls'[l].list[s] = stored'[s]
      BY <3>1 DEF AnswerComes
    <3> QED
      BY <3>2, <3>3 DEF Current
  <2> QED
    BY <2>1, <2>2
<1>4. WillBeCurrent(s)'
  BY <1>3 DEF ShareFollowed, WillBeCurrent, AnswerComes
<1> QED
  BY <1>2, <1>4

\* A request is lost.
LEMMA LossFollowed ==
    ASSUME FilesTyped, NEW i \in 1..Len(fileCalls), LoseFileCall(i),
           NEW s \in Shares \ muddled, ShareFollowed(s)
    PROVE  ShareFollowed(s)'
<1>1. /\ fileCalls' = [fileCalls EXCEPT
                          ![i] = [fileCalls[i] EXCEPT !.at = "failed", !.list = NoList]]
      /\ UNCHANGED <<stored, shareJobs, tree, filePolls>>
  BY DEF LoseFileCall, FilesTyped, FilesTypeOK
<1>2. AnswerComes(i, "failed", NoList)
  BY <1>1, AnswerCame, NoListing
<1>3. JobAwaited(s)' /\ WillBeCurrent(s)'
  BY <1>1, <1>2, ComingKeeps
<1>4. OneOperation(s)'
  BY <1>1, <1>2 DEF ShareFollowed, OneOperation, AnswerComes
<1> QED
  BY <1>3, <1>4 DEF ShareFollowed

\* The server serves a request.
LEMMA ServeFollowed ==
    ASSUME FilesAssumption, FilesTyped, NEW i \in 1..Len(fileCalls), ServeShares(i),
           NEW s \in Shares \ muddled, ShareFollowed(s)
    PROVE  ShareFollowed(s)'
<1> DEFINE c == fileCalls[i]
           refused == c.kind = "edit" /\ stored[c.share] = "absent"
           at == IF refused THEN "failed" ELSE "ok"
           list == IF c.kind \in {"tree", "poll"} THEN stored ELSE NoList
<1>0. /\ fileCalls \in Seq(FileCall) /\ c \in FileCall /\ stored \in Listing
      /\ shareJobs \in Seq(ShareJob) /\ Len(shareJobs) \in Nat
  BY DEF FilesTyped, FilesTypeOK, ShareJob
<1>1. /\ fileCalls' = [fileCalls EXCEPT
                          ![i] = [fileCalls[i] EXCEPT !.at = at, !.list = list]]
      /\ stored' = IF c.kind = "edit" /\ ~refused
                   THEN [stored EXCEPT ![c.share] = "edited"] ELSE stored
      /\ UNCHANGED <<tree, filePolls>> /\ c.at = "sent"
  BY <1>0 DEF ServeShares, Servable
<1>2. shareJobs' = CASE c.kind = "create" ->
                            Append(shareJobs, [op |-> "create", share |-> c.share])
                     [] c.kind \in {"delete", "dialog"} ->
                            Append(shareJobs, [op |-> "delete", share |-> c.share])
                     [] OTHER -> shareJobs
  BY DEF ServeShares
<1>3. c.kind \notin {"tree", "poll"} => c.share \in Shares
  BY DEF FilesTyped, CallsShaped, CallShape
<1>4. list \in Listing /\ at \in {"sent", "ok", "failed"} /\ at \in {"ok", "failed"}
  BY <1>0, NoListing
<1>5. at = "ok" /\ c.kind \in {"tree", "poll"} => list = stored
  OBVIOUS
<1> HIDE DEF at, list, refused
<1>6. AnswerComes(i, at, list)
  BY <1>1, <1>4, AnswerCame
\* The job that was queued, if one was, is of the request.
<1>7. \/ shareJobs' = shareJobs
      \/ \E op \in JobOps :
            /\ c.kind \in {op, "dialog"}
            /\ shareJobs' = Append(shareJobs, [op |-> op, share |-> c.share])
  <2>1. CASE c.kind = "create"
    BY <1>2, <2>1 DEF JobOps
  <2>2. CASE c.kind \in {"delete", "dialog"}
    BY <1>2, <2>2 DEF JobOps
  <2>3. CASE c.kind \notin {"create", "delete", "dialog"}
    BY <1>2, <2>3
  <2> QED
    BY <2>1, <2>2, <2>3
<1>8. \/ shareJobs' = shareJobs
      \/ \E op \in JobOps :
            /\ c.kind \in {op, "dialog"} /\ c.share \in Shares
            /\ Len(shareJobs') = Len(shareJobs) + 1
            /\ \A k \in 1..Len(shareJobs) : shareJobs'[k] = shareJobs[k]
            /\ shareJobs'[Len(shareJobs) + 1] = [op |-> op, share |-> c.share]
            /\ \A k \in 1..Len(shareJobs') :
                  k \in 1..Len(shareJobs) \/ k = Len(shareJobs) + 1
  <2>1. ASSUME NEW op \in JobOps, c.kind \in {op, "dialog"},
               shareJobs' = Append(shareJobs, [op |-> op, share |-> c.share])
        PROVE  /\ c.share \in Shares
               /\ Len(shareJobs') = Len(shareJobs) + 1
               /\ \A k \in 1..Len(shareJobs) : shareJobs'[k] = shareJobs[k]
               /\ shareJobs'[Len(shareJobs) + 1] = [op |-> op, share |-> c.share]
               /\ \A k \in 1..Len(shareJobs') :
                     k \in 1..Len(shareJobs) \/ k = Len(shareJobs) + 1
    <3>1. c.share \in Shares
      BY <1>3, <2>1 DEF JobOps
    <3>2. [op |-> op, share |-> c.share] \in ShareJob
      BY <3>1 DEF ShareJob
    <3>3. /\ Len(shareJobs') = Len(shareJobs) + 1
          /\ \A k \in 1..Len(shareJobs) : shareJobs'[k] = shareJobs[k]
          /\ shareJobs'[Len(shareJobs) + 1] = [op |-> op, share |-> c.share]
      BY <1>0, <2>1, <3>2, AppendProperties
    <3> QED
      BY <1>0, <3>1, <3>3
  <2> QED
    BY <1>7, <2>1
<1>9. CASE c.share # s
  <2>1. stored'[s] = stored[s]
    BY <1>0, <1>1, <1>9 DEF Listing
  <2>2. \A k \in 1..Len(shareJobs') : shareJobs'[k].share = s =>
           k \in 1..Len(shareJobs) /\ shareJobs'[k] = shareJobs[k]
    <3>1. CASE shareJobs' = shareJobs
      BY <3>1
    <3>2. CASE shareJobs' # shareJobs
      <4>1. PICK op \in JobOps :
               /\ \A k \in 1..Len(shareJobs) : shareJobs'[k] = shareJobs[k]
               /\ shareJobs'[Len(shareJobs) + 1] = [op |-> op, share |-> c.share]
               /\ \A k \in 1..Len(shareJobs') :
                     k \in 1..Len(shareJobs) \/ k = Len(shareJobs) + 1
        BY <1>8, <3>2
      <4>2. shareJobs'[Len(shareJobs) + 1].share # s
        BY <1>9, <4>1
      <4> QED
        BY <4>1, <4>2
    <3> QED
      BY <3>1, <3>2
  <2>3. JobAwaited(s)' /\ WillBeCurrent(s)'
    BY <1>1, <1>4, <1>5, <1>6, <2>1, <2>2, ComingKeeps
  <2>4. OneOperation(s)'
    <3>1. \A k \in 1..Len(fileCalls) : fileCalls[k].share = s =>
             fileCalls'[k] = fileCalls[k]
      BY <1>6, <1>9 DEF AnswerComes
    <3>2. ASSUME NEW k \in 1..Len(fileCalls'), fileCalls'[k].share = s
          PROVE  /\ k \in 1..Len(fileCalls) /\ fileCalls[k].share = s
                 /\ fileCalls'[k] = fileCalls[k]
      BY <1>6, <3>1, <3>2 DEF AnswerComes
    <3>3. OneOperation(s)
      BY DEF ShareFollowed
    <3>4. /\ \A k \in 1..Len(fileCalls') : fileCalls'[k].share = s =>
                fileCalls'[k].kind \in {"create", "delete", "edit"}
          /\ \A k, l \in 1..Len(fileCalls') :
                fileCalls'[k].share = s /\ fileCalls'[l].share = s => k = l
      BY <3>2, <3>3 DEF OneOperation
    <3>5. \A k, l \in 1..Len(shareJobs') :
             shareJobs'[k].share = s /\ shareJobs'[l].share = s => k = l
      BY <2>2, <3>3 DEF OneOperation
    <3>6. ASSUME NEW k \in 1..Len(fileCalls'), NEW l \in 1..Len(shareJobs'),
                 fileCalls'[k].share = s, shareJobs'[l].share = s
          PROVE  /\ fileCalls'[k].at # "sent"
                 /\ fileCalls'[k].kind = shareJobs'[l].op
      BY <2>2, <3>2, <3>3, <3>6 DEF OneOperation
    <3> QED
      BY <3>4, <3>5, <3>6 DEF OneOperation
  <2> QED
    BY <2>3, <2>4 DEF ShareFollowed
<1>10. CASE c.share = s
  <2>1. /\ c.kind \in {"create", "delete", "edit"}
        /\ \A k \in 1..Len(shareJobs) : shareJobs[k].share # s
        /\ \A k \in 1..Len(fileCalls) : fileCalls[k].share = s => k = i
    BY <1>1, <1>10 DEF ShareFollowed, OneOperation
  <2>2. \A k \in 1..Len(shareJobs') : shareJobs'[k].share = s =>
           k = Len(shareJobs) + 1 /\ shareJobs'[k].op = c.kind
    <3>1. CASE shareJobs' = shareJobs
      BY <2>1, <3>1
    <3>2. CASE shareJobs' # shareJobs
      <4>1. PICK op \in JobOps :
               /\ c.kind \in {op, "dialog"}
               /\ \A k \in 1..Len(shareJobs) : shareJobs'[k] = shareJobs[k]
               /\ shareJobs'[Len(shareJobs) + 1] = [op |-> op, share |-> c.share]
               /\ \A k \in 1..Len(shareJobs') :
                     k \in 1..Len(shareJobs) \/ k = Len(shareJobs) + 1
        BY <1>8, <3>2
      <4>2. shareJobs'[Len(shareJobs) + 1].op = c.kind
        BY <2>1, <4>1
      <4> QED
        BY <2>1, <4>1, <4>2
    <3> QED
      BY <3>1, <3>2
  <2>3. /\ i \in 1..Len(fileCalls') /\ fileCalls'[i].kind = c.kind
        /\ fileCalls'[i].share = s /\ fileCalls'[i].at # "sent"
        /\ \A k \in 1..Len(fileCalls') : fileCalls'[k].share = s => k = i
    BY <1>4, <1>6, <1>10, <2>1 DEF AnswerComes
  <2>4. OneOperation(s)'
    BY <2>1, <2>2, <2>3 DEF OneOperation
  <2>5. JobAwaited(s)'
    BY <2>2, <2>3 DEF JobAwaited
  <2>6. WillBeCurrent(s)'
    BY <2>3 DEF WillBeCurrent
  <2> QED
    BY <2>4, <2>5, <2>6 DEF ShareFollowed
<1> QED
  BY <1>9, <1>10

\* A job of the server ends.
LEMMA JobEnded ==
    ASSUME FilesTyped, NEW k \in 1..Len(shareJobs), EndShareJob(k),
           NEW s \in Shares \ muddled, ShareFollowed(s)
    PROVE  ShareFollowed(s)'
<1> DEFINE j == shareJobs[k]
<1>0. /\ shareJobs \in Seq(ShareJob) /\ j \in ShareJob /\ stored \in Listing
  <2>1. shareJobs \in Seq(ShareJob) /\ stored \in Listing
    BY DEF FilesTyped, FilesTypeOK, ShareJob
  <2> QED
    BY <2>1
<1>1. /\ shareJobs' = Leave(shareJobs, k)
      /\ UNCHANGED <<fileCalls, filePolls, tree>>
      /\ \/ stored' = CASE j.op = "delete" -> [stored EXCEPT ![j.share] = "absent"]
                        [] j.op = "create" /\ stored[j.share] = "absent" ->
                               [stored EXCEPT ![j.share] = "new"]
                        [] OTHER -> stored
         \/ stored' = stored
  BY SameTaking DEF EndShareJob
<1>2. j.op \in JobOps /\ j.share \in Shares
  BY <1>0 DEF ShareJob
<1>3. PICK m : Follows(m, k, shareJobs, shareJobs', {})
  BY <1>0, <1>1, TakenFollows
<1>4. \A x \in 1..Len(shareJobs') :
         /\ m[x] \in 1..Len(shareJobs) /\ m[x] # k /\ m[x] # 0
         /\ shareJobs'[x] = shareJobs[m[x]]
  BY <1>3 DEF Follows
<1>5. OneOperation(s)'
  <2>1. \A x, y \in 1..Len(shareJobs') :
           shareJobs'[x].share = s /\ shareJobs'[y].share = s => x = y
    BY <1>3, <1>4 DEF Follows, ShareFollowed, OneOperation
  <2> QED
    BY <1>1, <1>4, <2>1 DEF ShareFollowed, OneOperation
<1>6. CASE j.share # s
  <2>1. stored'[s] = stored[s]
    BY <1>0, <1>1, <1>2, <1>6 DEF Listing
  <2>2. JobAwaited(s)'
    <3> SUFFICES ASSUME NEW x \in 1..Len(shareJobs'), shareJobs'[x].share = s,
                        NEW op, op = shareJobs'[x].op
                 PROVE  \/ \E i \in 1..Len(fileCalls) :
                              fileCalls[i].share = s /\ fileCalls[i].kind = op
                        \/ Agrees(op, stored[s])
                        \/ \E p \in 1..Len(filePolls) : Unseen(p, op, s)
      BY <1>1, <2>1 DEF JobAwaited, Unseen
    <3> QED
      BY <1>4 DEF ShareFollowed, JobAwaited
  <2>3. WillBeCurrent(s)'
    BY <1>1, <2>1 DEF ShareFollowed, WillBeCurrent, Current
  <2> QED
    BY <1>5, <2>2, <2>3 DEF ShareFollowed
<1>7. CASE j.share = s
  <2>1. \A x \in 1..Len(shareJobs') : shareJobs'[x].share # s
    BY <1>4, <1>7 DEF ShareFollowed, OneOperation
  <2>2. JobAwaited(s)'
    BY <2>1 DEF JobAwaited
  <2>3. \/ \E i \in 1..Len(fileCalls) : fileCalls[i].share = s
        \/ Agrees(j.op, stored[s])
        \/ \E p \in 1..Len(filePolls) : filePolls[p].live /\ filePolls[p].share = s
    BY <1>7 DEF ShareFollowed, JobAwaited, Unseen
  <2>4. CASE Agrees(j.op, stored[s])
    <3>1. stored'[s] = stored[s]
      <4>1. CASE j.op = "delete"
        <5>1. stored[s] = "absent"
          BY <2>4, <4>1 DEF Agrees
        <5>2. stored' = [stored EXCEPT ![j.share] = "absent"] \/ stored' = stored
          BY <1>1, <4>1
        <5> QED
          BY <1>0, <1>7, <5>1, <5>2 DEF Listing
      <4>2. CASE j.op # "delete"
        <5>1. stored[j.share] # "absent"
          BY <1>2, <1>7, <2>4, <4>2 DEF Agrees, JobOps
        <5> QED
          BY <1>1, <4>2, <5>1
      <4> QED
        BY <4>1, <4>2
    <3>2. WillBeCurrent(s)'
      BY <1>1, <3>1 DEF ShareFollowed, WillBeCurrent, Current
    <3> QED
      BY <1>5, <2>2, <3>2 DEF ShareFollowed
  <2>5. CASE ~Agrees(j.op, stored[s])
    <3>1. WillBeCurrent(s)'
      BY <1>1, <2>3, <2>5 DEF WillBeCurrent
    <3> QED
      BY <1>5, <2>2, <3>1 DEF ShareFollowed
  <2> QED
    BY <2>4, <2>5
<1> QED
  BY <1>6, <1>7

\* An operation was accepted and is polled.
LEMMA PollingFollowed ==
    ASSUME FilesTyped, NEW i \in 1..Len(fileCalls), StartPolling(i),
           NEW s \in Shares \ muddled, ShareFollowed(s)
    PROVE  ShareFollowed(s)'
<1> DEFINE c == fileCalls[i]
           q == [op |-> c.kind, share |-> c.share, attempts |-> 0, live |-> TRUE]
<1>0. /\ fileCalls \in Seq(FileCall) /\ filePolls \in Seq(FilePoll)
      /\ c \in FileCall /\ Len(filePolls) \in Nat
  BY DEF FilesTyped, FilesTypeOK, FilePoll
<1>n. PICK n \in Nat : n = Len(filePolls) + 1
  BY <1>0
<1>1. /\ c.kind \in JobOps /\ fileCalls' = Leave(fileCalls, i)
      /\ fileCalls' = Without(fileCalls, i)
      /\ filePolls' = Append(filePolls, q)
      /\ UNCHANGED <<stored, shareJobs, tree>>
  BY SameTaking DEF StartPolling
<1>2. filePolls \in Seq(FilePoll \cup {q}) /\ q \in FilePoll \cup {q}
  BY <1>0
<1>3. /\ Len(filePolls') = n
      /\ \A p \in 1..Len(filePolls) : filePolls'[p] = filePolls[p]
      /\ filePolls'[n] = q
  <2> HIDE DEF q
  <2>1. /\ Len(filePolls') = Len(filePolls) + 1
        /\ \A p \in 1..Len(filePolls) : filePolls'[p] = filePolls[p]
        /\ filePolls'[Len(filePolls) + 1] = q
    BY <1>1, <1>2, AppendProperties
  <2> QED
    BY <1>n, <2>1
<1>4. PollsStay /\ n \in 1..Len(filePolls')
  BY <1>0, <1>n, <1>3 DEF PollsStay
<1>5. CASE c.share # s
  BY <1>1, <1>4, <1>5, AnswerFollowed DEF JobOps
<1>6. CASE c.share = s
  <2>1. PICK m : Follows(m, i, fileCalls, fileCalls', {})
    BY <1>0, <1>1, TakenFollows
  <2>2. OneOperation(s)'
    BY <1>1, <2>1, OperationFollows DEF ShareFollowed
  <2>3. filePolls'[n].live /\ filePolls'[n].share = s /\ filePolls'[n].op = c.kind
    BY <1>3, <1>6
  <2>4. \A k \in 1..Len(shareJobs) : shareJobs[k].share = s =>
           shareJobs[k].op = c.kind
    BY <1>6 DEF ShareFollowed, OneOperation
  <2>5. ASSUME NEW k \in 1..Len(fileCalls'), fileCalls'[k].kind = "poll"
        PROVE  fileCalls'[k].poll # n
    <3>1. m[k] \in 1..Len(fileCalls) /\ fileCalls'[k] = fileCalls[m[k]]
      BY <2>1 DEF Follows
    <3>2. fileCalls[m[k]].poll \in 1..Len(filePolls)
      BY <2>5, <3>1 DEF FilesTyped, CallsShaped, CallShape
    <3> QED
      BY <1>0, <1>n, <3>1, <3>2
  <2>6. JobAwaited(s)'
    <3> SUFFICES ASSUME NEW x \in 1..Len(shareJobs), shareJobs[x].share = s,
                        NEW op, op = shareJobs[x].op
                 PROVE  \E p \in 1..Len(filePolls') : Unseen(p, op, s)'
      BY <1>1 DEF JobAwaited, Unseen
    <3>1. filePolls'[n].live /\ filePolls'[n].share = s /\ filePolls'[n].op = op
      BY <2>3, <2>4
    <3>2. Unseen(n, op, s)'
      BY <2>5, <3>1 DEF Unseen
    <3> QED
      BY <1>4, <3>2
  <2>7. WillBeCurrent(s)'
    BY <1>4, <2>3 DEF WillBeCurrent
  <2> QED
    BY <2>2, <2>6, <2>7 DEF ShareFollowed
<1> QED
  BY <1>5, <1>6
\* A request is answered by asking for the list.
LEMMA FetchFollowed ==
    ASSUME FilesAssumption, FilesTyped, NEW i \in 1..Len(fileCalls),
           fileCalls' = Append(Without(fileCalls, i), Fetch),
           NEW s \in Shares, OneOperation(s), UNCHANGED shareJobs
    PROVE  /\ OneOperation(s)' /\ WillBeCurrent(s)'
           /\ \E m : Follows(m, i, fileCalls, fileCalls', {Fetch})
           /\ Fetch.share # s /\ Fetch.at = "sent"
<1>1. fileCalls \in Seq(FileCall) /\ fileCalls' = Append(Leave(fileCalls, i), Fetch)
  BY SameTaking DEF FilesTyped, FilesTypeOK
<1>2. PICK m : Follows(m, i, fileCalls, fileCalls', {Fetch})
  BY <1>1, ReplacedFollows, Fetches
<1>3. Fetch.share # s /\ Fetch.at = "sent"
  BY DEF Fetch, Request, FilesAssumption
<1>4. OneOperation(s)'
  BY <1>2, <1>3, OperationFollows
<1>5. Leave(fileCalls, i) \in Seq(FileCall)
  BY <1>1, TakenOut
<1>6. WillBeCurrent(s)'
  BY <1>1, <1>5, FetchSettles DEF WillBeCurrent
<1> QED
  BY <1>2, <1>3, <1>4, <1>6

\* A dialog is closed by its answer.
LEMMA DialogFollowed ==
    ASSUME FilesAssumption, FilesTyped, NEW i \in 1..Len(fileCalls), DialogDone(i),
           NEW s \in Shares \ muddled, ShareFollowed(s)
    PROVE  ShareFollowed(s)'
<1>1. /\ fileCalls[i].kind \in {"edit", "dialog"}
      /\ fileCalls' = Append(Without(fileCalls, i), Fetch)
      /\ UNCHANGED <<stored, shareJobs, tree, filePolls>>
  BY DEF DialogDone
<1>2. /\ OneOperation(s)' /\ WillBeCurrent(s)'
      /\ \E m : Follows(m, i, fileCalls, fileCalls', {Fetch})
      /\ Fetch.share # s /\ Fetch.at = "sent"
  BY <1>1, FetchFollowed DEF ShareFollowed
<1>3. PollsStay
  BY <1>1 DEF PollsStay
<1>4. CASE fileCalls[i].share # s
  <2>1. PICK m : Follows(m, i, fileCalls, fileCalls', {Fetch})
    BY <1>2
  <2>2. JobAwaited(s)'
    BY <1>1, <1>2, <1>3, <1>4, <2>1, AwaitFollows DEF ShareFollowed
  <2> QED
    BY <1>2, <2>2 DEF ShareFollowed
<1>5. CASE fileCalls[i].share = s
  <2>1. \A k \in 1..Len(shareJobs) : shareJobs[k].share = s =>
           shareJobs[k].op \in {"edit", "dialog"}
    BY <1>1, <1>5 DEF ShareFollowed, OneOperation
  <2>2. \A k \in 1..Len(shareJobs) : shareJobs[k].op \in JobOps
    <3>1. shareJobs \in Seq(ShareJob)
      BY DEF FilesTyped, FilesTypeOK, ShareJob
    <3>2. \A k \in 1..Len(shareJobs) : shareJobs[k] \in ShareJob
      BY <3>1
    <3> QED
      BY <3>2 DEF ShareJob
  <2>3. JobAwaited(s)'
    BY <1>1, <2>1, <2>2 DEF JobAwaited, JobOps
  <2> QED
    BY <1>2, <2>3 DEF ShareFollowed
<1> QED
  BY <1>4, <1>5

\* The answer to a poll is looked at.
LEMMA LookFollowed ==
    ASSUME FilesAssumption, FilesTyped, NEW i \in 1..Len(fileCalls), LookAtPoll(i),
           ~fileTold', NEW s \in Shares \ muddled, ShareFollowed(s)
    PROVE  ShareFollowed(s)'
<1> DEFINE p == fileCalls[i].poll
           list == fileCalls[i].list
<1>1. /\ fileCalls[i].kind = "poll" /\ fileCalls[i].at = "ok"
      /\ UNCHANGED <<stored, shareJobs, tree>>
      /\ filePolls \in Seq(FilePoll)
      /\ p \in 1..Len(filePolls)
  <2>1. fileCalls[i].kind = "poll" /\ fileCalls[i].at = "ok"
        /\ UNCHANGED <<stored, shareJobs, tree>>
    BY DEF LookAtPoll, Answered
  <2>2. filePolls \in Seq(FilePoll)
    BY DEF FilesTyped, FilesTypeOK, FilePoll
  <2> QED
    BY <2>1, <2>2 DEF FilesTyped, CallsShaped, CallShape
<1>2. fileCalls[i].share # s
  BY <1>1 DEF ShareFollowed, OneOperation
<1>3. CASE fileCalls' = Without(fileCalls, i) /\ UNCHANGED filePolls
  <2>1. PollsStay
    BY <1>3 DEF PollsStay
  <2> QED
    BY <1>1, <1>2, <1>3, <2>1, AnswerFollowed
<1>4. CASE /\ Seen(p, list)
           /\ filePolls' = [filePolls EXCEPT ![p].live = FALSE]
           /\ fileCalls' = Append(Without(fileCalls, i), Fetch)
  <2>1. /\ OneOperation(s)' /\ WillBeCurrent(s)'
        /\ \E m : Follows(m, i, fileCalls, fileCalls', {Fetch})
        /\ Fetch.share # s /\ Fetch.at = "sent"
    BY <1>1, <1>4, FetchFollowed DEF ShareFollowed
  <2>2. PICK m : Follows(m, i, fileCalls, fileCalls', {Fetch})
    BY <2>1
  <2>3. /\ Len(filePolls') = Len(filePolls)
        /\ \A q \in 1..Len(filePolls) : q # p => filePolls'[q] = filePolls[q]
    BY <1>1, <1>4
  <2>4. ASSUME NEW k \in 1..Len(shareJobs), shareJobs[k].share = s,
               NEW op, op = shareJobs[k].op
        PROVE  \/ \E j \in 1..Len(fileCalls') :
                     fileCalls'[j].share = s /\ fileCalls'[j].kind = op
               \/ Agrees(op, stored[s])
               \/ \E q \in 1..Len(filePolls') : Unseen(q, op, s)'
    <3>1. \/ \E j \in 1..Len(fileCalls) :
                 fileCalls[j].share = s /\ fileCalls[j].kind = op
          \/ Agrees(op, stored[s])
          \/ \E q \in 1..Len(filePolls) : Unseen(q, op, s)
      BY <2>4 DEF ShareFollowed, JobAwaited
    <3>2. ASSUME NEW j \in 1..Len(fileCalls), fileCalls[j].share = s,
                 fileCalls[j].kind = op
          PROVE  \E l \in 1..Len(fileCalls') :
                    fileCalls'[l].share = s /\ fileCalls'[l].kind = op
      <4>1. PICK l \in 1..Len(fileCalls') : m[l] = j
        BY <1>2, <2>2, <3>2 DEF Follows
      <4> QED
        BY <2>2, <3>2, <4>1 DEF Follows
    <3>3. ASSUME NEW q \in 1..Len(filePolls), Unseen(q, op, s)
          PROVE  \E r \in 1..Len(filePolls') : Unseen(r, op, s)'
      <4>1. q # p
        BY <1>1, <1>4, <3>3 DEF Seen, Unseen, Agrees
      <4>2. Unseen(q, op, s)'
        BY <2>1, <2>2, <2>3, <3>3, <4>1, UnseenFollows
      <4> QED
        BY <2>3, <4>2
    <3> QED
      BY <3>1, <3>2, <3>3
  <2>5. JobAwaited(s)'
    <3> SUFFICES ASSUME NEW k \in 1..Len(shareJobs), shareJobs[k].share = s,
                        NEW op, op = shareJobs[k].op
                 PROVE  \/ \E j \in 1..Len(fileCalls') :
                              fileCalls'[j].share = s /\ fileCalls'[j].kind = op
                        \/ Agrees(op, stored[s])
                        \/ \E q \in 1..Len(filePolls') : Unseen(q, op, s)'
      BY <1>1 DEF JobAwaited, Unseen
    <3> QED
      BY <2>4
  <2> QED
    BY <2>1, <2>5 DEF ShareFollowed
<1> QED
  BY <1>3, <1>4 DEF LookAtPoll

\* The network is chosen once; what the page was told, and what was muddled, stays.
FilesRecord ==
    fileNet' = fileNet /\ muddled \subseteq muddled' /\ (fileTold => fileTold')

\* What the history variables record, and that they only grow.
LEMMA FilesHistory ==
    ASSUME FilesTypeOK, FilesNext
    PROVE  FilesRecord
<1> USE DEF FilesRecord
<1>0. fileTold \in BOOLEAN
  BY DEF FilesTypeOK
<1>1. ASSUME NEW x \in Shares, SubmitShare(x) \/ DeleteRow(x) PROVE FilesRecord
  BY <1>1 DEF SubmitShare, DeleteRow, Operate
<1>2. ASSUME NEW x \in Shares, NEW kind \in {"edit", "dialog"}, UseDialog(x, kind)
      PROVE  FilesRecord
  BY <1>2 DEF UseDialog, Operate
<1>3. CASE RefreshTree
  BY <1>3 DEF RefreshTree
<1>4. ASSUME NEW k \in 1..Len(shareJobs), EndShareJob(k) PROVE FilesRecord
  BY <1>4 DEF EndShareJob
<1>5. ASSUME NEW p \in 1..Len(filePolls), Tick(p) PROVE FilesRecord
  BY <1>5 DEF Tick
<1>6. ASSUME NEW i \in 1..Len(fileCalls),
             ServeShares(i) \/ LoseFileCall(i) \/ ShowTree(i) \/ StartPolling(i)
      PROVE  FilesRecord
  BY <1>6 DEF ServeShares, LoseFileCall, ShowTree, StartPolling
<1>7. ASSUME NEW i \in 1..Len(fileCalls),
             DialogDone(i) \/ CallFailed(i) \/ LookAtPoll(i)
      PROVE  FilesRecord
  BY <1>0, <1>7 DEF DialogDone, CallFailed, LookAtPoll
<1> QED
  BY <1>1, <1>2, <1>3, <1>4, <1>5, <1>6, <1>7 DEF FilesNext

\* A step of the files page keeps every share followed.
LEMMA TreeStays ==
    ASSUME FilesAssumption, FilesInv, TreeKept, FilesNext
    PROVE  TreeKept'
<1>0. FilesTyped /\ muddled \subseteq Shares /\ fileTold \in BOOLEAN
  BY DEF FilesInv, FilesTyped, FilesTypeOK
<1>1. fileNet' = fileNet /\ muddled \subseteq muddled' /\ (fileTold => fileTold')
  BY FilesHistory DEF FilesInv, FilesTyped, FilesRecord
<1> SUFFICES ASSUME fileNet.inorder, ~fileTold', NEW s \in Shares \ muddled'
             PROVE  ShareFollowed(s)'
  BY <1>1 DEF TreeKept
<1>2. s \in Shares \ muddled /\ ShareFollowed(s)
  BY <1>1 DEF TreeKept
<1>3. ASSUME NEW x \in Shares,
             \/ SubmitShare(x) \/ DeleteRow(x)
             \/ \E kind \in {"edit", "dialog"} : UseDialog(x, kind)
      PROVE  ShareFollowed(s)'
  <2>1. \E kind \in {"create", "delete", "edit", "dialog"} : Operate(kind, x)
    BY <1>3 DEF SubmitShare, DeleteRow, UseDialog
  <2>2. UNCHANGED <<stored, shareJobs, tree, filePolls>>
    BY <1>3 DEF SubmitShare, DeleteRow, UseDialog
  <2> QED
    BY <1>0, <1>2, <2>1, <2>2, OperateFollowed
<1>4. CASE RefreshTree
  BY <1>0, <1>2, <1>4, RefreshFollowed
<1>5. CASE \E k \in 1..Len(shareJobs) : EndShareJob(k)
  BY <1>0, <1>2, <1>5, JobEnded
<1>6. CASE \E p \in 1..Len(filePolls) : Tick(p)
  BY <1>0, <1>2, <1>6, TickFollowed
<1>7. ASSUME NEW i \in 1..Len(fileCalls),
             \/ ServeShares(i) \/ LoseFileCall(i) \/ ShowTree(i) \/ StartPolling(i)
             \/ DialogDone(i) \/ CallFailed(i) \/ LookAtPoll(i)
      PROVE  ShareFollowed(s)'
  BY <1>0, <1>2, <1>7, ServeFollowed, LossFollowed, ShowFollowed,
     PollingFollowed, DialogFollowed, FailureFollowed, LookFollowed
<1> QED
  BY <1>3, <1>4, <1>5, <1>6, <1>7 DEF FilesNext

\* The tree has been asked for.
LEMMA TreeStarts ==
    ASSUME FilesAssumption, FilesInit
    PROVE  TreeKept
<1> SUFFICES ASSUME NEW s \in Shares PROVE ShareFollowed(s)
  BY DEF TreeKept
<1>1. Len(fileCalls) = 1 /\ fileCalls[1] = Fetch /\ Len(shareJobs) = 0
  BY DEF FilesInit
<1>2. Fetch.kind = "tree" /\ Fetch.at = "sent" /\ Fetch.share # s
  BY DEF Fetch, Request, FilesAssumption
<1>3. OneOperation(s) /\ JobAwaited(s)
  BY <1>1, <1>2 DEF OneOperation, JobAwaited
<1>4. Current(s)
  BY <1>1, <1>2 DEF Current
<1> QED
  BY <1>3, <1>4 DEF ShareFollowed, WillBeCurrent

\* The other pages leave the shares alone.
LEMMA TreeRests ==
    ASSUME TreeKept, UNCHANGED filesVars
    PROVE  TreeKept'
  BY DEF TreeKept, ShareFollowed, OneOperation, JobAwaited, WillBeCurrent,
     Current, Unseen, filesVars

\* At rest, the tree shows the stored shares.
LEMMA TreePromise ==
    ASSUME TreeKept
    PROVE  TreeIsStored
  BY DEF TreeKept, TreeIsStored, ShareFollowed, WillBeCurrent, Current

-----------------------------------------------------------------------------
(***************************************************************************)
(* The templates page at rest (TemplatesSettle): requests that are served and*)
(* answered in order tell the page no less than they told it before.       *)
(***************************************************************************)

\* Rows that have arrived, and the status of a template's job.
Lists(i) == tplCalls[i].kind \in {"rows", "load"} /\ tplCalls[i].at = "ok"

StatusTold(i, t) ==
    tplCalls[i].kind = "status" /\ tplCalls[i].at = "ok" /\ tplCalls[i].tpl = t

BeingCreated(t) ==
    \E i \in 1..Len(tplCalls) : tplCalls[i].kind = "create" /\ tplCalls[i].tpl = t

RowsComing ==
    \E i \in 1..Len(tplCalls) :
       tplCalls[i].kind \in {"rows", "load"} /\ tplCalls[i].visit = visit

\* Requests are served in the order they were sent in.
ServedInOrder ==
    \A i, j \in 1..Len(tplCalls) :
       i < j /\ tplCalls[j].at = "ok" => tplCalls[i].at # "sent"

\* Rows tell what the server has, and later rows no less.
RowsTrue(t) ==
    /\ \A i \in 1..Len(tplCalls) : Lists(i) =>
          /\ tplCalls[i].saw[t] # "none" => made[t] # "none"
          /\ tplCalls[i].saw[t] = "ready" => made[t] = "ready"
    /\ \A i, j \in 1..Len(tplCalls) :
          i < j /\ Lists(i) /\ Lists(j) /\ tplCalls[i].saw[t] = "ready"
             => tplCalls[j].saw[t] = "ready"

\* A job that was seen to fail has failed, and is not said to be queued after.
FailureTrue(t) ==
    /\ tplJob[t] = "failed" => made[t] = "building" \/ t \in stray
    /\ \A i \in 1..Len(tplCalls) : StatusTold(i, t) /\ tplCalls[i].said = "failed" =>
          tplJob[t] \in {"failed", "gone"} /\ (made[t] = "building" \/ t \in stray)
    /\ tracked[t] = "failed" =>
          /\ tplJob[t] \in {"failed", "gone"}
          /\ made[t] = "building" \/ t \in stray
          /\ \A i \in 1..Len(tplCalls) : StatusTold(i, t) => tplCalls[i].said # "queued"
    /\ \A i, j \in 1..Len(tplCalls) :
          i < j /\ StatusTold(i, t) /\ StatusTold(j, t) /\ tplCalls[i].said = "failed"
             => tplCalls[j].said # "queued"

\* Nothing is known of a template that is not made.
Unknown(t) ==
    /\ made[t] = "none" <=> tplJob[t] = "none"
    /\ made[t] = "none" =>
         /\ tracked[t] = "none" /\ rows[t] = "absent"
         /\ \A v \in Visits : chain[v][t] = "off"
         /\ \A i \in 1..Len(tplCalls) : tplCalls[i].tpl = t =>
               tplCalls[i].kind = "create" /\ tplCalls[i].at # "ok"

\* A template is asked for once, and is made when the request is served.
CreatedOnce(t) ==
    \A i \in 1..Len(tplCalls) : tplCalls[i].kind = "create" /\ tplCalls[i].tpl = t =>
       /\ tplCalls[i].at = "sent" => made[t] = "none"
       /\ \A j \in 1..Len(tplCalls) :
             tplCalls[j].kind = "create" /\ tplCalls[j].tpl = t => i = j

\* What the session storage has of a template is polled by this visit, and is
\* shown or will be; what it no longer has is ready.
Tracked(t) ==
    /\ mounted /\ tracked[t] = "building" => chain[visit][t] # "off"
    /\ mounted /\ tracked[t] # "none" => rows[t] # "absent" \/ RowsComing
    /\ tracked[t] = "none" /\ made[t] # "none" /\ ~BeingCreated(t) =>
         /\ made[t] = "ready"
         /\ \A i \in 1..Len(tplCalls) : Lists(i) => tplCalls[i].saw[t] = "ready"

\* A row says what became of its template, or something is to come that will.
WillShow(t) ==
    mounted /\ made[t] # "none" =>
       \/ BeingCreated(t) \/ chain[visit][t] # "off" \/ RowsComing \/ blanked
       \/ made[t] = "ready" /\ rows[t] = "connected"
       \/ made[t] = "building" /\ rows[t] = "failed" /\ tplJob[t] # "queued"

TemplateFollowed(t) == Tracked(t) /\ WillShow(t)

TemplateTrue(t) == RowsTrue(t) /\ FailureTrue(t) /\ Unknown(t) /\ CreatedOnce(t)

TemplatesFollowed ==
    tplNet.inorder =>
       /\ ServedInOrder
       /\ \A t \in Templates : TemplateTrue(t)
       /\ \A t \in Templates \ stray : TemplateFollowed(t)

\* How a queue of requests changes: its first d are gone, the others move up, and
\* those of sent, one at most, come last.
Moves(d, old, new, sent) ==
    /\ \A k \in 1..Len(new) :
          \/ k + d \in 1..Len(old) /\ new[k] = old[k + d]
          \/ k + d = Len(old) + 1 /\ new[k] \in sent
    /\ \A j \in 1..Len(old) : j > d => j - d \in 1..Len(new) /\ new[j - d] = old[j]
    /\ \A r \in sent : \E k \in 1..Len(new) : new[k] = r

\* No request is sent or answered.
LEMMA Unmoved ==
    ASSUME NEW S, NEW old \in Seq(S)
    PROVE  Moves(0, old, old, {})
<1>1. Len(old) \in Nat
  OBVIOUS
<1>2. \A k \in 1..Len(old) : k + 0 = k /\ k - 0 = k
  BY <1>1
<1> QED
  BY <1>2 DEF Moves

\* A request is sent.
LEMMA MovesSent ==
    ASSUME NEW S, NEW old \in Seq(S), NEW e \in S
    PROVE  Moves(0, old, Append(old, e), {e})
<1> DEFINE new == Append(old, e)
<1>1. /\ Len(new) = Len(old) + 1 /\ Len(old) \in Nat
      /\ \A k \in 1..Len(old) : new[k] = old[k]
      /\ new[Len(old) + 1] = e
  BY AppendProperties
<1> HIDE DEF new
<1>2. \A k \in 1..Len(new) : k + 0 = k /\ (k \in 1..Len(old) \/ k = Len(old) + 1)
  BY <1>1
<1>3. \A j \in 1..Len(old) : j - 0 = j /\ j \in 1..Len(new)
  BY <1>1
<1>4. Len(old) + 1 \in 1..Len(new)
  BY <1>1
<1> QED
  BY <1>1, <1>2, <1>3, <1>4 DEF Moves, new

\* The first request is answered.
LEMMA MovesTaken ==
    ASSUME NEW S, NEW old \in Seq(S), 1 \in 1..Len(old)
    PROVE  Moves(1, old, Leave(old, 1), {})
<1> DEFINE new == Leave(old, 1)
<1>1. /\ new \in Seq(S) /\ Len(new) = Len(old) - 1 /\ Len(old) \in Nat
      /\ \A k \in 1..Len(new) : new[k] = IF k < 1 THEN old[k] ELSE old[k + 1]
  BY TakenOut
<1> HIDE DEF new
<1>2. \A k \in 1..Len(new) : k + 1 \in 1..Len(old) /\ new[k] = old[k + 1]
  BY <1>1
<1>3. \A j \in 1..Len(old) : j > 1 => j - 1 \in 1..Len(new) /\ (j - 1) + 1 = j
  BY <1>1
<1> QED
  BY <1>2, <1>3 DEF Moves, new

\* The first request is answered, and its answer sends another.
LEMMA MovesReplaced ==
    ASSUME NEW S, NEW old \in Seq(S), 1 \in 1..Len(old), NEW e \in S
    PROVE  Moves(1, old, Append(Leave(old, 1), e), {e})
<1> DEFINE rest == Leave(old, 1)
           new == Append(rest, e)
<1>1. /\ rest \in Seq(S) /\ Len(rest) = Len(old) - 1 /\ Len(old) \in Nat
      /\ \A k \in 1..Len(rest) : rest[k] = IF k < 1 THEN old[k] ELSE old[k + 1]
  BY TakenOut
<1> HIDE DEF rest
<1>2. /\ Len(new) = Len(old)
      /\ \A k \in 1..Len(rest) : new[k] = rest[k]
      /\ new[Len(old)] = e
  BY <1>1, AppendProperties
<1> HIDE DEF new
<1>3. \A k \in 1..Len(new) :
         \/ k \in 1..Len(rest) /\ k + 1 \in 1..Len(old) /\ new[k] = old[k + 1]
         \/ k + 1 = Len(old) + 1 /\ k = Len(old)
  BY <1>1, <1>2
<1>4. \A j \in 1..Len(old) : j > 1 => /\ j - 1 \in 1..Len(new)
                                      /\ j - 1 \in 1..Len(rest) /\ (j - 1) + 1 = j
  BY <1>1, <1>2
<1>5. \A j \in 1..Len(old) : j > 1 => new[j - 1] = old[j]
  BY <1>1, <1>2, <1>4
<1>6. Len(old) \in 1..Len(new)
  BY <1>1, <1>2
<1> QED
  BY <1>2, <1>3, <1>4, <1>5, <1>6 DEF Moves, new, rest

\* The requests in flight move, those sent are not served yet.
CallsMove(d, sent) ==
    /\ d \in {0, 1} /\ tplCalls \in Seq(TplCall) /\ tplCalls' \in Seq(TplCall)
    /\ Moves(d, tplCalls, tplCalls', sent)
    /\ \A r \in sent : r.at = "sent"

\* A request that was answered or told something did so before the step, and an
\* earlier one is earlier than a later one.
LEMMA Earlier ==
    ASSUME NEW d, NEW sent, CallsMove(d, sent)
    PROVE  /\ \A k \in 1..Len(tplCalls') : tplCalls'[k].at # "sent" =>
                 /\ k + d \in 1..Len(tplCalls) /\ k + d > d
                 /\ tplCalls'[k] = tplCalls[k + d]
           /\ \A k, l \in 1..Len(tplCalls') : k < l =>
                 /\ k + d < l + d /\ k + d \in 1..Len(tplCalls)
                 /\ tplCalls'[k] = tplCalls[k + d]
           /\ \A k \in 1..Len(tplCalls') :
                 \/ tplCalls'[k] \in sent
                 \/ k + d \in 1..Len(tplCalls) /\ k + d > d /\ tplCalls'[k] = tplCalls[k + d]
           /\ \A k, l \in 1..Len(tplCalls') : k + d = l + d => k = l
<1>1. /\ d \in {0, 1} /\ Len(tplCalls) \in Nat /\ Len(tplCalls') \in Nat
      /\ Moves(d, tplCalls, tplCalls', sent)
      /\ \A r \in sent : r.at = "sent"
  BY DEF CallsMove
<1> QED
  BY <1>1 DEF Moves

\* Requests that move stay served in order.
LEMMA OrderMoves ==
    ASSUME NEW d, NEW sent, CallsMove(d, sent), ServedInOrder
    PROVE  ServedInOrder'
  BY Earlier DEF ServedInOrder

\* Rows on their way stay true while the template is as it was.
LEMMA RowsMove ==
    ASSUME NEW d, NEW sent, CallsMove(d, sent), NEW t, RowsTrue(t),
           made'[t] = made[t]
    PROVE  RowsTrue(t)'
<1>1. \A i \in 1..Len(tplCalls') : Lists(i)' =>
         i + d \in 1..Len(tplCalls) /\ Lists(i + d) /\ tplCalls'[i] = tplCalls[i + d]
  BY Earlier DEF Lists
<1>2. \A i, j \in 1..Len(tplCalls') : i < j => i + d < j + d
  BY Earlier
<1> QED
  BY <1>1, <1>2 DEF RowsTrue

\* A failure stays true: it is noted only when a status told it.
LEMMA FailureMoves ==
    ASSUME NEW d, NEW sent, CallsMove(d, sent), NEW t, FailureTrue(t),
           made'[t] = made[t], tplJob'[t] = tplJob[t], stray \subseteq stray',
           tracked'[t] = "failed" =>
              \/ tracked[t] = "failed"
              \/ d = 1 /\ 1 \in 1..Len(tplCalls) /\ StatusTold(1, t)
                 /\ tplCalls[1].said = "failed"
    PROVE  FailureTrue(t)'
<1>1. \A i \in 1..Len(tplCalls') : StatusTold(i, t)' =>
         /\ i + d \in 1..Len(tplCalls) /\ i + d > d
         /\ StatusTold(i + d, t) /\ tplCalls'[i] = tplCalls[i + d]
  BY Earlier DEF StatusTold
<1>2. \A i, j \in 1..Len(tplCalls') : i < j => i + d < j + d
  BY Earlier
<1>3. tplJob'[t] = "failed" => made'[t] = "building" \/ t \in stray'
  BY DEF FailureTrue
<1>4. \A i \in 1..Len(tplCalls') : StatusTold(i, t)' /\ tplCalls'[i].said = "failed" =>
          tplJob'[t] \in {"failed", "gone"} /\ (made'[t] = "building" \/ t \in stray')
  BY <1>1 DEF FailureTrue
<1>5. ASSUME tracked'[t] = "failed"
      PROVE  /\ tplJob'[t] \in {"failed", "gone"}
             /\ made'[t] = "building" \/ t \in stray'
             /\ \A i \in 1..Len(tplCalls') : StatusTold(i, t)' => tplCalls'[i].said # "queued"
  <2>1. CASE tracked[t] = "failed"
    BY <1>1, <2>1 DEF FailureTrue
  <2>2. CASE d = 1 /\ 1 \in 1..Len(tplCalls) /\ StatusTold(1, t)
             /\ tplCalls[1].said = "failed"
    BY <1>1, <2>2 DEF FailureTrue
  <2> QED
    BY <1>5, <2>1, <2>2
<1>6. \A i, j \in 1..Len(tplCalls') :
          i < j /\ StatusTold(i, t)' /\ StatusTold(j, t)' /\ tplCalls'[i].said = "failed"
             => tplCalls'[j].said # "queued"
  BY <1>1, <1>2 DEF FailureTrue
<1> QED
  BY <1>3, <1>4, <1>5, <1>6 DEF FailureTrue

\* A template that is not made stays unknown, and is asked for once.
LEMMA UnknownMoves ==
    ASSUME NEW d, NEW sent, CallsMove(d, sent), NEW t, Unknown(t), CreatedOnce(t),
           made'[t] = made[t], tplJob'[t] = tplJob[t],
           made[t] = "none" =>
              /\ tracked'[t] = "none" /\ rows'[t] = "absent"
              /\ \A v \in Visits : chain'[v][t] = "off",
           \A r \in sent : r.tpl = t =>
              /\ made[t] = "none" => r.kind = "create"
              /\ r.kind = "create" =>
                    /\ made[t] = "none"
                    /\ \A i \in 1..Len(tplCalls) : tplCalls[i].tpl # t
    PROVE  Unknown(t)' /\ CreatedOnce(t)'
<1>0. \A r \in sent : r.at = "sent"
  BY DEF CallsMove
<1>1. Unknown(t)'
  BY <1>0, Earlier DEF Unknown
<1>2. ASSUME NEW i \in 1..Len(tplCalls'),
             tplCalls'[i].kind = "create", tplCalls'[i].tpl = t
      PROVE  /\ tplCalls'[i].at = "sent" => made'[t] = "none"
             /\ \A j \in 1..Len(tplCalls') :
                   tplCalls'[j].kind = "create" /\ tplCalls'[j].tpl = t => i = j
  <2>1. tplCalls'[i].at = "sent" => made'[t] = "none"
    BY <1>2, Earlier DEF CreatedOnce
  <2>2. ASSUME NEW j \in 1..Len(tplCalls'),
               tplCalls'[j].kind = "create", tplCalls'[j].tpl = t, i # j
        PROVE  FALSE
    <3>1. Len(tplCalls') \in Nat
      BY DEF CallsMove
    <3>2. i < j \/ j < i
      BY <2>2, <3>1
    <3>3. /\ \/ i + d \in 1..Len(tplCalls) /\ tplCalls'[i] = tplCalls[i + d]
             \/ tplCalls'[i] \in sent
          /\ \/ j + d \in 1..Len(tplCalls) /\ tplCalls'[j] = tplCalls[j + d]
             \/ tplCalls'[j] \in sent
      BY Earlier
    <3>4. /\ i < j => i + d \in 1..Len(tplCalls) /\ tplCalls'[i] = tplCalls[i + d]
          /\ j < i => j + d \in 1..Len(tplCalls) /\ tplCalls'[j] = tplCalls[j + d]
      BY Earlier
    <3>5. /\ i + d \in 1..Len(tplCalls) /\ tplCalls'[i] = tplCalls[i + d]
          /\ j + d \in 1..Len(tplCalls) /\ tplCalls'[j] = tplCalls[j + d]
      BY <1>2, <2>2, <3>2, <3>3, <3>4
    <3>6. i + d = j + d
      BY <1>2, <2>2, <3>5 DEF CreatedOnce
    <3> QED
      BY <2>2, <3>6, Earlier
  <2> QED
    BY <2>1, <2>2
<1> QED
  BY <1>1, <1>2 DEF CreatedOnce

\* What is awaited is awaited until it has arrived.
LEMMA AwaitMoves ==
    ASSUME NEW d, NEW sent, CallsMove(d, sent), NEW t
    PROVE  /\ RowsComing /\ visit' = visit
              /\ (d = 1 => ~(tplCalls[1].kind \in {"rows", "load"}
                             /\ tplCalls[1].visit = visit))
              => RowsComing'
           /\ BeingCreated(t)
              /\ (d = 1 => ~(tplCalls[1].kind = "create" /\ tplCalls[1].tpl = t))
              => BeingCreated(t)'
           /\ \A r \in sent : r.kind \in {"rows", "load"} /\ r.visit = visit'
                 => RowsComing'
           /\ \A r \in sent : r.kind = "create" /\ r.tpl = t => BeingCreated(t)'
           /\ \A k \in 1..Len(tplCalls') : Lists(k)' =>
                 \E j \in 1..Len(tplCalls) :
                    j > d /\ Lists(j) /\ tplCalls'[k] = tplCalls[j]
<1>1. /\ d \in {0, 1}
      /\ \A j \in 1..Len(tplCalls) : j > d =>
            j - d \in 1..Len(tplCalls') /\ tplCalls'[j - d] = tplCalls[j]
      /\ \A r \in sent : \E k \in 1..Len(tplCalls') : tplCalls'[k] = r
      /\ Len(tplCalls) \in Nat
  BY DEF CallsMove, Moves
<1>2. \A j \in 1..Len(tplCalls) : j > d \/ (d = 1 /\ j = 1)
  BY <1>1
<1>3. RowsComing /\ visit' = visit
         /\ (d = 1 => ~(tplCalls[1].kind \in {"rows", "load"}
                        /\ tplCalls[1].visit = visit))
         => RowsComing'
  BY <1>1, <1>2 DEF RowsComing
<1>4. BeingCreated(t)
         /\ (d = 1 => ~(tplCalls[1].kind = "create" /\ tplCalls[1].tpl = t))
         => BeingCreated(t)'
  BY <1>1, <1>2 DEF BeingCreated
<1>5. /\ \A r \in sent : r.kind \in {"rows", "load"} /\ r.visit = visit'
            => RowsComing'
      /\ \A r \in sent : r.kind = "create" /\ r.tpl = t => BeingCreated(t)'
  BY <1>1 DEF RowsComing, BeingCreated
<1>6. \A k \in 1..Len(tplCalls') : Lists(k)' =>
         \E j \in 1..Len(tplCalls) : j > d /\ Lists(j) /\ tplCalls'[k] = tplCalls[j]
  BY Earlier DEF Lists
<1> QED
  BY <1>3, <1>4, <1>5, <1>6

\* A step that is about another template and no rows.
LEMMA AnotherTemplate ==
    ASSUME NEW d, NEW sent, CallsMove(d, sent), NEW t, TemplateFollowed(t),
           visit' = visit, tracked'[t] = tracked[t], made'[t] = made[t],
           tplJob'[t] = tplJob[t],
           d = 1 => ~(tplCalls[1].kind = "create" /\ tplCalls[1].tpl = t),
           mounted' =>
              /\ mounted /\ rows'[t] = rows[t] /\ blanked' = blanked
              /\ chain[visit][t] # "off" => chain'[visit][t] # "off"
              /\ d = 1 => ~(tplCalls[1].kind \in {"rows", "load"}
                            /\ tplCalls[1].visit = visit)
    PROVE  TemplateFollowed(t)'
<1>1. BeingCreated(t) => BeingCreated(t)'
  BY AwaitMoves
<1>2. mounted' /\ RowsComing => RowsComing'
  BY AwaitMoves
<1>3. \A k \in 1..Len(tplCalls') : Lists(k)' =>
         \E j \in 1..Len(tplCalls) : Lists(j) /\ tplCalls'[k] = tplCalls[j]
  BY AwaitMoves
<1>4. Tracked(t)'
  BY <1>1, <1>2, <1>3 DEF TemplateFollowed, Tracked
<1>5. WillShow(t)'
  BY <1>1, <1>2 DEF TemplateFollowed, WillShow
<1> QED
  BY <1>4, <1>5 DEF TemplateFollowed

\* The parts are kept by a step that moves the requests, if they are of each
\* template.
LEMMA TruthMoves ==
    ASSUME NEW d, NEW sent, CallsMove(d, sent),
           tplNet.inorder, TemplatesFollowed, tplNet' = tplNet,
           UNCHANGED <<made, tplJob>>, stray \subseteq stray',
           \A t \in Templates : tracked'[t] = "failed" =>
              \/ tracked[t] = "failed"
              \/ d = 1 /\ 1 \in 1..Len(tplCalls) /\ StatusTold(1, t)
                 /\ tplCalls[1].said = "failed",
           \A t \in Templates : made[t] = "none" =>
              /\ tracked'[t] = "none" /\ rows'[t] = "absent"
              /\ \A v \in Visits : chain'[v][t] = "off",
           \A r \in sent : \A t \in Templates : r.tpl = t =>
              /\ made[t] = "none" => r.kind = "create"
              /\ r.kind = "create" =>
                    /\ made[t] = "none"
                    /\ \A i \in 1..Len(tplCalls) : tplCalls[i].tpl # t,
           \A t \in Templates \ stray' : TemplateFollowed(t)'
    PROVE  TemplatesFollowed'
<1>1. ServedInOrder'
  BY OrderMoves DEF TemplatesFollowed
<1>2. ASSUME NEW t \in Templates PROVE TemplateTrue(t)'
  <2>1. RowsTrue(t) /\ FailureTrue(t) /\ Unknown(t) /\ CreatedOnce(t)
    BY DEF TemplatesFollowed, TemplateTrue
  <2>2. RowsTrue(t)'
    BY <2>1, RowsMove
  <2>3. FailureTrue(t)'
    BY <2>1, FailureMoves
  <2>4. Unknown(t)' /\ CreatedOnce(t)'
    BY <2>1, UnknownMoves
  <2> QED
    BY <2>2, <2>3, <2>4 DEF TemplateTrue
<1> QED
  BY <1>1, <1>2 DEF TemplatesFollowed

\* What the parts say of one template, and its types.
LEMMA OfTemplate ==
    ASSUME TemplatesInv, tplNet.inorder, TemplatesFollowed, NEW t \in Templates
    PROVE  /\ ServedInOrder
           /\ RowsTrue(t) /\ FailureTrue(t) /\ Unknown(t) /\ CreatedOnce(t)
           /\ t \notin stray => TemplateFollowed(t)
           /\ made[t] \in MadeStates /\ tplJob[t] \in JobStates
           /\ rows[t] \in RowStates /\ tracked[t] \in {"none", "building", "failed"}
           /\ visit \in Visits /\ chain[visit][t] \in {"off", "timer", "busy"}
  BY DEF TemplatesFollowed, TemplateTrue, TemplatesInv, TemplatesTypeOK

\* A visit begins: it asks for the rows and polls what is tracked.
LEMMA OpenFollowed ==
    ASSUME TemplatesAssumption, TemplatesInv, TemplatesInv',
           tplNet.inorder, TemplatesFollowed, OpenTemplates
    PROVE  TemplatesFollowed'
<1> DEFINE r == Ask("rows", NoTemplate, visit + 1)
<1>1. /\ tplCalls \in Seq(TplCall) /\ tplCalls' \in Seq(TplCall)
      /\ visit' \in Visits /\ visit' = visit + 1
      /\ chain \in [Visits -> [Templates -> {"off", "timer", "busy"}]]
  BY DEF OpenTemplates, TemplatesInv, TemplatesTypeOK
<1>2. /\ r \in TplCall /\ r.kind = "rows" /\ r.tpl = NoTemplate /\ r.at = "sent"
      /\ r.visit = visit'
  BY <1>1, Asks DEF Ask
<1>3. tplCalls' = Append(tplCalls, r)
  BY DEF OpenTemplates
<1> HIDE DEF r
<1>4. CallsMove(0, {r})
  BY <1>1, <1>2, <1>3, MovesSent DEF CallsMove
<1>5. \A t \in Templates :
         /\ rows'[t] = "absent" /\ made'[t] = made[t] /\ tracked'[t] = tracked[t]
         /\ \A v \in Visits : chain'[v][t] =
               IF v = visit' THEN IF tracked[t] = "building" THEN "timer" ELSE "off"
                             ELSE chain[v][t]
  BY <1>1 DEF OpenTemplates
<1>6. ASSUME NEW t \in Templates \ stray' PROVE TemplateFollowed(t)'
  <2>1. TemplateFollowed(t)
    BY <1>6, OfTemplate DEF OpenTemplates
  <2>2. RowsComing'
    BY <1>2, <1>4, AwaitMoves
  <2>3. BeingCreated(t) => BeingCreated(t)'
    BY <1>4, AwaitMoves
  <2>4. \A k \in 1..Len(tplCalls') : Lists(k)' =>
           \E j \in 1..Len(tplCalls) : Lists(j) /\ tplCalls'[k] = tplCalls[j]
    BY <1>4, AwaitMoves
  <2>5. Tracked(t)'
    BY <1>1, <1>5, <2>1, <2>2, <2>3, <2>4 DEF TemplateFollowed, Tracked
  <2> QED
    BY <2>2, <2>5 DEF TemplateFollowed, WillShow
<1>7. \A t \in Templates : made[t] = "none" =>
         /\ tracked'[t] = "none" /\ rows'[t] = "absent"
         /\ \A v \in Visits : chain'[v][t] = "off"
  BY <1>5, OfTemplate DEF Unknown
<1>8. \A t \in Templates : t # NoTemplate
  BY DEF TemplatesAssumption
<1> QED
  BY <1>2, <1>4, <1>5, <1>6, <1>7, <1>8, TruthMoves DEF OpenTemplates

\* A visit ends: nothing has to be shown.
LEMMA LeaveFollowed ==
    ASSUME TemplatesAssumption, TemplatesInv, TemplatesInv',
           tplNet.inorder, TemplatesFollowed, LeaveTemplates
    PROVE  TemplatesFollowed'
<1>1. /\ tplCalls \in Seq(TplCall) /\ visit \in Visits /\ tplCalls' = tplCalls
      /\ chain \in [Visits -> [Templates -> {"off", "timer", "busy"}]]
  BY DEF LeaveTemplates, TemplatesInv, TemplatesTypeOK
<1>2. CallsMove(0, {})
  BY <1>1, Unmoved DEF CallsMove
<1>3. \A t \in Templates, v \in Visits :
         chain[v][t] = "off" => chain'[v][t] = "off"
  BY <1>1 DEF LeaveTemplates
<1>4. ASSUME NEW t \in Templates \ stray' PROVE TemplateFollowed(t)'
  <2>1. TemplateFollowed(t)
    BY <1>4, OfTemplate DEF LeaveTemplates
  <2>2. /\ mounted' = FALSE
        /\ UNCHANGED <<made, tplJob, visit, tracked>>
    BY DEF LeaveTemplates
  <2> QED
    BY <1>2, <2>1, <2>2, AnotherTemplate
<1>5. \A t \in Templates : made[t] = "none" =>
         /\ tracked'[t] = "none" /\ rows'[t] = "absent"
         /\ \A v \in Visits : chain'[v][t] = "off"
  BY <1>3, OfTemplate DEF LeaveTemplates, Unknown
<1> QED
  BY <1>2, <1>4, <1>5, TruthMoves DEF LeaveTemplates

\* The rows, or a template, are asked for.
LEMMA AskFollowed ==
    ASSUME TemplatesAssumption, TemplatesInv, TemplatesInv',
           tplNet.inorder, TemplatesFollowed,
           RefreshTemplates \/ \E t \in Templates : CreateTemplate(t)
    PROVE  TemplatesFollowed'
<1>1. PICK r \in TplCall :
         /\ tplCalls' = Append(tplCalls, r) /\ r.at = "sent"
         /\ \A t \in Templates : r.tpl = t =>
              /\ r.kind = "create" /\ made[t] = "none"
              /\ \A i \in 1..Len(tplCalls) : tplCalls[i].tpl # t
  <2>1. visit \in Visits /\ NoTemplate \notin Templates
    BY DEF TemplatesInv, TemplatesTypeOK, TemplatesAssumption
  <2>2. CASE RefreshTemplates
    <3> DEFINE q == Ask("rows", NoTemplate, visit)
    <3>1. q \in TplCall /\ q.tpl = NoTemplate /\ q.at = "sent"
      BY <2>1, Asks DEF Ask
    <3>2. tplCalls' = Append(tplCalls, q)
      BY <2>2 DEF RefreshTemplates
    <3> HIDE DEF q
    <3> QED
      BY <2>1, <3>1, <3>2
  <2>3. ASSUME NEW u \in Templates, CreateTemplate(u)
        PROVE  \E q \in TplCall :
                 /\ tplCalls' = Append(tplCalls, q) /\ q.at = "sent"
                 /\ \A t \in Templates : q.tpl = t =>
                      /\ q.kind = "create" /\ made[t] = "none"
                      /\ \A i \in 1..Len(tplCalls) : tplCalls[i].tpl # t
    <3> DEFINE q == Ask("create", u, visit)
    <3>1. q \in TplCall /\ q.tpl = u /\ q.at = "sent" /\ q.kind = "create"
      BY <2>1, Asks DEF Ask
    <3>2. tplCalls' = Append(tplCalls, q)
      BY <2>3 DEF CreateTemplate
    <3> HIDE DEF q
    <3>3. /\ made[u] = "none"
          /\ \A i \in 1..Len(tplCalls) : tplCalls[i].tpl # u
      BY <2>3 DEF CreateTemplate
    <3> QED
      BY <3>1, <3>2, <3>3
  <2> QED
    BY <2>2, <2>3
<1>2. UNCHANGED <<tplNet, made, tplJob, visit, mounted, rows, tracked, chain,
                  blanked, stray>>
  BY DEF RefreshTemplates, CreateTemplate
<1>3. tplCalls \in Seq(TplCall) /\ tplCalls' \in Seq(TplCall)
  BY DEF TemplatesInv, TemplatesTypeOK
<1>4. CallsMove(0, {r})
  BY <1>1, <1>3, MovesSent DEF CallsMove
<1>5. ASSUME NEW t \in Templates \ stray' PROVE TemplateFollowed(t)'
  <2>1. TemplateFollowed(t)
    BY <1>2, <1>5, OfTemplate
  <2> QED
    BY <1>2, <1>4, <2>1, AnotherTemplate
<1>6. \A t \in Templates : made[t] = "none" =>
         /\ tracked'[t] = "none" /\ rows'[t] = "absent"
         /\ \A v \in Visits : chain'[v][t] = "off"
  BY <1>2, OfTemplate DEF Unknown
<1> QED
  BY <1>1, <1>2, <1>4, <1>5, <1>6, TruthMoves

\* A template is deleted on the page only.
LEMMA DropFollowed ==
    ASSUME TemplatesAssumption, TemplatesInv, TemplatesInv',
           tplNet.inorder, TemplatesFollowed, NEW u \in Templates, DropTemplate(u)
    PROVE  TemplatesFollowed'
<1>1. /\ tplCalls \in Seq(TplCall) /\ tplCalls' = tplCalls
      /\ rows \in [Templates -> RowStates]
      /\ tracked \in [Templates -> {"none", "building", "failed"}]
  BY DEF DropTemplate, TemplatesInv, TemplatesTypeOK
<1>2. CallsMove(0, {})
  BY <1>1, Unmoved DEF CallsMove
<1>3. \A t \in Templates :
         /\ rows'[t] = IF t = u THEN "absent" ELSE rows[t]
         /\ tracked'[t] = IF t = u THEN "none" ELSE tracked[t]
  BY <1>1 DEF DropTemplate
<1>4. ASSUME NEW t \in Templates \ stray' PROVE TemplateFollowed(t)'
  <2>1. TemplateFollowed(t) /\ t # u
    BY <1>4, OfTemplate DEF DropTemplate
  <2> QED
    BY <1>2, <1>3, <2>1, AnotherTemplate DEF DropTemplate
<1>5. \A t \in Templates : made[t] = "none" =>
         /\ tracked'[t] = "none" /\ rows'[t] = "absent"
         /\ \A v \in Visits : chain'[v][t] = "off"
  BY <1>3, OfTemplate DEF DropTemplate, Unknown
<1> QED
  BY <1>2, <1>3, <1>4, <1>5, TruthMoves DEF DropTemplate

\* A chain asks for the status of its job.
LEMMA PollFollowed ==
    ASSUME TemplatesAssumption, TemplatesInv, TemplatesInv',
           tplNet.inorder, TemplatesFollowed,
           NEW u \in Templates, NEW w \in Visits, PollTemplate(w, u)
    PROVE  TemplatesFollowed'
<1> DEFINE r == Ask("status", u, w)
<1>1. /\ tplCalls \in Seq(TplCall) /\ tplCalls' \in Seq(TplCall) /\ visit \in Visits
      /\ chain \in [Visits -> [Templates -> {"off", "timer", "busy"}]]
  BY DEF TemplatesInv, TemplatesTypeOK
<1>2. r \in TplCall /\ r.kind = "status" /\ r.tpl = u /\ r.at = "sent"
  BY Asks DEF Ask
<1>3. tplCalls' = Append(tplCalls, r)
  BY DEF PollTemplate
<1> HIDE DEF r
<1>4. CallsMove(0, {r})
  BY <1>1, <1>2, <1>3, MovesSent DEF CallsMove
<1>5. \A t \in Templates, v \in Visits :
         chain'[v][t] = IF v = w /\ t = u THEN "busy" ELSE chain[v][t]
  BY <1>1 DEF PollTemplate
<1>6. made[u] # "none"
  BY OfTemplate DEF PollTemplate, Unknown
<1>7. ASSUME NEW t \in Templates \ stray' PROVE TemplateFollowed(t)'
  <2>1. TemplateFollowed(t)
    BY <1>7, OfTemplate DEF PollTemplate
  <2>2. chain[visit][t] # "off" => chain'[visit][t] # "off"
    BY <1>1, <1>5
  <2> QED
    BY <1>4, <2>1, <2>2, AnotherTemplate DEF PollTemplate
<1>8. \A t \in Templates : made[t] = "none" =>
         /\ tracked'[t] = "none" /\ rows'[t] = "absent"
         /\ \A v \in Visits : chain'[v][t] = "off"
  BY <1>5, <1>6, OfTemplate DEF PollTemplate, Unknown
<1> QED
  BY <1>2, <1>4, <1>6, <1>7, <1>8, TruthMoves DEF PollTemplate

\* Request i becomes r, which asks the same.
Becomes(i, r) ==
    /\ i \in 1..Len(tplCalls) /\ tplCalls \in Seq(TplCall)
    /\ tplCalls' = [tplCalls EXCEPT ![i] = r]
    /\ r.kind = tplCalls[i].kind /\ r.tpl = tplCalls[i].tpl
    /\ r.visit = tplCalls[i].visit

\* What stays of the requests when one of them changes.
LEMMA Became ==
    ASSUME NEW i, NEW r, Becomes(i, r), NEW t
    PROVE  /\ Len(tplCalls') = Len(tplCalls)
           /\ \A k \in 1..Len(tplCalls) :
                 tplCalls'[k] = IF k = i THEN r ELSE tplCalls[k]
           /\ \A k \in 1..Len(tplCalls) :
                 /\ tplCalls'[k].kind = tplCalls[k].kind
                 /\ tplCalls'[k].tpl = tplCalls[k].tpl
                 /\ tplCalls'[k].visit = tplCalls[k].visit
           /\ visit' = visit /\ RowsComing => RowsComing'
           /\ BeingCreated(t) <=> BeingCreated(t)'
<1>1. /\ Len(tplCalls') = Len(tplCalls)
      /\ \A k \in 1..Len(tplCalls) :
            tplCalls'[k] = IF k = i THEN r ELSE tplCalls[k]
  BY DEF Becomes
<1>2. \A k \in 1..Len(tplCalls) :
         /\ tplCalls'[k].kind = tplCalls[k].kind
         /\ tplCalls'[k].tpl = tplCalls[k].tpl
         /\ tplCalls'[k].visit = tplCalls[k].visit
  BY <1>1 DEF Becomes
<1> QED
  BY <1>1, <1>2 DEF RowsComing, BeingCreated

\* A request, or its answer, is lost.
LEMMA LoseFollowed ==
    ASSUME TemplatesAssumption, TemplatesInv, TemplatesInv',
           tplNet.inorder, TemplatesFollowed,
           NEW i \in 1..Len(tplCalls), LoseTemplateCall(i)
    PROVE  TemplatesFollowed'
<1> DEFINE c == tplCalls[i]
           q == Ask(c.kind, c.tpl, c.visit)
           r == [q EXCEPT !.at = "failed"]
<1>1. /\ r.kind = c.kind /\ r.tpl = c.tpl /\ r.visit = c.visit /\ r.at = "failed"
      /\ tplCalls' = [tplCalls EXCEPT ![i] = r]
  BY DEF LoseTemplateCall, Ask
<1> HIDE DEF r
<1>2. Becomes(i, r)
  BY <1>1 DEF Becomes, TemplatesInv, TemplatesTypeOK
<1>3. /\ Len(tplCalls') = Len(tplCalls)
      /\ \A k \in 1..Len(tplCalls) :
            tplCalls'[k] = IF k = i THEN r ELSE tplCalls[k]
      /\ \A k \in 1..Len(tplCalls) : tplCalls'[k].kind = tplCalls[k].kind
                                     /\ tplCalls'[k].tpl = tplCalls[k].tpl
  BY <1>2, Became
<1>4. UNCHANGED <<tplNet, made, tplJob, visit, mounted, rows, tracked, chain,
                  blanked, stray>>
  BY DEF LoseTemplateCall
<1>5. ServedInOrder'
  BY <1>1, <1>3, OfTemplate DEF TemplatesFollowed, ServedInOrder
<1>6. \A k \in 1..Len(tplCalls) : tplCalls'[k].at # "failed" => tplCalls'[k] = tplCalls[k]
  BY <1>1, <1>3
<1>7. ASSUME NEW t \in Templates PROVE TemplateTrue(t)'
  <2>1. RowsTrue(t) /\ FailureTrue(t) /\ Unknown(t) /\ CreatedOnce(t)
    BY OfTemplate
  <2>2. \A k \in 1..Len(tplCalls) :
           /\ Lists(k)' => Lists(k) /\ tplCalls'[k] = tplCalls[k]
           /\ StatusTold(k, t)' => StatusTold(k, t) /\ tplCalls'[k] = tplCalls[k]
    BY <1>6 DEF Lists, StatusTold
  <2>3. RowsTrue(t)'
    BY <1>3, <1>4, <2>1, <2>2 DEF RowsTrue
  <2>4. FailureTrue(t)'
    BY <1>3, <1>4, <2>1, <2>2 DEF FailureTrue
  <2>5. Unknown(t)'
    BY <1>3, <1>4, <1>6, <2>1 DEF Unknown
  <2>6. CreatedOnce(t)'
    BY <1>3, <1>4, <1>6, <2>1 DEF CreatedOnce
  <2> QED
    BY <2>3, <2>4, <2>5, <2>6 DEF TemplateTrue
<1>8. ASSUME NEW t \in Templates \ stray' PROVE TemplateFollowed(t)'
  <2>1. TemplateFollowed(t)
    BY <1>4, <1>8, OfTemplate
  <2>2. /\ RowsComing => RowsComing'
        /\ BeingCreated(t) <=> BeingCreated(t)'
    BY <1>2, <1>4, Became
  <2>3. \A k \in 1..Len(tplCalls) : Lists(k)' => Lists(k) /\ tplCalls'[k] = tplCalls[k]
    BY <1>6 DEF Lists
  <2>4. Tracked(t)'
    BY <1>3, <1>4, <2>1, <2>2, <2>3 DEF TemplateFollowed, Tracked
  <2>5. WillShow(t)'
    BY <1>4, <2>1, <2>2 DEF TemplateFollowed, WillShow
  <2> QED
    BY <2>4, <2>5 DEF TemplateFollowed
<1> QED
  BY <1>5, <1>7, <1>8 DEF TemplatesFollowed

\* A template's job: it marks it ready, it ends, and its result expires.
LEMMA JobFollowed ==
    ASSUME TemplatesAssumption, TemplatesInv, TemplatesInv',
           tplNet.inorder, TemplatesFollowed, NEW u \in Templates,
           MarkTemplateReady(u) \/ EndTemplateJob(u) \/ ExpireTemplateJob(u)
    PROVE  TemplatesFollowed'
<1>1. UNCHANGED <<tplNet, visit, mounted, rows, tracked, chain, tplCalls, blanked>>
  BY DEF MarkTemplateReady, EndTemplateJob, ExpireTemplateJob
<1>2. /\ made \in [Templates -> MadeStates] /\ tplJob \in [Templates -> JobStates]
      /\ stray \subseteq stray'
  BY DEF MarkTemplateReady, EndTemplateJob, ExpireTemplateJob, TemplatesInv,
     TemplatesTypeOK
<1>3. /\ \A t \in Templates \ {u} : made'[t] = made[t] /\ tplJob'[t] = tplJob[t]
      /\ made[u] # "none" /\ made'[u] # "none"
      /\ tplJob[u] # "none" /\ tplJob'[u] # "none"
      /\ \/ /\ tplJob[u] = "queued" /\ tplJob'[u] = "queued"
            /\ made[u] = "building" /\ made'[u] = "ready"
         \/ /\ tplJob[u] = "queued" /\ made'[u] = made[u]
            /\ tplJob'[u] = "done"
         \/ /\ tplJob[u] = "queued" /\ made'[u] = made[u]
            /\ tplJob'[u] = "failed" /\ (made[u] = "building" \/ u \in stray')
         \/ /\ tplJob[u] \in {"done", "failed"} /\ made'[u] = made[u]
            /\ tplJob'[u] = "gone"
  <2>1. made[u] \in MadeStates /\ (made[u] = "none" <=> tplJob[u] = "none")
    BY OfTemplate DEF Unknown
  <2>2. CASE MarkTemplateReady(u)
    BY <1>2, <2>1, <2>2 DEF MarkTemplateReady
  <2>3. CASE EndTemplateJob(u)
    BY <1>2, <2>1, <2>3 DEF EndTemplateJob, MadeStates
  <2>4. CASE ExpireTemplateJob(u)
    BY <1>2, <2>1, <2>4 DEF ExpireTemplateJob
  <2> QED
    BY <2>2, <2>3, <2>4
<1>4. \A i : Lists(i)' <=> Lists(i)
  BY <1>1 DEF Lists
<1>5. \A i, t : StatusTold(i, t)' <=> StatusTold(i, t)
  BY <1>1 DEF StatusTold
<1>6. ServedInOrder'
  BY <1>1, OfTemplate DEF TemplatesFollowed, ServedInOrder
<1>7. ASSUME NEW t \in Templates PROVE TemplateTrue(t)'
  <2>1. RowsTrue(t) /\ FailureTrue(t) /\ Unknown(t) /\ CreatedOnce(t)
    BY OfTemplate
  <2>2. /\ made[t] # "none" => made'[t] # "none"
        /\ made[t] = "ready" => made'[t] = "ready"
        /\ made[t] = "none" => made'[t] = "none"
        /\ made'[t] = "none" <=> tplJob'[t] = "none"
    BY <1>3, <2>1 DEF Unknown
  <2>3. /\ tplJob'[t] = "failed" => made'[t] = "building" \/ t \in stray'
        /\ tplJob[t] \in {"failed", "gone"} /\ (made[t] = "building" \/ t \in stray)
              => /\ tplJob'[t] \in {"failed", "gone"}
                 /\ made'[t] = "building" \/ t \in stray'
    BY <1>2, <1>3, <2>1 DEF FailureTrue
  <2>4. RowsTrue(t)'
    BY <1>1, <1>4, <2>1, <2>2 DEF RowsTrue
  <2>5. FailureTrue(t)'
    BY <1>1, <1>5, <2>1, <2>3 DEF FailureTrue
  <2>6. Unknown(t)' /\ CreatedOnce(t)'
    BY <1>1, <2>1, <2>2 DEF Unknown, CreatedOnce
  <2> QED
    BY <2>4, <2>5, <2>6 DEF TemplateTrue
<1>8. ASSUME NEW t \in Templates \ stray' PROVE TemplateFollowed(t)'
  <2>1. TemplateFollowed(t) /\ Unknown(t)
    BY <1>2, <1>8, OfTemplate
  <2>2. /\ RowsComing <=> RowsComing'
        /\ BeingCreated(t) <=> BeingCreated(t)'
    BY <1>1 DEF RowsComing, BeingCreated
  <2>3. /\ made'[t] # "none" => made[t] # "none"
        /\ made[t] = "ready" => made'[t] = "ready"
    BY <1>3
  <2>4. Tracked(t)'
    BY <1>1, <1>4, <2>1, <2>2, <2>3 DEF TemplateFollowed, Tracked
  <2>5. made[t] = "building" /\ tplJob[t] # "queued"
           => made'[t] = "building" /\ tplJob'[t] # "queued"
    BY <1>3
  <2>6. WillShow(t)'
    BY <1>1, <2>1, <2>2, <2>3, <2>5 DEF TemplateFollowed, WillShow
  <2> QED
    BY <2>4, <2>6 DEF TemplateFollowed
<1> QED
  BY <1>6, <1>7, <1>8 DEF TemplatesFollowed

\* The server serves a request: no later one has been served.
LEMMA ServeTplFollowed ==
    ASSUME TemplatesAssumption, TemplatesInv, TemplatesInv',
           tplNet.inorder, TemplatesFollowed,
           NEW i \in 1..Len(tplCalls), ServeTemplate(i)
    PROVE  TemplatesFollowed'
<1> DEFINE c == tplCalls[i]
           r == [c EXCEPT
                   !.at = IF c.kind = "status" /\ tplJob[c.tpl] = "gone"
                          THEN "failed" ELSE "ok",
                   !.saw = IF c.kind \in {"rows", "load"} THEN made ELSE c.saw,
                   !.said = IF c.kind = "status" THEN tplJob[c.tpl] ELSE c.said]
<1>1. /\ c \in TplCall /\ c.at = "sent" /\ (c.kind # "rows" => c.tpl \in Templates)
      /\ \A j \in 1..(i - 1) : tplCalls[j].at # "sent"
      /\ tplCalls \in Seq(TplCall) /\ Len(tplCalls) \in Nat
      /\ made \in [Templates -> MadeStates] /\ tplJob \in [Templates -> JobStates]
  BY DEF ServeTemplate, TemplatesInv, TemplatesTypeOK, TplShaped
<1>2. tplCalls' = [tplCalls EXCEPT ![i] = r]
  BY DEF ServeTemplate
<1>3. /\ r.kind = c.kind /\ r.tpl = c.tpl /\ r.visit = c.visit
      /\ r.at # "sent"
      /\ c.kind = "create" => r.at = "ok"
      /\ c.kind \in {"rows", "load"} => r.saw = made
      /\ c.kind = "status" /\ r.at = "ok" => tplJob[c.tpl] # "gone"
      /\ c.kind = "status" => r.said = tplJob[c.tpl]
  BY <1>1 DEF TplCall
<1> HIDE DEF r
<1>4. Becomes(i, r)
  BY <1>1, <1>2, <1>3 DEF Becomes
<1>5. /\ Len(tplCalls') = Len(tplCalls)
      /\ \A k \in 1..Len(tplCalls) :
            tplCalls'[k] = IF k = i THEN r ELSE tplCalls[k]
      /\ \A k \in 1..Len(tplCalls) : tplCalls'[k].kind = tplCalls[k].kind
                                     /\ tplCalls'[k].tpl = tplCalls[k].tpl
  BY <1>4, Became
<1>6. UNCHANGED <<tplNet, visit, mounted, rows, tracked, chain, blanked, stray>>
  BY DEF ServeTemplate
<1>7. \A t \in Templates :
         /\ made'[t] = IF c.kind = "create" /\ c.tpl = t THEN "building" ELSE made[t]
         /\ tplJob'[t] = IF c.kind = "create" /\ c.tpl = t THEN "queued" ELSE tplJob[t]
         /\ c.kind = "create" /\ c.tpl = t => made[t] = "none" /\ tplJob[t] = "none"
  <2>1. \A t \in Templates :
           /\ made'[t] = IF c.kind = "create" /\ c.tpl = t THEN "building" ELSE made[t]
           /\ tplJob'[t] = IF c.kind = "create" /\ c.tpl = t THEN "queued" ELSE tplJob[t]
    BY <1>1 DEF ServeTemplate
  <2>2. \A t \in Templates : CreatedOnce(t) /\ Unknown(t)
    BY OfTemplate
  <2>3. \A t \in Templates :
           c.kind = "create" /\ c.tpl = t => made[t] = "none" /\ tplJob[t] = "none"
    BY <1>1, <2>2 DEF CreatedOnce, Unknown
  <2> QED
    BY <2>1, <2>3
<1> HIDE DEF c
<1>8. \A k \in 1..Len(tplCalls) : k > i => tplCalls[k].at # "ok"
  <2>1. ServedInOrder
    BY DEF TemplatesFollowed
  <2> QED
    BY <1>1, <2>1 DEF ServedInOrder, c
<1>9. ServedInOrder'
  <2>1. ServedInOrder
    BY DEF TemplatesFollowed
  <2>2. \A j, k \in 1..Len(tplCalls) : j < k /\ tplCalls'[k].at = "ok" => tplCalls'[j].at # "sent"
    <3>1. \A j \in 1..Len(tplCalls) : j < i => j \in 1..(i - 1)
      BY <1>1
    <3> QED
      BY <1>1, <1>3, <1>5, <2>1, <3>1 DEF ServedInOrder
  <2> QED
    BY <1>5, <2>2 DEF ServedInOrder
<1>10. ASSUME NEW t \in Templates PROVE TemplateTrue(t)'
  <2>1. RowsTrue(t) /\ FailureTrue(t) /\ Unknown(t) /\ CreatedOnce(t)
    BY OfTemplate
  <2>2. \A k \in 1..Len(tplCalls) :
           Lists(k)' => IF k = i THEN tplCalls'[k].saw[t] = made[t]
                                 ELSE Lists(k) /\ tplCalls'[k] = tplCalls[k]
    BY <1>3, <1>5 DEF Lists
  <2>3. \A k \in 1..Len(tplCalls) : StatusTold(k, t)' =>
           IF k = i THEN /\ c.kind = "status" /\ c.tpl = t
                         /\ tplCalls'[k].said = tplJob[t] /\ tplJob[t] # "gone"
                    ELSE StatusTold(k, t) /\ tplCalls'[k] = tplCalls[k]
    BY <1>3, <1>5 DEF StatusTold
  <2>4. /\ \A k \in 1..Len(tplCalls) : Lists(k) => tplCalls[k].at = "ok"
        /\ \A k \in 1..Len(tplCalls) : StatusTold(k, t) => tplCalls[k].at = "ok"
    BY DEF Lists, StatusTold
  <2>5. RowsTrue(t)'
    <3>1. \A k \in 1..Len(tplCalls) : Lists(k)' =>
             /\ tplCalls'[k].saw[t] # "none" => made'[t] # "none"
             /\ tplCalls'[k].saw[t] = "ready" => made'[t] = "ready"
      BY <1>7, <2>1, <2>2 DEF RowsTrue
    <3>2. \A j, k \in 1..Len(tplCalls) :
             j < k /\ Lists(j)' /\ Lists(k)' /\ tplCalls'[j].saw[t] = "ready"
                => tplCalls'[k].saw[t] = "ready"
      BY <1>1, <1>8, <2>1, <2>2, <2>4 DEF RowsTrue
    <3> QED
      BY <1>5, <3>1, <3>2 DEF RowsTrue
  <2>6. ASSUME c.kind = "create" /\ c.tpl = t PROVE FailureTrue(t)'
    <3>1. /\ made[t] = "none" /\ tplJob[t] = "none"
          /\ made'[t] = "building" /\ tplJob'[t] = "queued"
      BY <1>7, <2>6
    <3>2. /\ tracked'[t] = "none"
          /\ \A k \in 1..Len(tplCalls) : ~StatusTold(k, t)
      BY <1>6, <2>1, <3>1 DEF Unknown, StatusTold
    <3>3. \A k \in 1..Len(tplCalls) : ~StatusTold(k, t)'
      BY <2>3, <2>6, <3>2
    <3> QED
      BY <1>5, <3>1, <3>2, <3>3 DEF FailureTrue
  <2>7. ASSUME ~(c.kind = "create" /\ c.tpl = t) PROVE FailureTrue(t)'
    <3>1. made'[t] = made[t] /\ tplJob'[t] = tplJob[t]
      BY <1>7, <2>7
    <3>2. \A k \in 1..Len(tplCalls) : StatusTold(k, t)' /\ tplCalls'[k].said = "failed" =>
             tplJob[t] \in {"failed", "gone"} /\ (made[t] = "building" \/ t \in stray)
      BY <2>1, <2>3 DEF FailureTrue
    <3>3. tracked[t] = "failed" =>
             \A k \in 1..Len(tplCalls) : StatusTold(k, t)' => tplCalls'[k].said # "queued"
      BY <2>1, <2>3 DEF FailureTrue
    <3>4. \A j, k \in 1..Len(tplCalls) :
             j < k /\ StatusTold(j, t)' /\ StatusTold(k, t)' /\ tplCalls'[j].said = "failed"
                => tplCalls'[k].said # "queued"
      BY <1>1, <1>8, <2>1, <2>3, <2>4, <3>2 DEF FailureTrue
    <3> QED
      BY <1>5, <1>6, <2>1, <3>1, <3>2, <3>3, <3>4 DEF FailureTrue
  <2>8. Unknown(t)'
    <3>1. made'[t] = "none" => made[t] = "none" /\ ~(c.kind = "create" /\ c.tpl = t)
      BY <1>7
    <3>2. made'[t] = "none" <=> tplJob'[t] = "none"
      BY <1>7, <2>1 DEF Unknown
    <3>3. ASSUME made'[t] = "none", NEW k \in 1..Len(tplCalls), tplCalls'[k].tpl = t
          PROVE  tplCalls'[k].kind = "create" /\ tplCalls'[k].at # "ok"
      <4>1. k # i
        BY <1>5, <2>1, <3>1, <3>3 DEF Unknown, c
      <4> QED
        BY <1>5, <2>1, <3>1, <3>3, <4>1 DEF Unknown
    <3> QED
      BY <1>5, <1>6, <2>1, <3>1, <3>2, <3>3 DEF Unknown
  <2>9. CreatedOnce(t)'
    <3>1. ASSUME NEW k \in 1..Len(tplCalls), tplCalls'[k].kind = "create",
                 tplCalls'[k].tpl = t, tplCalls'[k].at = "sent"
          PROVE  made'[t] = "none"
      <4>1. k # i /\ tplCalls'[k] = tplCalls[k] /\ made[t] = "none"
        BY <1>3, <1>5, <2>1, <3>1 DEF CreatedOnce
      <4>2. ~(c.kind = "create" /\ c.tpl = t)
        BY <2>1, <3>1, <4>1 DEF CreatedOnce, c
      <4> QED
        BY <1>7, <4>1, <4>2
    <3> QED
      BY <1>5, <2>1, <3>1 DEF CreatedOnce
  <2> QED
    BY <2>5, <2>6, <2>7, <2>8, <2>9 DEF TemplateTrue
<1>11. ASSUME NEW t \in Templates \ stray' PROVE TemplateFollowed(t)'
  <2>1. TemplateFollowed(t)
    BY <1>6, <1>11, OfTemplate
  <2>2. /\ RowsComing => RowsComing'
        /\ BeingCreated(t) <=> BeingCreated(t)'
    BY <1>4, <1>6, Became
  <2>3. c.kind = "create" /\ c.tpl = t => BeingCreated(t)
    BY DEF BeingCreated, c
  <2>4. \A k \in 1..Len(tplCalls) :
           Lists(k)' => IF k = i THEN tplCalls'[k].saw[t] = made[t]
                                 ELSE Lists(k) /\ tplCalls'[k] = tplCalls[k]
    BY <1>3, <1>5 DEF Lists
  <2>5. Tracked(t)'
    BY <1>5, <1>6, <1>7, <2>1, <2>2, <2>3, <2>4 DEF TemplateFollowed, Tracked
  <2>6. WillShow(t)'
    BY <1>6, <1>7, <2>1, <2>2, <2>3 DEF TemplateFollowed, WillShow
  <2> QED
    BY <2>5, <2>6 DEF TemplateFollowed
<1> QED
  BY <1>9, <1>10, <1>11 DEF TemplatesFollowed

\* The first request is answered: what its answer can be.
LEMMA FirstAnswered ==
    ASSUME TemplatesAssumption, TemplatesInv, TemplatesInv', 1 \in 1..Len(tplCalls)
    PROVE  /\ tplCalls[1] \in TplCall /\ tplCalls[1].visit \in Visits
           /\ tplCalls[1].kind # "rows" => tplCalls[1].tpl \in Templates
           /\ tplCalls' = Others(1) => CallsMove(1, {})
           /\ \A r \in TplCall : r.at = "sent" /\ tplCalls' = Append(Others(1), r)
                 => CallsMove(1, {r})
<1>1. tplCalls \in Seq(TplCall) /\ tplCalls' \in Seq(TplCall)
  BY DEF TemplatesInv, TemplatesTypeOK
<1>2. /\ tplCalls[1] \in TplCall
      /\ tplCalls[1].kind # "rows" => tplCalls[1].tpl \in Templates
  BY <1>1 DEF TemplatesInv, TplShaped
<1>3. tplCalls[1].visit \in Visits
  BY <1>2 DEF TplCall
<1>4. Others(1) = Leave(tplCalls, 1)
  BY DEF Others, Leave
<1>5. tplCalls' = Others(1) => CallsMove(1, {})
  BY <1>1, <1>4, MovesTaken DEF CallsMove
<1>6. ASSUME NEW r \in TplCall, r.at = "sent", tplCalls' = Append(Others(1), r)
      PROVE  CallsMove(1, {r})
  BY <1>1, <1>4, <1>6, MovesReplaced DEF CallsMove
<1> QED
  BY <1>2, <1>3, <1>5, <1>6

\* Rows that arrive show what became of each template, as long as the polling is
\* ended for none but those they show ready.
LEMMA RowsCame ==
    ASSUME TemplatesAssumption, TemplatesInv, TemplatesInv',
           tplNet.inorder, TemplatesFollowed, 1 \in 1..Len(tplCalls),
           tplCalls[1].kind \in {"rows", "load"}, tplCalls[1].at \in {"ok", "failed"},
           LoadRows(1), tplCalls' = Others(1),
           UNCHANGED <<tplNet, made, tplJob, visit, mounted, stray>>,
           \A t \in Templates : mounted /\ chain[visit][t] # "off" =>
              \/ chain'[visit][t] # "off"
              \/ Shown(tplCalls[1].visit) /\ Listed(1)[t] = "ready",
           \A t \in Templates, v \in Visits : made[t] = "none" =>
              chain'[v][t] = chain[v][t]
    PROVE  TemplatesFollowed'
<1>1. CallsMove(1, {})
  BY FirstAnswered
<1>2. \A t \in Templates :
         /\ Listed(1)[t] = "ready" <=> Lists(1) /\ tplCalls[1].saw[t] = "ready"
         /\ Listed(1)[t] # "none" => Lists(1) /\ tplCalls[1].saw[t] # "none"
  BY DEF Listed, Lists
<1>3. \A t \in Templates :
         /\ tracked'[t] = IF Listed(1)[t] = "ready" THEN "none" ELSE tracked[t]
         /\ Listed(1)[t] = "ready" => made[t] = "ready"
         /\ Listed(1)[t] # "none" => made[t] # "none"
  BY <1>2, RowsLoaded, OfTemplate DEF RowsTrue
<1>4. /\ Shown(tplCalls[1].visit) =>
            /\ blanked' = (tplCalls[1].at = "failed")
            /\ \A t \in Templates : rows'[t] =
                  IF Listed(1)[t] = "ready" THEN "connected"
                  ELSE IF tracked[t] # "none" THEN tracked[t]
                  ELSE IF Listed(1)[t] = "building" THEN "disconnected" ELSE "absent"
      /\ ~Shown(tplCalls[1].visit) => rows' = rows /\ blanked' = blanked
  <2>1. /\ Shown(tplCalls[1].visit) => rows' = Merged(Listed(1))
        /\ Shown(tplCalls[1].visit) => blanked' = (tplCalls[1].at = "failed")
        /\ ~Shown(tplCalls[1].visit) => rows' = rows /\ blanked' = blanked
    BY DEF LoadRows
  <2>2. ASSUME NEW t \in Templates
        PROVE  Merged(Listed(1))[t] =
                  IF Listed(1)[t] = "ready" THEN "connected"
                  ELSE IF tracked[t] # "none" THEN tracked[t]
                  ELSE IF Listed(1)[t] = "building" THEN "disconnected" ELSE "absent"
    BY DEF Merged
  <2> QED
    BY <2>1, <2>2
<1>5. ASSUME NEW t \in Templates \ stray' PROVE TemplateFollowed(t)'
  <2>1. TemplateFollowed(t) /\ RowsTrue(t) /\ FailureTrue(t)
    BY <1>5, OfTemplate
  <2>2. BeingCreated(t) => BeingCreated(t)'
    BY <1>1, AwaitMoves
  <2>3. mounted /\ ~Shown(tplCalls[1].visit) /\ RowsComing => RowsComing'
    BY <1>1, AwaitMoves DEF Shown
  <2>4. \A k \in 1..Len(tplCalls') : Lists(k)' =>
           \E j \in 1..Len(tplCalls) :
              j > 1 /\ Lists(j) /\ tplCalls'[k] = tplCalls[j]
    BY <1>1, AwaitMoves
  <2>5. tracked[t] \in {"none", "building", "failed"}
    BY OfTemplate
  <2>6. mounted' /\ tracked'[t] = "building" => chain'[visit'][t] # "off"
    BY <1>3, <2>1 DEF TemplateFollowed, Tracked
  <2>7. mounted' /\ tracked'[t] # "none" => rows'[t] # "absent" \/ RowsComing'
    <3>1. CASE Shown(tplCalls[1].visit)
      BY <1>3, <1>4, <2>5, <3>1
    <3>2. CASE ~Shown(tplCalls[1].visit)
      BY <1>3, <1>4, <2>1, <2>3, <3>2 DEF TemplateFollowed, Tracked
    <3> QED
      BY <3>1, <3>2
  <2>8. ASSUME tracked'[t] = "none", made'[t] # "none", ~BeingCreated(t)'
        PROVE  /\ made'[t] = "ready"
               /\ \A k \in 1..Len(tplCalls') : Lists(k)' => tplCalls'[k].saw[t] = "ready"
    <3>1. CASE Listed(1)[t] = "ready"
      <4>1. Lists(1) /\ tplCalls[1].saw[t] = "ready" /\ made[t] = "ready"
        BY <1>2, <1>3, <3>1
      <4>2. \A j \in 1..Len(tplCalls) :
               j > 1 /\ Lists(j) => tplCalls[j].saw[t] = "ready"
        BY <2>1, <4>1 DEF RowsTrue
      <4> QED
        BY <2>4, <4>1, <4>2
    <3>2. CASE Listed(1)[t] # "ready"
      <4>1. tracked[t] = "none" /\ made[t] # "none" /\ ~BeingCreated(t)
        BY <1>3, <2>2, <2>8, <3>2
      <4> QED
        BY <2>1, <2>4, <4>1 DEF TemplateFollowed, Tracked
    <3> QED
      BY <3>1, <3>2
  <2>9. WillShow(t)'
    <3>1. CASE mounted /\ made[t] # "none" /\ Shown(tplCalls[1].visit)
               /\ tplCalls[1].at = "failed"
      BY <1>4, <3>1 DEF WillShow
    <3>2. CASE Shown(tplCalls[1].visit) /\ Listed(1)[t] = "ready"
      BY <1>3, <1>4, <3>2 DEF WillShow
    <3>3. CASE /\ mounted /\ made[t] # "none" /\ Shown(tplCalls[1].visit)
               /\ tplCalls[1].at = "ok" /\ Listed(1)[t] # "ready"
      <4>1. chain[visit][t] # "off" => chain'[visit][t] # "off"
        BY <3>3
      <4>2. CASE tracked[t] = "building"
        BY <2>1, <3>3, <4>1, <4>2 DEF TemplateFollowed, Tracked, WillShow
      <4>3. CASE tracked[t] = "failed"
        <5>1. /\ tplJob[t] # "queued" /\ made[t] = "building"
              /\ rows'[t] = "failed"
          BY <1>4, <1>5, <2>1, <3>3, <4>3 DEF FailureTrue
        <5> QED
          BY <5>1 DEF WillShow
      <4>4. CASE tracked[t] = "none"
        <5>1. Lists(1) /\ tplCalls[1].saw[t] # "ready"
          BY <1>2, <3>3 DEF Lists
        <5>2. BeingCreated(t)
          BY <2>1, <3>3, <4>4, <5>1 DEF TemplateFollowed, Tracked
        <5> QED
          BY <2>2, <5>2 DEF WillShow
      <4> QED
        BY <2>5, <4>2, <4>3, <4>4
    <3>4. CASE mounted /\ ~Shown(tplCalls[1].visit)
      <4>1. /\ chain[visit][t] # "off" => chain'[visit][t] # "off"
            /\ rows' = rows /\ blanked' = blanked
        BY <1>4, <3>4
      <4> QED
        BY <2>1, <2>2, <2>3, <3>4, <4>1 DEF TemplateFollowed, WillShow
    <3>5. CASE ~(mounted /\ made[t] # "none")
      BY <3>5 DEF WillShow
    <3> QED
      BY <3>1, <3>2, <3>3, <3>4, <3>5
  <2> QED
    BY <2>6, <2>7, <2>8, <2>9 DEF TemplateFollowed, Tracked
<1>6. \A t \in Templates : made[t] = "none" =>
         /\ tracked'[t] = "none" /\ rows'[t] = "absent"
         /\ \A v \in Visits : chain'[v][t] = "off"
  BY <1>3, <1>4, OfTemplate DEF Unknown
<1>7. \A t \in Templates : tracked'[t] = "failed" => tracked[t] = "failed"
  BY <1>3
<1> QED
  BY <1>1, <1>5, <1>6, <1>7, TruthMoves

\* The rows the page asked for arrive.
LEMMA RowsAnsweredFollowed ==
    ASSUME TemplatesAssumption, TemplatesInv, TemplatesInv',
           tplNet.inorder, TemplatesFollowed,
           NEW i \in 1..Len(tplCalls), RowsAnswered(i)
    PROVE  TemplatesFollowed'
<1>1. /\ i = 1 /\ tplCalls[1].kind \in {"rows", "load"}
      /\ tplCalls[1].at \in {"ok", "failed"}
  BY DEF RowsAnswered, Arrives
<1>2. /\ LoadRows(1) /\ tplCalls' = Others(1)
      /\ UNCHANGED <<tplNet, made, tplJob, visit, mounted, chain, stray>>
  BY <1>1 DEF RowsAnswered
<1> QED
  BY <1>1, <1>2, RowsCame

\* The rows a chain asked for arrive: it ends if its template is ready.
LEMMA LoadAnsweredFollowed ==
    ASSUME TemplatesAssumption, TemplatesInv, TemplatesInv',
           tplNet.inorder, TemplatesFollowed,
           NEW i \in 1..Len(tplCalls), LoadAnswered(i)
    PROVE  TemplatesFollowed'
<1> DEFINE u == tplCalls[1].tpl
           w == tplCalls[1].visit
<1>1. /\ i = 1 /\ tplCalls[1].kind = "load"
      /\ tplCalls[1].at \in {"ok", "failed"}
  BY DEF LoadAnswered, Arrives
<1>2. /\ LoadRows(1) /\ tplCalls' = Others(1)
      /\ UNCHANGED <<tplNet, made, tplJob, visit, mounted, stray>>
      /\ chain' = [chain EXCEPT ![w][u] =
                      IF Listed(1)[u] = "ready" THEN "off" ELSE "timer"]
  BY <1>1 DEF LoadAnswered
<1>3. /\ u \in Templates /\ w \in Visits /\ visit \in Visits
      /\ chain \in [Visits -> [Templates -> {"off", "timer", "busy"}]]
  BY <1>1, FirstAnswered DEF TemplatesInv, TemplatesTypeOK
<1>4. made[u] # "none"
  BY <1>1, <1>3, OfTemplate DEF Unknown
<1> HIDE DEF u, w
<1>5. \A t \in Templates, v \in Visits : chain'[v][t] =
         IF v = w /\ t = u THEN IF Listed(1)[t] = "ready" THEN "off" ELSE "timer"
                           ELSE chain[v][t]
  BY <1>2, <1>3
<1>6. \A t \in Templates : mounted /\ chain[visit][t] # "off" =>
         \/ chain'[visit][t] # "off"
         \/ Shown(w) /\ Listed(1)[t] = "ready"
  BY <1>3, <1>5 DEF Shown
<1>7. \A t \in Templates, v \in Visits : made[t] = "none" =>
         chain'[v][t] = chain[v][t]
  BY <1>4, <1>5
<1> QED
  BY <1>1, <1>2, <1>6, <1>7, RowsCame DEF w

\* A creation is answered: the template is shown, tracked and polled, or given
\* up.
LEMMA CreateAnsweredFollowed ==
    ASSUME TemplatesAssumption, TemplatesInv, TemplatesInv',
           tplNet.inorder, TemplatesFollowed,
           NEW i \in 1..Len(tplCalls), CreateAnswered(i)
    PROVE  TemplatesFollowed'
<1> DEFINE u == tplCalls[1].tpl
           w == tplCalls[1].visit
<1>1. /\ i = 1 /\ tplCalls[1].kind = "create" /\ tplCalls' = Others(1)
      /\ UNCHANGED <<tplNet, made, tplJob, visit, mounted, blanked>>
  BY DEF CreateAnswered, Arrives
<1>2. \/ /\ tplCalls[1].at = "ok"
         /\ tracked' = [tracked EXCEPT ![u] = "building"]
         /\ chain' = [chain EXCEPT ![w][u] = "timer"]
         /\ rows' = IF Shown(w) THEN [rows EXCEPT ![u] = "building"] ELSE rows
         /\ stray' = IF Shown(w) THEN stray ELSE stray \cup {u}
      \/ /\ stray' = stray \cup {u}
         /\ UNCHANGED <<tracked, chain, rows>>
  BY <1>1 DEF CreateAnswered, Arrives
<1>3. /\ u \in Templates /\ w \in Visits /\ visit \in Visits
      /\ chain \in [Visits -> [Templates -> {"off", "timer", "busy"}]]
      /\ tracked \in [Templates -> {"none", "building", "failed"}]
      /\ rows \in [Templates -> RowStates]
      /\ CallsMove(1, {})
  BY <1>1, FirstAnswered DEF TemplatesInv, TemplatesTypeOK
<1>4. tplCalls[1].at = "ok" => made[u] # "none"
  BY <1>1, <1>3, OfTemplate DEF Unknown
<1> HIDE DEF u, w
<1>5. \A t \in Templates \ {u} :
         /\ tracked'[t] = tracked[t] /\ rows'[t] = rows[t]
         /\ \A v \in Visits : chain'[v][t] = chain[v][t]
  BY <1>2, <1>3
<1>6. \A t \in Templates \ stray' : t \notin stray
  BY <1>2
<1>7. ASSUME NEW t \in Templates \ stray' PROVE TemplateFollowed(t)'
  <2>1. TemplateFollowed(t)
    BY <1>6, <1>7, OfTemplate
  <2>2. CASE t # u
    BY <1>1, <1>3, <1>5, <2>1, <2>2, AnotherTemplate DEF u
  <2>3. CASE t = u
    <3>1. /\ Shown(w) /\ tracked'[t] = "building" /\ rows'[t] = "building"
          /\ chain'[visit][t] = "timer"
      BY <1>2, <1>3, <1>7, <2>3 DEF Shown
    <3> QED
      BY <1>1, <3>1 DEF TemplateFollowed, Tracked, WillShow
  <2> QED
    BY <2>2, <2>3
<1>8. \A t \in Templates : made[t] = "none" =>
         /\ tracked'[t] = "none" /\ rows'[t] = "absent"
         /\ \A v \in Visits : chain'[v][t] = "off"
  <2>1. ASSUME NEW t \in Templates, made[t] = "none"
        PROVE  /\ tracked'[t] = tracked[t] /\ rows'[t] = rows[t]
               /\ \A v \in Visits : chain'[v][t] = chain[v][t]
    BY <1>2, <1>4, <1>5, <2>1
  <2> QED
    BY <2>1, OfTemplate DEF Unknown
<1>9. \A t \in Templates : tracked'[t] = "failed" => tracked[t] = "failed"
  BY <1>2, <1>3
<1>10. stray \subseteq stray'
  BY <1>2
<1> QED
  BY <1>1, <1>3, <1>7, <1>8, <1>9, <1>10, TruthMoves

\* The chain asks for the rows, or sets its timer when its request failed.
LEMMA ChainGoesOn ==
    ASSUME TemplatesAssumption, TemplatesInv, TemplatesInv',
           tplNet.inorder, TemplatesFollowed, 1 \in 1..Len(tplCalls),
           tplCalls[1].kind = "status", NEW sent, CallsMove(1, sent),
           \A r \in sent : r.kind = "load" /\ r.tpl = tplCalls[1].tpl,
           UNCHANGED <<tplNet, made, tplJob, visit, mounted, blanked, stray>>,
           UNCHANGED <<rows, tracked>>,
           chain' = chain
           \/ chain' = [chain EXCEPT ![tplCalls[1].visit][tplCalls[1].tpl] = "timer"]
    PROVE  TemplatesFollowed'
<1> DEFINE u == tplCalls[1].tpl
           w == tplCalls[1].visit
<1>1. /\ u \in Templates /\ w \in Visits /\ visit \in Visits
      /\ chain \in [Visits -> [Templates -> {"off", "timer", "busy"}]]
  BY FirstAnswered DEF TemplatesInv, TemplatesTypeOK
<1>2. made[u] # "none"
  BY <1>1, OfTemplate DEF Unknown
<1>3. \A r \in sent : r.kind = "load" /\ r.tpl = u
  OBVIOUS
<1> HIDE DEF u, w
<1>4. \A t \in Templates, v \in Visits :
         chain'[v][t] = chain[v][t] \/ (t = u /\ chain'[v][t] = "timer")
  <2>1. chain' = chain \/ chain' = [chain EXCEPT ![w][u] = "timer"]
    BY DEF u, w
  <2> QED
    BY <1>1, <2>1
<1>5. ASSUME NEW t \in Templates \ stray' PROVE TemplateFollowed(t)'
  <2>1. TemplateFollowed(t)
    BY <1>5, OfTemplate
  <2>2. chain[visit][t] # "off" => chain'[visit][t] # "off"
    BY <1>1, <1>4
  <2> QED
    BY <2>1, <2>2, AnotherTemplate
<1>6. \A t \in Templates : made[t] = "none" =>
         /\ tracked'[t] = "none" /\ rows'[t] = "absent"
         /\ \A v \in Visits : chain'[v][t] = "off"
  BY <1>2, <1>4, OfTemplate DEF Unknown
<1> QED
  BY <1>2, <1>3, <1>5, <1>6, TruthMoves

\* The chain learns that the job failed, or that it has not ended.
LEMMA ChainLearns ==
    ASSUME TemplatesAssumption, TemplatesInv, TemplatesInv',
           tplNet.inorder, TemplatesFollowed, 1 \in 1..Len(tplCalls),
           NEW u \in Templates, NEW w \in Visits, StatusTold(1, u),
           w = tplCalls[1].visit, tplCalls' = Others(1),
           UNCHANGED <<tplNet, made, tplJob, visit, mounted, blanked, stray>>,
           \/ /\ tplCalls[1].said = "failed"
              /\ rows' = IF Shown(w) /\ rows[u] # "absent"
                         THEN [rows EXCEPT ![u] = "failed"] ELSE rows
              /\ tracked' = Noted(u, "failed")
              /\ chain' = [chain EXCEPT ![w][u] = "off"]
           \/ /\ tplCalls[1].said = "queued"
              /\ tracked' = Noted(u, "building")
              /\ chain' = [chain EXCEPT ![w][u] = "timer"]
              /\ rows' = rows
    PROVE  TemplatesFollowed'
<1>1. /\ visit \in Visits
      /\ chain \in [Visits -> [Templates -> {"off", "timer", "busy"}]]
      /\ tracked \in [Templates -> {"none", "building", "failed"}]
      /\ rows \in [Templates -> RowStates]
  BY DEF TemplatesInv, TemplatesTypeOK
<1>2. CallsMove(1, {})
  BY FirstAnswered
<1>3. made[u] # "none" /\ FailureTrue(u)
  BY OfTemplate DEF Unknown, StatusTold
<1>4. \A t \in Templates \ {u} :
         /\ tracked'[t] = tracked[t] /\ rows'[t] = rows[t]
         /\ \A v \in Visits : chain'[v][t] = chain[v][t]
  BY <1>1 DEF Noted
<1>5. \/ /\ tplCalls[1].said = "failed"
         /\ rows'[u] = IF Shown(w) /\ rows[u] # "absent" THEN "failed" ELSE rows[u]
         /\ tracked'[u] = IF tracked[u] = "none" THEN "none" ELSE "failed"
         /\ chain'[w][u] = "off"
      \/ /\ tplCalls[1].said = "queued" /\ rows'[u] = rows[u]
         /\ tracked'[u] = IF tracked[u] = "none" THEN "none" ELSE "building"
         /\ chain'[w][u] = "timer"
  BY <1>1 DEF Noted
<1>6. \A v \in Visits \ {w} : chain'[v][u] = chain[v][u]
  BY <1>1
<1>7. ASSUME NEW t \in Templates \ stray' PROVE TemplateFollowed(t)'
  <2>1. TemplateFollowed(t)
    BY <1>7, OfTemplate
  <2>2. CASE t # u
    BY <1>1, <1>2, <1>4, <2>1, <2>2, AnotherTemplate DEF StatusTold
  <2>3. CASE t = u
    <3>1. /\ BeingCreated(u) => BeingCreated(u)'
          /\ RowsComing => RowsComing'
      BY <1>2, AwaitMoves DEF StatusTold
    <3>2. \A k \in 1..Len(tplCalls') : Lists(k)' =>
             \E j \in 1..Len(tplCalls) : Lists(j) /\ tplCalls'[k] = tplCalls[j]
      BY <1>2, AwaitMoves
    <3>3. /\ tracked'[u] = "none" <=> tracked[u] = "none"
          /\ rows[u] # "absent" => rows'[u] # "absent"
      BY <1>5
    <3>4. mounted' /\ tracked'[u] = "building" => chain'[visit'][u] # "off"
      <4>1. CASE w = visit
        BY <1>5, <4>1
      <4>2. CASE w # visit
        <5>1. chain'[visit][u] = chain[visit][u]
          BY <1>1, <1>6, <4>2
        <5>2. tracked'[u] = "building" => tracked[u] = "building"
          BY <1>1, <1>3, <1>5 DEF FailureTrue
        <5> QED
          BY <2>1, <2>3, <5>1, <5>2 DEF TemplateFollowed, Tracked
      <4> QED
        BY <4>1, <4>2
    <3>5. Tracked(u)'
      BY <2>1, <2>3, <3>1, <3>2, <3>3, <3>4 DEF TemplateFollowed, Tracked
    <3>6. WillShow(u)'
      <4>1. CASE mounted /\ w # visit
        <5>1. chain'[visit][u] = chain[visit][u] /\ rows'[u] = rows[u]
          BY <1>1, <1>5, <1>6, <4>1 DEF Shown
        <5> QED
          BY <2>1, <2>3, <3>1, <5>1 DEF TemplateFollowed, WillShow
      <4>2. CASE mounted /\ w = visit /\ tplCalls[1].said = "queued"
        BY <1>5, <4>2 DEF WillShow
      <4>3. CASE mounted /\ w = visit /\ tplCalls[1].said = "failed"
        <5>1. made[u] = "building" /\ tplJob[u] # "queued"
          BY <1>3, <1>7, <2>3, <4>3 DEF FailureTrue
        <5>2. BeingCreated(u) \/ RowsComing \/ rows[u] # "absent"
          BY <2>1, <2>3, <4>3, <5>1 DEF TemplateFollowed, Tracked
        <5>3. rows[u] # "absent" => rows'[u] = "failed"
          BY <1>5, <4>3 DEF Shown
        <5> QED
          BY <3>1, <5>1, <5>2, <5>3 DEF WillShow
      <4>4. CASE ~mounted
        BY <4>4 DEF WillShow
      <4> QED
        BY <4>1, <4>2, <4>3, <4>4
    <3> QED
      BY <2>3, <3>5, <3>6 DEF TemplateFollowed
  <2> QED
    BY <2>2, <2>3
<1>8. \A t \in Templates : made[t] = "none" =>
         /\ tracked'[t] = "none" /\ rows'[t] = "absent"
         /\ \A v \in Visits : chain'[v][t] = "off"
  BY <1>3, <1>4, OfTemplate DEF Unknown
<1>9. \A t \in Templates : tracked'[t] = "failed" =>
         \/ tracked[t] = "failed"
         \/ StatusTold(1, t) /\ tplCalls[1].said = "failed"
  BY <1>4, <1>5
<1> QED
  BY <1>2, <1>7, <1>8, <1>9, TruthMoves

\* The status of a job arrives.
LEMMA StatusAnsweredFollowed ==
    ASSUME TemplatesAssumption, TemplatesInv, TemplatesInv',
           tplNet.inorder, TemplatesFollowed,
           NEW i \in 1..Len(tplCalls), StatusAnswered(i)
    PROVE  TemplatesFollowed'
<1> DEFINE u == tplCalls[1].tpl
           w == tplCalls[1].visit
           r == Ask("load", u, w)
<1>1. /\ i = 1 /\ tplCalls[1].kind = "status"
      /\ UNCHANGED <<tplNet, made, tplJob, visit, mounted, blanked, stray>>
  BY DEF StatusAnswered, Arrives
<1>2. \/ /\ tplCalls[1].at = "ok" /\ tplCalls' = Others(1)
         /\ \/ /\ tplCalls[1].said = "failed"
               /\ rows' = IF Shown(w) /\ rows[u] # "absent"
                          THEN [rows EXCEPT ![u] = "failed"] ELSE rows
               /\ tracked' = Noted(u, "failed")
               /\ chain' = [chain EXCEPT ![w][u] = "off"]
            \/ /\ tplCalls[1].said = "queued"
               /\ tracked' = Noted(u, "building")
               /\ chain' = [chain EXCEPT ![w][u] = "timer"]
               /\ rows' = rows
      \/ /\ tplCalls' = Append(Others(1), r)
         /\ UNCHANGED <<rows, tracked, chain>>
      \/ /\ tplCalls' = Others(1) /\ chain' = [chain EXCEPT ![w][u] = "timer"]
         /\ UNCHANGED <<rows, tracked>>
  BY <1>1 DEF StatusAnswered, Arrives
<1>3. /\ u \in Templates /\ w \in Visits
      /\ r \in TplCall /\ r.kind = "load" /\ r.tpl = u /\ r.at = "sent"
  <2>1. u \in Templates /\ w \in Visits
    BY <1>1, FirstAnswered
  <2> QED
    BY <2>1, Asks DEF Ask
<1> HIDE DEF r
<1>4. /\ tplCalls' = Others(1) => CallsMove(1, {})
      /\ tplCalls' = Append(Others(1), r) => CallsMove(1, {r})
  BY <1>1, <1>3, FirstAnswered
<1>5. CASE tplCalls' = Append(Others(1), r) /\ UNCHANGED <<rows, tracked, chain>>
  BY <1>1, <1>3, <1>4, <1>5, ChainGoesOn
<1>6. CASE /\ tplCalls' = Others(1) /\ chain' = [chain EXCEPT ![w][u] = "timer"]
           /\ UNCHANGED <<rows, tracked>>
  <2>1. \A q \in {} : q.kind = "load" /\ q.tpl = u
    OBVIOUS
  <2> QED
    BY <1>1, <1>4, <1>6, <2>1, ChainGoesOn
<1>7. CASE /\ tplCalls[1].at = "ok" /\ tplCalls' = Others(1)
           /\ \/ /\ tplCalls[1].said = "failed"
                 /\ rows' = IF Shown(w) /\ rows[u] # "absent"
                            THEN [rows EXCEPT ![u] = "failed"] ELSE rows
                 /\ tracked' = Noted(u, "failed")
                 /\ chain' = [chain EXCEPT ![w][u] = "off"]
              \/ /\ tplCalls[1].said = "queued"
                 /\ tracked' = Noted(u, "building")
                 /\ chain' = [chain EXCEPT ![w][u] = "timer"]
                 /\ rows' = rows
  <2>1. StatusTold(1, u) /\ w = tplCalls[1].visit
    BY <1>1, <1>7 DEF StatusTold
  <2> HIDE DEF u, w
  <2> QED
    BY <1>1, <1>3, <1>7, <2>1, ChainLearns
<1> QED
  BY <1>2, <1>5, <1>6, <1>7

\* A step of the templates page keeps every template followed.
LEMMA TplStays ==
    ASSUME TemplatesAssumption, TemplatesInv, TemplatesFollowed, TemplatesNext
    PROVE  TemplatesFollowed'
<1>1. TemplatesInv'
  BY TemplatesKeep
<1>2. tplNet' = tplNet
  BY DEF TemplatesNext, OpenTemplates, LeaveTemplates, RefreshTemplates,
     CreateTemplate, DropTemplate, MarkTemplateReady, EndTemplateJob,
     ExpireTemplateJob, PollTemplate, ServeTemplate, LoseTemplateCall,
     RowsAnswered, CreateAnswered, StatusAnswered, LoadAnswered
<1>3. CASE ~tplNet.inorder
  BY <1>2, <1>3 DEF TemplatesFollowed
<1>4. CASE tplNet.inorder
  <2>1. CASE OpenTemplates \/ LeaveTemplates \/ RefreshTemplates
    BY <1>1, <1>4, <2>1, OpenFollowed, LeaveFollowed, AskFollowed
  <2>2. ASSUME NEW t \in Templates,
               \/ CreateTemplate(t) \/ DropTemplate(t)
               \/ MarkTemplateReady(t) \/ EndTemplateJob(t) \/ ExpireTemplateJob(t)
               \/ \E v \in Visits : PollTemplate(v, t)
        PROVE  TemplatesFollowed'
    BY <1>1, <1>4, <2>2, AskFollowed, DropFollowed, JobFollowed, PollFollowed
  <2>3. ASSUME NEW i \in 1..Len(tplCalls),
               \/ ServeTemplate(i) \/ LoseTemplateCall(i) \/ RowsAnswered(i)
               \/ CreateAnswered(i) \/ StatusAnswered(i) \/ LoadAnswered(i)
        PROVE  TemplatesFollowed'
    BY <1>1, <1>4, <2>3, ServeTplFollowed, LoseFollowed, RowsAnsweredFollowed,
       CreateAnsweredFollowed, StatusAnsweredFollowed, LoadAnsweredFollowed
  <2> QED
    BY <2>1, <2>2, <2>3 DEF TemplatesNext
<1> QED
  BY <1>3, <1>4

\* The first visit has asked for the rows, and nothing is made.
LEMMA TplStarts ==
    ASSUME TemplatesAssumption, TemplatesInit
    PROVE  TemplatesFollowed
<1>1. /\ Len(tplCalls) = 1 /\ tplCalls[1] = Ask("rows", NoTemplate, 1)
      /\ visit = 1 /\ \A k \in 1..Len(tplCalls) : k = 1
  BY DEF TemplatesInit
<1>2. \A t \in Templates :
         /\ made[t] = "none" /\ tplJob[t] = "none" /\ rows[t] = "absent"
         /\ tracked[t] = "none" /\ \A v \in Visits : chain[v][t] = "off"
         /\ t # NoTemplate
  BY DEF TemplatesInit, TemplatesAssumption
<1>3. \A k \in 1..Len(tplCalls) :
         /\ tplCalls[k].at = "sent" /\ tplCalls[k].kind = "rows"
         /\ tplCalls[k].tpl = NoTemplate
  BY <1>1 DEF Ask
<1>4. ServedInOrder
  BY <1>3 DEF ServedInOrder
<1>5. ASSUME NEW t \in Templates PROVE TemplateTrue(t) /\ TemplateFollowed(t)
  <2>1. RowsTrue(t) /\ FailureTrue(t)
    BY <1>2, <1>3 DEF RowsTrue, FailureTrue, Lists, StatusTold
  <2>2. Unknown(t) /\ CreatedOnce(t)
    BY <1>2, <1>3 DEF Unknown, CreatedOnce
  <2>3. Tracked(t) /\ WillShow(t)
    BY <1>2 DEF Tracked, WillShow
  <2> QED
    BY <2>1, <2>2, <2>3 DEF TemplateTrue, TemplateFollowed
<1>6. /\ \A t \in Templates : TemplateTrue(t)
      /\ \A t \in Templates \ stray : TemplateFollowed(t)
  BY <1>5
<1> QED
  BY <1>4, <1>6 DEF TemplatesFollowed

\* The other pages leave the templates alone.
LEMMA TplRests ==
    ASSUME TemplatesFollowed, UNCHANGED tplVars
    PROVE  TemplatesFollowed'
<1>1. UNCHANGED <<tplNet, made, tplJob, visit, mounted, rows, tracked, chain,
                  tplCalls, blanked, stray>>
  BY DEF tplVars
<1>2. /\ \A i : Lists(i)' <=> Lists(i)
      /\ \A i, t : StatusTold(i, t)' <=> StatusTold(i, t)
      /\ RowsComing' <=> RowsComing
      /\ \A t : BeingCreated(t)' <=> BeingCreated(t)
  BY <1>1 DEF Lists, StatusTold, RowsComing, BeingCreated
<1>3. ServedInOrder => ServedInOrder'
  BY <1>1 DEF ServedInOrder
<1>4. ASSUME NEW t
      PROVE  /\ (RowsTrue(t) => RowsTrue(t)') /\ (FailureTrue(t) => FailureTrue(t)')
             /\ (Unknown(t) => Unknown(t)') /\ (CreatedOnce(t) => CreatedOnce(t)')
             /\ (Tracked(t) => Tracked(t)') /\ (WillShow(t) => WillShow(t)')
  <2>1. (RowsTrue(t) => RowsTrue(t)') /\ (FailureTrue(t) => FailureTrue(t)')
    BY <1>1, <1>2 DEF RowsTrue, FailureTrue
  <2>2. (Unknown(t) => Unknown(t)') /\ (CreatedOnce(t) => CreatedOnce(t)')
    BY <1>1 DEF Unknown, CreatedOnce
  <2>3. (Tracked(t) => Tracked(t)') /\ (WillShow(t) => WillShow(t)')
    BY <1>1, <1>2 DEF Tracked, WillShow
  <2> QED
    BY <2>1, <2>2, <2>3
<1> QED
  BY <1>1, <1>3, <1>4 DEF TemplatesFollowed, TemplateTrue, TemplateFollowed

\* At rest, the rows show what became of the templates.
LEMMA TplPromise ==
    ASSUME TemplatesInv, TemplatesFollowed
    PROVE  TemplatesSettle
<1>1. SUFFICES ASSUME tplNet.inorder, mounted, tplCalls = <<>>, ~blanked,
                      \A t \in Templates : tplJob[t] # "queued",
                      \A t \in Templates : chain[visit][t] = "off",
                      NEW t \in Templates \ stray
               PROVE  /\ made[t] = "none" => rows[t] = "absent"
                      /\ made[t] = "ready" => rows[t] = "connected"
                      /\ made[t] = "building" => rows[t] = "failed"
  BY DEF TemplatesSettle
<1>2. TemplateFollowed(t) /\ Unknown(t)
  BY <1>1, OfTemplate
<1>3. ~BeingCreated(t) /\ ~RowsComing
  BY <1>1 DEF BeingCreated, RowsComing
<1>4. made[t] # "none" =>
         \/ made[t] = "ready" /\ rows[t] = "connected"
         \/ made[t] = "building" /\ rows[t] = "failed"
  BY <1>1, <1>2, <1>3 DEF TemplateFollowed, WillShow
<1> QED
  BY <1>2, <1>4 DEF Unknown

-----------------------------------------------------------------------------
(***************************************************************************)
(* The console at rest.                                                    *)
(***************************************************************************)

\* What each page promises at rest holds of its requests and jobs before it is.
SettleInv == Inv /\ TreeKept /\ TemplatesFollowed /\ GroupsKept

\* A fresh console has asked for what it shows.
LEMMA SettleStarts == Init => SettleInv
  BY InvStarts, FilesAssumption, TemplatesAssumption, PeopleAssumption,
     TreeStarts, TplStarts, GroupsStart
     DEF Init, SettleInv

\* A step of one page keeps its part and leaves those of the others alone.
LEMMA SettleKept == SettleInv /\ [Next]_vars => SettleInv'
<1> SUFFICES ASSUME SettleInv, [Next]_vars PROVE SettleInv'
  OBVIOUS
<1>1. /\ Inv' /\ FilesInv /\ TemplatesInv /\ PeopleInv
      /\ TreeKept /\ TemplatesFollowed /\ GroupsKept
  BY InvKept DEF SettleInv, Inv
<1>2. CASE OnFilesPage
  BY <1>1, <1>2, FilesAssumption, TreeStays, TplRests, GroupsRest
     DEF OnFilesPage, SettleInv
<1>3. CASE OnTemplatesPage
  BY <1>1, <1>3, TemplatesAssumption, TplStays, TreeRests, GroupsRest
     DEF OnTemplatesPage, SettleInv
<1>4. CASE OnPeoplePages
  BY <1>1, <1>4, PeopleAssumption, GroupsStay, TreeRests, TplRests
     DEF OnPeoplePages, SettleInv
<1>5. CASE OnBillingTab
  BY <1>1, <1>5, TreeRests, TplRests, GroupsRest DEF OnBillingTab, SettleInv
<1>6. CASE UNCHANGED vars
  BY <1>1, <1>6, TreeRests, TplRests, GroupsRest DEF vars, SettleInv
<1> QED
  BY <1>2, <1>3, <1>4, <1>5, <1>6 DEF Next

\* A page at rest shows what the server has: the tree the stored shares
\* (FilesPage.jsx), the templates what became of their jobs
\* (WorkstationsPage.jsx), and users created in order are in the groups last
\* asked for them (UsersAndGroupsPage.jsx).
THEOREM PagesComeToRest == Spec => []PagesSettle
<1>1. SettleInv => PagesSettle
  BY TreePromise, TplPromise, GroupsPromise, PeopleAssumption DEF SettleInv,
     Inv, PagesSettle
<1> QED
  BY <1>1, SettleStarts, SettleKept, PTL DEF Spec
=============================================================================
