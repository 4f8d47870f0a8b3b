--------------------------- MODULE StoreAndForward ---------------------------
(***************************************************************************)
(* What the agent promises of the messages its tasks produce: each is kept *)
(* until the server has it, perhaps more than once.  A crash may cost one  *)
(* message, and nothing else costs any.                                    *)
(***************************************************************************)
EXTENDS Naturals, FiniteSets

CONSTANT Messages

VARIABLES
    accepted,   \* the messages the agent has taken on
    pending,    \* those it still answers for
    delivered,  \* delivered[m]: how often the server got m
    crashes

vars == <<accepted, pending, delivered, crashes>>

Init ==
    /\ accepted = {} /\ pending = {}
    /\ delivered = [m \in Messages |-> 0]
    /\ crashes = 0

Accept(m) ==
    /\ m \notin accepted
    /\ accepted' = accepted \cup {m}
    /\ pending' = pending \cup {m}
    /\ UNCHANGED <<delivered, crashes>>

Arrives(m) == delivered' = [delivered EXCEPT ![m] = @ + 1]

\* The agent learns of it at once, or keeps the message.
Deliver(m) ==
    /\ m \in pending
    /\ Arrives(m)
    /\ pending' = pending \/ pending' = pending \ {m}
    /\ UNCHANGED <<accepted, crashes>>

\* Only a message that was delivered is forgotten.
Forget(m) ==
    /\ m \in pending /\ delivered[m] > 0
    /\ pending' = pending \ {m}
    /\ UNCHANGED <<accepted, delivered, crashes>>

\* A crash strikes the one message that is being handled, if any.
Crash ==
    /\ crashes' = crashes + 1
    /\ UNCHANGED accepted
    /\ \/ UNCHANGED <<pending, delivered>>
       \/ \E m \in pending :
             /\ Arrives(m) \/ UNCHANGED delivered
             /\ pending' = pending \/ pending' = pending \ {m}

Next ==
    \/ \E m \in Messages : Accept(m) \/ Deliver(m) \/ Forget(m)
    \/ Crash

Spec == Init /\ [][Next]_vars

\* Neither with the agent nor with the server.
Lost == {m \in accepted : m \notin pending /\ delivered[m] = 0}

\* The messages that are gone are no more than the crashes.
LossBound == IsFiniteSet(Lost) /\ Cardinality(Lost) <= crashes

=============================================================================
