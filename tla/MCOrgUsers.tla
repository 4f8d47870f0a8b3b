----------------------------- MODULE MCOrgUsers ------------------------------
(* Instances of OrgUsers for TLC. *)
EXTENDS OrgUsers, TLC

CONSTANTS u0, u1, u2, j1, n0, n1, e0, e1, e2, h1, h2, w1, w2

Person(n, e) == [name |-> n, email |-> e]

\* A newcomer, and another one with the founder's name.
ThePeople == {Person(n1, e1), Person(n0, e2)}
TheIdentity == [u \in {u0} |-> Person(n0, e0)]

Deployed(hs, ws, n, faults, open) ==
    [handlers |-> hs, workers |-> ws, requests |-> n, faults |-> faults,
     open |-> open]

\* docker-compose.prod.yml starts one worker; the others are what the code
\* allows for: a threaded server, a second worker, failures, edits.
TheDeployments ==
    {Deployed({h1}, {w1}, 3, FALSE, FALSE),
     Deployed({h1}, {w1}, 3, TRUE, FALSE),
     Deployed({h1, h2}, {w1}, 3, FALSE, FALSE),
     Deployed({h1}, {w1, w2}, 3, FALSE, FALSE),
     Deployed({h1}, {w1}, 2, TRUE, TRUE)}
=============================================================================
