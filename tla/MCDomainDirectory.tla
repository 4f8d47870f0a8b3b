-------------------------- MODULE MCDomainDirectory --------------------------
(* Instances of DomainDirectory for TLC. *)
EXTENDS DomainDirectory, TLC

CONSTANTS h1, h2, w1, w2, l1, l2

Deployed(hs, ws, faults, routes, letters) ==
    [handlers |-> hs, workers |-> ws, faults |-> faults, routes |-> routes,
     letters |-> letters]

\* Each of the two resources alone, served one by one, racing and failing.
TheDeployments ==
    {Deployed({h1}, {w1}, FALSE, {"create", "delete"}, {l1}),
     Deployed({h1}, {w1}, FALSE, {"create", "delete", "patchOne"}, {l1, l2}),
     Deployed({h1}, {w1}, FALSE, {"create", "patch"}, {l1, l2}),
     Deployed({h1}, {w1, w2}, FALSE, {"create", "delete"}, {l1, l2}),
     Deployed({h1}, {w1}, TRUE, {"create", "delete", "patch"}, {l1, l2}),
     Deployed({h1}, {w1}, FALSE, {"groups"}, {l1}),
     Deployed({h1}, {w1}, FALSE, {"groups", "rename"}, {l1}),
     Deployed({h1, h2}, {w1, w2}, FALSE, {"groups"}, {l1}),
     Deployed({h1}, {w1}, TRUE, {"groups", "rename"}, {l1})}
=============================================================================
