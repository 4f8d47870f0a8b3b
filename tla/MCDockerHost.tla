---------------------------- MODULE MCDockerHost -----------------------------
(* Instances of DockerHost for TLC. *)
EXTENDS DockerHost, TLC

CONSTANTS o1, o2, o3, b1, b2, b3, v1, v2

MCOrgs == {o1, o2, o3}
MCBuilds == {b1, b2, b3}
MCBoots == {v1, v2}
MCOctets == 2..3
MCPorts == 2..5

ThreeOrgs == (b1 :> o1) @@ (b2 :> o2) @@ (b3 :> o3)
TwoOrgs == (b1 :> o1) @@ (b2 :> o1) @@ (b3 :> o2)

\* One worker on each queue: three organisations on two subnets, with commands
\* that raise; an organisation built twice, with copies that fail and two
\* workers for its VMs; one whose VMs boot one after the other.  Two workers:
\* two organisations at once, and two builds of one at once.  Three workers:
\* those two beside another organisation's, up to their workstations.
MCDeployments ==
    {[org |-> ThreeOrgs, workers |-> 1, booting |-> 1, faults |-> {"raise"},
      jobs |-> MCBuilds, whole |-> TRUE],
     [org |-> TwoOrgs, workers |-> 1, booting |-> 2, faults |-> {"copy"},
      jobs |-> {b1, b2, v1, v2}, whole |-> TRUE],
     [org |-> ThreeOrgs, workers |-> 1, booting |-> 1, faults |-> {},
      jobs |-> {b1, b2, v1, v2}, whole |-> TRUE],
     [org |-> ThreeOrgs, workers |-> 2, booting |-> 1, faults |-> {},
      jobs |-> {b1, b2}, whole |-> TRUE],
     [org |-> TwoOrgs, workers |-> 2, booting |-> 1, faults |-> {},
      jobs |-> {b1, b2}, whole |-> TRUE],
     [org |-> TwoOrgs, workers |-> 3, booting |-> 1, faults |-> {},
      jobs |-> MCBuilds, whole |-> FALSE]}
==============================================================================
