-------------------------- MODULE MCWorkstationPool --------------------------
(* Instances of WorkstationPool for TLC. *)
EXTENDS WorkstationPool, TLC

CONSTANTS alice, bob, t1, t2, g1

\* Two templates with different audiences: alice may not use t2.
MCMembers == (t1 :> {alice, bob}) @@ (t2 :> {bob})
MCAccessGroups == (t1 :> {}) @@ (t2 :> {g1})
MCGroupMembers == g1 :> {bob}

\* One template for two direct members.
PairMembers == t1 :> {alice, bob}
PairAccessGroups == t1 :> {g1}
PairGroupMembers == g1 :> {bob}

Symmetric == Permutations(VMs) \cup Permutations(Handlers)
=============================================================================
