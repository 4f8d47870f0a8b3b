------------------------------ MODULE MCConsole ------------------------------
(* An instance of Console for TLC. *)
EXTENDS Console, TLC

\* Answers in order with faults, and out of order without.
PageNets == {[inorder |-> TRUE, faults |-> TRUE],
             [inorder |-> FALSE, faults |-> FALSE]}

\* Webhooks once and in order; and repeated, lost and overtaken.
MCBillNets == {[ordered |-> TRUE, lossy |-> FALSE],
               [ordered |-> FALSE, lossy |-> TRUE]}

Alike == Permutations(Shares) \cup Permutations(People)

\* Nothing is promised of the dialog for new users once its hook was crossed.
NotCrossed == ~crossed
==============================================================================
