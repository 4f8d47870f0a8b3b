--------------------------- MODULE MCAlertPipeline ---------------------------
(***************************************************************************)
(* AlertPipeline with two alert ids and three alerts.                      *)
(***************************************************************************)
EXTENDS AlertPipeline

CONSTANTS i1, i2, t1, t2, s1

MCIds == {i1, i2}
MCThreads == {t1, t2}
MCAdmins == {s1}

Deployed(threads, overlap, client, push, faults, ids, alerts, requests,
         prunes) ==
    [threads |-> threads, overlap |-> overlap, client |-> client,
     push |-> push, faults |-> faults, ids |-> ids, alerts |-> alerts,
     requests |-> requests, prunes |-> prunes]

\* One thing at a time; two threads and the flush at once; a thread, the flush,
\* a request and the pruning; a thread, the flush and a request with failures;
\* a server started without Elasticsearch.
MCDeployments ==
    {Deployed({t1}, FALSE, TRUE, TRUE, FALSE, {i1, i2}, 3, 2, 1),
     Deployed({t1, t2}, TRUE, TRUE, TRUE, FALSE, {i1}, 3, 0, 0),
     Deployed({t1}, TRUE, TRUE, TRUE, FALSE, {i1}, 2, 1, 1),
     Deployed({t1}, TRUE, TRUE, TRUE, TRUE, {i1}, 2, 1, 0),
     Deployed({t1}, FALSE, FALSE, FALSE, FALSE, {i1, i2}, 2, 1, 1)}
=============================================================================
