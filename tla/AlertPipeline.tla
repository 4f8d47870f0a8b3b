---------------------------- MODULE AlertPipeline ----------------------------
(***************************************************************************)
(* The way of an alert: a detector of the ThreatDetection server makes it, *)
(* a buffer merges it with its duplicates, a scheduled task writes the     *)
(* buffer to the index unified_alerts and posts it to the Server, which    *)
(* records it, and an administrator sets its status.                       *)
(*                                                                         *)
(* The buffer has no lock: the gRPC threads, the Snort watcher and the     *)
(* scheduled task share it.  The index is written by the task and by the   *)
(* Server, each with a read and a write of its own.                        *)
(***************************************************************************)
EXTENDS Naturals, FiniteSets, FiniteSetsExt

CONSTANTS
    Ids,          \* alert ids: what compute_id hashes
    MaxAlerts,    \* how many alerts the detectors make (a bound)
    Threads,      \* threads of the ThreatDetection server that detect
    Admins,       \* request threads of the Server that set a status
    Deployments,  \* what may be deployed, see DeploymentType
    Requests,     \* how many status requests there are (a bound)
    Prunes,       \* how often old documents are deleted (a bound)
    NoAlert, NoDoc

Alerts == 1 .. MaxAlerts    \* the Alert objects, in the order they are made
Severities == {"medium", "high"}
Statuses == {"unresolved", "resolved", "false_positive"}

DeploymentType ==
    [threads : SUBSET Threads,
     overlap : BOOLEAN,  \* may an ingest, a flush or a request overlap another
     client : BOOLEAN,   \* was Elasticsearch there when the server started
     push : BOOLEAN,     \* is CLOUDSHIELD_SERVER_URL set
     faults : BOOLEAN,
     ids : SUBSET Ids, alerts : Alerts,   \* its load
     requests : 0 .. Requests, prunes : 0 .. Prunes]

\* Documents of unified_alerts, indexed without an _id and under the alert id.
Doc == [of : Alerts, count : Nat, severity : Severities, status : Statuses]
MainDoc == [of : Alerts, count : Nat, severity : Severities,
            status : Statuses, seqNo : Nat]

ASSUME AlertAssumption ==
    /\ Ids # {}
    /\ MaxAlerts \in Nat /\ Requests \in Nat /\ Prunes \in Nat
    /\ NoAlert \notin Alerts
    /\ NoDoc \notin Statuses \cup Doc \cup MainDoc
    /\ Deployments \subseteq DeploymentType

VARIABLES
    deployment,
    made,       \* how many alerts were made
    alert,      \* alert[a]: the Alert object
    store,      \* AlertDeduplicator._store
    thread,     \* the detecting threads
    flusher,    \* the task alert_flush
    main,       \* main[i]: the document of unified_alerts with _id i
    seqNo,      \* the last sequence number of the index
    copy,       \* copy[a]: the document indexed without an id for alert a
    inbox,      \* what POST /api/threat/ingest still has to record
    activity, audit, \* the alerts in the activity log and in the audit log
    admin,      \* PATCH /api/threat/unified/<id>
    told,       \* told[i]: the status a client was last told alert i has
    budget      \* status requests and prunes that may still happen

vars == <<deployment, made, alert, store, thread, flusher, main, seqNo, copy,
          inbox, activity, audit, admin, told, budget>>
bufferVars == <<made, alert, store, thread>>
indexVars == <<main, seqNo, copy, told>>
serverVars == <<inbox, activity, audit>>
adminVars == <<admin, budget>>

AlertRecord == [id : Ids, severity : Severities, count : Nat]

IdleThread == [pc |-> "idle", alert |-> NoAlert, found |-> NoAlert]
ThreadRecord == [pc : {"idle", "look", "put", "merge"},
                 alert : Alerts \cup {NoAlert}, found : Alerts \cup {NoAlert}]

Waiting == [pc |-> "wait", batch |-> {}, todo |-> {}, doc |-> NoDoc,
            seqNo |-> 0]
FlusherRecord == [pc : {"wait", "clear", "write", "index", "fallback", "answer"},
                  batch : SUBSET Alerts, todo : SUBSET Alerts,
                  doc : Doc \cup {NoDoc}, seqNo : Nat]

IdleAdmin == [pc |-> "idle"]
AdminRecord == {IdleAdmin} \cup
    [pc : {"find"}, id : Ids, status : Statuses] \cup
    [pc : {"apply"}, id : Ids, status : Statuses, seqNo : Nat,
     copies : SUBSET Alerts]

Made == 1 .. made
Buffered == {store[i] : i \in Ids} \ {NoAlert}
Payload == [alert : Alerts, severity : Severities]

-----------------------------------------------------------------------------

Init ==
    /\ deployment \in Deployments
    /\ made = 0
    /\ alert = [a \in Alerts |-> [id |-> CHOOSE i \in Ids : TRUE,
                                  severity |-> "medium", count |-> 0]]
    /\ store = [i \in Ids |-> NoAlert]
    /\ thread = [t \in Threads |-> IdleThread]
    /\ flusher = Waiting
    /\ main = [i \in Ids |-> NoDoc] /\ seqNo = 0
    /\ copy = [a \in Alerts |-> NoDoc]
    /\ inbox = {} /\ activity = {} /\ audit = {}
    /\ admin = [s \in Admins |-> IdleAdmin]
    /\ told = [i \in Ids |-> NoDoc]
    /\ budget = [requests |-> deployment.requests,
                  prunes |-> deployment.prunes]

\* Nothing is between two of its steps: what starts when nothing may overlap.
Alone ==
    \/ deployment.overlap
    \/ /\ \A t \in Threads : thread[t].pc = "idle"
       /\ flusher.pc = "wait"
       /\ \A s \in Admins : admin[s].pc = "idle"

(***************************************************************************)
(* The buffer.                                                             *)
(***************************************************************************)

\* A detector fires: the factories of alerts/__init__.py make an Alert.
Detect(t, i, s) ==
    /\ t \in deployment.threads
    /\ thread[t].pc = "idle"
    /\ Alone
    /\ made < deployment.alerts /\ i \in deployment.ids
    /\ made' = made + 1
    /\ alert' = [alert EXCEPT ![made + 1] =
                    [id |-> i, severity |-> s, count |-> 1]]
    /\ thread' = [thread EXCEPT ![t] = [pc |-> "look", alert |-> made + 1,
                                        found |-> NoAlert]]
    /\ UNCHANGED <<deployment, store, flusher, indexVars, serverVars, adminVars>>

\* ingest, first line: the lookup.
Look(t) ==
    /\ thread[t].pc = "look"
    /\ LET o == store[alert[thread[t].alert].id]
       IN  thread' = [thread EXCEPT ![t].found = o,
                                    ![t].pc = IF o = NoAlert THEN "put"
                                                             ELSE "merge"]
    /\ UNCHANGED <<deployment, made, alert, store, flusher, indexVars,
                   serverVars, adminVars>>

Put(t) ==
    /\ thread[t].pc = "put"
    /\ store' = [store EXCEPT ![alert[thread[t].alert].id] = thread[t].alert]
    /\ thread' = [thread EXCEPT ![t] = IdleThread]
    /\ UNCHANGED <<deployment, made, alert, flusher, indexVars, serverVars,
                   adminVars>>

Worse(s, u) == IF "high" \in {s, u} THEN "high" ELSE "medium"

\* Mutant of Merge: the severity is not escalated.
Merge_KeepsSeverity(t) ==
    /\ thread[t].pc = "merge"
    /\ alert' = [alert EXCEPT ![thread[t].found].count = @ + 1]
    /\ thread' = [thread EXCEPT ![t] = IdleThread]
    /\ UNCHANGED <<deployment, made, store, flusher, indexVars, serverVars,
                   adminVars>>

\* Mutant of Merge: the duplicate is not counted.
Merge_NotCounted(t) ==
    /\ thread[t].pc = "merge"
    /\ alert' = [alert EXCEPT ![thread[t].found].severity =
                                 Worse(@, alert[thread[t].alert].severity)]
    /\ thread' = [thread EXCEPT ![t] = IdleThread]
    /\ UNCHANGED <<deployment, made, store, flusher, indexVars, serverVars,
                   adminVars>>

\* The object found is changed, whether or not it is still in the buffer.
Merge(t) ==
    /\ thread[t].pc = "merge"
    /\ alert' = [alert EXCEPT
                    ![thread[t].found].count = @ + 1,
                    ![thread[t].found].severity =
                        Worse(@, alert[thread[t].alert].severity)]
    /\ thread' = [thread EXCEPT ![t] = IdleThread]
    /\ UNCHANGED <<deployment, made, store, flusher, indexVars, serverVars,
                   adminVars>>

(***************************************************************************)
(* The flush.                                                              *)
(***************************************************************************)

\* flush, first line: the values are copied.
Snapshot ==
    /\ flusher.pc = "wait"
    /\ Alone
    /\ Buffered # {} \/ deployment.overlap
    /\ flusher' = [flusher EXCEPT !.pc = "clear", !.batch = Buffered,
                                  !.todo = Buffered]
    /\ UNCHANGED <<deployment, bufferVars, indexVars, serverVars, adminVars>>

\* flush, second line: whatever is in the buffer by now is dropped.
Clear ==
    /\ flusher.pc = "clear"
    /\ store' = [i \in Ids |-> NoAlert]
    /\ flusher' = IF flusher.batch = {} THEN Waiting
                                        ELSE [flusher EXCEPT !.pc = "write"]
    /\ UNCHANGED <<deployment, made, alert, thread, indexVars, serverVars,
                   adminVars>>

DocOf(a) == [of |-> a, count |-> alert[a].count,
             severity |-> alert[a].severity, status |-> "unresolved"]
SeqNoOf(i) == IF main[i] = NoDoc THEN 0 ELSE main[i].seqNo

\* to_dict, and what Elasticsearch reads to run the update script on.  Without
\* a client the document is indexed at once, under a new id.
StartWrite(a) ==
    /\ flusher.pc = "write"
    /\ a \in flusher.todo
    /\ flusher' = [flusher EXCEPT
                      !.pc = IF deployment.client THEN "index" ELSE "fallback",
                      !.todo = @ \ {a}, !.doc = DocOf(a),
                      !.seqNo = SeqNoOf(alert[a].id)]
    /\ UNCHANGED <<deployment, bufferVars, indexVars, serverVars, adminVars>>

\* Mutant of Upserted: the script puts the whole document each time.
Upserted_PutAll(i, d) ==
    [of |-> d.of, count |-> d.count, severity |-> d.severity,
     status |-> d.status, seqNo |-> seqNo + 1]

\* Mutant of Upserted: the count of an old document stays.
Upserted_OldCount(i, d) ==
    IF main[i] = NoDoc THEN Upserted_PutAll(i, d)
    ELSE [main[i] EXCEPT !.of = d.of, !.seqNo = seqNo + 1]

\* The script: a new document takes every field, an old one keeps its status.
Upserted(i, d) ==
    IF main[i] = NoDoc
    THEN [of |-> d.of, count |-> d.count, severity |-> d.severity,
          status |-> d.status, seqNo |-> seqNo + 1]
    ELSE [main[i] EXCEPT !.of = d.of, !.count = d.count, !.seqNo = seqNo + 1]

\* The update succeeds unless the document was changed since it was read
\* (retry_on_conflict is not set); the call may also fail, done or not.
Index ==
    /\ flusher.pc = "index"
    /\ LET i == alert[flusher.doc.of].id
           written == /\ main' = [main EXCEPT ![i] = Upserted(i, flusher.doc)]
                      /\ seqNo' = seqNo + 1
       IN  \/ /\ SeqNoOf(i) = flusher.seqNo
              /\ written
              /\ flusher' = [flusher EXCEPT !.pc = "write"]
           \/ /\ SeqNoOf(i) # flusher.seqNo
              /\ flusher' = [flusher EXCEPT !.pc = "fallback"]
              /\ UNCHANGED <<main, seqNo>>
           \/ /\ deployment.faults
              /\ flusher' = [flusher EXCEPT !.pc = "fallback"]
              /\ \/ UNCHANGED <<main, seqNo>>
                 \/ SeqNoOf(i) = flusher.seqNo /\ written
    /\ UNCHANGED <<deployment, bufferVars, copy, told, serverVars, adminVars>>

\* es_log: a document with an id of its own; a failure is swallowed.
Fallback ==
    /\ flusher.pc = "fallback"
    /\ \/ copy' = [copy EXCEPT ![flusher.doc.of] = flusher.doc]
       \/ deployment.faults /\ UNCHANGED copy
    /\ flusher' = [flusher EXCEPT !.pc = "write"]
    /\ UNCHANGED <<deployment, bufferVars, main, seqNo, told, serverVars, adminVars>>

\* Mutant of Post: nothing is sent.
Post_Nothing ==
    /\ flusher.pc = "write" /\ flusher.todo = {}
    /\ flusher' = Waiting
    /\ UNCHANGED <<deployment, bufferVars, indexVars, serverVars, adminVars>>

\* _push_alerts_to_server: the objects are read once more and posted.
Post ==
    /\ flusher.pc = "write" /\ flusher.todo = {}
    /\ IF deployment.push
       THEN /\ \/ inbox' = inbox \cup {[alert |-> a, severity |-> alert[a].severity] :
                                          a \in flusher.batch}
               \/ deployment.faults /\ UNCHANGED inbox
            /\ flusher' = [flusher EXCEPT !.pc = "answer"]
       ELSE flusher' = Waiting /\ UNCHANGED inbox
    /\ UNCHANGED <<deployment, bufferVars, indexVars, activity, audit, adminVars>>

\* The answer has come, or the ten seconds are over; nothing is sent again.
Answered ==
    /\ flusher.pc = "answer"
    /\ inbox = {} \/ deployment.faults
    /\ flusher' = Waiting
    /\ UNCHANGED <<deployment, bufferVars, indexVars, serverVars, adminVars>>

\* The ThreatDetection server is restarted: the buffer is gone.
Restart ==
    /\ deployment.faults
    /\ flusher # Waiting \/ Buffered # {}
    /\ store' = [i \in Ids |-> NoAlert]
    /\ thread' = [t \in Threads |-> IdleThread]
    /\ flusher' = Waiting
    /\ UNCHANGED <<deployment, made, alert, indexVars, serverVars, adminVars>>

(***************************************************************************)
(* The Server.                                                             *)
(***************************************************************************)

\* ingest_threat_alerts, for one alert: when the activity log cannot be written
\* the audit log is not; an error of the audit log is swallowed.
Ingest(p) ==
    /\ p \in inbox
    /\ inbox' = inbox \ {p}
    /\ \/ /\ activity' = activity \cup {p.alert}
          /\ \/ audit' = audit \cup (IF p.severity = "high" THEN {p.alert} ELSE {})
             \/ deployment.faults /\ UNCHANGED audit
       \/ deployment.faults /\ UNCHANGED <<activity, audit>>
    /\ UNCHANGED <<deployment, bufferVars, flusher, indexVars, adminVars>>

AskStatus(s, i, status) ==
    /\ admin[s].pc = "idle"
    /\ Alone
    /\ budget.requests > 0
    /\ admin' = [admin EXCEPT ![s] = [pc |-> "find", id |-> i, status |-> status]]
    /\ budget' = [budget EXCEPT !.requests = @ - 1]
    /\ UNCHANGED <<deployment, bufferVars, flusher, indexVars, serverVars>>

CopiesOf(i) == {a \in Alerts : copy[a] # NoDoc /\ alert[a].id = i}

\* update_by_query, the search: a document that was written a moment ago may
\* not be found yet.
Find(s) ==
    /\ admin[s].pc = "find"
    /\ \E v \in {0, SeqNoOf(admin[s].id)}, c \in SUBSET CopiesOf(admin[s].id) :
          admin' = [admin EXCEPT ![s] =
                       [pc |-> "apply", id |-> admin[s].id,
                        status |-> admin[s].status, seqNo |-> v, copies |-> c]]
    /\ UNCHANGED <<deployment, bufferVars, flusher, indexVars, serverVars, budget>>

\* ... and the script on each document found; one that was changed in between
\* is left out (conflicts = "proceed").  404 when nothing was updated.
Apply(s) ==
    /\ admin[s].pc = "apply"
    /\ LET i == admin[s].id
           status == admin[s].status
           hit == admin[s].seqNo # 0 /\ admin[s].seqNo = SeqNoOf(i)
           hits == admin[s].copies \cap CopiesOf(i)
       IN  /\ main' = IF hit
                      THEN [main EXCEPT ![i].status = status,
                                        ![i].seqNo = seqNo + 1]
                      ELSE main
           /\ seqNo' = IF hit THEN seqNo + 1 ELSE seqNo
           /\ copy' = [a \in Alerts |-> IF a \in hits
                                        THEN [copy[a] EXCEPT !.status = status]
                                        ELSE copy[a]]
           /\ told' = IF hit \/ hits # {} THEN [told EXCEPT ![i] = status] ELSE told
    /\ admin' = [admin EXCEPT ![s] = IdleAdmin]
    /\ UNCHANGED <<deployment, bufferVars, flusher, serverVars, budget>>

\* Elasticsearch does not answer: the client gets a 404.
StatusFails(s) ==
    /\ deployment.faults
    /\ admin[s].pc # "idle"
    /\ admin' = [admin EXCEPT ![s] = IdleAdmin]
    /\ UNCHANGED <<deployment, bufferVars, flusher, indexVars, serverVars, budget>>

\* _prune_old_alerts: the documents older than a moment go.
Prune(a) ==
    /\ deployment.client
    /\ Alone
    /\ budget.prunes > 0
    /\ LET old == {i \in Ids : main[i] # NoDoc /\ main[i].of < a}
           oldCopies == {b \in Alerts : copy[b] # NoDoc /\ b < a}
       IN  /\ old # {} \/ oldCopies # {}
           /\ main' = [i \in Ids |-> IF i \in old THEN NoDoc ELSE main[i]]
           /\ copy' = [b \in Alerts |-> IF b \in oldCopies THEN NoDoc ELSE copy[b]]
           /\ told' = [i \in Ids |->
                          IF i \in old \cup {alert[b].id : b \in oldCopies}
                          THEN NoDoc ELSE told[i]]
    /\ budget' = [budget EXCEPT !.prunes = @ - 1]
    /\ UNCHANGED <<deployment, bufferVars, flusher, seqNo, serverVars, admin>>

-----------------------------------------------------------------------------

Ingesting(t) == Look(t) \/ Put(t) \/ Merge(t)
Flush == Snapshot \/ Clear \/ (\E a \in Alerts : StartWrite(a)) \/ Index
            \/ Fallback \/ Post \/ Answered
Serve(s) == Find(s) \/ Apply(s)

Next ==
    \/ \E t \in Threads :
          \/ \E i \in Ids, s \in Severities : Detect(t, i, s)
          \/ Ingesting(t)
    \/ Flush \/ Restart
    \/ \E p \in Payload : Ingest(p)
    \/ \E s \in Admins :
          \/ \E i \in Ids, u \in Statuses \ {"unresolved"} : AskStatus(s, i, u)
          \/ Serve(s) \/ StatusFails(s)
    \/ \E a \in Alerts : Prune(a)

\* The task runs every minute, threads run on, and a request is served.
Fairness ==
    /\ \A t \in Threads : WF_vars(Ingesting(t))
    /\ WF_vars(Flush)
    /\ WF_vars(\E p \in Payload : Ingest(p))
    /\ \A s \in Admins : WF_vars(Serve(s))

Spec == Init /\ [][Next]_vars /\ Fairness

-----------------------------------------------------------------------------
(***************************************************************************)
(* Properties.                                                             *)
(***************************************************************************)

\* Every variable keeps the shape the code gives it.
TypeOK ==
    /\ deployment \in Deployments
    /\ made \in 0 .. MaxAlerts
    /\ alert \in [Alerts -> AlertRecord]
    /\ store \in [Ids -> Made \cup {NoAlert}]
    /\ thread \in [Threads -> ThreadRecord]
    /\ flusher \in FlusherRecord
    /\ main \in [Ids -> MainDoc \cup {NoDoc}]
    /\ seqNo \in Nat
    /\ copy \in [Alerts -> Doc \cup {NoDoc}]
    /\ inbox \subseteq Payload
    /\ activity \subseteq Made /\ audit \subseteq Made
    /\ admin \in [Admins -> AdminRecord]
    /\ told \in [Ids -> Statuses \cup {NoDoc}]
    /\ budget \in [requests : Nat, prunes : Nat]

Serial == ~deployment.overlap /\ ~deployment.faults

\* A status a client was told of is never overwritten by a later flush: the
\* document keeps it, unless the alert has got a document without an id.
StatusKept ==
    \A i \in Ids :
        told[i] # NoDoc /\ CopiesOf(i) = {} =>
            main[i] # NoDoc /\ main[i].status = told[i]

\* When nothing overlaps and nothing fails an alert has one document, and its
\* count is that of the alert it was written from.
OneDocument ==
    Serial /\ deployment.client =>
        /\ \A a \in Alerts : copy[a] = NoDoc
        /\ \A i \in Ids : main[i] # NoDoc => main[i].count = alert[main[i].of].count

Ingested == Made \ {thread[t].alert : t \in Threads}

\* The objects that hold what was detected: in the buffer, in the flush, on
\* their way to the Server, recorded.
Held == Buffered \cup flusher.batch \cup activity \cup {p.alert : p \in inbox}

\* Then every detection is counted in exactly one of them,
AllCounted ==
    Serial /\ deployment.push =>
        MapThenSumSet(LAMBDA a : alert[a].count, Held) = Cardinality(Ingested)

\* and one of high severity is on its way to the audit log.
HighIsAudited ==
    Serial /\ deployment.push =>
        \A a \in Ingested :
            alert[a].severity = "high" =>
                \E o \in Held : /\ alert[o].id = alert[a].id
                                /\ alert[o].severity = "high"
                                /\ o \in activity => o \in audit

\* However threads overlap, an alert that is taken from the buffer reaches the
\* Server when nothing fails.
FlushReachesServer ==
    \A a \in Alerts :
        (a \in flusher.batch /\ deployment.push /\ ~deployment.faults)
            ~> a \in activity
=============================================================================
