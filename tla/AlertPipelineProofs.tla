------------------------- MODULE AlertPipelineProofs -------------------------
(***************************************************************************)
(* Proofs about AlertPipeline, for any number of alerts, threads and       *)
(* administrators and in every deployment.                                 *)
(***************************************************************************)
EXTENDS AlertPipeline, FiniteSetTheorems, WellFoundedInduction, TLAPS

-----------------------------------------------------------------------------
(***************************************************************************)
(* Types                                                                   *)
(***************************************************************************)

\* Whatever a thread, the flush, a copy or the Server holds was made, and the
\* flush has a document at the steps that write one.
Shape ==
    /\ \A t \in Threads :
          /\ thread[t].pc # "idle" => thread[t].alert \in Made
          /\ thread[t].pc = "merge" => thread[t].found \in Made
    /\ flusher.batch \subseteq Made /\ flusher.todo \subseteq flusher.batch
    /\ flusher.pc \in {"index", "fallback"} =>
          flusher.doc \in Doc /\ flusher.doc.of \in Made
    /\ \A a \in Alerts : copy[a] # NoDoc => a \in Made
    /\ \A p \in inbox : p.alert \in Made

Typed == TypeOK /\ Shape

LEMMA MadeAlerts ==
    ASSUME Typed
    PROVE  /\ Made \subseteq Alerts
           /\ Buffered \subseteq Made
           /\ made \in Nat
           /\ \A i \in Ids : store[i] # NoAlert => store[i] \in Made
BY AlertAssumption DEF Typed, TypeOK, Made, Alerts, Buffered

\* The steps of a thread keep the types.
LEMMA ThreadTyped ==
    ASSUME Typed, NEW t \in Threads,
           \/ \E i \in Ids, s \in Severities : Detect(t, i, s)
           \/ Ingesting(t)
    PROVE  Typed'
<1>0. /\ thread \in [Threads -> ThreadRecord]
      /\ alert \in [Alerts -> AlertRecord]
      /\ Made \subseteq Alerts /\ made \in Nat
  BY MadeAlerts DEF Typed, TypeOK
<1>1. ASSUME NEW i \in Ids, NEW s \in Severities, Detect(t, i, s)
      PROVE  Typed'
  <2> DEFINE r == [id |-> i, severity |-> s, count |-> 1]
             q == [pc |-> "look", alert |-> made + 1, found |-> NoAlert]
  <2>1. made + 1 \in Alerts /\ made + 1 <= MaxAlerts /\ made' = made + 1
    <3>1. made < MaxAlerts
      <4>1. deployment.alerts \in Alerts
        BY AlertAssumption DEF Typed, TypeOK, DeploymentType
      <4> QED
        BY <1>0, <1>1, <4>1, AlertAssumption DEF Detect, Alerts
    <3> QED
      BY <1>0, <1>1, <3>1, AlertAssumption DEF Detect, Alerts
  <2>2. /\ Made \subseteq Made' /\ made + 1 \in Made'
        /\ made' \in 0 .. MaxAlerts
    BY <1>0, <2>1, AlertAssumption DEF Made
  <2>3. r \in AlertRecord
    BY DEF AlertRecord
  <2>4. q \in ThreadRecord /\ q.pc = "look" /\ q.alert = made + 1
    BY <2>1 DEF ThreadRecord
  <2>5. alert' = [alert EXCEPT ![made + 1] = r] /\ thread' = [thread EXCEPT ![t] = q]
    BY <1>1 DEF Detect
  <2> HIDE DEF r, q
  <2>6. /\ alert' \in [Alerts -> AlertRecord]
        /\ thread' \in [Threads -> ThreadRecord]
    BY <1>0, <2>1, <2>3, <2>4, <2>5
  <2>7. \A u \in Threads :
           /\ thread'[u].pc # "idle" => thread'[u].alert \in Made'
           /\ thread'[u].pc = "merge" => thread'[u].found \in Made'
    BY <1>0, <2>2, <2>4, <2>5 DEF Typed, Shape
  <2> HIDE DEF Made
  <2> QED
    BY <1>1, <2>2, <2>6, <2>7
       DEF Detect, Typed, TypeOK, Shape, indexVars, serverVars, adminVars
<1>2. ASSUME NEW q \in ThreadRecord, thread' = [thread EXCEPT ![t] = q],
             q.pc # "idle" => q.alert \in Made,
             q.pc = "merge" => q.found \in Made,
             alert' \in [Alerts -> AlertRecord],
             store' \in [Ids -> Made \cup {NoAlert}],
             UNCHANGED <<deployment, made, flusher, indexVars, serverVars, adminVars>>
      PROVE  Typed'
  <2>1. thread' \in [Threads -> ThreadRecord]
    BY <1>0, <1>2
  <2>2. Made' = Made
    BY <1>2 DEF Made
  <2>3. \A u \in Threads :
           /\ thread'[u].pc # "idle" => thread'[u].alert \in Made
           /\ thread'[u].pc = "merge" => thread'[u].found \in Made
    BY <1>0, <1>2 DEF Typed, Shape
  <2> QED
    BY <1>2, <2>1, <2>2, <2>3
       DEF Typed, TypeOK, Shape, indexVars, serverVars, adminVars
<1>3. IdleThread \in ThreadRecord /\ IdleThread.pc = "idle"
  BY DEF IdleThread, ThreadRecord
<1>4. /\ thread[t] \in ThreadRecord
      /\ thread[t].pc # "idle" => thread[t].alert \in Made
      /\ thread[t].pc = "merge" => thread[t].found \in Made
      /\ store \in [Ids -> Made \cup {NoAlert}]
  BY DEF Typed, TypeOK, Shape
<1>5. CASE Look(t)
  <2> DEFINE o == store[alert[thread[t].alert].id]
             q == [thread[t] EXCEPT !.found = o,
                                    !.pc = IF o = NoAlert THEN "put" ELSE "merge"]
  <2>1. alert[thread[t].alert].id \in Ids
    BY <1>0, <1>4, <1>5 DEF Look, AlertRecord
  <2>2. o \in Made \cup {NoAlert}
    BY <1>4, <2>1
  <2> HIDE DEF o
  <2>3. /\ q \in ThreadRecord
        /\ q.alert \in Made
        /\ q.pc = "merge" => q.found \in Made
    BY <1>0, <1>4, <1>5, <2>2 DEF Look, ThreadRecord
  <2>4. thread' = [thread EXCEPT ![t] = q]
    BY <1>5 DEF Look, o
  <2> HIDE DEF q
  <2> QED
    BY <1>0, <1>2, <1>4, <1>5, <2>3, <2>4 DEF Look
<1>6. CASE Put(t)
  <2>1. store' \in [Ids -> Made \cup {NoAlert}]
    BY <1>4, <1>6 DEF Put
  <2> QED
    BY <1>0, <1>2, <1>3, <1>6, <2>1 DEF Put
<1>7. CASE Merge(t)
  <2>1. alert' \in [Alerts -> AlertRecord]
    <3> DEFINE o == thread[t].found
               w == Worse(alert[o].severity, alert[thread[t].alert].severity)
               n == [alert[o] EXCEPT !.count = @ + 1, !.severity = w]
    <3>1. alert[o] \in AlertRecord /\ o \in Alerts
      BY <1>0, <1>4, <1>7 DEF Merge
    <3>2. w \in Severities
      BY DEF Worse, Severities
    <3> HIDE DEF w
    <3>3. n \in AlertRecord
      <4>1. \A r \in AlertRecord, c \in Nat, u \in Severities :
               [r EXCEPT !.count = c, !.severity = u] \in AlertRecord
        BY DEF AlertRecord
      <4>2. alert[o].count + 1 \in Nat
        BY <3>1 DEF AlertRecord
      <4> HIDE DEF o
      <4> QED
        BY <3>1, <3>2, <4>1, <4>2
    <3>4. alert' = [alert EXCEPT ![o] = n]
      BY <1>0, <1>7, <3>1 DEF Merge, w
    <3> HIDE DEF n, o
    <3> QED
      BY <1>0, <3>1, <3>3, <3>4
  <2> QED
    BY <1>2, <1>3, <1>4, <1>7, <2>1 DEF Merge
<1> QED
  BY <1>1, <1>5, <1>6, <1>7 DEF Ingesting

\* The flush keeps the types when what it writes has its type.
LEMMA FlushStep ==
    ASSUME Typed, UNCHANGED <<deployment, made, alert, thread, activity, audit, admin, budget>>,
           store' \in [Ids -> Made \cup {NoAlert}],
           flusher' \in FlusherRecord,
           flusher'.batch \subseteq Made, flusher'.todo \subseteq flusher'.batch,
           flusher'.pc \in {"index", "fallback"} =>
              flusher'.doc \in Doc /\ flusher'.doc.of \in Made,
           main' \in [Ids -> MainDoc \cup {NoDoc}], seqNo' \in Nat,
           copy' \in [Alerts -> Doc \cup {NoDoc}],
           \A a \in Alerts : copy'[a] # NoDoc => a \in Made,
           inbox' \subseteq Payload, \A p \in inbox' : p.alert \in Made,
           told' = told
    PROVE  Typed'
<1>1. Made' = Made
  BY DEF Made
<1> QED
  BY <1>1 DEF Typed, TypeOK, Shape

LEMMA UpsertTyped ==
    ASSUME NEW i \in Ids, NEW d \in Doc, main \in [Ids -> MainDoc \cup {NoDoc}],
           seqNo \in Nat
    PROVE  Upserted(i, d) \in MainDoc
<1>1. CASE main[i] = NoDoc
  BY <1>1 DEF Upserted, Doc, MainDoc
<1>2. CASE main[i] # NoDoc
  <2>1. main[i] \in MainDoc
    BY <1>2
  <2>2. d.of \in Alerts /\ d.count \in Nat /\ seqNo + 1 \in Nat
    BY DEF Doc
  <2>3. \A r \in MainDoc, a \in Alerts, c \in Nat, n \in Nat :
           [r EXCEPT !.of = a, !.count = c, !.seqNo = n] \in MainDoc
    BY DEF MainDoc
  <2>4. Upserted(i, d) = [main[i] EXCEPT !.of = d.of, !.count = d.count,
                                         !.seqNo = seqNo + 1]
    BY <1>2 DEF Upserted
  <2>5. [main[i] EXCEPT !.of = d.of, !.count = d.count, !.seqNo = seqNo + 1]
           \in MainDoc
    BY <2>1, <2>2, <2>3
  <2> QED
    BY <2>4, <2>5
<1> QED
  BY <1>1, <1>2

LEMMA FlushTyped ==
    ASSUME Typed, Flush \/ Restart
    PROVE  Typed'
<1>0. /\ store \in [Ids -> Made \cup {NoAlert}]
      /\ flusher \in FlusherRecord
      /\ flusher.batch \subseteq Made /\ flusher.todo \subseteq flusher.batch
      /\ flusher.pc \in {"index", "fallback"} =>
            flusher.doc \in Doc /\ flusher.doc.of \in Made
      /\ main \in [Ids -> MainDoc \cup {NoDoc}] /\ seqNo \in Nat
      /\ copy \in [Alerts -> Doc \cup {NoDoc}]
      /\ \A a \in Alerts : copy[a] # NoDoc => a \in Made
      /\ inbox \subseteq Payload /\ \A p \in inbox : p.alert \in Made
  BY DEF Typed, TypeOK, Shape
<1>1. /\ alert \in [Alerts -> AlertRecord]
      /\ Made \subseteq Alerts /\ Buffered \subseteq Made
  BY MadeAlerts DEF Typed, TypeOK
<1>2. \A i \in Ids : SeqNoOf(i) \in Nat
  <2>1. ASSUME NEW i \in Ids
        PROVE  SeqNoOf(i) \in Nat
    <3>1. main[i] # NoDoc => main[i] \in MainDoc
      BY <1>0
    <3> QED
      BY <3>1 DEF SeqNoOf, MainDoc
  <2> QED
    BY <2>1
<1>3. /\ Waiting \in FlusherRecord /\ Waiting.batch = {}
      /\ Waiting.todo = {} /\ Waiting.pc = "wait"
  BY DEF Waiting, FlusherRecord
<1>4. [i \in Ids |-> NoAlert] \in [Ids -> Made \cup {NoAlert}]
  OBVIOUS
<1>5. CASE Snapshot
  <2> DEFINE f == [flusher EXCEPT !.pc = "clear", !.batch = Buffered, !.todo = Buffered]
  <2>1. /\ f \in FlusherRecord /\ f.pc = "clear"
        /\ f.batch = Buffered /\ f.todo = Buffered
    BY <1>0, <1>1 DEF FlusherRecord
  <2>2. flusher' = f
    BY <1>5 DEF Snapshot
  <2> HIDE DEF f
  <2> QED
    BY <1>0, <1>1, <1>5, <2>1, <2>2, FlushStep
       DEF Snapshot, bufferVars, indexVars, serverVars, adminVars
<1>6. ASSUME flusher.pc \in {"clear", "index", "fallback", "write"},
             NEW pc \in {"write", "fallback", "answer"},
             flusher' = [flusher EXCEPT !.pc = pc],
             pc = "fallback" => flusher.pc = "index"
      PROVE  /\ flusher' \in FlusherRecord
             /\ flusher'.batch = flusher.batch /\ flusher'.todo = flusher.todo
             /\ flusher'.pc \in {"index", "fallback"} =>
                   flusher'.doc \in Doc /\ flusher'.doc.of \in Made
  <2> DEFINE f == [flusher EXCEPT !.pc = pc]
  <2>1. /\ f \in FlusherRecord /\ f.pc = pc /\ f.doc = flusher.doc
        /\ f.batch = flusher.batch /\ f.todo = flusher.todo
    BY <1>0 DEF FlusherRecord
  <2>2. flusher' = f
    BY <1>6
  <2> HIDE DEF f
  <2> QED
    BY <1>0, <1>6, <2>1, <2>2
<1>7. CASE Clear
  <2>1. CASE flusher' = Waiting
    BY <1>0, <1>3, <1>4, <1>7, <2>1, FlushStep
       DEF Clear, indexVars, serverVars, adminVars
  <2>2. CASE flusher' = [flusher EXCEPT !.pc = "write"]
    <3>1. flusher.pc = "clear"
      BY <1>7 DEF Clear
    <3> QED
      BY <1>0, <1>4, <1>6, <1>7, <2>2, <3>1, FlushStep
         DEF Clear, indexVars, serverVars, adminVars
  <2> QED
    BY <1>7, <2>1, <2>2 DEF Clear
<1>8. ASSUME NEW a \in Alerts, StartWrite(a)
      PROVE  Typed'
  <2>1. a \in Made
    BY <1>0, <1>8 DEF StartWrite
  <2>2. DocOf(a) \in Doc /\ DocOf(a).of = a
    BY <1>1, <2>1 DEF DocOf, Doc, AlertRecord, Statuses
  <2>3. SeqNoOf(alert[a].id) \in Nat
    BY <1>1, <1>2 DEF AlertRecord
  <2>4. PICK pc \in {"index", "fallback"} :
           flusher' = [flusher EXCEPT !.pc = pc, !.todo = @ \ {a},
                          !.doc = DocOf(a), !.seqNo = SeqNoOf(alert[a].id)]
    BY <1>8 DEF StartWrite
  <2> DEFINE f == [flusher EXCEPT !.pc = pc, !.todo = @ \ {a},
                      !.doc = DocOf(a), !.seqNo = SeqNoOf(alert[a].id)]
  <2>5. /\ f \in FlusherRecord /\ f.doc = DocOf(a)
        /\ f.batch = flusher.batch /\ f.todo \subseteq flusher.todo
    BY <1>0, <2>2, <2>3 DEF FlusherRecord
  <2>6. flusher' = f
    BY <2>4
  <2> HIDE DEF f
  <2> QED
    BY <1>0, <1>8, <2>1, <2>2, <2>5, <2>6, FlushStep
       DEF StartWrite, bufferVars, indexVars, serverVars, adminVars
<1>9. CASE Index
  <2> DEFINE i == alert[flusher.doc.of].id
  <2>1. flusher.pc = "index" /\ flusher.doc \in Doc /\ flusher.doc.of \in Made
    BY <1>0, <1>9 DEF Index
  <2>2. i \in Ids
    BY <1>1, <2>1 DEF AlertRecord
  <2>3. Upserted(i, flusher.doc) \in MainDoc
    BY <1>0, <2>1, <2>2, UpsertTyped
  <2>4. \/ main' = main /\ seqNo' = seqNo
        \/ main' = [main EXCEPT ![i] = Upserted(i, flusher.doc)] /\ seqNo' = seqNo + 1
    BY <1>9 DEF Index
  <2>5. \E pc \in {"write", "fallback"} : flusher' = [flusher EXCEPT !.pc = pc]
    BY <1>9 DEF Index
  <2> HIDE DEF i
  <2>6. main' \in [Ids -> MainDoc \cup {NoDoc}] /\ seqNo' \in Nat
    BY <1>0, <2>2, <2>3, <2>4
  <2>7. UNCHANGED <<deployment, bufferVars, copy, told, serverVars, adminVars>>
    BY <1>9 DEF Index
  <2> QED
    BY <1>0, <1>6, <2>1, <2>5, <2>6, <2>7, FlushStep
       DEF bufferVars, serverVars, adminVars
<1>10. CASE Fallback
  <2>1. flusher.pc = "fallback" /\ flusher.doc \in Doc /\ flusher.doc.of \in Made
    BY <1>0, <1>10 DEF Fallback
  <2>2. /\ copy' \in [Alerts -> Doc \cup {NoDoc}]
        /\ \A a \in Alerts : copy'[a] # NoDoc => a \in Made
    BY <1>0, <1>1, <1>10, <2>1 DEF Fallback
  <2>3. flusher' = [flusher EXCEPT !.pc = "write"]
    BY <1>10 DEF Fallback
  <2> QED
    BY <1>0, <1>6, <1>10, <2>1, <2>2, <2>3, FlushStep
       DEF Fallback, bufferVars, serverVars, adminVars
<1>11. CASE Post
  <2>1. inbox' \subseteq Payload /\ \A p \in inbox' : p.alert \in Made
    <3> DEFINE new == {[alert |-> a, severity |-> alert[a].severity] :
                          a \in flusher.batch}
    <3>1. \A p \in new : p \in Payload /\ p.alert \in Made
      BY <1>0, <1>1 DEF Payload, AlertRecord
    <3>2. inbox' = inbox \/ inbox' = inbox \cup new
      BY <1>11 DEF Post
    <3> HIDE DEF new
    <3> QED
      BY <1>0, <3>1, <3>2
  <2>2. flusher.pc = "write"
    BY <1>11 DEF Post
  <2>3. flusher' = Waiting \/ flusher' = [flusher EXCEPT !.pc = "answer"]
    BY <1>11 DEF Post
  <2> QED
    BY <1>0, <1>3, <1>6, <1>11, <2>1, <2>2, <2>3, FlushStep
       DEF Post, bufferVars, indexVars, adminVars
<1>12. CASE Answered
  BY <1>0, <1>3, <1>12, FlushStep
     DEF Answered, bufferVars, indexVars, serverVars, adminVars
<1>13. CASE Restart
  <2>1. thread' \in [Threads -> ThreadRecord]
    BY <1>13 DEF Restart, IdleThread, ThreadRecord
  <2>2. \A t \in Threads : thread'[t].pc = "idle"
    BY <1>13 DEF Restart, IdleThread
  <2>3. Made' = Made
    BY <1>13 DEF Restart, Made
  <2> QED
    BY <1>0, <1>3, <1>4, <1>13, <2>1, <2>2, <2>3
       DEF Restart, Typed, TypeOK, Shape, indexVars, serverVars, adminVars
<1> QED
  BY <1>5, <1>7, <1>8, <1>9, <1>10, <1>11, <1>12, <1>13 DEF Flush

\* The steps of the Server, and the pruning, keep the types.
LEMMA ServerStep ==
    ASSUME Typed, UNCHANGED <<deployment, bufferVars, flusher>>,
           main' \in [Ids -> MainDoc \cup {NoDoc}], seqNo' \in Nat,
           copy' \in [Alerts -> Doc \cup {NoDoc}],
           \A a \in Alerts : copy'[a] # NoDoc => copy[a] # NoDoc,
           inbox' \subseteq inbox, activity' \subseteq Made, audit' \subseteq Made,
           admin' \in [Admins -> AdminRecord],
           told' \in [Ids -> Statuses \cup {NoDoc}],
           budget' \in [requests : Nat, prunes : Nat]
    PROVE  Typed'
<1>1. Made' = Made
  BY DEF Made, bufferVars
<1> QED
  BY <1>1 DEF Typed, TypeOK, Shape, bufferVars

LEMMA ServerTyped ==
    ASSUME Typed,
           \/ \E p \in Payload : Ingest(p)
           \/ \E s \in Admins :
                 \/ \E i \in Ids, u \in Statuses : AskStatus(s, i, u)
                 \/ Serve(s) \/ StatusFails(s)
           \/ \E a \in Alerts : Prune(a)
    PROVE  Typed'
<1>0. /\ main \in [Ids -> MainDoc \cup {NoDoc}] /\ seqNo \in Nat
      /\ copy \in [Alerts -> Doc \cup {NoDoc}]
      /\ activity \subseteq Made /\ audit \subseteq Made
      /\ \A p \in inbox : p.alert \in Made
      /\ admin \in [Admins -> AdminRecord]
      /\ told \in [Ids -> Statuses \cup {NoDoc}]
      /\ budget \in [requests : Nat, prunes : Nat]
  BY DEF Typed, TypeOK, Shape
<1>1. ASSUME NEW p \in Payload, Ingest(p)
      PROVE  Typed'
  <2>1. p.alert \in Made
    BY <1>0, <1>1 DEF Ingest
  <2>2. activity' \subseteq Made /\ audit' \subseteq Made /\ inbox' \subseteq inbox
    BY <1>0, <1>1, <2>1 DEF Ingest
  <2> QED
    BY <1>0, <1>1, <2>2, ServerStep DEF Ingest, indexVars, adminVars
<1>2. ASSUME NEW s \in Admins, NEW q \in AdminRecord,
             admin' = [admin EXCEPT ![s] = q]
      PROVE  admin' \in [Admins -> AdminRecord]
  BY <1>0, <1>2
<1>3. IdleAdmin \in AdminRecord
  BY DEF AdminRecord
<1>4. ASSUME NEW s \in Admins, NEW i \in Ids, NEW u \in Statuses,
             AskStatus(s, i, u)
      PROVE  Typed'
  <2> DEFINE q == [pc |-> "find", id |-> i, status |-> u]
  <2>1. q \in AdminRecord
    BY DEF AdminRecord
  <2>2. admin' = [admin EXCEPT ![s] = q]
    BY <1>4 DEF AskStatus
  <2>3. budget' \in [requests : Nat, prunes : Nat]
    BY <1>0, <1>4 DEF AskStatus
  <2> HIDE DEF q
  <2> QED
    BY <1>0, <1>2, <1>4, <2>1, <2>2, <2>3, ServerStep
       DEF AskStatus, indexVars, serverVars
<1>5. ASSUME NEW s \in Admins, admin[s].pc # "idle"
      PROVE  /\ admin[s].id \in Ids /\ admin[s].status \in Statuses
  <2>1. admin[s] \in AdminRecord /\ admin[s] # IdleAdmin
    BY <1>0, <1>5 DEF IdleAdmin
  <2> QED
    BY <2>1 DEF AdminRecord
<1>6. ASSUME NEW s \in Admins, Find(s)
      PROVE  Typed'
  <2>1. admin[s].id \in Ids /\ admin[s].status \in Statuses
    BY <1>5, <1>6 DEF Find
  <2>2. PICK v \in {0, SeqNoOf(admin[s].id)}, c \in SUBSET CopiesOf(admin[s].id) :
           admin' = [admin EXCEPT ![s] =
                        [pc |-> "apply", id |-> admin[s].id,
                         status |-> admin[s].status, seqNo |-> v, copies |-> c]]
    BY <1>6 DEF Find
  <2>3. v \in Nat
    <3>1. SeqNoOf(admin[s].id) \in Nat
      <4>1. main[admin[s].id] # NoDoc => main[admin[s].id] \in MainDoc
        BY <1>0, <2>1
      <4> QED
        BY <4>1 DEF SeqNoOf, MainDoc
    <3> QED
      BY <3>1
  <2>4. c \in SUBSET Alerts
    BY DEF CopiesOf
  <2> DEFINE q == [pc |-> "apply", id |-> admin[s].id,
                   status |-> admin[s].status, seqNo |-> v, copies |-> c]
  <2>5. q \in AdminRecord
    BY <2>1, <2>3, <2>4 DEF AdminRecord
  <2>6. admin' = [admin EXCEPT ![s] = q]
    BY <2>2
  <2> HIDE DEF q
  <2> QED
    BY <1>0, <1>2, <1>6, <2>5, <2>6, ServerStep DEF Find, indexVars, serverVars
<1>7. ASSUME NEW s \in Admins, Apply(s)
      PROVE  Typed'
  <2> DEFINE i == admin[s].id
             u == admin[s].status
             m == [main[i] EXCEPT !.status = u, !.seqNo = seqNo + 1]
             hit == admin[s].seqNo # 0 /\ admin[s].seqNo = SeqNoOf(i)
             hits == admin[s].copies \cap CopiesOf(i)
  <2>1. i \in Ids /\ u \in Statuses
    BY <1>5, <1>7 DEF Apply
  <2>2. /\ main' = IF hit THEN [main EXCEPT ![i].status = u,
                                            ![i].seqNo = seqNo + 1]
                          ELSE main
        /\ seqNo' = IF hit THEN seqNo + 1 ELSE seqNo
        /\ copy' = [a \in Alerts |-> IF a \in hits
                                     THEN [copy[a] EXCEPT !.status = u]
                                     ELSE copy[a]]
        /\ told' = IF hit \/ hits # {} THEN [told EXCEPT ![i] = u] ELSE told
        /\ admin' = [admin EXCEPT ![s] = IdleAdmin]
        /\ UNCHANGED <<deployment, bufferVars, flusher, serverVars, budget>>
    BY <1>7 DEF Apply
  <2>3. hit => main[i] \in MainDoc
    BY <1>0, <2>1 DEF SeqNoOf
  <2>4. \A a \in hits : copy[a] # NoDoc /\ copy[a] \in Doc /\ a \in Alerts
    BY <1>0 DEF CopiesOf
  <2> HIDE DEF i, u, hit, hits
  <2>5. hit => main' \in [Ids -> MainDoc \cup {NoDoc}]
    <3>1. \A r \in MainDoc, n \in Nat :
             [r EXCEPT !.status = u, !.seqNo = n] \in MainDoc
      BY <2>1 DEF MainDoc
    <3>2. ASSUME hit
          PROVE  m \in MainDoc
      <4>1. main[i] \in MainDoc /\ u \in Statuses /\ seqNo + 1 \in Nat
        BY <1>0, <2>1, <2>3, <3>2
      <4> HIDE DEF MainDoc
      <4> QED
        BY <3>1, <4>1
    <3>3. ASSUME hit
          PROVE  main' = [main EXCEPT ![i] = m]
      BY <1>0, <2>1, <2>2, <3>3
    <3> HIDE DEF m
    <3> QED
      BY <1>0, <2>1, <3>2, <3>3
  <2>6. copy' \in [Alerts -> Doc \cup {NoDoc}]
    <3>1. \A r \in Doc : [r EXCEPT !.status = u] \in Doc
      BY <2>1 DEF Doc
    <3> DEFINE c(a) == IF a \in hits THEN [copy[a] EXCEPT !.status = u] ELSE copy[a]
    <3>2. ASSUME NEW a \in Alerts
          PROVE  c(a) \in Doc \cup {NoDoc}
      <4>1. CASE a \in hits
        <5>1. copy[a] \in Doc
          BY <2>4, <4>1
        <5> HIDE DEF Doc
        <5> QED
          BY <3>1, <4>1, <5>1
      <4>2. CASE a \notin hits
        BY <1>0, <4>2
      <4> QED
        BY <4>1, <4>2
    <3>3. copy' = [a \in Alerts |-> c(a)]
      BY <2>2
    <3> HIDE DEF c
    <3> QED
      BY <3>2, <3>3
  <2>7. \A a \in Alerts : copy'[a] # NoDoc => copy[a] # NoDoc
    BY <2>2, <2>4
  <2>8. told' \in [Ids -> Statuses \cup {NoDoc}]
    BY <1>0, <2>1, <2>2
  <2>9. main' \in [Ids -> MainDoc \cup {NoDoc}] /\ seqNo' \in Nat
    BY <1>0, <2>2, <2>5
  <2> QED
    BY <1>0, <1>2, <1>3, <2>2, <2>6, <2>7, <2>8, <2>9, ServerStep DEF serverVars
<1>8. ASSUME NEW s \in Admins, StatusFails(s)
      PROVE  Typed'
  BY <1>0, <1>2, <1>3, <1>8, ServerStep DEF StatusFails, indexVars, serverVars
<1>9. ASSUME NEW b \in Alerts, Prune(b)
      PROVE  Typed'
  <2>1. /\ main' \in [Ids -> MainDoc \cup {NoDoc}]
        /\ copy' \in [Alerts -> Doc \cup {NoDoc}]
        /\ \A a \in Alerts : copy'[a] # NoDoc => copy[a] # NoDoc
        /\ told' \in [Ids -> Statuses \cup {NoDoc}]
    BY <1>0, <1>9 DEF Prune
  <2>2. budget' \in [requests : Nat, prunes : Nat]
    BY <1>0, <1>9 DEF Prune
  <2> QED
    BY <1>0, <1>9, <2>1, <2>2, ServerStep DEF Prune, serverVars
<1> QED
  BY <1>1, <1>4, <1>6, <1>7, <1>8, <1>9 DEF Serve

LEMMA InitTyped == Init => Typed
<1> SUFFICES ASSUME Init PROVE Typed
  OBVIOUS
<1>1. /\ deployment \in Deployments /\ deployment \in DeploymentType
  BY AlertAssumption DEF Init
<1>2. budget \in [requests : Nat, prunes : Nat]
  BY <1>1, AlertAssumption DEF Init, DeploymentType
<1>3. alert \in [Alerts -> AlertRecord]
  <2>1. (CHOOSE i \in Ids : TRUE) \in Ids
    BY AlertAssumption
  <2>2. [id |-> CHOOSE i \in Ids : TRUE, severity |-> "medium", count |-> 0]
           \in AlertRecord
    BY <2>1 DEF AlertRecord, Severities
  <2> QED
    BY <2>2 DEF Init
<1>4. /\ thread \in [Threads -> ThreadRecord]
      /\ \A t \in Threads : thread[t].pc = "idle"
  BY DEF Init, IdleThread, ThreadRecord
<1>5. flusher \in FlusherRecord /\ flusher.batch = {} /\ flusher.todo = {}
      /\ flusher.pc = "wait"
  BY DEF Init, Waiting, FlusherRecord
<1>6. admin \in [Admins -> AdminRecord]
  BY DEF Init, AdminRecord
<1> QED
  BY <1>1, <1>2, <1>3, <1>4, <1>5, <1>6, AlertAssumption
     DEF Init, Typed, TypeOK, Shape

LEMMA NextTyped == Typed /\ [Next]_vars => Typed'
<1> SUFFICES ASSUME Typed, [Next]_vars PROVE Typed'
  OBVIOUS
<1>1. CASE Next
  BY <1>1, ThreadTyped, FlushTyped, ServerTyped DEF Next
<1>2. CASE UNCHANGED vars
  BY <1>2 DEF vars, Typed, TypeOK, Shape, Made
<1> QED
  BY <1>1, <1>2

\* Every variable of AlertPipeline keeps its type: what the buffer, the flush,
\* the index and the Server hold are alerts that were made.
THEOREM TypeCorrect == Spec => []TypeOK
<1>1. Typed => TypeOK
  BY DEF Typed
<1> QED
  BY <1>1, InitTyped, NextTyped, PTL DEF Spec

-----------------------------------------------------------------------------
(***************************************************************************)
(* The status of an alert                                                  *)
(***************************************************************************)

\* A step that forgets no document and no status keeps StatusKept.
LEMMA StatusStep ==
    ASSUME StatusKept, told' = told,
           \A a \in Alerts : copy[a] # NoDoc =>
              copy'[a] # NoDoc /\ alert'[a].id = alert[a].id,
           \A i \in Ids : main[i] # NoDoc =>
              main'[i] # NoDoc /\ main'[i].status = main[i].status
    PROVE  StatusKept'
<1>1. \A i \in Ids : CopiesOf(i) \subseteq CopiesOf(i)'
  BY DEF CopiesOf
<1> QED
  BY <1>1 DEF StatusKept

LEMMA ThreadKeepsStatus ==
    ASSUME Typed, StatusKept, NEW t \in Threads,
           \/ \E i \in Ids, s \in Severities : Detect(t, i, s)
           \/ Ingesting(t)
    PROVE  StatusKept'
<1>1. UNCHANGED indexVars
  BY DEF Ingesting, Detect, Look, Put, Merge
<1>2. \A a \in Made : alert'[a].id = alert[a].id
  <2>1. alert \in [Alerts -> AlertRecord] /\ made \in Nat /\ Made \subseteq Alerts
    BY MadeAlerts DEF Typed, TypeOK
  <2>2. CASE \E i \in Ids, s \in Severities : Detect(t, i, s)
    BY <2>1, <2>2 DEF Detect, Made
  <2>3. CASE Merge(t)
    BY <2>1, <2>3 DEF Merge, AlertRecord
  <2>4. CASE Look(t) \/ Put(t)
    BY <2>4 DEF Look, Put
  <2> QED
    BY <2>2, <2>3, <2>4 DEF Ingesting
<1> QED
  BY <1>1, <1>2, StatusStep DEF indexVars, Typed, Shape

LEMMA FlushKeepsStatus ==
    ASSUME Typed, StatusKept, Flush \/ Restart
    PROVE  StatusKept'
<1>1. alert' = alert /\ told' = told
  BY DEF Flush, Restart, Snapshot, Clear, StartWrite, Index, Fallback, Post,
         Answered, bufferVars, indexVars
<1>2. /\ flusher.pc \in {"index", "fallback"} =>
            flusher.doc \in Doc /\ flusher.doc.of \in Made
      /\ main \in [Ids -> MainDoc \cup {NoDoc}] /\ seqNo \in Nat
      /\ copy \in [Alerts -> Doc \cup {NoDoc}]
      /\ alert \in [Alerts -> AlertRecord] /\ Made \subseteq Alerts
  BY MadeAlerts DEF Typed, TypeOK, Shape
<1>3. CASE Index
  <2> DEFINE i == alert[flusher.doc.of].id
             r == Upserted(i, flusher.doc)
  <2>1. i \in Ids /\ flusher.doc \in Doc
    BY <1>2, <1>3 DEF Index, AlertRecord
  <2>2. main' = main \/ main' = [main EXCEPT ![i] = r]
    BY <1>3 DEF Index
  <2>3. r # NoDoc
    BY <1>2, <2>1, UpsertTyped, AlertAssumption
  <2>4. main[i] # NoDoc => r.status = main[i].status
    BY <1>2, <2>1 DEF Upserted, MainDoc
  <2>5. copy' = copy
    BY <1>3 DEF Index
  <2> HIDE DEF i, r
  <2> QED
    BY <1>1, <1>2, <2>1, <2>2, <2>3, <2>4, <2>5, StatusStep
<1>4. CASE Fallback
  <2>1. flusher.doc \in Doc /\ flusher.doc.of \in Alerts /\ flusher.doc # NoDoc
    BY <1>2, <1>4, AlertAssumption DEF Fallback
  <2>2. copy' = copy \/ copy' = [copy EXCEPT ![flusher.doc.of] = flusher.doc]
    BY <1>4 DEF Fallback
  <2>3. main' = main
    BY <1>4 DEF Fallback
  <2> QED
    BY <1>1, <1>2, <2>1, <2>2, <2>3, StatusStep
<1>5. CASE ~(Index \/ Fallback)
  <2>1. main' = main /\ copy' = copy
    BY <1>5 DEF Flush, Restart, Snapshot, Clear, StartWrite, Post, Answered,
                indexVars
  <2> QED
    BY <1>1, <2>1, StatusStep
<1> QED
  BY <1>3, <1>4, <1>5

LEMMA ServerKeepsStatus ==
    ASSUME Typed, StatusKept,
           \/ \E p \in Payload : Ingest(p)
           \/ \E s \in Admins :
                 \/ \E i \in Ids, u \in Statuses : AskStatus(s, i, u)
                 \/ Serve(s) \/ StatusFails(s)
           \/ \E a \in Alerts : Prune(a)
    PROVE  StatusKept'
<1>0. /\ main \in [Ids -> MainDoc \cup {NoDoc}] /\ seqNo \in Nat
      /\ copy \in [Alerts -> Doc \cup {NoDoc}]
      /\ told \in [Ids -> Statuses \cup {NoDoc}]
  BY DEF Typed, TypeOK
<1>1. alert' = alert
  BY DEF Ingest, AskStatus, Serve, Find, Apply, StatusFails, Prune, bufferVars
<1>2. ASSUME NEW s \in Admins, Apply(s)
      PROVE  StatusKept'
  <2> DEFINE i == admin[s].id
             u == admin[s].status
             hit == admin[s].seqNo # 0 /\ admin[s].seqNo = SeqNoOf(i)
             hits == admin[s].copies \cap CopiesOf(i)
  <2>1. i \in Ids /\ u \in Statuses
    <3>1. admin[s] \in AdminRecord /\ admin[s].pc = "apply"
      BY <1>2 DEF Apply, Typed, TypeOK
    <3> QED
      BY <3>1 DEF AdminRecord, IdleAdmin
  <2>2. /\ main' = IF hit THEN [main EXCEPT ![i].status = u,
                                            ![i].seqNo = seqNo + 1]
                          ELSE main
        /\ copy' = [a \in Alerts |-> IF a \in hits
                                     THEN [copy[a] EXCEPT !.status = u]
                                     ELSE copy[a]]
        /\ told' = IF hit \/ hits # {} THEN [told EXCEPT ![i] = u] ELSE told
    BY <1>2 DEF Apply
  <2>3. hit => main[i] \in MainDoc
    BY <1>0, <2>1 DEF SeqNoOf
  <2>4. hits \subseteq CopiesOf(i)
    OBVIOUS
  <2> HIDE DEF i, u, hit, hits
  <2>5. \A j \in Ids : CopiesOf(j)' = CopiesOf(j)
    <3>1. \A a \in hits : copy[a] \in Doc /\ a \in Alerts
      BY <1>0, <2>4 DEF CopiesOf
    <3>2. \A r \in Doc : [r EXCEPT !.status = u] \in Doc
      BY <2>1 DEF Doc
    <3>3. \A a \in Alerts : copy'[a] # NoDoc <=> copy[a] # NoDoc
      <4>1. ASSUME NEW a \in Alerts
            PROVE  copy'[a] # NoDoc <=> copy[a] # NoDoc
        <5>1. CASE a \in hits
          <6>1. copy'[a] = [copy[a] EXCEPT !.status = u]
            BY <2>2, <5>1
          <6>2. copy[a] \in Doc
            BY <3>1, <5>1
          <6>3. copy'[a] \in Doc
            BY <3>2, <6>1, <6>2
          <6> QED
            BY <6>2, <6>3, AlertAssumption
        <5>2. CASE a \notin hits
          BY <2>2, <5>2
        <5> QED
          BY <5>1, <5>2
      <4> QED
        BY <4>1
    <3> QED
      BY <1>1, <3>3 DEF CopiesOf
  <2>6. CASE hit
    <3> DEFINE m == [main[i] EXCEPT !.status = u, !.seqNo = seqNo + 1]
    <3>1. main' = [main EXCEPT ![i] = m]
      BY <1>0, <2>1, <2>2, <2>6
    <3>2. m \in MainDoc /\ m.status = u
      <4>1. main[i] \in MainDoc /\ seqNo + 1 \in Nat
        BY <1>0, <2>3, <2>6
      <4> QED
        BY <2>1, <4>1 DEF MainDoc
    <3>3. told' = [told EXCEPT ![i] = u]
      BY <2>2, <2>6
    <3> HIDE DEF m
    <3>4. main'[i] # NoDoc /\ main'[i].status = told'[i]
      BY <1>0, <2>1, <3>1, <3>2, <3>3, AlertAssumption
    <3>5. \A j \in Ids \ {i} : main'[j] = main[j] /\ told'[j] = told[j]
      BY <1>0, <3>1, <3>3
    <3> QED
      BY <2>5, <3>4, <3>5 DEF StatusKept
  <2>7. CASE ~hit
    <3>1. main' = main
      BY <2>2, <2>7
    <3>2. \A j \in Ids : told'[j] # told[j] => CopiesOf(j) # {}
      BY <1>0, <2>1, <2>2, <2>4, <2>7
    <3> QED
      BY <2>5, <3>1, <3>2 DEF StatusKept
  <2> QED
    BY <2>6, <2>7
<1>3. ASSUME NEW b \in Alerts, Prune(b)
      PROVE  StatusKept'
  <2> DEFINE old == {i \in Ids : main[i] # NoDoc /\ main[i].of < b}
             oldCopies == {a \in Alerts : copy[a] # NoDoc /\ a < b}
             gone == old \cup {alert[a].id : a \in oldCopies}
  <2>1. /\ main' = [i \in Ids |-> IF i \in old THEN NoDoc ELSE main[i]]
        /\ copy' = [a \in Alerts |-> IF a \in oldCopies THEN NoDoc ELSE copy[a]]
        /\ told' = [i \in Ids |-> IF i \in gone THEN NoDoc ELSE told[i]]
    BY <1>3 DEF Prune
  <2> HIDE DEF old, oldCopies
  <2>2. ASSUME NEW i \in Ids, told'[i] # NoDoc, CopiesOf(i)' = {}
        PROVE  main'[i] # NoDoc /\ main'[i].status = told'[i]
    <3>1. i \notin gone
      BY <2>1, <2>2
    <3>2. told'[i] = told[i] /\ main'[i] = main[i]
      BY <2>1, <3>1
    <3>3. CopiesOf(i) = {}
      <4>1. \A a \in CopiesOf(i) : a \in Alerts /\ a \notin oldCopies
        BY <3>1 DEF CopiesOf
      <4>2. CopiesOf(i) \subseteq CopiesOf(i)'
        BY <1>1, <2>1, <4>1 DEF CopiesOf
      <4> QED
        BY <2>2, <4>2
    <3> QED
      BY <2>2, <3>2, <3>3 DEF StatusKept
  <2> QED
    BY <2>2 DEF StatusKept
<1>4. CASE UNCHANGED <<main, copy, told>>
  BY <1>1, <1>4, StatusStep
<1> QED
  BY <1>2, <1>3, <1>4 DEF Ingest, AskStatus, Serve, Find, StatusFails, indexVars

\* The status a client was told of survives every flush, restart and fault,
\* unless the alert has got a document indexed without its id.
THEOREM StatusSurvives == Spec => []StatusKept
<1>1. Init => StatusKept
  BY DEF Init, StatusKept
<1>2. Typed /\ StatusKept /\ [Next]_vars => StatusKept'
  <2> SUFFICES ASSUME Typed, StatusKept, [Next]_vars PROVE StatusKept'
    OBVIOUS
  <2>1. CASE Next
    BY <2>1, ThreadKeepsStatus, FlushKeepsStatus, ServerKeepsStatus DEF Next
  <2>2. CASE UNCHANGED vars
    BY <2>2, StatusStep DEF vars
  <2> QED
    BY <2>1, <2>2
<1> QED
  BY <1>1, <1>2, InitTyped, NextTyped, PTL DEF Spec

-----------------------------------------------------------------------------
(***************************************************************************)
(* Sums over a finite set.  No induction principle is needed: if some      *)
(* enumerations fail a property, one of them is the shortest.              *)
(***************************************************************************)

\* A set of naturals that has an element has a least one.
LEMMA LeastElement ==
    ASSUME NEW B \in SUBSET Nat, B # {}
    PROVE  \E n \in B : \A m \in B : n <= m
<1> DEFINE R == OpToRel(<, Nat)
<1>1. IsWellFoundedOn(R, Nat)
  BY NatLessThanWellFounded
<1>2. \A m, n \in Nat : m < n => <<m, n>> \in R
  BY DEF OpToRel
<1> HIDE DEF R
<1>3. PICK n \in B : \A m \in B : ~(<<m, n>> \in R)
  BY <1>1, WFMin
<1>4. ASSUME NEW m \in B PROVE n <= m
  <2>1. m \in Nat /\ n \in Nat /\ ~(m < n)
    BY <1>2, <1>3
  <2> QED
    BY <2>1
<1> QED
  BY <1>4

\* The element the fold over a set takes next, the equation of the fold, and
\* what it yields: the sum of the counts.
One(s) == CHOOSE x \in s : TRUE
Adds(al, S, g) == g = [s \in SUBSET S |->
    IF s = {} THEN 0 ELSE al[One(s)].count + g[s \ {One(s)}]]
Sum(al, S) == MapThenSumSet(LAMBDA a : al[a].count, S)
Counts(al) == \A a \in Alerts : al[a].count \in Nat

\* The sum is the value of the function the fold chooses.
LEMMA SumIs ==
    ASSUME NEW al, NEW S
    PROVE  Sum(al, S) = (CHOOSE g : Adds(al, S, g))[S]
  BY DEF Sum, MapThenSumSet, MapThenFoldSet, Adds, One

\* What is chosen from a set, and the rest of it.
LEMMA OneOf ==
    ASSUME NEW S \in SUBSET Alerts, NEW s \in SUBSET S
    PROVE  /\ IsFiniteSet(s) /\ Cardinality(s) \in Nat
           /\ \A x \in s : /\ s \ {x} \in SUBSET S
                           /\ Cardinality(s \ {x}) = Cardinality(s) - 1
                           /\ Cardinality(s \ {x}) \in Nat
           /\ s # {} => One(s) \in s /\ One(s) \in Alerts
<1>1. IsFiniteSet(Alerts)
  BY AlertAssumption, FS_Interval DEF Alerts
<1>2. IsFiniteSet(s)
  BY <1>1, FS_Subset
<1>3. Cardinality(s) \in Nat
  BY <1>2, FS_CardinalityType
<1>4. ASSUME NEW x \in s
      PROVE  /\ s \ {x} \in SUBSET S
             /\ Cardinality(s \ {x}) = Cardinality(s) - 1
             /\ Cardinality(s \ {x}) \in Nat
  <2>1. IsFiniteSet(s \ {x})
    BY <1>2, FS_Subset
  <2> QED
    BY <1>2, <1>3, <2>1, FS_RemoveElement, FS_CardinalityType
<1>5. s # {} => One(s) \in s
  BY DEF One
<1> QED
  BY <1>2, <1>3, <1>4, <1>5

\* There is such a function, with values in Nat.
AddsUpTo(al, S, n, g) ==
    \A s \in SUBSET S : Cardinality(s) <= n =>
       g[s] = IF s = {} THEN 0 ELSE al[One(s)].count + g[s \ {One(s)}]

\* There is a function that adds up the counts of every subset:
LEMMA SumExists ==
    ASSUME NEW al, Counts(al), NEW S \in SUBSET Alerts
    PROVE  \E g \in [SUBSET S -> Nat] : Adds(al, S, g)
<1> DEFINE P(n) == \E g \in [SUBSET S -> Nat] : AddsUpTo(al, S, n, g)
           B == {n \in Nat : ~P(n)}
<1>1. \A s \in SUBSET S :
         /\ Cardinality(s) \in Nat
         /\ s # {} => /\ One(s) \in s /\ One(s) \in Alerts
                      /\ s \ {One(s)} \in SUBSET S
                      /\ Cardinality(s \ {One(s)}) = Cardinality(s) - 1
  BY OneOf
<1>2. P(0)
  <2> DEFINE g == [s \in SUBSET S |-> 0]
  <2>1. \A s \in SUBSET S : Cardinality(s) <= 0 => s = {}
    <3>1. ASSUME NEW s \in SUBSET S, Cardinality(s) <= 0, s # {} PROVE FALSE
      <4>1. /\ Cardinality(s) \in Nat
            /\ Cardinality(s \ {One(s)}) = Cardinality(s) - 1
            /\ Cardinality(s \ {One(s)}) \in Nat
        BY <1>1, <3>1
      <4> QED
        BY <3>1, <4>1
    <3> QED
      BY <3>1
  <2>2. g \in [SUBSET S -> Nat]
    OBVIOUS
  <2>3. AddsUpTo(al, S, 0, g)
    BY <2>1 DEF AddsUpTo
  <2> QED
    BY <2>2, <2>3
<1>3. ASSUME NEW n \in Nat, P(n) PROVE P(n + 1)
  <2>1. PICK g \in [SUBSET S -> Nat] : AddsUpTo(al, S, n, g)
    BY <1>3
  <2> DEFINE h == [s \in SUBSET S |->
                     IF s = {} THEN 0 ELSE al[One(s)].count + g[s \ {One(s)}]]
  <2>2. h \in [SUBSET S -> Nat]
    <3>1. ASSUME NEW s \in SUBSET S, s # {}
          PROVE  al[One(s)].count + g[s \ {One(s)}] \in Nat
      <4>1. al[One(s)].count \in Nat /\ g[s \ {One(s)}] \in Nat
        BY <1>1, <3>1 DEF Counts
      <4> QED
        BY <4>1
    <3> QED
      BY <3>1
  <2>3. ASSUME NEW s \in SUBSET S, Cardinality(s) <= n + 1, s # {}
        PROVE  h[s] = al[One(s)].count + h[s \ {One(s)}]
    <3> DEFINE r == s \ {One(s)}
    <3>1. r \in SUBSET S /\ Cardinality(r) <= n
      BY <1>1, <2>3
    <3> HIDE DEF r
    <3>2. g[r] = IF r = {} THEN 0 ELSE al[One(r)].count + g[r \ {One(r)}]
      BY <2>1, <3>1 DEF AddsUpTo
    <3>3. h[r] = g[r]
      BY <3>1, <3>2
    <3>4. h[s] = al[One(s)].count + g[r]
      BY <2>3 DEF r
    <3> QED
      BY <3>3, <3>4 DEF r
  <2>4. \A s \in SUBSET S : s = {} => h[s] = 0
    OBVIOUS
  <2> HIDE DEF h
  <2>5. AddsUpTo(al, S, n + 1, h)
    BY <2>3, <2>4 DEF AddsUpTo
  <2> QED
    BY <2>2, <2>5
<1> HIDE DEF P
<1>4. B = {}
  <2> SUFFICES ASSUME B # {} PROVE FALSE
    OBVIOUS
  <2>1. PICK n \in B : \A m \in B : n <= m
    BY LeastElement
  <2>2. n \in Nat /\ n # 0
    BY <1>2
  <2>3. n - 1 \in Nat /\ n - 1 \notin B
    BY <2>1, <2>2
  <2>4. P((n - 1) + 1)
    BY <1>3, <2>3
  <2>5. (n - 1) + 1 = n
    BY <2>2
  <2> QED
    BY <2>4, <2>5
<1>5. Cardinality(S) \in Nat /\ \A s \in SUBSET S : Cardinality(s) <= Cardinality(S)
  <2>1. IsFiniteSet(S) /\ Cardinality(S) \in Nat
    BY OneOf
  <2> QED
    BY <2>1, FS_Subset
<1>6. PICK g \in [SUBSET S -> Nat] : AddsUpTo(al, S, Cardinality(S), g)
  BY <1>4, <1>5 DEF P
<1>7. \A s \in SUBSET S :
         g[s] = IF s = {} THEN 0 ELSE al[One(s)].count + g[s \ {One(s)}]
  BY <1>5, <1>6 DEF AddsUpTo
<1>8. Adds(al, S, g)
  BY <1>7 DEF Adds
<1> QED
  BY <1>8

\* The sum of a set is the value of any such function of a larger set, and
\* depends on nothing but the counts.
LEMMA SumUnique ==
    ASSUME NEW al, NEW bl, NEW S \in SUBSET Alerts, NEW T \in SUBSET S,
           NEW g, NEW h, Adds(al, S, g), Adds(bl, T, h),
           \A a \in T : al[a].count = bl[a].count
    PROVE  \A s \in SUBSET T : g[s] = h[s]
<1> DEFINE Off == {s \in SUBSET T : g[s] # h[s]}
           B == {Cardinality(s) : s \in Off}
<1>1. \A s \in SUBSET T :
         /\ Cardinality(s) \in Nat
         /\ s # {} => /\ One(s) \in s /\ One(s) \in T
                      /\ s \ {One(s)} \in SUBSET T
                      /\ Cardinality(s \ {One(s)}) = Cardinality(s) - 1
  BY OneOf
<1>2. \A s \in SUBSET T :
         /\ g[s] = IF s = {} THEN 0 ELSE al[One(s)].count + g[s \ {One(s)}]
         /\ h[s] = IF s = {} THEN 0 ELSE bl[One(s)].count + h[s \ {One(s)}]
  BY DEF Adds
<1> SUFFICES ASSUME Off # {} PROVE FALSE
  OBVIOUS
<1>3. B \in SUBSET Nat /\ B # {}
  <2>1. \A s \in Off : Cardinality(s) \in Nat /\ Cardinality(s) \in B
    BY <1>1
  <2> QED
    BY <2>1
<1>4. PICK n \in B : \A m \in B : n <= m
  BY <1>3, LeastElement
<1>5. PICK s \in Off : n = Cardinality(s)
  BY <1>4
<1>6. s \in SUBSET T /\ g[s] # h[s]
  BY <1>5
<1>7. s # {}
  BY <1>2, <1>6
<1> DEFINE r == s \ {One(s)}
<1>8. g[r] # h[r] /\ r \in SUBSET T /\ Cardinality(r) = n - 1 /\ n \in Nat
  BY <1>1, <1>2, <1>5, <1>6, <1>7
<1>9. n <= Cardinality(r)
  BY <1>4, <1>8
<1> QED
  BY <1>8, <1>9

\* and its value is the sum.
LEMMA SumValue ==
    ASSUME NEW al, Counts(al), NEW S \in SUBSET Alerts, NEW T \in SUBSET S,
           NEW g, Adds(al, S, g)
    PROVE  Sum(al, T) = g[T]
<1>1. PICK h : Adds(al, T, h)
  BY SumExists
<1> DEFINE c == CHOOSE f : Adds(al, T, f)
<1>2. Adds(al, T, c)
  BY <1>1
<1>3. Sum(al, T) = c[T]
  BY SumIs
<1> HIDE DEF c
<1>4. g[T] = c[T]
  BY <1>2, SumUnique
<1> QED
  BY <1>3, <1>4

\* Nothing counts for nothing; what counts alike sums alike.
LEMMA SumSame ==
    ASSUME NEW al, Counts(al), NEW bl, Counts(bl), NEW S \in SUBSET Alerts,
           \A a \in S : al[a].count = bl[a].count
    PROVE  Sum(al, S) = Sum(bl, S) /\ Sum(al, S) \in Nat
<1>1. PICK g \in [SUBSET S -> Nat] : Adds(al, S, g)
  BY SumExists
<1>2. PICK h \in [SUBSET S -> Nat] : Adds(bl, S, h)
  BY SumExists
<1>3. Sum(al, S) = g[S] /\ Sum(bl, S) = h[S]
  BY <1>1, <1>2, SumValue
<1>4. g[S] = h[S]
  BY <1>1, <1>2, SumUnique
<1> QED
  BY <1>1, <1>3, <1>4

\* The sum over no alert.
LEMMA SumEmpty ==
    ASSUME NEW al, Counts(al)
    PROVE  Sum(al, {}) = 0
<1>1. PICK g \in [SUBSET {} -> Nat] : Adds(al, {}, g)
  BY SumExists
<1>2. g[{}] = 0
  BY <1>1 DEF Adds
<1> QED
  BY <1>1, <1>2, SumValue

\* An element may be taken from the sum in any order.
AnyOrder(al, S, g) ==
    \A s \in SUBSET S : \A a \in s : g[s] = al[a].count + g[s \ {a}]

\* The same function for a set and all its subsets.
LEMMA SumOfRest ==
    ASSUME NEW al, Counts(al), NEW S \in SUBSET Alerts
    PROVE  \E g \in [SUBSET S -> Nat] : Adds(al, S, g) /\ AnyOrder(al, S, g)
<1> PICK g \in [SUBSET S -> Nat] : Adds(al, S, g)
  BY SumExists
<1> SUFFICES AnyOrder(al, S, g)
  OBVIOUS
<1> DEFINE Off == {s \in SUBSET S : \E a \in s : g[s] # al[a].count + g[s \ {a}]}
           B == {Cardinality(s) : s \in Off}
<1>1. \A s \in SUBSET S :
         /\ Cardinality(s) \in Nat
         /\ s # {} => /\ One(s) \in s /\ One(s) \in S
                      /\ s \ {One(s)} \in SUBSET S
                      /\ Cardinality(s \ {One(s)}) = Cardinality(s) - 1
  BY OneOf
<1>2. \A s \in SUBSET S :
         g[s] = IF s = {} THEN 0 ELSE al[One(s)].count + g[s \ {One(s)}]
  BY DEF Adds
<1> SUFFICES ASSUME Off # {} PROVE FALSE
  BY DEF AnyOrder
<1>3. B \in SUBSET Nat /\ B # {}
  <2>1. \A s \in Off : Cardinality(s) \in Nat /\ Cardinality(s) \in B
    BY <1>1
  <2> QED
    BY <2>1
<1>4. PICK n \in B : \A m \in B : n <= m
  BY <1>3, LeastElement
<1>5. PICK s \in Off : n = Cardinality(s)
  BY <1>4
<1>6. s \in SUBSET S /\ n \in Nat
  BY <1>1, <1>5
<1>7. PICK a \in s : g[s] # al[a].count + g[s \ {a}]
  BY <1>5
<1> DEFINE x == One(s)
           r == s \ {x}
<1>8. /\ x \in s /\ x # a /\ g[s] = al[x].count + g[r]
      /\ r \in SUBSET S /\ Cardinality(r) = n - 1 /\ a \in r
  BY <1>1, <1>2, <1>5, <1>6, <1>7
<1> HIDE DEF x
<1>9. g[r] = al[a].count + g[r \ {a}]
  <2>1. ~(n <= Cardinality(r))
    BY <1>6, <1>8
  <2>2. r \notin Off
    BY <1>4, <2>1
  <2> HIDE DEF r
  <2> QED
    BY <1>8, <2>2
<1> DEFINE q == s \ {a}
<1>10. q \in SUBSET S /\ Cardinality(q) = n - 1 /\ x \in q
  BY <1>5, <1>6, <1>7, <1>8, OneOf
<1>11. g[q] = al[x].count + g[q \ {x}]
  <2>1. ~(n <= Cardinality(q))
    BY <1>6, <1>10
  <2>2. Cardinality(q) \notin B
    BY <1>4, <2>1
  <2>3. q \notin Off
    BY <2>2
  <2> HIDE DEF q
  <2> QED
    BY <1>10, <2>3
<1>12. q \ {x} = r \ {a}
  OBVIOUS
<1>13. r \ {a} \in SUBSET S /\ al[x].count \in Nat /\ al[a].count \in Nat
  BY <1>6, <1>7, <1>8 DEF Counts
<1>14. g[r \ {a}] \in Nat
  BY <1>13
<1> HIDE DEF r, q
<1>15. g[s] = al[a].count + g[q]
  <2>1. \A i, j, k, m, n1, n2 \in Nat :
           i = j + m /\ m = k + n1 /\ n2 = j + n1 => i = k + n2
    OBVIOUS
  <2>2. g[s] \in Nat /\ g[r] \in Nat /\ g[q] \in Nat
    BY <1>6, <1>8, <1>10
  <2>3. g[q] = al[x].count + g[r \ {a}]
    BY <1>11, <1>12
  <2> QED
    BY <1>8, <1>9, <1>13, <1>14, <2>1, <2>2, <2>3
<1> QED
  BY <1>7, <1>15 DEF q

\* An element adds its count, whichever the fold takes first.
LEMMA SumAdd ==
    ASSUME NEW al, Counts(al), NEW S \in SUBSET Alerts, NEW a \in S
    PROVE  /\ Sum(al, S) = al[a].count + Sum(al, S \ {a})
           /\ Sum(al, S \ {a}) \in Nat
<1>1. PICK g \in [SUBSET S -> Nat] : Adds(al, S, g) /\ AnyOrder(al, S, g)
  BY SumOfRest
<1>2. g[S] = al[a].count + g[S \ {a}]
  BY <1>1 DEF AnyOrder
<1>3. Sum(al, S) = g[S] /\ Sum(al, S \ {a}) = g[S \ {a}]
  BY <1>1, SumValue
<1> QED
  BY <1>1, <1>2, <1>3

-----------------------------------------------------------------------------
(***************************************************************************)
(* The index, the row and the audit log, when one operation runs at a time *)
(***************************************************************************)

\* One thing happens at a time: a thread, the flush or a request.
OneAtATime ==
    /\ \A t, u \in Threads : thread[t].pc # "idle" /\ thread[u].pc # "idle" => t = u
    /\ \A t \in Threads : thread[t].pc # "idle" =>
          flusher.pc = "wait" /\ \A s \in Admins : admin[s].pc = "idle"
    /\ flusher.pc # "wait" => \A s \in Admins : admin[s].pc = "idle"

\* What the buffer holds under an id is an alert of that id.
BufferById == \A i \in Ids : store[i] # NoAlert => alert[store[i]].id = i

\* What a thread has found is still so when it acts on it.
ThreadKnows ==
    \A t \in Threads :
       /\ thread[t].pc = "idle" => thread[t].alert = NoAlert
       /\ thread[t].pc # "idle" => alert[thread[t].alert].count = 1
       /\ thread[t].pc = "put" => store[alert[thread[t].alert].id] = NoAlert
       /\ thread[t].pc = "merge" =>
             store[alert[thread[t].alert].id] = thread[t].found

\* What the flush has copied is still so when it is written.
FlushKnows ==
    /\ flusher.pc = "wait" => flusher.batch = {}
    /\ flusher.pc = "clear" => flusher.batch = Buffered
    /\ flusher.pc \in {"write", "index", "fallback", "answer"} => Buffered = {}
    /\ flusher.pc = "index" =>
          /\ flusher.doc.of \in flusher.batch
          /\ flusher.doc = DocOf(flusher.doc.of)
          /\ flusher.seqNo = SeqNoOf(alert[flusher.doc.of].id)
    /\ flusher.pc = "fallback" => ~deployment.client
    /\ flusher.pc = "answer" =>
          flusher.batch \subseteq activity \cup {p.alert : p \in inbox}

\* The alerts that were posted or written.
Left == activity \cup {p.alert : p \in inbox}
           \cup {main[i].of : i \in {j \in Ids : main[j] # NoDoc}}

\* Those are no more in the buffer, and what a thread holds is in neither.
Fresh ==
    /\ \A i \in Ids : main[i] # NoDoc => main[i].of \in Made
    /\ Buffered \cap Left = {}
    /\ \A t \in Threads : thread[t].alert \notin Held \cup Left
    /\ \A p \in inbox : p.severity = alert[p.alert].severity

\* The invariant when nothing overlaps: the three properties, and why each step
\* keeps them.
SerialInv ==
    /\ OneAtATime /\ ThreadKnows /\ FlushKnows /\ Fresh
    /\ OneDocument /\ AllCounted /\ HighIsAudited

\* The inductive invariant.
AlertInv == Typed /\ BufferById /\ (Serial => SerialInv)

-----------------------------------------------------------------------------

\* Every step keeps the buffer sorted by id.
LEMMA IdsKept ==
    ASSUME Typed, BufferById, [Next]_vars
    PROVE  BufferById'
<1>0. /\ thread \in [Threads -> ThreadRecord]
      /\ alert \in [Alerts -> AlertRecord]
      /\ store \in [Ids -> Made \cup {NoAlert}]
      /\ Made \subseteq Alerts /\ made \in Nat /\ NoAlert \notin Alerts
      /\ \A t \in Threads :
          /\ thread[t].pc # "idle" => thread[t].alert \in Made
          /\ thread[t].pc = "merge" => thread[t].found \in Made
  BY MadeAlerts, AlertAssumption DEF Typed, TypeOK, Shape
<1>1. CASE store' = store /\ \A a \in Made : alert'[a].id = alert[a].id
  BY <1>0, <1>1 DEF BufferById
<1>2. CASE \A i \in Ids : store'[i] = NoAlert
  BY <1>2 DEF BufferById
<1>3. ASSUME NEW t \in Threads, NEW i \in Ids, NEW s \in Severities, Detect(t, i, s)
      PROVE  BufferById'
  <2>1. made + 1 \notin Made
    BY <1>0 DEF Made
  <2> QED
    BY <1>0, <1>1, <1>3, <2>1 DEF Detect
<1>4. ASSUME NEW t \in Threads, Put(t) PROVE BufferById'
  <2> DEFINE a == thread[t].alert
             i == alert[a].id
  <2>1. store' = [store EXCEPT ![i] = a] /\ alert' = alert
    BY <1>4 DEF Put
  <2>2. a \in Made /\ i \in Ids
    BY <1>0, <1>4 DEF Put, AlertRecord
  <2> HIDE DEF a
  <2> QED
    BY <1>0, <2>1, <2>2 DEF BufferById
<1>5. ASSUME NEW t \in Threads, Merge(t) PROVE BufferById'
  <2>1. \A a \in Made : alert'[a].id = alert[a].id
    BY <1>0, <1>5 DEF Merge, AlertRecord
  <2> QED
    BY <1>1, <1>5, <2>1 DEF Merge
<1>6. CASE Clear \/ Restart
  BY <1>2, <1>6 DEF Clear, Restart
<1>7. CASE store' = store /\ alert' = alert
  BY <1>1, <1>7
<1>8. CASE \/ \E t \in Threads : Look(t)
           \/ \E a \in Alerts : StartWrite(a) \/ Prune(a)
           \/ Snapshot \/ Index \/ Fallback \/ Post \/ Answered
           \/ \E p \in Payload : Ingest(p)
           \/ \E s \in Admins :
                \/ \E i \in Ids, u \in Statuses : AskStatus(s, i, u)
                \/ Find(s) \/ Apply(s) \/ StatusFails(s)
           \/ UNCHANGED vars
  BY <1>7, <1>8 DEF Look, StartWrite, Prune, Snapshot, Index, Fallback, Post,
     Answered, Ingest, AskStatus, Find, Apply, StatusFails, vars, bufferVars
<1> QED
  BY <1>3, <1>4, <1>5, <1>6, <1>8 DEF Next, Ingesting, Flush, Serve

\* What the proofs below need of the types.
LEMMA SerialFacts ==
    ASSUME Typed
    PROVE  /\ thread \in [Threads -> ThreadRecord]
           /\ alert \in [Alerts -> AlertRecord]
           /\ store \in [Ids -> Made \cup {NoAlert}]
           /\ flusher \in FlusherRecord
           /\ Made \subseteq Alerts /\ made \in Nat
           /\ NoAlert \notin Alerts
           /\ Buffered \subseteq Made /\ Held \subseteq Made
           /\ Counts(alert)
           /\ inbox \subseteq Payload /\ \A p \in inbox : p.alert \in Made
           /\ activity \subseteq Made
<1>1. /\ thread \in [Threads -> ThreadRecord]
      /\ alert \in [Alerts -> AlertRecord]
      /\ store \in [Ids -> Made \cup {NoAlert}]
      /\ flusher \in FlusherRecord /\ flusher.batch \subseteq Made
      /\ inbox \subseteq Payload /\ \A p \in inbox : p.alert \in Made
      /\ activity \subseteq Made
  BY DEF Typed, TypeOK, Shape
<1>2. /\ Made \subseteq Alerts /\ made \in Nat
      /\ NoAlert \notin Alerts /\ Buffered \subseteq Made
  BY MadeAlerts, AlertAssumption
<1>3. Held \subseteq Made
  BY <1>1, <1>2 DEF Held
<1>4. Counts(alert)
  BY <1>1 DEF Counts, AlertRecord
<1> QED
  BY <1>1, <1>2, <1>3, <1>4

\* The invariant, with the sum as a function of the alerts and the set.
LEMMA CountedIs ==
    /\ AllCounted <=>
          (Serial /\ deployment.push => Sum(alert, Held) = Cardinality(Ingested))
    /\ AllCounted' <=>
          (Serial' /\ deployment'.push =>
              Sum(alert', Held') = Cardinality(Ingested'))
<1>1. Sum(alert, Held) = MapThenSumSet(LAMBDA a : alert[a].count, Held)
  BY DEF Sum
<1>2. Sum(alert', Held') = MapThenSumSet(LAMBDA a : alert[a].count, Held)'
  BY DEF Sum, MapThenSumSet, MapThenFoldSet
<1>3. AllCounted <=>
          (Serial /\ deployment.push => Sum(alert, Held) = Cardinality(Ingested))
  BY <1>1 DEF AllCounted
<1>4. AllCounted' <=>
          (Serial' /\ deployment'.push =>
              Sum(alert', Held') = Cardinality(Ingested'))
  BY <1>2 DEF AllCounted
<1> QED
  BY <1>3, <1>4

\* A step that leaves what is held and what is ingested alone.
LEMMA CountStays ==
    ASSUME Typed, Typed', deployment' = deployment,
           \A a \in Made : alert'[a] = alert[a], Held' = Held,
           Ingested' = Ingested
    PROVE  /\ AllCounted => AllCounted'
           /\ /\ HighIsAudited /\ audit \subseteq audit'
              /\ \A o \in activity' :
                    alert[o].severity = "high" => o \in activity \/ o \in audit'
              => HighIsAudited'
<1>1. /\ Held \subseteq Made /\ Held \subseteq Alerts /\ Counts(alert)
      /\ Ingested \subseteq Made
  BY SerialFacts DEF Ingested
<1>2. Sum(alert', Held) = Sum(alert, Held)
  <2>1. \A a \in Held : alert[a].count = alert'[a].count
    BY <1>1
  <2>2. Counts(alert')
    BY DEF Typed, TypeOK, Counts, AlertRecord
  <2> QED
    BY <1>1, <2>1, <2>2, SumSame
<1>3. ASSUME AllCounted PROVE AllCounted'
  <2>1. Serial /\ deployment.push => Sum(alert, Held) = Cardinality(Ingested)
    BY <1>3, CountedIs
  <2>2. Serial' /\ deployment'.push => Sum(alert', Held') = Cardinality(Ingested')
    BY <1>2, <2>1 DEF Serial
  <2> QED
    BY <2>2, CountedIs
<1>4. ASSUME HighIsAudited, audit \subseteq audit',
             \A o \in activity' :
                alert[o].severity = "high" => o \in activity \/ o \in audit'
      PROVE  HighIsAudited'
  <2> SUFFICES ASSUME Serial, deployment.push,
                      NEW a \in Ingested, alert[a].severity = "high"
               PROVE  \E o \in Held : /\ alert[o].id = alert[a].id
                                      /\ alert[o].severity = "high"
                                      /\ o \in activity' => o \in audit'
    BY <1>1 DEF HighIsAudited, Serial
  <2>1. PICK o \in Held : /\ alert[o].id = alert[a].id
                          /\ alert[o].severity = "high"
                          /\ o \in activity => o \in audit
    BY <1>4 DEF HighIsAudited
  <2> QED
    BY <1>4, <2>1
<1> QED
  BY <1>3, <1>4

\* When nothing may overlap, whoever starts is alone.
LEMMA AloneIsAlone ==
    ASSUME Serial, Alone
    PROVE  /\ \A t \in Threads : thread[t].pc = "idle"
           /\ flusher.pc = "wait"
           /\ \A s \in Admins : admin[s].pc = "idle"
  BY DEF Serial, Alone

\* While a thread is between two steps nothing else is.
LEMMA OnlyThread ==
    ASSUME SerialInv, NEW t \in Threads, thread[t].pc # "idle"
    PROVE  /\ flusher.pc = "wait" /\ flusher.batch = {}
           /\ \A s \in Admins : admin[s].pc = "idle"
           /\ \A u \in Threads : u # t => thread[u].pc = "idle" /\ thread[u].alert = NoAlert
  BY DEF SerialInv, OneAtATime, ThreadKnows, FlushKnows

\* A thread has made its alert: it is in nothing yet.
LEMMA SerialDetect ==
    ASSUME Typed, Typed', BufferById, Serial, SerialInv,
           NEW t \in Threads, NEW i \in Ids, NEW s \in Severities, Detect(t, i, s)
    PROVE  SerialInv'
<1>0. /\ thread \in [Threads -> ThreadRecord] /\ alert \in [Alerts -> AlertRecord]
      /\ Made \subseteq Alerts /\ made \in Nat /\ NoAlert \notin Alerts
      /\ Buffered \subseteq Made /\ Held \subseteq Made
      /\ \A p \in inbox : p.alert \in Made
      /\ activity \subseteq Made
      /\ \A j \in Ids : store[j] # NoAlert => store[j] \in Made
  BY SerialFacts
<1> DEFINE b == made + 1
           r == [id |-> i, severity |-> s, count |-> 1]
           q == [pc |-> "look", alert |-> b, found |-> NoAlert]
<1>1. /\ thread' = [thread EXCEPT ![t] = q] /\ alert' = [alert EXCEPT ![b] = r]
      /\ made' = made + 1
      /\ UNCHANGED <<deployment, store, flusher, main, seqNo, copy, told, inbox,
                     activity, audit, admin, budget>>
  BY DEF Detect, indexVars, serverVars, adminVars
<1>2. /\ \A u \in Threads : thread[u].pc = "idle" /\ thread[u].alert = NoAlert
      /\ flusher.pc = "wait" /\ flusher.batch = {}
      /\ \A v \in Admins : admin[v].pc = "idle"
  BY AloneIsAlone DEF Detect, SerialInv, ThreadKnows, FlushKnows
<1>3. b \notin Made /\ Made' = Made \cup {b} /\ b \in Alerts
  <2>1. b \in Made'
    BY <1>0, <1>1 DEF Made
  <2>2. Made' \subseteq Alerts
    BY AlertAssumption DEF Typed, TypeOK, Made, Alerts
  <2> QED
    BY <1>0, <1>1, <2>1, <2>2 DEF Made
<1>4. \A a \in Made : alert'[a] = alert[a]
  BY <1>0, <1>1, <1>3
<1>5. /\ q.pc = "look" /\ q.alert = b /\ alert'[b].count = 1
      /\ thread'[t] = q /\ \A u \in Threads : u # t => thread'[u] = thread[u]
  BY <1>0, <1>1, <1>3
<1> HIDE DEF q, r, b
<1>6. OneAtATime'
  BY <1>1, <1>2, <1>5 DEF OneAtATime
<1>7. ThreadKnows'
  BY <1>1, <1>2, <1>5 DEF ThreadKnows
<1>8. FlushKnows'
  BY <1>1, <1>2 DEF FlushKnows
<1>9. Held' = Held /\ Buffered' = Buffered /\ Left' = Left
  BY <1>1 DEF Held, Left, Buffered
<1>10. Left \subseteq Made
  BY <1>0 DEF SerialInv, Fresh, Left
<1>11. Fresh'
  <2>1. \A u \in Threads : thread'[u].alert \notin Held \cup Left
    BY <1>0, <1>2, <1>3, <1>5, <1>10
  <2> QED
    BY <1>0, <1>1, <1>3, <1>4, <1>9, <2>1 DEF Fresh, SerialInv
<1>12. Ingested' = Ingested
  <2>1. Ingested = Made
    BY <1>0, <1>2 DEF Ingested
  <2>2. Ingested' = Made' \ {thread'[u].alert : u \in Threads}
    BY DEF Ingested
  <2>3. \A u \in Threads : thread'[u].alert \in {b, NoAlert}
    BY <1>2, <1>5
  <2> QED
    BY <1>0, <1>3, <1>5, <2>1, <2>2, <2>3
<1>13. AllCounted' /\ HighIsAudited'
  BY <1>1, <1>4, <1>9, <1>12, CountStays DEF SerialInv
<1>14. OneDocument'
  BY <1>0, <1>1, <1>4 DEF OneDocument, Serial, SerialInv, Fresh
<1> QED
  BY <1>6, <1>7, <1>8, <1>11, <1>13, <1>14 DEF SerialInv

\* What the buffer says of the id is what the thread has found.
LEMMA SerialLook ==
    ASSUME Typed, Typed', BufferById, Serial, SerialInv, NEW t \in Threads, Look(t)
    PROVE  SerialInv'
<1>0. /\ thread \in [Threads -> ThreadRecord] /\ alert \in [Alerts -> AlertRecord]
      /\ Made \subseteq Alerts /\ NoAlert \notin Alerts
  BY SerialFacts
<1> DEFINE o == store[alert[thread[t].alert].id]
           q == [thread[t] EXCEPT !.found = o,
                                  !.pc = IF o = NoAlert THEN "put" ELSE "merge"]
<1>1. /\ thread' = [thread EXCEPT ![t] = q]
      /\ UNCHANGED <<deployment, made, alert, store, flusher, main, seqNo, copy,
                     told, inbox, activity, audit, admin, budget>>
  BY DEF Look, indexVars, serverVars, adminVars
<1>2. /\ flusher.pc = "wait" /\ flusher.batch = {}
      /\ \A s \in Admins : admin[s].pc = "idle"
      /\ \A u \in Threads : u # t => thread[u].pc = "idle" /\ thread[u].alert = NoAlert
      /\ thread[t].pc = "look"
  BY OnlyThread DEF Look
<1>3. /\ q.alert = thread[t].alert /\ q.found = o
      /\ q.pc = IF o = NoAlert THEN "put" ELSE "merge"
      /\ thread'[t] = q /\ \A u \in Threads : u # t => thread'[u] = thread[u]
  BY <1>0, <1>1 DEF ThreadRecord
<1>4. alert[thread[t].alert].count = 1
  BY <1>2 DEF SerialInv, ThreadKnows
<1> HIDE DEF q
<1>6. OneAtATime'
  BY <1>1, <1>2, <1>3 DEF OneAtATime
<1>7. ThreadKnows'
  BY <1>1, <1>2, <1>3, <1>4 DEF ThreadKnows
<1>8. FlushKnows'
  BY <1>1, <1>2 DEF FlushKnows
<1>9. Held' = Held /\ Buffered' = Buffered /\ Left' = Left /\ Made' = Made
  BY <1>1 DEF Held, Left, Buffered, Made
<1>10. \A u \in Threads : thread'[u].alert = thread[u].alert
  BY <1>3
<1>11. Fresh'
  BY <1>1, <1>9, <1>10 DEF Fresh, SerialInv
<1>12. Ingested' = Ingested
  BY <1>9, <1>10 DEF Ingested
<1>13. AllCounted' /\ HighIsAudited'
  BY <1>1, <1>9, <1>12, CountStays DEF SerialInv
<1>14. OneDocument'
  BY <1>1 DEF OneDocument, Serial, SerialInv
<1> QED
  BY <1>6, <1>7, <1>8, <1>11, <1>13, <1>14 DEF SerialInv

\* A thread has done what it does: nothing is between two steps.
LEMMA ThreadEnds ==
    ASSUME Typed, SerialInv, NEW t \in Threads, thread[t].pc # "idle",
           thread' = [thread EXCEPT ![t] = IdleThread], made' = made,
           UNCHANGED <<flusher, admin>>
    PROVE  /\ \A u \in Threads : thread'[u].pc = "idle" /\ thread'[u].alert = NoAlert
           /\ OneAtATime' /\ ThreadKnows' /\ FlushKnows'
           /\ flusher.batch = {}
           /\ thread[t].alert \in Made /\ thread[t].alert \notin Ingested
           /\ Ingested' = Ingested \cup {thread[t].alert} /\ Made' = Made
<1>0. /\ thread \in [Threads -> ThreadRecord]
      /\ Made \subseteq Alerts /\ NoAlert \notin Alerts
      /\ thread[t].alert \in Made
  BY SerialFacts DEF Typed, Shape
<1>1. /\ flusher.pc = "wait" /\ flusher.batch = {}
      /\ \A s \in Admins : admin[s].pc = "idle"
      /\ \A u \in Threads : u # t => thread[u].pc = "idle" /\ thread[u].alert = NoAlert
  BY OnlyThread
<1>2. \A u \in Threads : thread'[u].pc = "idle" /\ thread'[u].alert = NoAlert
  BY <1>0, <1>1 DEF IdleThread
<1>3. OneAtATime' /\ ThreadKnows' /\ FlushKnows'
  BY <1>1, <1>2 DEF OneAtATime, ThreadKnows, FlushKnows
<1>4. Made' = Made
  BY DEF Made
<1>5. Ingested' = Made
  BY <1>0, <1>2, <1>4 DEF Ingested
<1>6. Ingested = Made \ {thread[t].alert}
  <2>1. \A u \in Threads : thread[u].alert = thread[t].alert \/ thread[u].alert = NoAlert
    BY <1>1
  <2> QED
    BY <1>0, <2>1 DEF Ingested
<1> QED
  BY <1>0, <1>1, <1>2, <1>3, <1>4, <1>5, <1>6

\* One more detection is ingested: how many those are.
LEMMA OneMoreIngested ==
    ASSUME Typed, NEW a \in Made, a \notin Ingested, Ingested' = Ingested \cup {a}
    PROVE  /\ Cardinality(Ingested) \in Nat
           /\ Cardinality(Ingested') = Cardinality(Ingested) + 1
<1>1. Ingested \subseteq Alerts /\ IsFiniteSet(Alerts)
  BY SerialFacts, AlertAssumption, FS_Interval DEF Ingested, Alerts
<1>2. IsFiniteSet(Ingested)
  BY <1>1, FS_Subset
<1> QED
  BY <1>2, FS_AddElement, FS_CardinalityType

\* The new alert is the one of its id in the buffer, and counts once.
LEMMA SerialPut ==
    ASSUME Typed, Typed', BufferById, Serial, SerialInv, NEW t \in Threads, Put(t)
    PROVE  SerialInv'
<1>0. /\ alert \in [Alerts -> AlertRecord] /\ store \in [Ids -> Made \cup {NoAlert}]
      /\ Made \subseteq Alerts /\ NoAlert \notin Alerts
      /\ Held \subseteq Made /\ Counts(alert) /\ activity \subseteq Made
      /\ \A p \in inbox : p.alert \in Made
  BY SerialFacts
<1> DEFINE a == thread[t].alert
           i == alert[a].id
<1>1. /\ store' = [store EXCEPT ![i] = a]
      /\ thread' = [thread EXCEPT ![t] = IdleThread] /\ thread[t].pc = "put"
      /\ UNCHANGED <<deployment, made, alert, flusher, main, seqNo, copy,
                     told, inbox, activity, audit, admin, budget>>
  BY DEF Put, indexVars, serverVars, adminVars
<1>2. /\ \A u \in Threads : thread'[u].pc = "idle" /\ thread'[u].alert = NoAlert
      /\ OneAtATime' /\ ThreadKnows' /\ FlushKnows'
      /\ flusher.batch = {}
      /\ a \in Made /\ a \notin Ingested
      /\ Ingested' = Ingested \cup {a} /\ Made' = Made
  BY <1>1, ThreadEnds
<1>3. /\ alert[a].count = 1 /\ store[i] = NoAlert
      /\ a \notin Held \cup Left
  BY <1>1 DEF SerialInv, ThreadKnows, Fresh
<1>4. i \in Ids /\ a \in Alerts /\ a # NoAlert
  BY <1>0, <1>2 DEF AlertRecord
<1> HIDE DEF a, i
<1>5. Buffered' = Buffered \cup {a}
  <2>1. store'[i] = a /\ \A j \in Ids : j # i => store'[j] = store[j]
    BY <1>0, <1>1, <1>4
  <2> QED
    BY <1>3, <1>4, <2>1 DEF Buffered
<1>6. Left' = Left /\ Held' = Held \cup {a}
  BY <1>1, <1>5 DEF Left, Held
<1>7. Held' \subseteq Made /\ Left \subseteq Made
  BY <1>0, <1>2, <1>6 DEF SerialInv, Fresh, Left
<1>8. Fresh'
  BY <1>0, <1>1, <1>2, <1>3, <1>5, <1>6, <1>7 DEF Fresh, SerialInv
<1>9. AllCounted'
  <2>1. /\ Cardinality(Ingested) \in Nat
        /\ Cardinality(Ingested') = Cardinality(Ingested) + 1
    BY <1>2, OneMoreIngested
  <2>2. /\ Sum(alert, Held') = alert[a].count + Sum(alert, Held' \ {a})
        /\ Held' \ {a} = Held
    BY <1>0, <1>3, <1>6, <1>7, SumAdd
  <2>3. Serial /\ deployment.push => Sum(alert, Held) = Cardinality(Ingested)
    BY CountedIs DEF SerialInv
  <2>4. Serial' /\ deployment'.push => Sum(alert', Held') = Cardinality(Ingested')
    <3>1. Sum(alert', Held') = Sum(alert, Held')
      BY <1>1
    <3>2. Serial' <=> Serial
      BY <1>1 DEF Serial
    <3>3. Serial /\ deployment.push => Sum(alert, Held') = Cardinality(Ingested')
      BY <1>3, <2>1, <2>2, <2>3
    <3> QED
      BY <1>1, <3>1, <3>2, <3>3
  <2> QED
    BY <2>4, CountedIs
<1>10. HighIsAudited'
  <2> SUFFICES ASSUME Serial, deployment.push,
                      NEW x \in Ingested \cup {a}, alert[x].severity = "high"
               PROVE  \E o \in Held \cup {a} :
                         /\ alert[o].id = alert[x].id /\ alert[o].severity = "high"
                         /\ o \in activity => o \in audit
    BY <1>1, <1>2, <1>6 DEF HighIsAudited, Serial
  <2>1. CASE x = a
    BY <1>3, <2>1 DEF Left
  <2>2. CASE x \in Ingested
    BY <2>2 DEF HighIsAudited, SerialInv
  <2> QED
    BY <2>1, <2>2
<1>11. OneDocument'
  BY <1>1 DEF OneDocument, Serial, SerialInv
<1> QED
  BY <1>2, <1>8, <1>9, <1>10, <1>11 DEF SerialInv

\* The count of the alert that is in the buffer grows by the one detected.
LEMMA SerialMerge ==
    ASSUME Typed, Typed', BufferById, Serial, SerialInv, NEW t \in Threads, Merge(t)
    PROVE  SerialInv'
<1>0. /\ alert \in [Alerts -> AlertRecord] /\ store \in [Ids -> Made \cup {NoAlert}]
      /\ Made \subseteq Alerts /\ NoAlert \notin Alerts
      /\ Held \subseteq Made /\ Counts(alert) /\ activity \subseteq Made
      /\ \A p \in inbox : p.alert \in Made
      /\ thread[t].pc = "merge" => thread[t].found \in Made
  BY SerialFacts DEF Typed, Shape
<1> DEFINE a == thread[t].alert
           f == thread[t].found
           w == Worse(alert[f].severity, alert[a].severity)
<1>1. /\ alert' = [alert EXCEPT ![f].count = @ + 1, ![f].severity = w]
      /\ thread' = [thread EXCEPT ![t] = IdleThread] /\ thread[t].pc = "merge"
      /\ UNCHANGED <<deployment, made, store, flusher, main, seqNo, copy,
                     told, inbox, activity, audit, admin, budget>>
  <2>1. thread[t].found \in Alerts /\ thread[t].pc = "merge"
    BY <1>0 DEF Merge
  <2> QED
    BY <1>0, <2>1 DEF Merge, indexVars, serverVars, adminVars
<1>2. /\ \A u \in Threads : thread'[u].pc = "idle" /\ thread'[u].alert = NoAlert
      /\ OneAtATime' /\ ThreadKnows' /\ FlushKnows'
      /\ flusher.batch = {}
      /\ a \in Made /\ a \notin Ingested
      /\ Ingested' = Ingested \cup {a} /\ Made' = Made
  BY <1>1, ThreadEnds
<1>3. f \in Made /\ f \in Alerts /\ a \in Alerts
  BY <1>0, <1>1, <1>2
<1>4. store[alert[a].id] = f /\ alert[a].id \in Ids
  BY <1>0, <1>1, <1>3 DEF SerialInv, ThreadKnows, AlertRecord
<1>5. f \in Buffered /\ alert[f].id = alert[a].id
  BY <1>0, <1>3, <1>4 DEF Buffered, BufferById
<1>6. f \notin Left /\ f \in Held
  BY <1>5 DEF SerialInv, Fresh, Held
<1>7. /\ alert'[f].count = alert[f].count + 1 /\ alert'[f].severity = w
      /\ \A b \in Alerts : b # f => alert'[b] = alert[b]
      /\ \A b \in Alerts : alert'[b].id = alert[b].id
  BY <1>0, <1>1, <1>3 DEF AlertRecord
<1>8. /\ alert[a].severity = "high" => w = "high"
      /\ alert[f].severity = "high" => w = "high"
  BY DEF Worse
<1> HIDE DEF a, f, w
<1>9. Left' = Left /\ Held' = Held /\ Buffered' = Buffered
  BY <1>1 DEF Left, Held, Buffered
<1>10. Fresh'
  <2>1. Left \subseteq Made
    BY <1>0 DEF SerialInv, Fresh, Left
  <2>2. \A p \in inbox : p.alert # f
    BY <1>6 DEF Left
  <2> QED
    BY <1>0, <1>1, <1>2, <1>7, <1>9, <2>1, <2>2 DEF Fresh, SerialInv
<1>11. AllCounted'
  <2>1. /\ Cardinality(Ingested) \in Nat
        /\ Cardinality(Ingested') = Cardinality(Ingested) + 1
    BY <1>2, OneMoreIngested
  <2>2. Counts(alert')
    BY DEF Typed, TypeOK, Counts, AlertRecord
  <2>3. /\ Sum(alert, Held) = alert[f].count + Sum(alert, Held \ {f})
        /\ Sum(alert', Held) = alert'[f].count + Sum(alert', Held \ {f})
        /\ Sum(alert, Held \ {f}) \in Nat
    <3>1. Held \in SUBSET Alerts /\ f \in Held
      BY <1>0, <1>6
    <3>2. /\ Sum(alert, Held) = alert[f].count + Sum(alert, Held \ {f})
          /\ Sum(alert, Held \ {f}) \in Nat
      BY <1>0, <3>1, SumAdd
    <3>3. Sum(alert', Held) = alert'[f].count + Sum(alert', Held \ {f})
      BY <2>2, <3>1, SumAdd
    <3> QED
      BY <3>2, <3>3
  <2>4. Sum(alert', Held \ {f}) = Sum(alert, Held \ {f})
    <3>1. \A b \in Held \ {f} : alert[b].count = alert'[b].count
      BY <1>0, <1>7
    <3>2. Held \ {f} \in SUBSET Alerts
      BY <1>0
    <3> QED
      BY <1>0, <2>2, <3>1, <3>2, SumSame
  <2>5. alert[f].count \in Nat
    BY <1>0, <1>3 DEF Counts
  <2>6. Serial /\ deployment.push => Sum(alert, Held) = Cardinality(Ingested)
    BY CountedIs DEF SerialInv
  <2>7. Sum(alert', Held) = Sum(alert, Held) + 1
    BY <1>7, <2>3, <2>4, <2>5
  <2>8. Serial' /\ deployment'.push => Sum(alert', Held') = Cardinality(Ingested')
    BY <1>1, <1>9, <2>1, <2>6, <2>7 DEF Serial
  <2> QED
    BY <2>8, CountedIs
<1>12. HighIsAudited'
  <2> SUFFICES ASSUME Serial, deployment.push,
                      NEW x \in Ingested \cup {a}, alert'[x].severity = "high"
               PROVE  \E o \in Held :
                         /\ alert'[o].id = alert'[x].id /\ alert'[o].severity = "high"
                         /\ o \in activity => o \in audit
    BY <1>1, <1>2, <1>9 DEF HighIsAudited, Serial
  <2>1. f \notin activity
    BY <1>6 DEF Left
  <2>2. x \in Alerts
    BY <1>0, <1>2 DEF Ingested
  <2>3. CASE x = f \/ (x = a /\ x # f)
    <3>1. alert'[f].severity = "high" /\ alert'[f].id = alert'[x].id
      BY <1>3, <1>5, <1>7, <1>8, <2>3
    <3> QED
      BY <1>6, <2>1, <3>1
  <2>4. CASE x \in Ingested /\ x # f
    <3>1. PICK o \in Held : /\ alert[o].id = alert[x].id
                            /\ alert[o].severity = "high"
                            /\ o \in activity => o \in audit
      BY <1>7, <2>2, <2>4 DEF HighIsAudited, SerialInv
    <3>2. o \in Alerts /\ alert'[o].severity = "high"
      BY <1>0, <1>7, <1>8, <3>1
    <3> QED
      BY <1>7, <2>2, <3>1, <3>2
  <2> QED
    BY <2>3, <2>4
<1>13. OneDocument'
  <2>1. \A i \in Ids : main[i] # NoDoc => main[i].of # f /\ main[i].of \in Alerts
    BY <1>0, <1>6 DEF Left, SerialInv, Fresh
  <2> QED
    <3>1. Serial /\ deployment.client =>
             /\ \A b \in Alerts : copy[b] = NoDoc
             /\ \A i \in Ids : main[i] # NoDoc => main[i].count = alert'[main[i].of].count
      BY <1>7, <2>1 DEF OneDocument, SerialInv
    <3> QED
      BY <1>1, <3>1 DEF OneDocument, Serial
<1> QED
  BY <1>2, <1>10, <1>11, <1>12, <1>13 DEF SerialInv

\* A step of the flush, when nothing else is between two steps.
LEMMA FlushMoves ==
    ASSUME Typed, Typed', Serial, SerialInv,
           \A t \in Threads : thread[t].pc = "idle",
           \A s \in Admins : admin[s].pc = "idle",
           UNCHANGED <<deployment, made, alert, thread, activity, audit, admin>>,
           deployment.push => Held' = Held,
           FlushKnows', OneDocument',
           Buffered' \cap Left' = {}, Left' \subseteq Held \cup Left,
           \A i \in Ids : main'[i] # NoDoc => main'[i].of \in Made,
           \A p \in inbox' : p.severity = alert[p.alert].severity
    PROVE  SerialInv'
<1>0. Made \subseteq Alerts /\ NoAlert \notin Alerts /\ Held \subseteq Made
  BY SerialFacts
<1>1. \A t \in Threads : thread[t].alert = NoAlert
  BY DEF SerialInv, ThreadKnows
<1>2. OneAtATime' /\ ThreadKnows'
  BY <1>1 DEF OneAtATime, ThreadKnows
<1>3. Made' = Made /\ Ingested' = Ingested
  BY DEF Made, Ingested
<1>4. Fresh'
  <2>1. Held' \subseteq Made
    <3>1. Made' \subseteq Alerts /\ Buffered' \subseteq Made'
      BY AlertAssumption DEF Typed, TypeOK, Made, Alerts, Buffered
    <3>2. flusher'.batch \subseteq Made' /\ activity' \subseteq Made'
          /\ \A p \in inbox' : p.alert \in Made'
      BY DEF Typed, TypeOK, Shape
    <3> QED
      BY <1>3, <3>1, <3>2 DEF Held
  <2>2. Left \subseteq Made
    <3>1. activity \subseteq Made /\ \A p \in inbox : p.alert \in Made
      BY SerialFacts
    <3> QED
      BY <3>1 DEF SerialInv, Fresh, Left
  <2>3. \A t \in Threads : thread'[t].alert \notin Held' \cup Left'
    BY <1>0, <1>1, <2>1, <2>2
  <2> QED
    BY <1>3, <2>3 DEF Fresh
<1>5. AllCounted' /\ HighIsAudited'
  <2>1. CASE deployment.push
    BY <1>3, <2>1, CountStays DEF SerialInv
  <2>2. CASE ~deployment.push
    BY <2>2 DEF AllCounted, HighIsAudited
  <2> QED
    BY <2>1, <2>2
<1> QED
  BY <1>2, <1>4, <1>5 DEF SerialInv

\* The flush is between two steps, and nothing else is.
LEMMA OnlyFlush ==
    ASSUME SerialInv, flusher.pc # "wait"
    PROVE  /\ \A t \in Threads : thread[t].pc = "idle"
           /\ \A s \in Admins : admin[s].pc = "idle"
  BY DEF SerialInv, OneAtATime

\* The alerts are copied: they are held as before.
LEMMA SerialSnapshot ==
    ASSUME Typed, Typed', Serial, SerialInv, Snapshot
    PROVE  SerialInv'
<1>1. /\ \A t \in Threads : thread[t].pc = "idle"
      /\ \A s \in Admins : admin[s].pc = "idle"
      /\ flusher.batch = {}
  BY AloneIsAlone DEF Snapshot, SerialInv, FlushKnows
<1>2. /\ UNCHANGED <<deployment, made, alert, thread, store, main, seqNo, copy,
                     told, inbox, activity, audit, admin, budget>>
      /\ flusher' = [flusher EXCEPT !.pc = "clear", !.batch = Buffered,
                                    !.todo = Buffered]
  BY DEF Snapshot, bufferVars, indexVars, serverVars, adminVars
<1>3. flusher'.pc = "clear" /\ flusher'.batch = Buffered
  BY <1>2, SerialFacts DEF FlusherRecord
<1>4. Buffered' = Buffered /\ Left' = Left
  BY <1>2 DEF Buffered, Left
<1>5. Held' = Held
  BY <1>1, <1>2, <1>3, <1>4 DEF Held
<1>6. FlushKnows'
  BY <1>3, <1>4 DEF FlushKnows
<1>7. OneDocument'
  BY <1>2 DEF OneDocument, Serial, SerialInv
<1> QED
  BY <1>1, <1>2, <1>4, <1>5, <1>6, <1>7, FlushMoves DEF SerialInv, Fresh

\* The buffer is emptied of what the flush has: held still, in the flush.
LEMMA SerialClear ==
    ASSUME Typed, Typed', Serial, SerialInv, Clear
    PROVE  SerialInv'
<1>1. /\ UNCHANGED <<deployment, made, alert, thread, main, seqNo, copy,
                     told, inbox, activity, audit, admin, budget>>
      /\ flusher' = IF flusher.batch = {} THEN Waiting
                                          ELSE [flusher EXCEPT !.pc = "write"]
      /\ flusher.pc = "clear" /\ store' = [i \in Ids |-> NoAlert]
  BY DEF Clear, indexVars, serverVars, adminVars
<1>2. /\ \A t \in Threads : thread[t].pc = "idle"
      /\ \A s \in Admins : admin[s].pc = "idle"
      /\ flusher.batch = Buffered
  BY <1>1, OnlyFlush DEF SerialInv, FlushKnows
<1>3. flusher'.pc \in {"wait", "write"} /\ flusher'.batch = flusher.batch
      /\ (flusher'.pc = "wait" => flusher.batch = {})
  BY <1>1, SerialFacts DEF FlusherRecord, Waiting
<1>4. Buffered' = {} /\ Left' = Left
  BY <1>1 DEF Buffered, Left
<1>5. Held' = Held
  BY <1>1, <1>2, <1>3, <1>4 DEF Held
<1>6. FlushKnows'
  BY <1>3, <1>4 DEF FlushKnows
<1>7. OneDocument'
  BY <1>1 DEF OneDocument, Serial, SerialInv
<1> QED
  BY <1>1, <1>2, <1>4, <1>5, <1>6, <1>7, FlushMoves DEF SerialInv, Fresh

\* The document of an alert of the batch, with its count.
LEMMA SerialStartWrite ==
    ASSUME Typed, Typed', Serial, SerialInv, NEW a \in Alerts, StartWrite(a)
    PROVE  SerialInv'
<1> DEFINE pc == IF deployment.client THEN "index" ELSE "fallback"
<1>1. /\ UNCHANGED <<deployment, made, alert, thread, store, main, seqNo, copy,
                     told, inbox, activity, audit, admin, budget>>
      /\ flusher' = [flusher EXCEPT !.pc = pc, !.todo = @ \ {a}, !.doc = DocOf(a),
                                    !.seqNo = SeqNoOf(alert[a].id)]
      /\ flusher.pc = "write" /\ a \in flusher.todo
  BY DEF StartWrite, bufferVars, indexVars, serverVars, adminVars
<1>2. /\ \A t \in Threads : thread[t].pc = "idle"
      /\ \A s \in Admins : admin[s].pc = "idle"
      /\ Buffered = {} /\ a \in flusher.batch
  BY <1>1, OnlyFlush DEF SerialInv, FlushKnows, Typed, Shape
<1>3. /\ flusher'.pc = pc /\ flusher'.batch = flusher.batch
      /\ flusher'.doc = DocOf(a) /\ flusher'.seqNo = SeqNoOf(alert[a].id)
  BY <1>1, SerialFacts DEF FlusherRecord
<1>4. Buffered' = Buffered /\ Left' = Left
  BY <1>1 DEF Buffered, Left
<1>5. Held' = Held
  BY <1>1, <1>3, <1>4 DEF Held
<1>6. DocOf(a).of = a /\ DocOf(a)' = DocOf(a) /\ SeqNoOf(alert[a].id)' = SeqNoOf(alert[a].id)
  BY <1>1 DEF DocOf, SeqNoOf
<1>7. FlushKnows'
  BY <1>1, <1>2, <1>3, <1>4, <1>6 DEF FlushKnows
<1>8. OneDocument'
  BY <1>1 DEF OneDocument, Serial, SerialInv
<1> QED
  BY <1>1, <1>2, <1>4, <1>5, <1>7, <1>8, FlushMoves DEF SerialInv, Fresh

\* The document is written under its id, with the count of its alert.
LEMMA SerialIndex ==
    ASSUME Typed, Typed', Serial, SerialInv, Index
    PROVE  SerialInv'
<1> DEFINE d == flusher.doc
           i == alert[d.of].id
           r == Upserted(i, d)
<1>0. /\ d \in Doc /\ d.of \in Made /\ d.of \in Alerts /\ i \in Ids
      /\ main \in [Ids -> MainDoc \cup {NoDoc}] /\ seqNo \in Nat
      /\ flusher.pc = "index"
  <2>1. flusher.pc = "index"
    BY DEF Index
  <2>2. d \in Doc /\ d.of \in Made
    BY <2>1 DEF Typed, Shape
  <2>3. d.of \in Alerts /\ i \in Ids
    BY <2>2, SerialFacts DEF AlertRecord
  <2> QED
    BY <2>1, <2>2, <2>3 DEF Typed, TypeOK
<1>1. /\ \A t \in Threads : thread[t].pc = "idle"
      /\ \A s \in Admins : admin[s].pc = "idle"
      /\ Buffered = {} /\ d.of \in flusher.batch /\ d = DocOf(d.of)
      /\ flusher.seqNo = SeqNoOf(i)
  BY <1>0, OnlyFlush DEF SerialInv, FlushKnows
<1>2. /\ UNCHANGED <<deployment, made, alert, thread, store, copy,
                     told, inbox, activity, audit, admin, budget>>
      /\ main' = [main EXCEPT ![i] = r]
      /\ flusher' = [flusher EXCEPT !.pc = "write"]
  BY <1>1 DEF Index, Serial, bufferVars, serverVars, adminVars
<1>3. r.of = d.of /\ r.count = d.count
  <2>1. CASE main[i] = NoDoc
    BY <2>1 DEF Upserted
  <2>2. CASE main[i] # NoDoc
    <3>1. main[i] \in MainDoc
      BY <1>0, <2>2
    <3> QED
      BY <2>2, <3>1 DEF Upserted, MainDoc
  <2> QED
    BY <2>1, <2>2
<1>4. d.count = alert[d.of].count
  BY <1>1 DEF DocOf
<1>5. flusher'.pc = "write" /\ flusher'.batch = flusher.batch
  BY <1>2, SerialFacts DEF FlusherRecord
<1> HIDE DEF d, r
<1>6. main'[i] = r /\ \A j \in Ids : j # i => main'[j] = main[j]
  BY <1>0, <1>2
<1> HIDE DEF i
<1>7. Buffered' = {} /\ Held' = Held
  BY <1>1, <1>2, <1>5 DEF Buffered, Held
<1>8. Left' \subseteq Held \cup Left
  <2>1. d.of \in Held
    BY <1>1 DEF Held
  <2> QED
    BY <1>2, <1>3, <1>6, <2>1 DEF Left
<1>9. FlushKnows'
  BY <1>5, <1>7 DEF FlushKnows
<1>10. OneDocument'
  <2>1. deployment.client =>
           /\ \A a \in Alerts : copy[a] = NoDoc
           /\ \A j \in Ids : main[j] # NoDoc => main[j].count = alert[main[j].of].count
    BY DEF SerialInv, OneDocument
  <2>2. deployment.client =>
           \A j \in Ids : main'[j] # NoDoc => main'[j].count = alert[main'[j].of].count
    BY <1>3, <1>4, <1>6, <2>1
  <2> QED
    BY <1>2, <2>1, <2>2 DEF OneDocument
<1>11. \A j \in Ids : main'[j] # NoDoc => main'[j].of \in Made
  BY <1>0, <1>3, <1>6 DEF SerialInv, Fresh
<1> QED
  BY <1>1, <1>2, <1>7, <1>8, <1>9, <1>10, <1>11, FlushMoves DEF SerialInv, Fresh

\* Only a Controller without a client makes documents without an id.
LEMMA SerialFallback ==
    ASSUME Typed, Typed', Serial, SerialInv, Fallback
    PROVE  SerialInv'
<1>1. /\ UNCHANGED <<deployment, made, alert, thread, store, main, seqNo,
                     told, inbox, activity, audit, admin, budget>>
      /\ flusher' = [flusher EXCEPT !.pc = "write"] /\ flusher.pc = "fallback"
  BY DEF Fallback, bufferVars, serverVars, adminVars
<1>2. /\ \A t \in Threads : thread[t].pc = "idle"
      /\ \A s \in Admins : admin[s].pc = "idle"
      /\ Buffered = {} /\ ~deployment.client
  BY <1>1, OnlyFlush DEF SerialInv, FlushKnows
<1>3. flusher'.pc = "write" /\ flusher'.batch = flusher.batch
  BY <1>1, SerialFacts DEF FlusherRecord
<1>4. Buffered' = Buffered /\ Left' = Left
  BY <1>1 DEF Buffered, Left
<1>5. Held' = Held
  BY <1>1, <1>3, <1>4 DEF Held
<1>6. FlushKnows'
  BY <1>2, <1>3, <1>4 DEF FlushKnows
<1>7. OneDocument'
  BY <1>1, <1>2 DEF OneDocument
<1> QED
  BY <1>1, <1>2, <1>4, <1>5, <1>6, <1>7, FlushMoves DEF SerialInv, Fresh

\* The batch is posted: held still, on its way to the Server.
LEMMA SerialPost ==
    ASSUME Typed, Typed', Serial, SerialInv, Post
    PROVE  SerialInv'
<1> DEFINE new == {[alert |-> a, severity |-> alert[a].severity] : a \in flusher.batch}
<1>1. /\ UNCHANGED <<deployment, made, alert, thread, store, main, seqNo, copy,
                     told, activity, audit, admin, budget>>
      /\ flusher.pc = "write"
      /\ \/ /\ deployment.push /\ inbox' = inbox \cup new
            /\ flusher' = [flusher EXCEPT !.pc = "answer"]
         \/ ~deployment.push /\ inbox' = inbox /\ flusher' = Waiting
  BY DEF Post, Serial, bufferVars, indexVars, adminVars
<1>2. /\ \A t \in Threads : thread[t].pc = "idle"
      /\ \A s \in Admins : admin[s].pc = "idle"
      /\ Buffered = {}
  BY <1>1, OnlyFlush DEF SerialInv, FlushKnows
<1>3. /\ \A p \in new : p.severity = alert[p.alert].severity /\ p.alert \in flusher.batch
      /\ \A a \in flusher.batch : \E p \in new : p.alert = a
  <2>1. \A p \in new : p.severity = alert[p.alert].severity /\ p.alert \in flusher.batch
    OBVIOUS
  <2>2. ASSUME NEW a \in flusher.batch
        PROVE  \E p \in new : p.alert = a
    <3>1. [alert |-> a, severity |-> alert[a].severity] \in new
      OBVIOUS
    <3>2. [alert |-> a, severity |-> alert[a].severity].alert = a
      OBVIOUS
    <3> QED
      BY <3>1, <3>2
  <2> QED
    BY <2>1, <2>2
<1>4. \/ /\ deployment.push /\ flusher'.pc = "answer" /\ flusher'.batch = flusher.batch
         /\ inbox' = inbox \cup new
      \/ /\ ~deployment.push /\ flusher'.pc = "wait" /\ flusher'.batch = {}
         /\ inbox' = inbox
  BY <1>1, SerialFacts DEF FlusherRecord, Waiting
<1> HIDE DEF new
<1>5. Buffered' = {}
  BY <1>1, <1>2 DEF Buffered
<1>6. flusher.batch \subseteq Held /\ Left' \subseteq Held \cup Left
  BY <1>1, <1>3, <1>4 DEF Left, Held
<1>7. deployment.push => Held' = Held
  BY <1>1, <1>2, <1>3, <1>4, <1>5 DEF Held
<1>8. FlushKnows'
  <2>1. CASE ~deployment.push
    BY <1>4, <2>1 DEF FlushKnows
  <2>2. CASE deployment.push
    <3>1. flusher.batch \subseteq {p.alert : p \in inbox'}
      BY <1>3, <1>4, <2>2
    <3> QED
      BY <1>4, <1>5, <2>2, <3>1 DEF FlushKnows
  <2> QED
    BY <2>1, <2>2
<1>9. OneDocument'
  BY <1>1 DEF OneDocument, Serial, SerialInv
<1>10. \A p \in inbox' : p.severity = alert[p.alert].severity
  BY <1>3, <1>4 DEF SerialInv, Fresh
<1> QED
  BY <1>1, <1>2, <1>5, <1>6, <1>7, <1>8, <1>9, <1>10, FlushMoves DEF SerialInv, Fresh

\* The batch is forgotten: the Server, or its inbox, has it.
LEMMA SerialAnswered ==
    ASSUME Typed, Typed', Serial, SerialInv, Answered
    PROVE  SerialInv'
<1>1. /\ UNCHANGED <<deployment, made, alert, thread, store, main, seqNo, copy,
                     told, inbox, activity, audit, admin, budget>>
      /\ flusher' = Waiting /\ flusher.pc = "answer" /\ inbox = {}
  BY DEF Answered, Serial, bufferVars, indexVars, serverVars, adminVars
<1>2. /\ \A t \in Threads : thread[t].pc = "idle"
      /\ \A s \in Admins : admin[s].pc = "idle"
      /\ Buffered = {} /\ flusher.batch \subseteq activity
  BY <1>1, OnlyFlush DEF SerialInv, FlushKnows
<1>3. flusher'.pc = "wait" /\ flusher'.batch = {}
  BY <1>1 DEF Waiting
<1>4. Buffered' = Buffered /\ Left' = Left
  BY <1>1 DEF Buffered, Left
<1>5. Held' = Held
  BY <1>1, <1>2, <1>3, <1>4 DEF Held
<1>6. FlushKnows'
  BY <1>2, <1>3, <1>4 DEF FlushKnows
<1>7. OneDocument'
  BY <1>1 DEF OneDocument, Serial, SerialInv
<1> QED
  BY <1>1, <1>2, <1>4, <1>5, <1>6, <1>7, FlushMoves DEF SerialInv, Fresh

\* The Server records an alert, and one of high severity in the audit log too.
LEMMA SerialIngest ==
    ASSUME Typed, Typed', Serial, SerialInv, NEW p \in Payload, Ingest(p)
    PROVE  SerialInv'
<1>1. /\ UNCHANGED <<deployment, made, alert, thread, store, flusher, main, seqNo,
                     copy, told, admin, budget>>
      /\ p \in inbox /\ inbox' = inbox \ {p} /\ activity' = activity \cup {p.alert}
      /\ audit' = audit \cup (IF p.severity = "high" THEN {p.alert} ELSE {})
  BY DEF Ingest, Serial, bufferVars, indexVars, adminVars
<1>2. p.severity = alert[p.alert].severity
  BY <1>1 DEF SerialInv, Fresh
<1>3. activity' \cup {q.alert : q \in inbox'} = activity \cup {q.alert : q \in inbox}
  BY <1>1
<1>4. Buffered' = Buffered /\ Made' = Made /\ Ingested' = Ingested
  BY <1>1 DEF Buffered, Made, Ingested
<1>5. Left' = Left /\ Held' = Held
  <2>1. Left' = (activity' \cup {q.alert : q \in inbox'})
                   \cup {main[i].of : i \in {j \in Ids : main[j] # NoDoc}}
    BY <1>1 DEF Left
  <2>2. Held' = Buffered \cup flusher.batch \cup (activity' \cup {q.alert : q \in inbox'})
    BY <1>1, <1>4 DEF Held
  <2> QED
    BY <1>3, <2>1, <2>2 DEF Left, Held
<1>6. OneAtATime' /\ ThreadKnows'
  BY <1>1 DEF SerialInv, OneAtATime, ThreadKnows
<1>7. FlushKnows'
  <2>1. DocOf(flusher.doc.of)' = DocOf(flusher.doc.of)
        /\ SeqNoOf(alert[flusher.doc.of].id)' = SeqNoOf(alert[flusher.doc.of].id)
    BY <1>1 DEF DocOf, SeqNoOf
  <2> QED
    BY <1>1, <1>3, <1>4, <2>1 DEF SerialInv, FlushKnows
<1>8. Fresh'
  BY <1>1, <1>4, <1>5 DEF SerialInv, Fresh
<1>9. AllCounted' /\ HighIsAudited'
  BY <1>1, <1>2, <1>4, <1>5, CountStays DEF SerialInv
<1>10. OneDocument'
  BY <1>1 DEF OneDocument, Serial, SerialInv
<1> QED
  BY <1>6, <1>7, <1>8, <1>9, <1>10 DEF SerialInv

\* A step of a request or of the pruning: nothing is between two other steps,
\* and no document is made or changes its alert or its count.
LEMMA ServerMoves ==
    ASSUME Typed, Typed', Serial, SerialInv, flusher.pc = "wait",
           \A t \in Threads : thread[t].pc = "idle",
           UNCHANGED <<deployment, made, alert, store, thread, flusher, inbox,
                       activity, audit>>,
           \A i \in Ids : main'[i] # NoDoc =>
              main[i] # NoDoc /\ main'[i].of = main[i].of /\ main'[i].count = main[i].count,
           \A a \in Alerts : copy[a] = NoDoc => copy'[a] = NoDoc
    PROVE  SerialInv'
<1>1. OneAtATime' /\ ThreadKnows'
  BY DEF OneAtATime, ThreadKnows, SerialInv
<1>2. Made' = Made /\ Ingested' = Ingested /\ Buffered' = Buffered
  BY DEF Made, Ingested, Buffered
<1>3. Held' = Held
  BY <1>2 DEF Held
<1>4. FlushKnows'
  BY DEF FlushKnows, SerialInv
<1>5. Left' \subseteq Left
  BY DEF Left
<1>6. Fresh'
  BY <1>2, <1>3, <1>5 DEF Fresh, SerialInv
<1>7. AllCounted' /\ HighIsAudited'
  BY <1>2, <1>3, CountStays DEF SerialInv
<1>8. OneDocument'
  BY DEF OneDocument, Serial, SerialInv
<1> QED
  BY <1>1, <1>4, <1>6, <1>7, <1>8 DEF SerialInv

\* A change of status or a pruning: no alert moves.
LEMMA SerialServer ==
    ASSUME Typed, Typed', Serial, SerialInv,
           \/ \E s \in Admins :
                 \/ \E i \in Ids, u \in Statuses : AskStatus(s, i, u)
                 \/ Serve(s) \/ StatusFails(s)
           \/ \E a \in Alerts : Prune(a)
    PROVE  SerialInv'
<1>0. /\ main \in [Ids -> MainDoc \cup {NoDoc}] /\ seqNo \in Nat
      /\ admin \in [Admins -> AdminRecord]
  BY DEF Typed, TypeOK
<1>1. ASSUME NEW s \in Admins, admin[s].pc # "idle"
      PROVE  flusher.pc = "wait" /\ \A t \in Threads : thread[t].pc = "idle"
  BY <1>1 DEF SerialInv, OneAtATime
<1>2. ASSUME NEW s \in Admins, NEW i \in Ids, NEW u \in Statuses, AskStatus(s, i, u)
      PROVE  SerialInv'
  BY <1>2, AloneIsAlone, ServerMoves DEF AskStatus, bufferVars, indexVars, serverVars
<1>3. ASSUME NEW s \in Admins, Find(s) PROVE SerialInv'
  <2>1. admin[s].pc # "idle"
    BY <1>3 DEF Find
  <2> QED
    BY <1>1, <1>3, <2>1, ServerMoves DEF Find, bufferVars, indexVars, serverVars
<1>4. ASSUME NEW s \in Admins, Apply(s) PROVE SerialInv'
  <2> DEFINE i == admin[s].id
             u == admin[s].status
             hit == admin[s].seqNo # 0 /\ admin[s].seqNo = SeqNoOf(i)
             hits == admin[s].copies \cap CopiesOf(i)
  <2>1. i \in Ids /\ admin[s].pc # "idle"
    <3>1. admin[s] \in AdminRecord /\ admin[s].pc = "apply"
      BY <1>0, <1>4 DEF Apply
    <3> QED
      BY <3>1 DEF AdminRecord, IdleAdmin
  <2>2. /\ main' = IF hit THEN [main EXCEPT ![i].status = u, ![i].seqNo = seqNo + 1]
                          ELSE main
        /\ copy' = [a \in Alerts |-> IF a \in hits THEN [copy[a] EXCEPT !.status = u]
                                                   ELSE copy[a]]
        /\ UNCHANGED <<deployment, made, alert, store, thread, flusher, inbox,
                       activity, audit>>
    BY <1>4 DEF Apply, bufferVars, serverVars
  <2>3. hit => main[i] \in MainDoc /\ main[i] # NoDoc
    BY <1>0, <2>1, AlertAssumption DEF SeqNoOf
  <2>4. \A a \in hits : copy[a] # NoDoc
    BY DEF CopiesOf
  <2> HIDE DEF i, u, hit, hits
  <2>5. \A a \in Alerts : copy[a] = NoDoc => copy'[a] = NoDoc
    BY <2>2, <2>4
  <2>6. ASSUME NEW j \in Ids, main'[j] # NoDoc
        PROVE  main[j] # NoDoc /\ main'[j].of = main[j].of /\ main'[j].count = main[j].count
    <3>1. CASE hit /\ j = i
      <4> DEFINE m == [main[i] EXCEPT !.status = u, !.seqNo = seqNo + 1]
      <4>1. main'[i] = m
        BY <1>0, <2>1, <2>2, <3>1
      <4>2. m.of = main[i].of /\ m.count = main[i].count
        BY <2>3, <3>1 DEF MainDoc
      <4> QED
        BY <2>3, <3>1, <4>1, <4>2
    <3>2. CASE ~hit \/ j # i
      <4>1. main'[j] = main[j]
        BY <1>0, <2>1, <2>2, <3>2
      <4> QED
        BY <2>6, <4>1
    <3> QED
      BY <3>1, <3>2
  <2> QED
    BY <1>1, <2>1, <2>2, <2>5, <2>6, ServerMoves
<1>5. ASSUME NEW s \in Admins, StatusFails(s) PROVE SerialInv'
  BY <1>5 DEF StatusFails, Serial
<1>6. ASSUME NEW b \in Alerts, Prune(b) PROVE SerialInv'
  <2>1. flusher.pc = "wait" /\ \A t \in Threads : thread[t].pc = "idle"
    BY <1>6, AloneIsAlone DEF Prune
  <2>2. /\ \A i \in Ids : main'[i] = NoDoc \/ main'[i] = main[i]
        /\ \A a \in Alerts : copy'[a] = NoDoc \/ copy'[a] = copy[a]
    BY <1>6 DEF Prune
  <2>3. UNCHANGED <<deployment, made, alert, store, thread, flusher, inbox,
                    activity, audit>>
    BY <1>6 DEF Prune, bufferVars, serverVars
  <2> QED
    BY <2>1, <2>2, <2>3, ServerMoves
<1> QED
  BY <1>2, <1>3, <1>4, <1>5, <1>6 DEF Serve

\* Nothing is detected and everything waits.
LEMMA InitAlert == Init => AlertInv
<1> SUFFICES ASSUME Init PROVE AlertInv
  OBVIOUS
<1>1. Typed
  BY InitTyped
<1>2. BufferById
  BY DEF Init, BufferById
<1>3. OneAtATime /\ ThreadKnows /\ FlushKnows
  BY DEF Init, OneAtATime, ThreadKnows, FlushKnows, IdleThread, IdleAdmin, Waiting
<1>4. Buffered = {} /\ Held = {} /\ Left = {} /\ Made = {}
  BY DEF Init, Buffered, Held, Left, Made, Waiting
<1>5. Ingested = {}
  BY <1>4 DEF Ingested
<1>6. Fresh
  BY <1>4 DEF Fresh, Init
<1>7. OneDocument /\ HighIsAudited
  BY <1>5 DEF OneDocument, HighIsAudited, Init
<1>8. AllCounted
  <2>1. Sum(alert, Held) = 0
    BY <1>1, <1>4, SerialFacts, SumEmpty
  <2>2. Cardinality(Ingested) = 0
    BY <1>5, FS_EmptySet
  <2> QED
    BY <2>1, <2>2, CountedIs
<1> QED
  BY <1>1, <1>2, <1>3, <1>6, <1>7, <1>8 DEF AlertInv, SerialInv

\* Every step keeps the invariant.
LEMMA NextAlert == AlertInv /\ [Next]_vars => AlertInv'
<1> SUFFICES ASSUME AlertInv, [Next]_vars PROVE AlertInv'
  OBVIOUS
<1>1. Typed /\ Typed' /\ BufferById /\ BufferById' /\ (Serial => SerialInv)
  BY NextTyped, IdsKept DEF AlertInv
<1>2. Serial' <=> Serial
  <2>1. deployment' = deployment
    BY DEF Next, vars, Detect, Ingesting, Look, Put, Merge, Flush, Snapshot, Clear,
       StartWrite, Index, Fallback, Post, Answered, Restart, Ingest, AskStatus, Serve,
       Find, Apply, StatusFails, Prune
  <2> QED
    BY <2>1 DEF Serial
<1>3. ASSUME Serial PROVE SerialInv'
  <2> SerialInv
    BY <1>1, <1>3
  <2>1. CASE \E t \in Threads : \/ \E i \in Ids, s \in Severities : Detect(t, i, s)
                                \/ Ingesting(t)
    BY <1>1, <1>3, <2>1, SerialDetect, SerialLook, SerialPut, SerialMerge DEF Ingesting
  <2>2. CASE Flush
    BY <1>1, <1>3, <2>2, SerialSnapshot, SerialClear, SerialStartWrite, SerialIndex,
       SerialFallback, SerialPost, SerialAnswered DEF Flush
  <2>3. CASE Restart
    BY <1>3, <2>3 DEF Restart, Serial
  <2>4. CASE \E p \in Payload : Ingest(p)
    BY <1>1, <1>3, <2>4, SerialIngest
  <2>5. CASE \/ \E s \in Admins :
                 \/ \E i \in Ids, u \in Statuses \ {"unresolved"} : AskStatus(s, i, u)
                 \/ Serve(s) \/ StatusFails(s)
             \/ \E a \in Alerts : Prune(a)
    BY <1>1, <1>3, <2>5, SerialServer
  <2>6. CASE UNCHANGED vars
    <3>1. UNCHANGED <<deployment, made, alert, store, thread, flusher, main, copy,
                      inbox, activity, audit, admin, seqNo>>
      BY <2>6 DEF vars
    <3>2. /\ Made' = Made /\ Ingested' = Ingested /\ Buffered' = Buffered
          /\ Held' = Held /\ Left' = Left
      BY <3>1 DEF Made, Ingested, Buffered, Held, Left
    <3>3. OneAtATime' /\ ThreadKnows' /\ Fresh'
      BY <3>1, <3>2 DEF SerialInv, OneAtATime, ThreadKnows, Fresh
    <3>4. FlushKnows'
      <4>1. DocOf(flusher.doc.of)' = DocOf(flusher.doc.of)
            /\ SeqNoOf(alert[flusher.doc.of].id)' = SeqNoOf(alert[flusher.doc.of].id)
        BY <3>1 DEF DocOf, SeqNoOf
      <4> QED
        BY <3>1, <3>2, <4>1 DEF SerialInv, FlushKnows
    <3>5. AllCounted' /\ HighIsAudited'
      BY <1>1, <3>1, <3>2, CountStays DEF SerialInv
    <3>6. OneDocument'
      BY <3>1 DEF SerialInv, OneDocument, Serial
    <3> QED
      BY <3>3, <3>4, <3>5, <3>6 DEF SerialInv
  <2> QED
    BY <2>1, <2>2, <2>3, <2>4, <2>5, <2>6 DEF Next
<1> QED
  BY <1>1, <1>2, <1>3 DEF AlertInv

\* When nothing overlaps and the Controller has its client, every alert has one
\* document, under its id, and its count is that of the alert it was written
\* from: the flush reads the sequence number it then writes with.
THEOREM DocumentIsOne == Spec => []OneDocument
<1>1. AlertInv => OneDocument
  BY DEF AlertInv, SerialInv, OneDocument
<1> QED
  BY <1>1, InitAlert, NextAlert, PTL DEF Spec

\* When nothing overlaps, every detection is counted in exactly one alert that
\* the buffer, the flush, the way to the Server or its activity holds: merging,
\* copying, clearing, posting and recording lose none and count none twice.
THEOREM EveryDetectionCounts == Spec => []AllCounted
<1>1. AlertInv => AllCounted
  BY CountedIs DEF AlertInv, SerialInv
<1> QED
  BY <1>1, InitAlert, NextAlert, PTL DEF Spec

\* When nothing overlaps, a detection of high severity is in an alert of its id
\* that is held with high severity, and in the audit log once it is recorded.
THEOREM HighReachesAudit == Spec => []HighIsAudited
<1>1. AlertInv => HighIsAudited
  BY DEF AlertInv, SerialInv, HighIsAudited
<1> QED
  BY <1>1, InitAlert, NextAlert, PTL DEF Spec
=============================================================================
