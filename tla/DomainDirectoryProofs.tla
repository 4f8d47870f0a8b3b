------------------------ MODULE DomainDirectoryProofs ------------------------
(***************************************************************************)
(* Proofs about DomainDirectory, for any number of shares, groups, letters *)
(* and workers and in every deployment.                                    *)
(***************************************************************************)
EXTENDS DomainDirectory, FiniteSetTheorems, SequenceTheorems, TLAPS

-----------------------------------------------------------------------------
(***************************************************************************)
(* Types                                                                   *)
(***************************************************************************)

DocSteps == {"find", "insert", "load", "write", "delete", "enqueue"}

\* What a request about a group carries at each of its steps.
GroupRequest(t) ==
    /\ t.pc \in {"find", "insert", "write"} => t.kind \in {"create", "rename"}
    /\ t.pc = "delete" => t.kind = "delete"
    /\ t.kind \in {"create", "rename"} => t.name \in GroupNames
    /\ t.pc \in {"delete", "enqueue"} => t.name \in GroupNames

\* What the records hold beyond their types.
Shape ==
    /\ \A h \in Handlers : thread[h] \in DocTask => GroupRequest(thread[h])
    /\ \A d \in LiveGroups : group[d].name \in GroupNames
    /\ \A w \in Workers :
          worker[w].pc = "insert" => worker[w].letter \in deployment.letters

Typed == TypeOK /\ Shape

Threads == [Handlers -> Task \cup {IdleThread}]
WorkersType == [Workers -> WorkerTask \cup {IdleWorker}]

\* Patched lists are lists.
LEMMA PatchedTyped ==
    ASSUME NEW acl \in Acl, NEW p \in FullPatches \cup OnePatches
    PROVE  Patched(acl, p) \in Acl
<1>1. /\ acl.groups \in SUBSET Groups
      /\ acl.users \in SUBSET Users
  BY DEF Acl
<1>2. /\ "groups" \in DOMAIN p => p["groups"] \in SUBSET Groups
      /\ "users" \in DOMAIN p => p["users"] \in SUBSET Users
  BY DEF FullPatches, OnePatches, Acl
<1> DEFINE f == Patched(acl, p)
<1>3. /\ f = [x \in {"groups", "users"} |-> f[x]]
      /\ f["groups"] \in SUBSET Groups
      /\ f["users"] \in SUBSET Users
  BY <1>1, <1>2 DEF Patched
<1> HIDE DEF f
<1>4. f = [groups |-> f["groups"], users |-> f["users"]]
  BY <1>3
<1>5. f \in Acl
  BY <1>3, <1>4 DEF Acl
<1> QED
  BY <1>5 DEF f

\* The empty lists are lists, and may be patched.
LEMMA NoAclTyped == NoAcl \in Acl /\ NoAcl \in FullPatches
BY DEF NoAcl, FullPatches, Acl

\* So is the list of a new section.
LEMMA DefaultAclTyped == DefaultAcl \in Acl
BY DirectoryAssumption DEF DefaultAcl, Acl

\* The three kinds of request do not overlap.
LEMMA TaskKinds ==
    ASSUME NEW t \in Task
    PROVE  /\ t.kind = "patch" => t \in PatchTask
           /\ t.kind = "members" => t \in MembersTask
           /\ t.kind \in {"create", "rename", "delete"} => t \in DocTask
           /\ t.kind \in {"patch", "members", "create", "rename", "delete"}
           /\ t \in DocTask => t.kind \in {"create", "rename", "delete"}
           /\ t.pc # "idle"
BY DEF Task, PatchTask, MembersTask, DocTask

\* A thread that moves on keeps a well-typed record.
LEMMA MoveTyped ==
    ASSUME thread \in Threads, NEW h \in Handlers, ~At(h, "idle"),
           NEW pc \in DocSteps, Goto(h, pc),
           thread[h].kind \in {"patch", "members"} => pc = "enqueue"
    PROVE  /\ thread' \in Threads
           /\ thread'[h] = [thread[h] EXCEPT !.pc = pc]
           /\ thread'[h] \in Task
           /\ \A g \in Handlers : g # h => thread'[g] = thread[g]
<1>1. thread[h] \in Task
  BY DEF At, Threads, IdleThread
<1> DEFINE t == [thread[h] EXCEPT !.pc = pc]
<1>2. t \in Task
  <2>1. CASE thread[h].kind = "patch"
    <3>1. thread[h] \in PatchTask
      BY <1>1, <2>1, TaskKinds
    <3>2. t \in PatchTask
      BY <2>1, <3>1 DEF PatchTask
    <3> QED
      BY <3>2 DEF Task
  <2>2. CASE thread[h].kind = "members"
    <3>1. thread[h] \in MembersTask
      BY <1>1, <2>2, TaskKinds
    <3>2. t \in MembersTask
      BY <2>2, <3>1 DEF MembersTask
    <3> QED
      BY <3>2 DEF Task
  <2>3. CASE thread[h].kind \in {"create", "rename", "delete"}
    <3>1. thread[h] \in DocTask
      BY <1>1, <2>3, TaskKinds
    <3>2. t \in DocTask
      BY <3>1 DEF DocTask, DocSteps
    <3> QED
      BY <3>2 DEF Task
  <2> QED
    BY <1>1, <2>1, <2>2, <2>3, TaskKinds
<1>3. thread' = [thread EXCEPT ![h] = t]
  BY DEF Goto
<1> HIDE DEF t
<1>4. /\ thread' \in Threads
      /\ thread'[h] = t
      /\ \A g \in Handlers : g # h => thread'[g] = thread[g]
  BY <1>2, <1>3 DEF Threads
<1> QED
  BY <1>2, <1>4 DEF t

\* A step of a request keeps the types when the documents it leaves are
\* well-typed and the record of the request still fits its step.
LEMMA StepTyped ==
    ASSUME Typed, NEW h \in Handlers, ~At(h, "idle"),
           UNCHANGED <<deployment, dcVars, worker, posts>>,
           queue' \in Seq(Job),
           share' \in [Shares -> ShareRecord],
           group' \in [GroupDocs -> GroupRecord],
           \A d \in LiveGroups' : group'[d].name \in GroupNames,
           \/ Answer(h)
           \/ \E pc \in DocSteps :
                 /\ Goto(h, pc)
                 /\ thread[h].kind \in {"patch", "members"} => pc = "enqueue"
                 /\ pc \in {"find", "insert", "write"} =>
                       thread[h].kind \in {"create", "rename"}
                 /\ pc = "delete" => thread[h].kind = "delete"
                 /\ thread[h].kind = "delete" => thread[h].name \in GroupNames
    PROVE  Typed'
<1>0. thread \in Threads
  BY DEF Typed, TypeOK, Threads
<1>1. /\ thread' \in Threads
      /\ \A g \in Handlers : thread'[g] \in DocTask => GroupRequest(thread'[g])
  <2>1. CASE Answer(h)
    <3>1. IdleThread \notin DocTask
      BY DEF IdleThread, DocTask
    <3> QED
      BY <1>0, <2>1, <3>1 DEF Answer, Threads, Typed, Shape
  <2>2. ASSUME NEW pc \in DocSteps, Goto(h, pc),
               thread[h].kind \in {"patch", "members"} => pc = "enqueue",
               pc \in {"find", "insert", "write"} =>
                  thread[h].kind \in {"create", "rename"},
               pc = "delete" => thread[h].kind = "delete",
               thread[h].kind = "delete" => thread[h].name \in GroupNames
        PROVE  /\ thread' \in Threads
               /\ \A g \in Handlers :
                     thread'[g] \in DocTask => GroupRequest(thread'[g])
    <3>1. /\ thread' \in Threads
          /\ thread'[h] = [thread[h] EXCEPT !.pc = pc]
          /\ thread'[h] \in Task
          /\ \A g \in Handlers : g # h => thread'[g] = thread[g]
      BY <1>0, <2>2, MoveTyped
    <3>2. thread[h] \in Task
      BY <1>0 DEF At, Threads, IdleThread
    <3>3. /\ thread'[h].pc = pc
          /\ thread'[h].kind = thread[h].kind
          /\ thread'[h].name = thread[h].name
      BY <3>1, <3>2 DEF Task, PatchTask, DocTask, MembersTask
    <3>4. thread'[h] \in DocTask => GroupRequest(thread'[h])
      <4>1. SUFFICES ASSUME thread'[h] \in DocTask
                     PROVE  GroupRequest(thread'[h])
        OBVIOUS
      <4>2. thread[h].kind \in {"create", "rename", "delete"}
        BY <3>1, <3>3, <4>1, TaskKinds
      <4>3. GroupRequest(thread[h])
        BY <3>2, <4>2, TaskKinds DEF Typed, Shape
      <4> QED
        BY <2>2, <3>3, <4>2, <4>3 DEF GroupRequest
    <3> QED
      BY <3>1, <3>4 DEF Typed, Shape
  <2> QED
    BY <2>1, <2>2
<1> QED
  BY <1>1 DEF Typed, TypeOK, Shape, Threads, dcVars, LiveGroups

\* The steps of a request keep the types.
LEMMA RequestTyped ==
    ASSUME Typed, NEW h \in Handlers, Request(h) \/ RequestLost(h)
    PROVE  Typed'
<1> USE DEF DocSteps
<1>0. /\ share \in [Shares -> ShareRecord]
      /\ group \in [GroupDocs -> GroupRecord]
      /\ queue \in Seq(Job)
      /\ \A d \in LiveGroups : group[d].name \in GroupNames
      /\ \A t \in {thread[h]} : ~At(h, "idle") => t \in Task
  BY DEF Typed, TypeOK, Shape, IdleThread, At
<1>1. /\ group' = group => \A d \in LiveGroups' : group'[d].name \in GroupNames
  BY <1>0 DEF LiveGroups
<1>2. CASE Touch(h)
  <2> DEFINE n == thread[h].name
  <2>1. thread[h] \in PatchTask /\ ~At(h, "idle")
    BY <1>0, <1>2, TaskKinds DEF Touch, At
  <2>2. n \in Shares /\ thread[h].patch \in FullPatches \cup OnePatches
    BY <2>1 DEF PatchTask
  <2>3. share' \in [Shares -> ShareRecord]
    <3> DEFINE r == [share[n] EXCEPT !.acl = Patched(share[n].acl, thread[h].patch),
                                     !.updated = TRUE]
    <3>1. share[n] \in ShareRecord /\ share[n].acl \in Acl
      BY <1>0, <2>2 DEF ShareRecord
    <3>2. Patched(share[n].acl, thread[h].patch) \in Acl
      BY <2>2, <3>1, PatchedTyped
    <3>3. r \in ShareRecord
      BY <3>1, <3>2 DEF ShareRecord
    <3>4. share' = share \/ share' = [share EXCEPT ![n] = r]
      BY <1>2 DEF Touch
    <3> HIDE DEF r, n
    <3> QED
      BY <1>0, <2>2, <3>3, <3>4
  <2>4. Answer(h) \/ Goto(h, "enqueue")
    BY <1>2 DEF Touch
  <2>5. thread[h].kind = "patch"
    BY <1>2 DEF Touch
  <2> QED
    BY <1>0, <1>1, <1>2, <2>1, <2>3, <2>4, <2>5, StepTyped DEF Touch
<1>3. CASE FindGroup(h)
  <2>1. thread[h] \in Task /\ ~At(h, "idle")
    BY <1>0, <1>3 DEF FindGroup, At
  <2>2. thread[h] \in DocTask
    BY <1>3, <2>1 DEF FindGroup, At, Task, PatchTask, MembersTask
  <2>3. thread[h].kind \in {"create", "rename"}
    BY <1>3, <2>2 DEF FindGroup, At, Typed, Shape, GroupRequest
  <2>4. Answer(h) \/ Goto(h, "insert") \/ Goto(h, "write")
    BY <1>3 DEF FindGroup
  <2>5. UNCHANGED <<share, group, queue>>
    BY <1>3 DEF FindGroup, dbVars
  <2> QED
    BY <1>0, <1>1, <1>3, <2>1, <2>3, <2>4, <2>5, StepTyped DEF FindGroup
<1>4. CASE InsertGroup(h) \/ WriteGroup(h)
  <2>1. thread[h] \in Task /\ ~At(h, "idle")
    BY <1>0, <1>4 DEF InsertGroup, WriteGroup, At
  <2>2. thread[h] \in DocTask
    BY <1>4, <2>1 DEF InsertGroup, WriteGroup, At, Task, PatchTask, MembersTask
  <2>3. thread[h].kind \in {"create", "rename"} /\ thread[h].name \in GroupNames
    BY <1>4, <2>2 DEF InsertGroup, WriteGroup, At, Typed, Shape, GroupRequest
  <2>4. Answer(h) \/ Goto(h, "enqueue")
    BY <1>4 DEF InsertGroup, WriteGroup
  <2>5. UNCHANGED <<deployment, dcVars, share, queue, worker, posts>>
    BY <1>4 DEF InsertGroup, WriteGroup
  <2>6. /\ group' \in [GroupDocs -> GroupRecord]
        /\ \A d \in LiveGroups' : group'[d].name \in GroupNames
    <3> DEFINE d == thread[h].doc
    <3>1. d \in GroupDocs
      BY <2>2 DEF DocTask
    <3>2. PICK r \in GroupRecord : /\ r.name \in GroupNames
                                   /\ \/ group' = group
                                      \/ group' = [group EXCEPT ![d] = r]
      <4>1. CASE InsertGroup(h)
        <5> DEFINE r == [phase |-> "live", name |-> thread[h].name]
        <5>1. r \in GroupRecord /\ r.name \in GroupNames
          BY <2>3 DEF GroupRecord
        <5> QED
          BY <4>1, <5>1 DEF InsertGroup
      <4>2. CASE WriteGroup(h)
        <5> DEFINE r == [group[d] EXCEPT !.name = thread[h].name]
        <5>1. r \in GroupRecord /\ r.name \in GroupNames
          BY <1>0, <2>3, <3>1 DEF GroupRecord
        <5> QED
          BY <4>2, <5>1 DEF WriteGroup
      <4> QED
        BY <1>4, <4>1, <4>2
    <3> HIDE DEF d
    <3> QED
      BY <1>0, <3>1, <3>2 DEF LiveGroups
  <2> QED
    BY <1>0, <2>1, <2>3, <2>4, <2>5, <2>6, StepTyped
<1>5. CASE LoadGroup(h)
  <2>1. thread[h] \in Task /\ ~At(h, "idle")
    BY <1>0, <1>5 DEF LoadGroup, At
  <2>2. UNCHANGED <<deployment, dcVars, share, group, queue, worker, posts>>
    BY <1>5 DEF LoadGroup, dbVars
  <2>3. CASE Answer(h)
    BY <1>0, <1>1, <2>1, <2>2, <2>3, StepTyped
  <2>4. CASE thread[h].kind = "rename" /\ Goto(h, "find")
    BY <1>0, <1>1, <2>1, <2>2, <2>4, StepTyped
  <2>5. CASE /\ thread[h].doc \in LiveGroups /\ thread[h].kind = "delete"
             /\ thread' = [thread EXCEPT ![h].pc = "delete",
                                         ![h].name = group[thread[h].doc].name]
    <3> DEFINE t == [thread[h] EXCEPT !.pc = "delete",
                                      !.name = group[thread[h].doc].name]
    <3>1. thread[h] \in DocTask
      BY <2>1, <2>5, TaskKinds
    <3>2. group[thread[h].doc].name \in GroupNames
      BY <1>0, <2>5
    <3>3. t \in DocTask /\ GroupRequest(t)
      BY <2>5, <3>1, <3>2 DEF DocTask, GroupRequest
    <3>4. thread' = [thread EXCEPT ![h] = t]
      BY <2>5
    <3> HIDE DEF t
    <3>5. thread \in Threads
      BY DEF Typed, TypeOK, Threads
    <3>6. /\ thread' \in Threads
          /\ \A g \in Handlers : thread'[g] \in DocTask => GroupRequest(thread'[g])
      BY <3>3, <3>4, <3>5 DEF Threads, Task, Typed, Shape
    <3> QED
      BY <2>2, <3>6 DEF Typed, TypeOK, Shape, Threads, dcVars, LiveGroups
  <2> QED
    BY <1>5, <2>3, <2>4, <2>5 DEF LoadGroup
<1>6. CASE DeleteGroup(h)
  <2>1. thread[h] \in Task /\ ~At(h, "idle")
    BY <1>0, <1>6 DEF DeleteGroup, At
  <2>2. thread[h] \in DocTask
    BY <1>6, <2>1 DEF DeleteGroup, At, Task, PatchTask, MembersTask
  <2>3. thread[h].kind = "delete" /\ thread[h].name \in GroupNames
    BY <1>6, <2>2 DEF DeleteGroup, At, Typed, Shape, GroupRequest
  <2>4. Answer(h) \/ Goto(h, "enqueue")
    BY <1>6 DEF DeleteGroup
  <2>5. UNCHANGED <<deployment, dcVars, share, queue, worker, posts>>
    BY <1>6 DEF DeleteGroup
  <2>6. /\ group' \in [GroupDocs -> GroupRecord]
        /\ \A d \in LiveGroups' : group'[d].name \in GroupNames
    <3> DEFINE d == thread[h].doc
               r == [group[d] EXCEPT !.phase = "deleted"]
    <3>1. d \in GroupDocs
      BY <2>2 DEF DocTask
    <3>2. r \in GroupRecord /\ r.phase = "deleted"
      BY <1>0, <3>1 DEF GroupRecord
    <3>3. group' = group \/ group' = [group EXCEPT ![d] = r]
      BY <1>6 DEF DeleteGroup
    <3> HIDE DEF d, r
    <3> QED
      BY <1>0, <3>1, <3>2, <3>3 DEF LiveGroups
  <2> QED
    BY <1>0, <2>1, <2>3, <2>4, <2>5, <2>6, StepTyped
<1>7. CASE TouchGroup(h)
  <2>1. ~At(h, "idle")
    BY <1>7 DEF TouchGroup, At
  <2>2. Answer(h) \/ Goto(h, "enqueue")
    BY <1>7 DEF TouchGroup
  <2>3. UNCHANGED <<deployment, dcVars, share, group, queue, worker, posts>>
    BY <1>7 DEF TouchGroup, dbVars
  <2>4. thread[h].kind = "members"
    BY <1>7 DEF TouchGroup
  <2> QED
    BY <1>0, <1>1, <2>1, <2>2, <2>3, <2>4, StepTyped
<1>8. CASE Enqueue(h)
  <2>1. thread[h] \in Task /\ ~At(h, "idle")
    BY <1>0, <1>8 DEF Enqueue, At
  <2>2. PICK j \in Job : queue' = Append(queue, j)
    <3>1. CASE thread[h].kind = "patch"
      <4>1. thread[h] \in PatchTask
        BY <2>1, <3>1, TaskKinds
      <4>2. Patched(NoAcl, thread[h].patch) \in Acl
        BY <4>1, NoAclTyped, PatchedTyped DEF PatchTask
      <4> DEFINE j == [kind |-> "updateShare", name |-> thread[h].name,
                       acl |-> Patched(NoAcl, thread[h].patch)]
      <4>3. j \in ShareJob
        BY <4>1, <4>2 DEF ShareJob, PatchTask
      <4>4. queue' = Append(queue, j)
        BY <1>8, <3>1 DEF Enqueue, Queued
      <4> HIDE DEF j
      <4> QED
        BY <4>3, <4>4 DEF Job
    <3>2. CASE thread[h].kind # "patch"
      <4>1. thread[h].name \in GroupNames
        <5>1. CASE thread[h].kind = "members"
          BY <2>1, <5>1, TaskKinds DEF MembersTask
        <5>2. CASE thread[h].kind # "members"
          <6>1. thread[h] \in DocTask
            BY <2>1, <3>2, <5>2, TaskKinds
          <6> QED
            BY <1>8, <6>1 DEF Enqueue, At, Typed, Shape, GroupRequest
        <5> QED
          BY <5>1, <5>2
      <4>2. PICK k \in {"addGroup", "removeGroup"} :
               queue' = Append(queue, [kind |-> k, name |-> thread[h].name,
                                       acl |-> NoAcl])
        BY <1>8, <3>2 DEF Enqueue, Queued
      <4>3. [kind |-> k, name |-> thread[h].name, acl |-> NoAcl] \in GroupJob
        BY <4>1, <4>2, NoAclTyped DEF GroupJob
      <4> QED
        BY <4>2, <4>3 DEF Job
    <3> QED
      BY <3>1, <3>2
  <2>3. queue' \in Seq(Job)
    BY <1>0, <2>2
  <2>4. /\ Answer(h)
        /\ UNCHANGED <<deployment, dcVars, share, group, worker, posts>>
    BY <1>8 DEF Enqueue, dbVars
  <2> QED
    BY <1>0, <1>1, <2>1, <2>3, <2>4, StepTyped
<1>9. CASE RequestLost(h)
  <2>1. /\ ~At(h, "idle") /\ Answer(h)
        /\ UNCHANGED <<deployment, dcVars, share, group, queue, worker, posts>>
    BY <1>9 DEF RequestLost, dbVars
  <2> QED
    BY <1>0, <1>1, <2>1, StepTyped
<1> QED
  BY <1>2, <1>3, <1>4, <1>5, <1>6, <1>7, <1>8, <1>9 DEF Request

\* Posting a request keeps the types.
LEMMA PostTyped ==
    ASSUME Typed, NEW h \in Handlers, NEW t \in Task, Post(h, t),
           t \in DocTask => GroupRequest(t)
    PROVE  Typed'
<1>1. thread \in Threads
  BY DEF Typed, TypeOK, Threads
<1>2. /\ thread' \in Threads
      /\ \A g \in Handlers : thread'[g] = IF g = h THEN t ELSE thread[g]
  BY <1>1 DEF Post, Threads
<1>3. posts' \in 0 .. Requests
  BY DeploymentAssumption DEF Post, Counted, Typed, TypeOK
<1> QED
  BY <1>2, <1>3
     DEF Typed, TypeOK, Shape, Threads, Post, dcVars, dbVars, LiveGroups

\* The requests that arrive keep the types.
LEMMA ArrivalTyped ==
    ASSUME Typed
    PROVE  /\ \A n \in Shares :
                 /\ \A acl \in Acl : PostCreateShare(n, acl) => Typed'
                 /\ PostDeleteShare(n) => Typed'
                 /\ \A h \in Handlers, p \in FullPatches \cup OnePatches :
                       PostPatch(h, n, p) => Typed'
           /\ \A h \in Handlers, d \in GroupDocs, n \in GroupNames :
                 PostGroup(h, d, n) => Typed'
<1>1. ASSUME NEW j \in Job, queue' = Append(queue, j), Counted,
             UNCHANGED <<deployment, dcVars, dbVars, thread, worker>>
      PROVE  Typed'
  <2>1. posts' \in 0 .. Requests
    BY <1>1, DeploymentAssumption DEF Counted, Typed, TypeOK
  <2>2. queue' \in Seq(Job)
    BY <1>1 DEF Typed, TypeOK
  <2> QED
    BY <1>1, <2>1, <2>2 DEF Typed, TypeOK, Shape, dcVars, dbVars, LiveGroups
<1>2. ASSUME NEW n \in Shares, NEW acl \in Acl, PostCreateShare(n, acl)
      PROVE  Typed'
  <2> DEFINE j == [kind |-> "createShare", name |-> n, acl |-> acl]
  <2>1. j \in Job
    BY DEF Job, ShareJob
  <2>2. queue' = Append(queue, j)
    BY <1>2 DEF PostCreateShare, Queued
  <2> HIDE DEF j
  <2> QED
    BY <1>1, <1>2, <2>1, <2>2 DEF PostCreateShare
<1>3. ASSUME NEW n \in Shares, PostDeleteShare(n)
      PROVE  Typed'
  <2> DEFINE j == [kind |-> "deleteShare", name |-> n, acl |-> NoAcl]
  <2>1. j \in Job
    BY NoAclTyped DEF Job, ShareJob
  <2>2. queue' = Append(queue, j)
    BY <1>3 DEF PostDeleteShare, Queued
  <2> HIDE DEF j
  <2> QED
    BY <1>1, <1>3, <2>1, <2>2 DEF PostDeleteShare
<1>4. ASSUME NEW n \in Shares, NEW h \in Handlers,
             NEW p \in FullPatches \cup OnePatches, PostPatch(h, n, p)
      PROVE  Typed'
  <2> DEFINE t == [pc |-> "touch", kind |-> "patch", doc |-> NoDoc,
                   name |-> n, patch |-> p]
  <2>1. t \in PatchTask
    BY DEF PatchTask
  <2>2. t.kind = "patch"
    OBVIOUS
  <2>3. Post(h, t)
    BY <1>4 DEF PostPatch
  <2> HIDE DEF t
  <2>4. t \in Task /\ t \notin DocTask
    BY <2>1, <2>2, TaskKinds DEF Task
  <2> QED
    BY <2>3, <2>4, PostTyped
<1>5. ASSUME NEW h \in Handlers, NEW d \in GroupDocs, NEW n \in GroupNames,
             PostGroup(h, d, n)
      PROVE  Typed'
  <2>1. ASSUME NEW pc \in {"find", "load"}, NEW k \in {"create", "rename", "delete"},
               NEW m \in GroupNames \cup {NoName},
               pc = "find" => k = "create",
               k \in {"create", "rename"} => m \in GroupNames,
               Post(h, AboutGroup(pc, k, d, m))
        PROVE  Typed'
    <3> DEFINE t == AboutGroup(pc, k, d, m)
    <3>1. t \in DocTask /\ GroupRequest(t)
      BY <2>1 DEF AboutGroup, DocTask, GroupRequest
    <3> HIDE DEF t
    <3>2. t \in Task
      BY <3>1 DEF Task
    <3> QED
      BY <2>1, <3>1, <3>2, PostTyped DEF t
  <2>2. CASE Post(h, AboutGroup("touch", "members", NoDoc, n))
    <3> DEFINE t == AboutGroup("touch", "members", NoDoc, n)
    <3>1. t \in MembersTask /\ t.kind = "members"
      BY DEF AboutGroup, MembersTask
    <3>2. Post(h, t)
      BY <2>2
    <3> HIDE DEF t
    <3>3. t \in Task /\ t \notin DocTask
      BY <3>1, TaskKinds DEF Task
    <3> QED
      BY <3>2, <3>3, PostTyped
  <2>3. CASE Post(h, AboutGroup("find", "create", d, n))
    BY <2>1, <2>3
  <2>4. CASE Post(h, AboutGroup("load", "delete", d, NoName))
    BY <2>1, <2>4
  <2>5. CASE Post(h, AboutGroup("load", "rename", d, n))
    BY <2>1, <2>5
  <2> QED
    BY <1>5, <2>2, <2>3, <2>4, <2>5 DEF PostGroup
<1> QED
  BY <1>2, <1>3, <1>4, <1>5

\* What a worker has in hand.
LEMMA WorkerKinds ==
    ASSUME Typed, NEW w \in Workers, worker[w].pc # "idle"
    PROVE  /\ worker[w] \in WorkerTask
           /\ worker[w].job \in Job
           /\ worker[w].job.kind \in {"createShare", "deleteShare", "updateShare"}
                 => worker[w].job \in ShareJob
           /\ worker[w].job.kind \in {"addGroup", "removeGroup"}
                 => worker[w].job \in GroupJob
           /\ worker[w].pc # "call" => worker[w].job \in ShareJob
           /\ worker[w].pc = "insert" => worker[w].letter \in Letters
<1>1. worker[w] \in WorkerTask
  BY DEF Typed, TypeOK, IdleWorker
<1>2. /\ worker[w].job \in Job
      /\ worker[w].pc # "call" => worker[w].job \in ShareJob
      /\ worker[w].pc = "insert" => worker[w].letter \in Letters
  BY <1>1 DEF WorkerTask, Job
<1>3. \A j \in Job :
         /\ j.kind \in {"createShare", "deleteShare", "updateShare"} => j \in ShareJob
         /\ j.kind \in {"addGroup", "removeGroup"} => j \in GroupJob
  BY DEF Job, ShareJob, GroupJob
<1> QED
  BY <1>1, <1>2, <1>3

\* A worker that goes on to a well-typed record, or is done, keeps the types
\* when the rest does.
LEMMA WorkerStep ==
    ASSUME Typed, NEW w \in Workers,
           UNCHANGED <<deployment, group, thread, posts>>,
           share' \in [Shares -> ShareRecord],
           conf' \in [Shares -> ConfRecord],
           images' \subseteq Shares, directory' \subseteq GroupNames,
           queue' \in Seq(Job),
           \/ Ended(w)
           \/ \E t \in WorkerTask :
                 /\ worker' = [worker EXCEPT ![w] = t]
                 /\ t.pc = "insert" => t.letter \in deployment.letters
    PROVE  Typed'
<1>1. PICK t \in WorkerTask \cup {IdleWorker} :
         /\ worker' = [worker EXCEPT ![w] = t]
         /\ t.pc = "insert" => t.letter \in deployment.letters
  <2>1. CASE Ended(w)
    <3>1. IdleWorker.pc # "insert"
      BY DEF IdleWorker
    <3>2. worker' = [worker EXCEPT ![w] = IdleWorker]
      BY <2>1 DEF Ended
    <3>3. IdleWorker \in WorkerTask \cup {IdleWorker}
      OBVIOUS
    <3> WITNESS IdleWorker \in WorkerTask \cup {IdleWorker}
    <3> QED
      BY <3>1, <3>2
  <2>2. CASE ~Ended(w)
    BY <2>2
  <2> QED
    BY <2>1, <2>2
<1>2. /\ worker' \in WorkersType
      /\ \A v \in Workers : worker'[v] = IF v = w THEN t ELSE worker[v]
  BY <1>1 DEF Typed, TypeOK, WorkersType
<1> QED
  BY <1>1, <1>2 DEF Typed, TypeOK, Shape, WorkersType, LiveGroups

\* The steps of a job keep the types.
LEMMA JobTyped ==
    ASSUME Typed, NEW w \in Workers,
           Take(w) \/ Work(w) \/ CallFails(w) \/ JobLost(w)
    PROVE  Typed'
<1>0. /\ share \in [Shares -> ShareRecord]
      /\ conf \in [Shares -> ConfRecord]
      /\ images \subseteq Shares
      /\ directory \subseteq GroupNames
      /\ queue \in Seq(Job)
  BY DEF Typed, TypeOK
<1>1. /\ \A n \in Shares, a \in Acl :
            [conf EXCEPT ![n] = [sections |-> @.sections + 1, acl |-> a]]
               \in [Shares -> ConfRecord]
      /\ \A n \in Shares, a \in Acl :
            [conf EXCEPT ![n] = [sections |-> 0, acl |-> a]]
               \in [Shares -> ConfRecord]
      /\ \A n \in Shares, a \in Acl :
            [conf EXCEPT ![n].acl = a] \in [Shares -> ConfRecord]
  BY <1>0 DEF ConfRecord
<1>2. CASE Take(w)
  <2>1. Head(queue) \in Job /\ Tail(queue) \in Seq(Job)
    BY <1>0, <1>2 DEF Take
  <2> DEFINE t == [pc |-> "call", job |-> Head(queue), letter |-> NoLetter]
  <2>2. t \in WorkerTask /\ t.pc # "insert"
    BY <2>1 DEF WorkerTask
  <2>3. worker' = [worker EXCEPT ![w] = t]
    BY <1>2 DEF Take
  <2> HIDE DEF t
  <2> QED
    BY <1>0, <1>2, <2>1, <2>2, <2>3, WorkerStep DEF Take, dcVars, dbVars
<1>3. ASSUME worker[w].pc = "call", worker[w].job \in ShareJob,
             NEW pc \in {"letter", "erase"}, GoesOn(w, pc)
      PROVE  \E t \in WorkerTask : /\ worker' = [worker EXCEPT ![w] = t]
                                   /\ t.pc # "insert"
  <2> DEFINE t == [worker[w] EXCEPT !.pc = pc]
  <2>1. worker[w] \in WorkerTask
    BY <1>3, WorkerKinds
  <2>2. t \in WorkerTask /\ t.pc = pc
    BY <1>3, <2>1 DEF WorkerTask
  <2>3. worker' = [worker EXCEPT ![w] = t]
    BY <1>3 DEF GoesOn
  <2> HIDE DEF t
  <2> QED
    BY <2>2, <2>3
<1>4. CASE CallCreateShare(w)
  <2>1. worker[w].pc = "call" /\ worker[w].job \in ShareJob
    BY <1>4, WorkerKinds DEF CallCreateShare, Calling
  <2>2. worker[w].job.name \in Shares
    BY <2>1 DEF ShareJob
  <2>3. /\ conf' \in [Shares -> ConfRecord]
        /\ images' \subseteq Shares
    BY <1>0, <1>1, <1>4, <2>2, DefaultAclTyped DEF CallCreateShare
  <2>4. GoesOn(w, "letter")
    BY <1>4 DEF CallCreateShare
  <2> QED
    BY <1>0, <1>3, <1>4, <2>1, <2>3, <2>4, WorkerStep DEF CallCreateShare, dbVars
<1>5. CASE CallDeleteShare(w)
  <2>1. worker[w].pc = "call" /\ worker[w].job \in ShareJob
    BY <1>5, WorkerKinds DEF CallDeleteShare, Calling
  <2>2. worker[w].job.name \in Shares
    BY <2>1 DEF ShareJob
  <2>3. conf' \in [Shares -> ConfRecord]
    BY <1>0, <1>1, <1>5, <2>2, NoAclTyped DEF CallDeleteShare
  <2>4. Ended(w) \/ GoesOn(w, "erase")
    BY <1>5 DEF CallDeleteShare
  <2> QED
    BY <1>0, <1>3, <1>5, <2>1, <2>3, <2>4, WorkerStep DEF CallDeleteShare, dbVars
<1>6. CASE CallUpdateShare(w)
  <2>1. worker[w].job \in ShareJob
    BY <1>6, WorkerKinds DEF CallUpdateShare, Calling
  <2>2. worker[w].job.name \in Shares /\ worker[w].job.acl \in Acl
    BY <2>1 DEF ShareJob
  <2>3. conf' \in [Shares -> ConfRecord]
    BY <1>0, <1>1, <1>6, <2>2 DEF CallUpdateShare
  <2> QED
    BY <1>0, <1>6, <2>3, WorkerStep DEF CallUpdateShare, dbVars
<1>7. CASE CallGroup(w)
  <2>1. worker[w].job \in GroupJob
    BY <1>7, WorkerKinds DEF CallGroup, Calling
  <2>2. directory' \subseteq GroupNames
    BY <1>0, <1>7, <2>1 DEF CallGroup, GroupJob
  <2> QED
    BY <1>0, <1>7, <2>2, WorkerStep DEF CallGroup, dbVars
<1>8. CASE CallFails(w)
  <2>1. /\ Ended(w)
        /\ UNCHANGED <<deployment, share, group, thread, queue, posts>>
    BY <1>8 DEF CallFails, dbVars
  <2>2. /\ worker[w].job.kind \in {"createShare", "deleteShare"}
              => worker[w].job.name \in Shares
        /\ worker[w].job.kind \in {"addGroup", "removeGroup"}
              => worker[w].job.name \in GroupNames
    BY <1>8, WorkerKinds DEF CallFails, ShareJob, GroupJob
  <2>3. /\ conf' \in [Shares -> ConfRecord]
        /\ images' \subseteq Shares
        /\ directory' \subseteq GroupNames
    <3>1. CASE UNCHANGED dcVars
      BY <1>0, <3>1 DEF dcVars
    <3>2. CASE ~UNCHANGED dcVars
      BY <1>0, <1>1, <1>8, <2>2, <3>2, DefaultAclTyped, NoAclTyped DEF CallFails
    <3> QED
      BY <3>1, <3>2
  <2> QED
    BY <1>0, <2>1, <2>3, WorkerStep
<1>9. CASE AllocateLetter(w)
  <2>1. UNCHANGED <<deployment, dcVars, share, group, thread, queue, posts>>
    BY <1>9 DEF AllocateLetter, dbVars
  <2>2. CASE Ended(w)
    BY <1>0, <2>1, <2>2, WorkerStep DEF dcVars
  <2>3. CASE ~Ended(w)
    <3> DEFINE free == deployment.letters \ LettersInUse
               l == CHOOSE x \in free : TRUE
               t == [worker[w] EXCEPT !.letter = l, !.pc = "insert"]
    <3>1. free # {} /\ worker' = [worker EXCEPT ![w] = t]
      BY <1>9, <2>3 DEF AllocateLetter
    <3>2. l \in deployment.letters /\ l \in Letters
      BY <3>1, DeploymentAssumption DEF Typed, TypeOK, DeploymentType
    <3>3. worker[w].pc = "letter" /\ worker[w] \in WorkerTask
      BY <1>9, WorkerKinds DEF AllocateLetter
    <3> HIDE DEF l
    <3>4. t \in WorkerTask /\ t.letter \in deployment.letters
      BY <3>2, <3>3 DEF WorkerTask
    <3> HIDE DEF t
    <3> QED
      BY <1>0, <2>1, <3>1, <3>4, WorkerStep DEF dcVars
  <2> QED
    BY <2>2, <2>3
<1>10. CASE InsertShare(w)
  <2> DEFINE n == worker[w].job.name
             r == [drive |-> worker[w].letter, acl |-> worker[w].job.acl,
                   updated |-> FALSE]
  <2>1. /\ worker[w].job \in ShareJob
        /\ worker[w].letter \in Letters
    BY <1>10, WorkerKinds DEF InsertShare
  <2>2. n \in Shares /\ r \in ShareRecord
    BY <2>1 DEF ShareJob, ShareRecord
  <2>3. share' = share \/ share' = [share EXCEPT ![n] = r]
    BY <1>10 DEF InsertShare
  <2> HIDE DEF n, r
  <2>4. share' \in [Shares -> ShareRecord]
    BY <1>0, <2>2, <2>3
  <2> QED
    BY <1>0, <1>10, <2>4, WorkerStep DEF InsertShare, dcVars
<1>11. CASE EraseShare(w)
  <2>1. NoShare \in ShareRecord
    BY NoAclTyped DEF NoShare, ShareRecord
  <2>2. share' \in [Shares -> ShareRecord]
    BY <1>0, <1>11, <2>1 DEF EraseShare
  <2> QED
    BY <1>0, <1>11, <2>2, WorkerStep DEF EraseShare, dcVars
<1>12. CASE JobLost(w)
  BY <1>0, <1>12, WorkerStep DEF JobLost, dcVars, dbVars
<1> QED
  BY <1>2, <1>4, <1>5, <1>6, <1>7, <1>8, <1>9, <1>10, <1>11, <1>12 DEF Work

\* The types hold at the start,
LEMMA InitTyped == Init => Typed
<1> SUFFICES ASSUME Init PROVE Typed
  OBVIOUS
<1>1. /\ share \in [Shares -> ShareRecord]
      /\ conf \in [Shares -> ConfRecord]
  BY NoAclTyped DEF Init, NoShare, ShareRecord, ConfRecord
<1>2. /\ group \in [GroupDocs -> GroupRecord]
      /\ LiveGroups = {}
  BY DEF Init, GroupRecord, LiveGroups
<1>3. \A h \in Handlers : thread[h] = IdleThread /\ IdleThread \notin DocTask
  BY DEF Init, IdleThread, DocTask
<1>4. \A w \in Workers : worker[w] = IdleWorker /\ IdleWorker.pc # "insert"
  BY DEF Init, IdleWorker
<1>5. /\ thread \in [Handlers -> Task \cup {IdleThread}]
      /\ worker \in [Workers -> WorkerTask \cup {IdleWorker}]
      /\ queue \in Seq(Job)
      /\ deployment \in Deployments
      /\ posts \in 0 .. Requests
      /\ images \subseteq Shares /\ directory \subseteq GroupNames
  BY DeploymentAssumption DEF Init
<1> QED
  BY <1>1, <1>2, <1>3, <1>4, <1>5 DEF Typed, TypeOK, Shape

\* and after every step.
LEMMA NextTyped == Typed /\ [Next]_vars => Typed'
<1> SUFFICES ASSUME Typed, [Next]_vars PROVE Typed'
  OBVIOUS
<1>1. CASE Next
  BY <1>1, ArrivalTyped, RequestTyped, JobTyped DEF Next
<1>2. CASE UNCHANGED vars
  BY <1>2 DEF vars, dcVars, dbVars, Typed, TypeOK, Shape, LiveGroups
<1> QED
  BY <1>1, <1>2

\* Every variable of DomainDirectory keeps its type: a job and the record of
\* the thread that queues it agree in every interleaving.
THEOREM TypeCorrect == Spec => []TypeOK
<1>1. Typed => TypeOK
  BY DEF Typed
<1> QED
  BY <1>1, InitTyped, NextTyped, PTL DEF Spec

-----------------------------------------------------------------------------
(***************************************************************************)
(* Drive letters                                                           *)
(***************************************************************************)

\* What a step does to the letters: it leaves them, takes one share's letter
\* away, or gives a share a letter that exists and that no share has.
LEMMA LetterStep ==
    ASSUME Typed, [Next]_vars
    PROVE  /\ deployment' = deployment
           /\ \/ \A n \in Shares : share'[n].drive = share[n].drive
              \/ \E m \in Shares :
                    /\ share'[m].drive = NoLetter
                    /\ \A n \in Shares \ {m} : share'[n] = share[n]
              \/ \E m \in Shares :
                    /\ share'[m].drive \in deployment.letters \ LettersInUse
                    /\ \A n \in Shares \ {m} : share'[n] = share[n]
<1>0. share \in [Shares -> ShareRecord]
  BY DEF Typed, TypeOK
<1>1. CASE \E h \in Handlers : Touch(h)
  <2>1. PICK h \in Handlers : Touch(h)
    BY <1>1
  <2>2. deployment' = deployment
    BY <2>1 DEF Touch
  <2>3. \A n \in Shares : share'[n].drive = share[n].drive
    BY <1>0, <2>1 DEF Touch, ShareRecord
  <2> QED
    BY <2>2, <2>3
<1>2. CASE \E w \in Workers : InsertShare(w)
  <2>1. PICK w \in Workers : InsertShare(w)
    BY <1>2
  <2> DEFINE m == worker[w].job.name
             l == worker[w].letter
             r == [drive |-> l, acl |-> worker[w].job.acl, updated |-> FALSE]
  <2>2. deployment' = deployment
    BY <2>1 DEF InsertShare
  <2>3. l \in deployment.letters
    BY <2>1 DEF InsertShare, Typed, Shape
  <2>4. m \in Shares
    BY <2>1, WorkerKinds DEF InsertShare, ShareJob
  <2>5. CASE share' = share
    BY <2>2, <2>5
  <2>6. CASE l \notin LettersInUse /\ share' = [share EXCEPT ![m] = r]
    <3>1. r.drive = l
      OBVIOUS
    <3> HIDE DEF m, r
    <3>2. /\ share'[m].drive = l
          /\ \A n \in Shares \ {m} : share'[n] = share[n]
      BY <1>0, <2>4, <2>6, <3>1
    <3> QED
      BY <2>2, <2>3, <2>4, <2>6, <3>2
  <2> QED
    BY <2>1, <2>5, <2>6 DEF InsertShare
<1>3. CASE \E w \in Workers : EraseShare(w)
  <2>1. PICK w \in Workers : EraseShare(w)
    BY <1>3
  <2>2. worker[w].job.name \in Shares
    BY <2>1, WorkerKinds DEF EraseShare, ShareJob
  <2>3. /\ share'[worker[w].job.name].drive = NoLetter
        /\ \A n \in Shares \ {worker[w].job.name} : share'[n] = share[n]
    BY <1>0, <2>1, <2>2 DEF EraseShare, NoShare
  <2>4. deployment' = deployment
    BY <2>1 DEF EraseShare
  <2> QED
    BY <2>2, <2>3, <2>4
<1>4. CASE UNCHANGED <<deployment, share>>
  BY <1>4
<1>5. CASE Next
  <2>1. ASSUME NEW h \in Handlers, Request(h) \/ RequestLost(h)
        PROVE  UNCHANGED <<deployment, share>> \/ Touch(h)
    BY <2>1 DEF Request, RequestLost, FindGroup, InsertGroup, LoadGroup,
                WriteGroup, DeleteGroup, TouchGroup, Enqueue, dbVars
  <2>2. ASSUME NEW w \in Workers,
               Take(w) \/ Work(w) \/ CallFails(w) \/ JobLost(w)
        PROVE  \/ UNCHANGED <<deployment, share>>
               \/ InsertShare(w) \/ EraseShare(w)
    BY <2>2 DEF Take, Work, CallFails, JobLost, CallCreateShare,
                CallDeleteShare, CallUpdateShare, CallGroup, AllocateLetter,
                dbVars
  <2>3. ASSUME NEW n \in Shares,
               \/ \E acl \in Acl : PostCreateShare(n, acl)
               \/ PostDeleteShare(n)
               \/ \E h \in Handlers, p \in FullPatches \cup OnePatches :
                     PostPatch(h, n, p)
        PROVE  UNCHANGED <<deployment, share>>
    BY <2>3 DEF PostCreateShare, PostDeleteShare, PostPatch, Post, dbVars
  <2>4. ASSUME NEW h \in Handlers, NEW d \in GroupDocs, NEW n \in GroupNames,
               PostGroup(h, d, n)
        PROVE  UNCHANGED <<deployment, share>>
    BY <2>4 DEF PostGroup, Post, dbVars
  <2> QED
    BY <1>1, <1>2, <1>3, <1>4, <1>5, <2>1, <2>2, <2>3, <2>4 DEF Next
<1> QED
  BY <1>4, <1>5 DEF vars, dbVars

\* However many workers allocate letters at once and wherever a job is lost,
\* two shares never have one letter, and every letter exists: the unique index
\* repairs the allocation, which reads the letters before it inserts one.
THEOREM LettersKept == Spec => []LettersUnique
<1>1. Init => LettersUnique
  BY DEF Init, LettersUnique, SharesInDb, NoShare
<1>2. Typed /\ LettersUnique /\ [Next]_vars => LettersUnique'
  <2> SUFFICES ASSUME Typed, LettersUnique, [Next]_vars
               PROVE  LettersUnique'
    OBVIOUS
  <2>0. NoLetter \notin deployment.letters
    BY DirectoryAssumption, DeploymentAssumption
       DEF Typed, TypeOK, DeploymentType
  <2>1. CASE \A n \in Shares : share'[n].drive = share[n].drive
    BY <2>1, LetterStep DEF LettersUnique, SharesInDb
  <2>2. ASSUME NEW m \in Shares, share'[m].drive = NoLetter,
               \A n \in Shares \ {m} : share'[n] = share[n]
        PROVE  LettersUnique'
    BY <2>2, LetterStep DEF LettersUnique, SharesInDb
  <2>3. ASSUME NEW m \in Shares,
               share'[m].drive \in deployment.letters \ LettersInUse,
               \A n \in Shares \ {m} : share'[n] = share[n]
        PROVE  LettersUnique'
    BY <2>0, <2>3, LetterStep DEF LettersUnique, SharesInDb, LettersInUse
  <2> QED
    BY <2>1, <2>2, <2>3, LetterStep
<1> QED
  BY <1>1, <1>2, InitTyped, NextTyped, PTL DEF Spec

-----------------------------------------------------------------------------
(***************************************************************************)
(* The line of jobs                                                        *)
(***************************************************************************)

\* Jobs reach the domain controller in a line: the jobs that workers are calling
\* it for (C), then those of the queue (q), then those that requests are about to
\* queue (P).  Of the jobs in a set R, the last of the line has the last word.
NoneIn(q, R) == \A i \in 1..Len(q) : q[i] \notin R
LastIn(q, R, x) ==
    \E i \in 1..Len(q) : /\ q[i] = x /\ x \in R
                         /\ \A k \in 1..Len(q) : k > i => q[k] \notin R

\* No job of R is in the line.
Clear(P, q, C, R) == P \cap R = {} /\ NoneIn(q, R) /\ C \cap R = {}

\* The job x has the last word about R.
Due(P, q, C, R, x) ==
    \/ x \in P \cap R
    \/ P \cap R = {} /\ LastIn(q, R, x)
    \/ P \cap R = {} /\ NoneIn(q, R) /\ x \in C \cap R

\* A job at the end of the queue has the last word if it is one of R, and none
\* otherwise.
LEMMA LastAppended ==
    ASSUME NEW S, NEW q \in Seq(S), NEW j \in S, NEW R, NEW x
    PROVE  /\ NoneIn(Append(q, j), R) <=> NoneIn(q, R) /\ j \notin R
           /\ LastIn(Append(q, j), R, x) =>
                 (j \in R /\ x = j) \/ (j \notin R /\ LastIn(q, R, x))
<1> DEFINE r == Append(q, j)
<1>1. /\ Len(r) = Len(q) + 1 /\ Len(q) \in Nat
      /\ \A i \in 1..Len(q) : r[i] = q[i]
      /\ r[Len(q) + 1] = j
  BY AppendProperties, LenProperties
<1> HIDE DEF r
<1>2. NoneIn(r, R) <=> NoneIn(q, R) /\ j \notin R
  <2>1. ASSUME NoneIn(r, R) PROVE NoneIn(q, R) /\ j \notin R
    <3>1. Len(q) + 1 \in 1..Len(r) /\ \A i \in 1..Len(q) : i \in 1..Len(r)
      BY <1>1
    <3> QED
      BY <1>1, <2>1, <3>1 DEF NoneIn
  <2>2. ASSUME NoneIn(q, R), j \notin R PROVE NoneIn(r, R)
    <3>1. \A i \in 1..Len(r) : i \in 1..Len(q) \/ i = Len(q) + 1
      BY <1>1
    <3> QED
      BY <1>1, <2>2, <3>1 DEF NoneIn
  <2> QED
    BY <2>1, <2>2
<1>3. LastIn(r, R, x) => (j \in R /\ x = j) \/ (j \notin R /\ LastIn(q, R, x))
  <2> SUFFICES ASSUME LastIn(r, R, x)
               PROVE  (j \in R /\ x = j) \/ (j \notin R /\ LastIn(q, R, x))
    OBVIOUS
  <2>1. PICK i \in 1..Len(r) : /\ r[i] = x /\ x \in R
                               /\ \A k \in 1..Len(r) : k > i => r[k] \notin R
    BY DEF LastIn
  <2>2. CASE i = Len(q) + 1
    BY <1>1, <2>1, <2>2
  <2>3. CASE i # Len(q) + 1
    <3>1. i \in 1..Len(q) /\ Len(q) + 1 \in 1..Len(r) /\ Len(q) + 1 > i
      BY <1>1, <2>3
    <3>2. j \notin R
      BY <1>1, <2>1, <3>1
    <3>3. \A k \in 1..Len(q) : k > i => q[k] \notin R
      <4>1. \A k \in 1..Len(q) : k \in 1..Len(r)
        BY <1>1
      <4> QED
        BY <1>1, <2>1, <4>1
    <3> QED
      BY <1>1, <2>1, <3>1, <3>2, <3>3 DEF LastIn
  <2> QED
    BY <2>2, <2>3
<1> QED
  BY <1>2, <1>3 DEF r

\* What the queue says is what its tail says, or its head if the tail says
\* nothing.
LEMMA LastTaken ==
    ASSUME NEW S, NEW q \in Seq(S), q # <<>>, NEW R, NEW x
    PROVE  /\ Head(q) \in S /\ Tail(q) \in Seq(S)
           /\ NoneIn(q, R) <=> NoneIn(Tail(q), R) /\ Head(q) \notin R
           /\ LastIn(Tail(q), R, x) => LastIn(q, R, x)
           /\ NoneIn(Tail(q), R) /\ Head(q) \in R => LastIn(q, R, Head(q))
<1> DEFINE r == Tail(q)
           a == Head(q)
<1>1. /\ Len(r) = Len(q) - 1 /\ Len(q) \in Nat \ {0}
      /\ \A i \in 1..Len(r) : r[i] = q[i + 1]
      /\ a = q[1] /\ a \in S /\ r \in Seq(S)
  <2>1. Len(q) \in Nat /\ Len(q) # 0
    BY EmptySeq, LenProperties
  <2>2. r \in Seq(S) /\ Len(r) = Len(q) - 1 /\ a \in S
    BY HeadTailProperties
  <2>3. \A i \in 1..Len(r) : r[i] = q[i + 1]
    BY HeadTailProperties
  <2>4. a = q[1]
    OBVIOUS
  <2> QED
    BY <2>1, <2>2, <2>3, <2>4
<1> HIDE DEF r, a
<1>2. NoneIn(q, R) <=> NoneIn(r, R) /\ a \notin R
  <2>1. ASSUME NoneIn(q, R) PROVE NoneIn(r, R) /\ a \notin R
    <3>1. 1 \in 1..Len(q) /\ \A i \in 1..Len(r) : i + 1 \in 1..Len(q)
      BY <1>1
    <3> QED
      BY <1>1, <2>1, <3>1 DEF NoneIn
  <2>2. ASSUME NoneIn(r, R), a \notin R PROVE NoneIn(q, R)
    <3> SUFFICES ASSUME NEW i \in 1..Len(q) PROVE q[i] \notin R
      BY DEF NoneIn
    <3>1. CASE i = 1
      BY <1>1, <2>2, <3>1
    <3>2. CASE i # 1
      <4>1. i - 1 \in 1..Len(r) /\ (i - 1) + 1 = i
        BY <1>1, <3>2
      <4>2. r[i - 1] = q[i]
        BY <1>1, <4>1
      <4> QED
        BY <2>2, <4>1, <4>2 DEF NoneIn
    <3> QED
      BY <3>1, <3>2
  <2> QED
    BY <2>1, <2>2
<1>3. ASSUME NEW i \in 1..Len(q), \A k \in 1..Len(r) : k + 1 > i => r[k] \notin R
      PROVE  \A k \in 1..Len(q) : k > i => q[k] \notin R
  <2> SUFFICES ASSUME NEW k \in 1..Len(q), k > i PROVE q[k] \notin R
    OBVIOUS
  <2>1. k - 1 \in 1..Len(r) /\ (k - 1) + 1 = k
    BY <1>1
  <2>2. r[k - 1] = q[k]
    BY <1>1, <2>1
  <2> QED
    BY <1>3, <2>1, <2>2
<1>4. LastIn(r, R, x) => LastIn(q, R, x)
  <2> SUFFICES ASSUME LastIn(r, R, x) PROVE LastIn(q, R, x)
    OBVIOUS
  <2>1. PICK i \in 1..Len(r) : /\ r[i] = x /\ x \in R
                               /\ \A k \in 1..Len(r) : k > i => r[k] \notin R
    BY DEF LastIn
  <2>2. i + 1 \in 1..Len(q) /\ q[i + 1] = x
    BY <1>1, <2>1
  <2>3. \A k \in 1..Len(r) : k + 1 > i + 1 => r[k] \notin R
    BY <1>1, <2>1
  <2>4. \A k \in 1..Len(q) : k > i + 1 => q[k] \notin R
    BY <1>3, <2>2, <2>3
  <2> QED
    BY <2>1, <2>2, <2>4 DEF LastIn
<1>5. NoneIn(r, R) /\ a \in R => LastIn(q, R, a)
  <2> SUFFICES ASSUME NoneIn(r, R), a \in R PROVE LastIn(q, R, a)
    OBVIOUS
  <2>1. 1 \in 1..Len(q) /\ \A k \in 1..Len(r) : k + 1 > 1 => r[k] \notin R
    BY <1>1 DEF NoneIn
  <2>2. \A k \in 1..Len(q) : k > 1 => q[k] \notin R
    BY <1>3, <2>1
  <2> QED
    BY <1>1, <2>1, <2>2 DEF LastIn
<1> QED
  BY <1>1, <1>2, <1>4, <1>5 DEF r, a

\* A request that queues its job, and a worker that takes one, change neither
\* who has the last word nor whether anyone has.
LEMMA LineMoves ==
    ASSUME NEW S, NEW q \in Seq(S), NEW R, NEW x
    PROVE  /\ \A j \in S : \A C :
                 /\ Due({}, Append(q, j), C, R, x) => Due({j}, q, C, R, x)
                 /\ Clear({}, Append(q, j), C, R) <=> Clear({j}, q, C, R)
           /\ \A P : q # <<>> =>
                 /\ Due(P, Tail(q), {Head(q)}, R, x) => Due(P, q, {}, R, x)
                 /\ Clear(P, Tail(q), {Head(q)}, R) <=> Clear(P, q, {}, R)
<1>1. ASSUME NEW j \in S, NEW C
      PROVE  /\ Due({}, Append(q, j), C, R, x) => Due({j}, q, C, R, x)
             /\ Clear({}, Append(q, j), C, R) <=> Clear({j}, q, C, R)
  <2>1. /\ NoneIn(Append(q, j), R) <=> NoneIn(q, R) /\ j \notin R
        /\ LastIn(Append(q, j), R, x) =>
              (j \in R /\ x = j) \/ (j \notin R /\ LastIn(q, R, x))
    BY LastAppended
  <2> QED
    BY <2>1 DEF Due, Clear
<1>2. ASSUME NEW P, q # <<>>
      PROVE  /\ Due(P, Tail(q), {Head(q)}, R, x) => Due(P, q, {}, R, x)
             /\ Clear(P, Tail(q), {Head(q)}, R) <=> Clear(P, q, {}, R)
  <2>1. /\ NoneIn(q, R) <=> NoneIn(Tail(q), R) /\ Head(q) \notin R
        /\ LastIn(Tail(q), R, x) => LastIn(q, R, x)
        /\ NoneIn(Tail(q), R) /\ Head(q) \in R => LastIn(q, R, Head(q))
    BY <1>2, LastTaken
  <2> QED
    BY <2>1 DEF Due, Clear
<1> QED
  BY <1>1, <1>2

\* A job that is not one of R joins the queue unnoticed; a request that is about
\* to queue a job has the last word about what the job concerns; and a call that
\* has been made leaves the word to the jobs behind it.
LEMMA LineChanges ==
    ASSUME NEW S, NEW q \in Seq(S), NEW R, NEW x, NEW j \in S
    PROVE  /\ \A P, C : j \notin R =>
                 /\ Due(P, Append(q, j), C, R, x) => Due(P, q, C, R, x)
                 /\ Clear(P, Append(q, j), C, R) <=> Clear(P, q, C, R)
           /\ \A C : /\ Due({j}, q, C, R, x) =>
                          (j \in R /\ x = j) \/ (j \notin R /\ Due({}, q, C, R, x))
                     /\ Clear({j}, q, C, R) <=> j \notin R /\ Clear({}, q, C, R)
           /\ \A P : /\ Due(P, q, {}, R, x) => Due(P, q, {j}, R, x)
                     /\ Clear(P, q, {j}, R) <=> Clear(P, q, {}, R) /\ j \notin R
                     /\ Clear(P, q, {}, R) /\ j \in R => Due(P, q, {j}, R, j)
<1>1. ASSUME NEW P, NEW C, j \notin R
      PROVE  /\ Due(P, Append(q, j), C, R, x) => Due(P, q, C, R, x)
             /\ Clear(P, Append(q, j), C, R) <=> Clear(P, q, C, R)
  <2>1. /\ NoneIn(Append(q, j), R) <=> NoneIn(q, R) /\ j \notin R
        /\ LastIn(Append(q, j), R, x) =>
              (j \in R /\ x = j) \/ (j \notin R /\ LastIn(q, R, x))
    BY LastAppended
  <2> QED
    BY <1>1, <2>1 DEF Due, Clear
<1>2. ASSUME NEW C
      PROVE  /\ Due({j}, q, C, R, x) =>
                   (j \in R /\ x = j) \/ (j \notin R /\ Due({}, q, C, R, x))
             /\ Clear({j}, q, C, R) <=> j \notin R /\ Clear({}, q, C, R)
  BY DEF Due, Clear
<1>3. ASSUME NEW P
      PROVE  /\ Due(P, q, {}, R, x) => Due(P, q, {j}, R, x)
             /\ Clear(P, q, {j}, R) <=> Clear(P, q, {}, R) /\ j \notin R
             /\ Clear(P, q, {}, R) /\ j \in R => Due(P, q, {j}, R, j)
  BY DEF Due, Clear
<1> QED
  BY <1>1, <1>2, <1>3

-----------------------------------------------------------------------------
(***************************************************************************)
(* One thread and one worker                                               *)
(***************************************************************************)

\* The job a request is about to queue.
JobOf(t) ==
    IF t.kind = "patch"
    THEN [kind |-> "updateShare", name |-> t.name, acl |-> Patched(NoAcl, t.patch)]
    ELSE [kind |-> IF t.kind = "delete" THEN "removeGroup" ELSE "addGroup",
          name |-> t.name, acl |-> NoAcl]

\* The jobs about to be queued, and those being called for.
JobsQueuedBy(th) ==
    {JobOf(th[h]) : h \in {g \in Handlers : th[g].pc = "enqueue"}}
JobsCalledBy(wk) ==
    {wk[w].job : w \in {v \in Workers : wk[v].pc = "call"}}

Pending == JobsQueuedBy(thread)
Calls   == JobsCalledBy(worker)

\* Only what is deployed acts.
OneActs ==
    /\ \A h \in Handlers : ~At(h, "idle") => h \in deployment.handlers
    /\ \A w \in Workers : worker[w].pc # "idle" => w \in deployment.workers

\* Nothing is deployed twice and nothing fails: what the theorems below are about.
Single ==
    /\ ~deployment.faults
    /\ \A g, h \in deployment.handlers : g = h
    /\ \A v, w \in deployment.workers : v = w

\* The premise of the theorems, with sets of one element spelled out.
LEMMA SerialIsSingle ==
    ASSUME TypeOK, Serial
    PROVE  Single
<1>1. /\ deployment.handlers \subseteq Handlers
      /\ deployment.workers \subseteq Workers
  BY DeploymentAssumption DEF TypeOK, DeploymentType
<1>2. IsFiniteSet(deployment.handlers) /\ IsFiniteSet(deployment.workers)
  BY <1>1, DeploymentAssumption, FS_Subset
<1>3. /\ \E x : deployment.handlers = {x}
      /\ \E x : deployment.workers = {x}
  BY <1>2, FS_Singleton DEF Serial
<1> QED
  BY <1>3 DEF Serial, Single

\* With one thread the requests' part of the line is that thread's job.
LEMMA OnePending ==
    ASSUME NEW th, NEW h \in Handlers,
           \A g \in Handlers : g # h => th[g].pc = "idle"
    PROVE  JobsQueuedBy(th) = IF th[h].pc = "enqueue" THEN {JobOf(th[h])} ELSE {}
<1>1. CASE th[h].pc = "enqueue"
  <2>1. {g \in Handlers : th[g].pc = "enqueue"} = {h}
    BY <1>1
  <2>2. JobsQueuedBy(th) = {JobOf(th[g]) : g \in {h}}
    BY <2>1 DEF JobsQueuedBy
  <2>3. {JobOf(th[g]) : g \in {h}} = {JobOf(th[h])}
    OBVIOUS
  <2> QED
    BY <1>1, <2>2, <2>3
<1>2. CASE th[h].pc # "enqueue"
  <2>1. {g \in Handlers : th[g].pc = "enqueue"} = {}
    BY <1>2
  <2> QED
    BY <1>2, <2>1 DEF JobsQueuedBy
<1> QED
  BY <1>1, <1>2

\* With one worker the calls' part is that worker's job.
LEMMA OneCalled ==
    ASSUME NEW wk, NEW w \in Workers,
           \A v \in Workers : v # w => wk[v].pc = "idle"
    PROVE  JobsCalledBy(wk) = IF wk[w].pc = "call" THEN {wk[w].job} ELSE {}
<1>1. CASE wk[w].pc = "call"
  <2>1. {v \in Workers : wk[v].pc = "call"} = {w}
    BY <1>1
  <2> QED
    BY <1>1, <2>1 DEF JobsCalledBy
<1>2. CASE wk[w].pc # "call"
  <2>1. {v \in Workers : wk[v].pc = "call"} = {}
    BY <1>2
  <2> QED
    BY <1>2, <2>1 DEF JobsCalledBy
<1> QED
  BY <1>1, <1>2

\* The job of a request at its last step is a job.
LEMMA JobOfTyped ==
    ASSUME NEW t \in Task, t.pc = "enqueue", t \in DocTask => GroupRequest(t)
    PROVE  /\ JobOf(t) \in Job
           /\ t.kind # "patch" => t.name \in GroupNames
<1>1. CASE t.kind = "patch"
  <2>1. t \in PatchTask
    BY <1>1, TaskKinds
  <2>2. t.name \in Shares /\ Patched(NoAcl, t.patch) \in Acl
    BY <2>1, NoAclTyped, PatchedTyped DEF PatchTask
  <2>3. JobOf(t) \in ShareJob
    BY <1>1, <2>2 DEF ShareJob, JobOf
  <2> QED
    BY <1>1, <2>3 DEF Job
<1>2. CASE t.kind # "patch"
  <2>1. t.name \in GroupNames
    <3>1. CASE t.kind = "members"
      BY <3>1, TaskKinds DEF MembersTask
    <3>2. CASE t.kind # "members"
      <4>1. t \in DocTask
        BY <1>2, <3>2, TaskKinds
      <4> QED
        BY <4>1 DEF GroupRequest
    <3> QED
      BY <3>1, <3>2
  <2>2. JobOf(t) \in GroupJob
    BY <1>2, <2>1, NoAclTyped DEF GroupJob, JobOf
  <2> QED
    BY <1>2, <2>1, <2>2 DEF Job
<1> QED
  BY <1>1, <1>2

\* In particular that of a thread, before and after a step.
LEMMA PendingTyped ==
    ASSUME Typed, NEW h \in Handlers, At(h, "enqueue")
    PROVE  /\ JobOf(thread[h]) \in Job
           /\ thread[h].kind # "patch" => thread[h].name \in GroupNames
<1>1. thread[h] \in Task /\ thread[h].pc = "enqueue"
  BY DEF Typed, TypeOK, At, IdleThread
<1>2. thread[h] \in DocTask => GroupRequest(thread[h])
  BY DEF Typed, Shape
<1> QED
  BY <1>1, <1>2, JobOfTyped

\* At the start nobody acts.
LEMMA InitActs == Init => OneActs
BY DEF Init, OneActs, At, IdleThread, IdleWorker

\* A thread or a worker starts only when it is deployed.
LEMMA NextActs ==
    ASSUME Typed, OneActs, [Next]_vars
    PROVE  OneActs'
<1>1. /\ thread \in Threads
      /\ worker \in WorkersType
  BY DEF Typed, TypeOK, Threads, WorkersType
<1>2. ASSUME deployment' = deployment, UNCHANGED worker, 
             \E h \in Handlers : 
                /\ \E t : thread' = [thread EXCEPT ![h] = t]
                /\ h \in deployment.handlers
      PROVE  OneActs'
  BY <1>1, <1>2 DEF OneActs, At, Threads
<1>3. ASSUME deployment' = deployment, UNCHANGED thread, 
             \E w \in Workers : 
                /\ \E t : worker' = [worker EXCEPT ![w] = t]
                /\ w \in deployment.workers
      PROVE  OneActs'
  BY <1>1, <1>3 DEF OneActs, At, WorkersType
<1>4. ASSUME NEW h \in Handlers, Request(h) \/ RequestLost(h)
      PROVE  OneActs'
  <2>1. /\ deployment' = deployment /\ UNCHANGED worker
        /\ ~At(h, "idle")
        /\ \E t : thread' = [thread EXCEPT ![h] = t]
    BY <1>4 DEF Request, RequestLost, Touch, FindGroup, InsertGroup, LoadGroup,
                WriteGroup, DeleteGroup, TouchGroup, Enqueue, Answer, Goto, At
  <2> QED
    BY <1>2, <2>1 DEF OneActs
<1>5. ASSUME NEW w \in Workers, Take(w) \/ Work(w) \/ CallFails(w) \/ JobLost(w)
      PROVE  OneActs'
  <2>1. /\ deployment' = deployment /\ UNCHANGED thread
        /\ w \in deployment.workers \/ worker[w].pc # "idle"
        /\ \E t : worker' = [worker EXCEPT ![w] = t]
    BY <1>5 DEF Take, Work, CallFails, JobLost, CallCreateShare, CallDeleteShare,
                CallUpdateShare, CallGroup, AllocateLetter, InsertShare,
                EraseShare, Ended, GoesOn, Calling
  <2> QED
    BY <1>3, <2>1 DEF OneActs
<1>6. ASSUME NEW h \in Handlers, NEW t, Post(h, t)
      PROVE  OneActs'
  BY <1>2, <1>6 DEF Post
<1>7. ASSUME NEW n \in Shares, NEW acl, PostCreateShare(n, acl) \/ PostDeleteShare(n)
      PROVE  OneActs'
  BY <1>7 DEF PostCreateShare, PostDeleteShare, OneActs, At
<1>8. CASE UNCHANGED vars
  BY <1>8 DEF vars, OneActs, At
<1>9. ASSUME NEW h \in Handlers, NEW d \in GroupDocs, NEW n \in GroupNames,
             PostGroup(h, d, n)
      PROVE  \E t : Post(h, t)
  BY <1>9 DEF PostGroup
<1>10. ASSUME NEW h \in Handlers, NEW n \in Shares, NEW p, PostPatch(h, n, p)
       PROVE  \E t : Post(h, t)
  BY <1>10 DEF PostPatch
<1> QED
  BY <1>4, <1>5, <1>6, <1>7, <1>8, <1>9, <1>10 DEF Next

-----------------------------------------------------------------------------
(***************************************************************************)
(* The two sides of the shares                                             *)
(***************************************************************************)

\* A worker is at one of these steps of a job about the share.
Doing(wk, pcs, n) == \E w \in Workers : wk[w].pc \in pcs /\ wk[w].job.name = n

\* A document has its section unless a worker is about to erase it; a worker
\* that adds a document has made the section, and one that erases a document has
\* removed it; a section has its document or a worker about to insert it, with
\* a letter that is still free.
SharesInv ==
    /\ \A n \in Shares :
          /\ n \in SharesInDb =>
                n \in SharesInConf \/ Doing(worker, {"erase"}, n)
          /\ /\ Cardinality(deployment.letters) >= Cardinality(Shares)
             /\ n \in SharesInConf
             => n \in SharesInDb \/ Doing(worker, {"letter", "insert"}, n)
    /\ \A w \in Workers :
          /\ worker[w].pc \in {"letter", "insert"} =>
                worker[w].job.name \in SharesInConf
          /\ worker[w].pc = "erase" => worker[w].job.name \notin SharesInConf
          /\ worker[w].pc = "insert" => worker[w].letter \notin LettersInUse

\* When all letters are taken and there are enough for all shares, every share
\* has its document.
LEMMA LettersSuffice ==
    ASSUME TypeOK, deployment.letters \subseteq LettersInUse,
           Cardinality(deployment.letters) >= Cardinality(Shares)
    PROVE  SharesInDb = Shares
<1> DEFINE f == [n \in SharesInDb |-> share[n].drive]
           L == deployment.letters
<1>1. /\ IsFiniteSet(Shares) /\ SharesInDb \in SUBSET Shares
      /\ L \in SUBSET LettersInUse
  BY DeploymentAssumption DEF SharesInDb
<1>2. /\ IsFiniteSet(SharesInDb) /\ Cardinality(SharesInDb) <= Cardinality(Shares)
      /\ Cardinality(Shares) = Cardinality(SharesInDb) => Shares = SharesInDb
  BY <1>1, FS_Subset
<1>3. f \in Surjection(SharesInDb, LettersInUse)
  <2>1. /\ f \in [SharesInDb -> LettersInUse]
        /\ \A l \in LettersInUse : \E n \in SharesInDb : f[n] = l
    BY DEF LettersInUse
  <2> QED
    BY <2>1 DEF Surjection
<1>4. /\ IsFiniteSet(LettersInUse)
      /\ Cardinality(LettersInUse) <= Cardinality(SharesInDb)
  BY <1>2, <1>3, FS_Surjection
<1>5. IsFiniteSet(L) /\ Cardinality(L) <= Cardinality(LettersInUse)
  BY <1>1, <1>4, FS_Subset
<1>6. /\ Cardinality(L) \in Nat /\ Cardinality(LettersInUse) \in Nat
      /\ Cardinality(SharesInDb) \in Nat /\ Cardinality(Shares) \in Nat
  BY <1>1, <1>2, <1>4, <1>5, FS_CardinalityType
<1> QED
  BY <1>2, <1>4, <1>5, <1>6

\* At the start there are neither documents nor sections.
LEMMA InitShares == Init => SharesInv
<1> SUFFICES ASSUME Init PROVE SharesInv
  OBVIOUS
<1>1. /\ \A n \in Shares : n \notin SharesInDb /\ n \notin SharesInConf
      /\ \A w \in Workers : worker[w].pc = "idle"
  BY DEF Init, SharesInDb, SharesInConf, NoShare, IdleWorker
<1> QED
  BY <1>1 DEF SharesInv

\* A step that leaves the workers, the sections and the letters alone keeps all
\* this; so does every request.
LEMMA SharesUndisturbed ==
    ASSUME SharesInv, UNCHANGED <<deployment, conf, worker>>,
           \A n \in Shares : share'[n].drive = share[n].drive
    PROVE  SharesInv'
<1>1. SharesInDb' = SharesInDb /\ SharesInConf' = SharesInConf
  BY DEF SharesInDb, SharesInConf
<1>2. LettersInUse' = LettersInUse
  <2>1. SharesInDb \subseteq Shares
    BY DEF SharesInDb
  <2> QED
    BY <1>1, <2>1 DEF LettersInUse
<1> QED
  BY <1>1, <1>2 DEF SharesInv

\* What else a worker may do changes neither a document nor a section, and
\* leaves it neither before an insert nor after an erasure.
LEMMA SharesKept ==
    ASSUME Typed, OneActs, Single, SharesInv, NEW w \in Workers,
           w \in deployment.workers,
           deployment' = deployment, share' = share,
           SharesInConf' = SharesInConf,
           worker[w].pc \in {"idle", "call"}, worker'[w].pc \in {"idle", "call"},
           \A v \in Workers : v # w => worker'[v] = worker[v]
    PROVE  SharesInv'
<1>2. \A v \in Workers : v # w => worker[v].pc = "idle"
  BY DEF OneActs, Single
<1>3. \A v \in Workers : /\ worker[v].pc \in {"idle", "call"}
                         /\ worker'[v].pc \in {"idle", "call"}
  BY <1>2
<1>4. SharesInDb' = SharesInDb
  BY DEF SharesInDb
<1> QED
  BY <1>3, <1>4 DEF SharesInv, Doing

\* The steps of jobs keep the two sides of the shares together.
LEMMA WorkShares ==
    ASSUME Typed, OneActs, Single, SharesInv, NEW w \in Workers,
           Take(w) \/ Work(w)
    PROVE  SharesInv'
<1>1. /\ worker \in WorkersType /\ conf \in [Shares -> ConfRecord]
      /\ share \in [Shares -> ShareRecord] /\ deployment' = deployment
  BY DEF Typed, TypeOK, WorkersType, Take, Work, CallCreateShare, CallDeleteShare,
         CallUpdateShare, CallGroup, AllocateLetter, InsertShare, EraseShare
<1>2. w \in deployment.workers
  BY DEF Take, Work, CallCreateShare, CallDeleteShare, CallUpdateShare, CallGroup,
         AllocateLetter, InsertShare, EraseShare, Calling, OneActs
<1>3. \A v \in Workers : v # w => worker[v].pc = "idle"
  BY <1>2 DEF OneActs, Single
<1> DEFINE n == worker[w].job.name
<1>4. worker[w].pc \in {"letter", "insert", "erase"} => n \in Shares
  BY <1>1 DEF WorkersType, IdleWorker, WorkerTask, ShareJob
<1>5. Calling(w, "createShare") \/ Calling(w, "deleteShare") \/ Calling(w, "updateShare")
        => n \in Shares
  BY <1>1 DEF Calling, WorkersType, IdleWorker, WorkerTask, Job, ShareJob, GroupJob
<1>6. ASSUME NEW pc, GoesOn(w, pc)
      PROVE  /\ worker'[w].pc = pc /\ worker'[w].job.name = n
             /\ \A v \in Workers : v # w => worker'[v].pc = "idle"
  BY <1>1, <1>3, <1>6 DEF GoesOn, WorkersType, IdleWorker, WorkerTask
<1>7. Ended(w) => /\ \A v \in Workers : worker'[v].pc = "idle"
                  /\ \A v \in Workers : v # w => worker'[v] = worker[v]
  BY <1>1, <1>3 DEF Ended, WorkersType, IdleWorker
<1>8. CASE Take(w)
  <2>1. /\ worker[w].pc = "idle" /\ worker'[w].pc = "call"
        /\ \A v \in Workers : v # w => worker'[v] = worker[v]
    BY <1>1, <1>8 DEF Take, WorkersType
  <2>2. share' = share /\ SharesInConf' = SharesInConf
    BY <1>8 DEF Take, dcVars, dbVars, SharesInConf
  <2> QED
    BY <1>1, <1>2, <2>1, <2>2, SharesKept
<1>9. CASE CallUpdateShare(w) \/ CallGroup(w)
  <2>1. Ended(w) /\ worker[w].pc = "call" /\ share' = share
    BY <1>9 DEF CallUpdateShare, CallGroup, Calling, dbVars
  <2>2. SharesInConf' = SharesInConf
    <3>1. \A m \in Shares : conf'[m].sections = conf[m].sections
      BY <1>1, <1>9 DEF CallUpdateShare, CallGroup, ConfRecord
    <3> QED
      BY <3>1 DEF SharesInConf
  <2> QED
    BY <1>1, <1>2, <1>7, <2>1, <2>2, SharesKept
<1>10. CASE CallCreateShare(w)
  <2>1. /\ Calling(w, "createShare") /\ GoesOn(w, "letter") /\ share' = share
        /\ conf' = [conf EXCEPT ![n] = [sections |-> @.sections + 1,
                                        acl |-> DefaultAcl]]
    BY <1>10 DEF CallCreateShare, dbVars
  <2>2. n \in Shares
    BY <1>5, <2>1
  <2>3. SharesInConf' = SharesInConf \cup {n}
    BY <1>1, <2>1, <2>2 DEF SharesInConf, ConfRecord
  <2>4. SharesInDb' = SharesInDb
    BY <2>1 DEF SharesInDb
  <2>5. \A m : ~Doing(worker, {"erase", "letter", "insert"}, m)
    BY <1>3, <2>1 DEF Doing, Calling
  <2>6. Doing(worker', {"letter", "insert"}, n)
    BY <1>6, <2>1 DEF Doing
  <2>7. \A m \in Shares : m \in SharesInDb => m \in SharesInConf
    BY <2>5 DEF SharesInv, Doing
  <2>8. ASSUME NEW m \in Shares, m # n, m \in SharesInConf,
               Cardinality(deployment.letters) >= Cardinality(Shares)
        PROVE  m \in SharesInDb
    BY <2>5, <2>8 DEF SharesInv, Doing
  <2>9. \A v \in Workers :
           /\ worker'[v].pc \in {"letter", "insert"} =>
                 worker'[v].job.name \in SharesInConf'
           /\ worker'[v].pc # "erase" /\ worker'[v].pc # "insert"
    BY <1>6, <2>1, <2>3
  <2> QED
    BY <1>1, <2>3, <2>4, <2>6, <2>7, <2>8, <2>9 DEF SharesInv
<1>11. CASE CallDeleteShare(w)
  <2>1. Calling(w, "deleteShare") /\ share' = share
    BY <1>11 DEF CallDeleteShare, dbVars
  <2>2. n \in Shares
    BY <1>5, <2>1
  <2>3. CASE Ended(w) /\ UNCHANGED conf
    <3>1. worker[w].pc = "call" /\ SharesInConf' = SharesInConf
      BY <2>1, <2>3 DEF Calling, SharesInConf
    <3> QED
      BY <1>1, <1>2, <1>7, <2>1, <2>3, <3>1, SharesKept
  <2>4. CASE /\ n \in SharesInConf /\ GoesOn(w, "erase")
             /\ conf' = [conf EXCEPT ![n] = [sections |-> 0, acl |-> NoAcl]]
    <3>1. SharesInConf' = SharesInConf \ {n}
      BY <1>1, <2>2, <2>4 DEF SharesInConf
    <3>2. SharesInDb' = SharesInDb
      BY <2>1 DEF SharesInDb
    <3>3. \A m : ~Doing(worker, {"erase", "letter", "insert"}, m)
      BY <1>3, <2>1 DEF Doing, Calling
    <3>4. \A m \in Shares : m \in SharesInDb => m \in SharesInConf
      BY <3>3 DEF SharesInv, Doing
    <3>5. Doing(worker', {"erase"}, n)
      BY <1>6, <2>4 DEF Doing
    <3>6. ASSUME NEW m \in Shares, m # n, m \in SharesInConf,
                 Cardinality(deployment.letters) >= Cardinality(Shares)
          PROVE  m \in SharesInDb
      BY <3>3, <3>6 DEF SharesInv, Doing
    <3>7. \A v \in Workers :
             /\ worker'[v].pc = "erase" => worker'[v].job.name \notin SharesInConf'
             /\ worker'[v].pc \notin {"letter", "insert"}
      BY <1>6, <2>4, <3>1
    <3> QED
      BY <1>1, <3>1, <3>2, <3>4, <3>5, <3>6, <3>7 DEF SharesInv
  <2> QED
    BY <1>11, <2>3, <2>4 DEF CallDeleteShare
<1>12. CASE AllocateLetter(w)
  <2>1. /\ worker[w].pc = "letter" /\ share' = share /\ conf' = conf
    BY <1>12 DEF AllocateLetter, dbVars, dcVars
  <2>2. SharesInDb' = SharesInDb /\ SharesInConf' = SharesInConf
        /\ LettersInUse' = LettersInUse
    BY <2>1 DEF SharesInDb, SharesInConf, LettersInUse
  <2>3. \A m : /\ ~Doing(worker, {"erase"}, m)
               /\ Doing(worker, {"letter", "insert"}, m) <=> m = n
    BY <1>3, <2>1 DEF Doing
  <2>4. n \in SharesInConf
    BY <2>1 DEF SharesInv
  <2>5. CASE deployment.letters \ LettersInUse = {} /\ Ended(w)
    <3>1. \A v \in Workers : worker'[v].pc = "idle"
      BY <1>7, <2>5
    <3>2. deployment.letters \subseteq LettersInUse
      BY <2>5
    <3>3. Cardinality(deployment.letters) >= Cardinality(Shares)
             => SharesInDb = Shares
      BY <3>2, LettersSuffice DEF Typed
    <3> QED
      BY <1>1, <2>2, <2>3, <3>1, <3>3 DEF SharesInv
  <2>6. CASE \E l \in deployment.letters \ LettersInUse :
                worker' = [worker EXCEPT ![w].letter = l, ![w].pc = "insert"]
    <3>1. PICK l \in deployment.letters \ LettersInUse :
             worker' = [worker EXCEPT ![w].letter = l, ![w].pc = "insert"]
      BY <2>6
    <3>2. /\ worker'[w].pc = "insert" /\ worker'[w].job.name = n
          /\ worker'[w].letter = l
          /\ \A v \in Workers : v # w => worker'[v].pc = "idle"
      BY <1>1, <1>3, <2>1, <3>1 DEF WorkersType, WorkerTask, IdleWorker
    <3>3. \A m : /\ ~Doing(worker', {"erase"}, m)
                 /\ Doing(worker', {"letter", "insert"}, m) <=> m = n
      BY <3>2 DEF Doing
    <3>4. \A m \in Shares :
             /\ m \in SharesInDb => m \in SharesInConf
             /\ /\ Cardinality(deployment.letters) >= Cardinality(Shares)
                /\ m \in SharesInConf
                => m \in SharesInDb \/ m = n
      BY <2>3 DEF SharesInv
    <3>5. \A v \in Workers :
             /\ worker'[v].pc \in {"letter", "insert"} =>
                   worker'[v].job.name \in SharesInConf
             /\ worker'[v].pc # "erase"
             /\ worker'[v].pc = "insert" => worker'[v].letter \notin LettersInUse
      BY <2>4, <3>1, <3>2
    <3> QED
      BY <1>1, <2>2, <3>3, <3>4, <3>5 DEF SharesInv
  <2>7. deployment.letters \ LettersInUse # {} =>
           (CHOOSE l \in deployment.letters \ LettersInUse : TRUE)
              \in deployment.letters \ LettersInUse
    OBVIOUS
  <2> QED
    BY <1>12, <2>5, <2>6, <2>7 DEF AllocateLetter
<1>13. CASE InsertShare(w)
  <2>1. worker[w].pc = "insert" /\ conf' = conf /\ Ended(w)
    BY <1>13 DEF InsertShare, dcVars
  <2>2. n \in Shares /\ n \in SharesInConf /\ worker[w].letter \notin LettersInUse
    BY <1>4, <2>1 DEF SharesInv
  <2>3. worker[w].letter \in Letters
    BY <1>1, <2>1 DEF WorkersType, IdleWorker, WorkerTask
  <2>4. SharesInConf' = SharesInConf
    BY <2>1 DEF SharesInConf
  <2>5. SharesInDb' = SharesInDb \cup {n}
    <3>1. CASE n \in SharesInDb
      BY <1>13, <3>1 DEF InsertShare, SharesInDb
    <3>2. CASE n \notin SharesInDb
      <4>1. share' = [share EXCEPT ![n] = [drive |-> worker[w].letter,
                                           acl |-> worker[w].job.acl,
                                           updated |-> FALSE]]
        BY <1>13, <2>2, <3>2 DEF InsertShare
      <4>2. /\ share'[n].drive = worker[w].letter
            /\ \A m \in Shares : m # n => share'[m] = share[m]
        BY <1>1, <2>2, <4>1
      <4>3. worker[w].letter # NoLetter
        BY <2>3, DirectoryAssumption
      <4> QED
        BY <2>2, <4>2, <4>3 DEF SharesInDb
    <3> QED
      BY <3>1, <3>2
  <2>6. \A m : /\ ~Doing(worker, {"erase"}, m)
               /\ Doing(worker, {"letter", "insert"}, m) <=> m = n
    BY <1>3, <2>1 DEF Doing
  <2>7. \A v \in Workers : worker'[v].pc = "idle"
    BY <1>7, <2>1
  <2> QED
    BY <1>1, <2>2, <2>4, <2>5, <2>6, <2>7 DEF SharesInv
<1>14. CASE EraseShare(w)
  <2>1. /\ worker[w].pc = "erase" /\ conf' = conf /\ Ended(w)
        /\ share' = [share EXCEPT ![n] = NoShare]
    BY <1>14 DEF EraseShare, dcVars
  <2>2. n \in Shares /\ n \notin SharesInConf
    BY <1>4, <2>1 DEF SharesInv
  <2>3. SharesInConf' = SharesInConf
    BY <2>1 DEF SharesInConf
  <2>4. SharesInDb' = SharesInDb \ {n}
    BY <1>1, <2>1, <2>2 DEF SharesInDb, NoShare
  <2>5. \A m : /\ Doing(worker, {"erase"}, m) <=> m = n
               /\ ~Doing(worker, {"letter", "insert"}, m)
    BY <1>3, <2>1 DEF Doing
  <2>6. \A v \in Workers : worker'[v].pc = "idle"
    BY <1>7, <2>1
  <2> QED
    BY <1>1, <2>2, <2>3, <2>4, <2>5, <2>6 DEF SharesInv
<1> QED
  BY <1>8, <1>9, <1>10, <1>11, <1>12, <1>13, <1>14 DEF Work

-----------------------------------------------------------------------------
(***************************************************************************)
(* What a step does to the line                                            *)
(***************************************************************************)

\* With one thread, the line's end while that thread is at work.
LEMMA PendingIs ==
    ASSUME OneActs, Single, NEW h \in Handlers, h \in deployment.handlers
    PROVE  /\ \A g \in Handlers : g # h => At(g, "idle")
           /\ Pending = IF At(h, "enqueue") THEN {JobOf(thread[h])} ELSE {}
<1>1. \A g \in Handlers : g # h => thread[g].pc = "idle"
  BY DEF OneActs, Single, At
<1> QED
  BY <1>1, OnePending DEF Pending, At

\* With one worker, the line's head.
LEMMA CallsAre ==
    ASSUME OneActs, Single, NEW w \in Workers, w \in deployment.workers
    PROVE  /\ \A v \in Workers : v # w => worker[v].pc = "idle"
           /\ Calls = IF worker[w].pc = "call" THEN {worker[w].job} ELSE {}
<1>1. \A v \in Workers : v # w => worker[v].pc = "idle"
  BY DEF OneActs, Single
<1> QED
  BY <1>1, OneCalled DEF Calls

\* What a step of the only thread does to the line: at its last step its job
\* passes to the queue, at every other one it may become the line's end.
LEMMA RequestLine ==
    ASSUME Typed, OneActs, Single, NEW h \in Handlers, Request(h)
    PROVE  /\ UNCHANGED <<deployment, conf, directory, worker>> /\ Calls' = Calls
           /\ \A g \in Handlers : g # h => thread[g].pc = "idle" /\ thread'[g].pc = "idle"
           /\ \/ /\ Enqueue(h) /\ UNCHANGED <<share, group>>
                 /\ Pending = {JobOf(thread[h])} /\ Pending' = {}
                 /\ JobOf(thread[h]) \in Job
                 /\ queue' = Append(queue, JobOf(thread[h]))
                 /\ thread'[h] = IdleThread
              \/ /\ Request(h) /\ ~Enqueue(h) /\ ~At(h, "enqueue")
                 /\ Pending = {} /\ queue' = queue
                 /\ Pending' = IF thread'[h].pc = "enqueue"
                               THEN {JobOf(thread'[h])} ELSE {}
<1>0. thread \in Threads
  BY DEF Typed, TypeOK, Threads
<1>1. /\ UNCHANGED <<deployment, conf, directory, worker>> /\ ~At(h, "idle")
      /\ \E t : thread' = [thread EXCEPT ![h] = t]
  BY DEF Request, Touch, FindGroup, InsertGroup, LoadGroup, WriteGroup,
         DeleteGroup, TouchGroup, Enqueue, Answer, Goto, At, dcVars
<1>2. h \in deployment.handlers
  BY <1>1 DEF OneActs
<1>3. /\ \A g \in Handlers : g # h => thread[g].pc = "idle"
      /\ Pending = IF At(h, "enqueue") THEN {JobOf(thread[h])} ELSE {}
  BY <1>2, PendingIs DEF At
<1>4. \A g \in Handlers : g # h => thread'[g].pc = "idle"
  BY <1>0, <1>1, <1>3 DEF Threads
<1>5. Pending' = IF thread'[h].pc = "enqueue" THEN {JobOf(thread'[h])} ELSE {}
  BY <1>4, OnePending DEF Pending
<1>6. Calls' = Calls
  BY <1>1 DEF Calls, JobsCalledBy
<1>7. CASE Enqueue(h)
  <2>1. At(h, "enqueue") /\ UNCHANGED <<share, group>>
    BY <1>7 DEF Enqueue, dbVars
  <2>2. JobOf(thread[h]) \in Job
    BY <2>1, PendingTyped
  <2>3. queue' = Append(queue, JobOf(thread[h]))
    BY <1>7 DEF Enqueue, Queued, JobOf
  <2>4. thread'[h] = IdleThread
    BY <1>0, <1>7 DEF Enqueue, Answer, Threads
  <2>5. Pending' = {}
    BY <1>5, <2>4 DEF IdleThread
  <2> QED
    BY <1>1, <1>3, <1>4, <1>6, <1>7, <2>1, <2>2, <2>3, <2>4, <2>5
<1>8. CASE ~Enqueue(h)
  <2>1. ~At(h, "enqueue") /\ queue' = queue
    BY <1>8 DEF Request, Touch, FindGroup, InsertGroup, LoadGroup, WriteGroup,
                DeleteGroup, TouchGroup, At
  <2> QED
    BY <1>1, <1>3, <1>4, <1>5, <1>6, <1>8, <2>1
<1> QED
  BY <1>7, <1>8

\* What a step of the only worker does to the line: it takes the queue's head,
\* or its call is over, or it is past its call.
LEMMA WorkLine ==
    ASSUME Typed, OneActs, Single, NEW w \in Workers, Take(w) \/ Work(w)
    PROVE  /\ UNCHANGED <<deployment, group, thread>> /\ Pending' = Pending
           /\ \A v \in Workers : v # w => worker[v].pc = "idle" /\ worker'[v].pc = "idle"
           /\ \/ /\ Take(w) /\ UNCHANGED <<share, conf, directory>>
                 /\ queue # <<>> /\ Head(queue) \in Job
                 /\ Calls = {} /\ Calls' = {Head(queue)} /\ queue' = Tail(queue)
                 /\ worker'[w].pc = "call" /\ worker'[w].job = Head(queue)
              \/ /\ Work(w) /\ worker[w].pc = "call" /\ queue' = queue
                 /\ share' = share /\ worker[w].job \in Job
                 /\ Calls = {worker[w].job} /\ Calls' = {} /\ worker'[w].pc # "call"
              \/ /\ Work(w) /\ worker[w].pc \in {"letter", "insert", "erase"}
                 /\ queue' = queue /\ UNCHANGED <<conf, directory>>
                 /\ Calls = {} /\ Calls' = {}
<1>0. worker \in WorkersType /\ queue \in Seq(Job)
  BY DEF Typed, TypeOK, WorkersType
<1>1. /\ UNCHANGED <<deployment, group, thread>>
      /\ \E t : worker' = [worker EXCEPT ![w] = t]
      /\ w \in deployment.workers \/ worker[w].pc # "idle"
  BY DEF Take, Work, CallCreateShare, CallDeleteShare, CallUpdateShare, CallGroup,
         AllocateLetter, InsertShare, EraseShare, Ended, GoesOn, Calling, dbVars
<1>2. w \in deployment.workers
  BY <1>1 DEF OneActs
<1>3. /\ \A v \in Workers : v # w => worker[v].pc = "idle"
      /\ Calls = IF worker[w].pc = "call" THEN {worker[w].job} ELSE {}
  BY <1>2, CallsAre
<1>4. \A v \in Workers : v # w => worker'[v].pc = "idle"
  BY <1>0, <1>1, <1>3 DEF WorkersType
<1>5. Calls' = IF worker'[w].pc = "call" THEN {worker'[w].job} ELSE {}
  BY <1>4, OneCalled DEF Calls
<1>6. Pending' = Pending
  BY <1>1 DEF Pending, JobsQueuedBy
<1>7. CASE Take(w)
  <2>1. /\ UNCHANGED <<share, conf, directory>> /\ queue # <<>>
        /\ worker[w].pc = "idle" /\ queue' = Tail(queue)
        /\ worker'[w] = [pc |-> "call", job |-> Head(queue), letter |-> NoLetter]
    BY <1>0, <1>7 DEF Take, dcVars, dbVars, WorkersType
  <2>2. Head(queue) \in Job
    BY <1>0, <2>1, LastTaken
  <2>3. worker'[w].pc = "call" /\ worker'[w].job = Head(queue)
    BY <2>1
  <2> QED
    BY <1>1, <1>3, <1>4, <1>5, <1>6, <1>7, <2>1, <2>2, <2>3
<1>8. CASE Work(w) /\ worker[w].pc = "call"
  <2>1. queue' = queue /\ share' = share
    BY <1>8 DEF Work, CallCreateShare, CallDeleteShare, CallUpdateShare, CallGroup,
                AllocateLetter, InsertShare, EraseShare, dbVars
  <2>2. worker[w].job \in Job
    BY <1>0, <1>8 DEF WorkersType, WorkerTask, IdleWorker, Job
  <2>3. worker'[w].pc # "call"
    <3>1. Ended(w) \/ GoesOn(w, "letter") \/ GoesOn(w, "erase")
      BY <1>8 DEF Work, CallCreateShare, CallDeleteShare, CallUpdateShare,
                  CallGroup, AllocateLetter, InsertShare, EraseShare
    <3> QED
      BY <1>0, <1>8, <3>1 DEF Ended, GoesOn, WorkersType, IdleWorker, WorkerTask
  <2> QED
    BY <1>1, <1>3, <1>4, <1>5, <1>6, <1>8, <2>1, <2>2, <2>3
<1>9. CASE Work(w) /\ worker[w].pc # "call"
  <2>1. /\ worker[w].pc \in {"letter", "insert", "erase"} /\ queue' = queue
        /\ UNCHANGED <<conf, directory>>
    BY <1>9 DEF Work, CallCreateShare, CallDeleteShare, CallUpdateShare, CallGroup,
                AllocateLetter, InsertShare, EraseShare, dcVars, Calling
  <2>2. worker'[w].pc # "call"
    <3>1. \/ Ended(w)
          \/ \E l : worker' = [worker EXCEPT ![w].letter = l, ![w].pc = "insert"]
      BY <1>9 DEF Work, CallCreateShare, CallDeleteShare, CallUpdateShare,
                  CallGroup, AllocateLetter, InsertShare, EraseShare, Calling
    <3>2. Ended(w) => worker'[w].pc = "idle"
      BY <1>0 DEF Ended, WorkersType, IdleWorker
    <3>3. ASSUME NEW l, worker' = [worker EXCEPT ![w].letter = l, ![w].pc = "insert"]
          PROVE  worker'[w].pc = "insert"
      <4>1. worker[w] \in WorkerTask
        BY <1>0, <2>1 DEF WorkersType, IdleWorker
      <4>2. worker'[w] = [worker[w] EXCEPT !.letter = l, !.pc = "insert"]
        BY <1>0, <3>3 DEF WorkersType
      <4> QED
        BY <4>1, <4>2 DEF WorkerTask
    <3> QED
      BY <3>1, <3>2, <3>3
  <2> QED
    BY <1>1, <1>3, <1>4, <1>5, <1>6, <1>9, <2>1, <2>2
<1> QED
  BY <1>7, <1>8, <1>9

\* What arrives leaves the two sides alone: a job about a share joins the queue,
\* or the thread starts with a request.
LEMMA ArrivalLine ==
    ASSUME Typed, OneActs, Single
    PROVE  /\ \A n \in Shares, acl \in Acl :
                 PostCreateShare(n, acl) \/ PostDeleteShare(n) =>
                    /\ UNCHANGED <<deployment, dcVars, dbVars, thread, worker>>
                    /\ Pending' = Pending /\ Calls' = Calls
                    /\ \E j \in ShareJob :
                          /\ queue' = Append(queue, j)
                          /\ j.kind \in {"createShare", "deleteShare"}
                          /\ "delete" \notin deployment.routes => j.kind = "createShare"
           /\ \A h \in Handlers : \A t \in Task : t.pc # "enqueue" /\ Post(h, t) =>
                 /\ UNCHANGED <<deployment, dcVars, dbVars, queue, worker>>
                 /\ Pending = {} /\ Pending' = {} /\ Calls' = Calls
                 /\ thread'[h] = t
                 /\ \A g \in Handlers : g # h => thread[g].pc = "idle" /\ thread'[g].pc = "idle"
<1>1. ASSUME NEW n \in Shares, NEW acl \in Acl,
             PostCreateShare(n, acl) \/ PostDeleteShare(n)
      PROVE  /\ UNCHANGED <<deployment, dcVars, dbVars, thread, worker>>
             /\ Pending' = Pending /\ Calls' = Calls
             /\ \E j \in ShareJob :
                   /\ queue' = Append(queue, j)
                   /\ j.kind \in {"createShare", "deleteShare"}
                   /\ "delete" \notin deployment.routes => j.kind = "createShare"
  <2>1. UNCHANGED <<deployment, dcVars, dbVars, thread, worker>>
    BY <1>1 DEF PostCreateShare, PostDeleteShare
  <2>2. Pending' = Pending /\ Calls' = Calls
    BY <2>1 DEF Pending, Calls, JobsQueuedBy, JobsCalledBy
  <2>3. CASE PostCreateShare(n, acl)
    <3> DEFINE j == [kind |-> "createShare", name |-> n, acl |-> acl]
    <3>1. j \in ShareJob /\ j.kind = "createShare"
      BY DEF ShareJob
    <3>2. queue' = Append(queue, j)
      BY <2>3 DEF PostCreateShare, Queued
    <3> QED
      BY <2>1, <2>2, <3>1, <3>2
  <2>4. CASE PostDeleteShare(n)
    <3> DEFINE j == [kind |-> "deleteShare", name |-> n, acl |-> NoAcl]
    <3>1. j \in ShareJob /\ j.kind = "deleteShare"
      BY NoAclTyped DEF ShareJob
    <3>2. queue' = Append(queue, j) /\ "delete" \in deployment.routes
      BY <2>4 DEF PostDeleteShare, Queued
    <3> QED
      BY <2>1, <2>2, <3>1, <3>2
  <2> QED
    BY <1>1, <2>3, <2>4
<1>2. ASSUME NEW h \in Handlers, NEW t \in Task, t.pc # "enqueue", Post(h, t)
      PROVE  /\ UNCHANGED <<deployment, dcVars, dbVars, queue, worker>>
             /\ Pending = {} /\ Pending' = {} /\ Calls' = Calls
             /\ thread'[h] = t
             /\ \A g \in Handlers :
                   g # h => thread[g].pc = "idle" /\ thread'[g].pc = "idle"
  <2>1. /\ UNCHANGED <<deployment, dcVars, dbVars, queue, worker>>
        /\ h \in deployment.handlers /\ At(h, "idle")
        /\ thread' = [thread EXCEPT ![h] = t]
    BY <1>2 DEF Post
  <2>2. thread \in Threads
    BY DEF Typed, TypeOK, Threads
  <2>3. /\ \A g \in Handlers : g # h => thread[g].pc = "idle"
        /\ Pending = {}
    BY <2>1, PendingIs DEF At
  <2>4. /\ thread'[h] = t
        /\ \A g \in Handlers : g # h => thread'[g].pc = "idle"
    BY <2>1, <2>2, <2>3 DEF Threads
  <2>5. Pending' = {}
    BY <1>2, <2>4, OnePending DEF Pending
  <2>6. Calls' = Calls
    BY <2>1 DEF Calls, JobsCalledBy
  <2> QED
    BY <2>1, <2>3, <2>4, <2>5, <2>6
<1> QED
  BY <1>1, <1>2

-----------------------------------------------------------------------------
(***************************************************************************)
(* The lists of the shares                                                 *)
(***************************************************************************)

\* The jobs about a share's list, and those that remove a share.
UpdatesOf(n) == {j \in Job : j.kind = "updateShare" /\ j.name = n}
Removals == {j \in Job : j.kind = "deleteShare"}

\* The last update of a share on its way carries the list of its document; when
\* none is on its way, a single section has that list, or the default one if no
\* client gave any.  Nobody updates a share that has no document.
AclMatches(sh, cf, P, q, C) ==
    \A n \in Shares :
       /\ sh[n].drive = NoLetter => Clear(P, q, C, UpdatesOf(n))
       /\ \A x : Due(P, q, C, UpdatesOf(n), x) =>
                    sh[n].updated /\ sh[n].acl = x.acl
       /\ /\ Clear(P, q, C, UpdatesOf(n))
          /\ sh[n].drive # NoLetter /\ cf[n].sections = 1
          => cf[n].acl = IF sh[n].updated THEN sh[n].acl ELSE DefaultAcl

\* No removal is on its way, a new section has the default list, and the line
\* agrees with the documents.
AclInv ==
    /\ Clear(Pending, queue, Calls, Removals)
    /\ \A w \in Workers :
          /\ worker[w].pc # "erase"
          /\ worker[w].pc \in {"letter", "insert"} =>
                conf[worker[w].job.name].acl = DefaultAcl
    /\ \A h \in Handlers :
          ~At(h, "idle") /\ thread[h].kind = "patch" =>
             thread[h].patch \in FullPatches
    /\ AclMatches(share, conf, Pending, queue, Calls)

\* The routes AclFollowsPatch speaks of.
OnlyMadeAndPatched == deployment.routes \cap {"delete", "patchOne"} = {}

\* A patch with both lists replaces both.
LEMMA PatchedFull ==
    ASSUME NEW acl, NEW p \in FullPatches
    PROVE  Patched(acl, p) = p
<1>1. p = [f \in {"groups", "users"} |-> p[f]] /\ DOMAIN p = {"groups", "users"}
  BY DEF FullPatches, Acl
<1> QED
  BY <1>1 DEF Patched

\* What has the last word is in the line.
LEMMA DueIsThere ==
    ASSUME NEW P, NEW q, NEW C, NEW R, NEW x, Due(P, q, C, R, x)
    PROVE  x \in R /\ ~Clear(P, q, C, R)
BY DEF Due, Clear, LastIn, NoneIn

\* A line that says the same of every share keeps the lists in step.
LEMMA AclLine ==
    ASSUME NEW sh, NEW cf, NEW P, NEW q, NEW C, NEW P1, NEW q1, NEW C1,
           AclMatches(sh, cf, P, q, C),
           \A n \in Shares :
              /\ \A x : Due(P1, q1, C1, UpdatesOf(n), x) =>
                           Due(P, q, C, UpdatesOf(n), x)
              /\ Clear(P1, q1, C1, UpdatesOf(n)) <=> Clear(P, q, C, UpdatesOf(n))
    PROVE  AclMatches(sh, cf, P1, q1, C1)
BY DEF AclMatches

\* At the start the line is empty and nothing has a list.
LEMMA InitAcl == Init => AclInv
<1> SUFFICES ASSUME Init PROVE AclInv
  OBVIOUS
<1>1. /\ \A h \in Handlers : thread[h].pc = "idle"
      /\ \A w \in Workers : worker[w].pc = "idle"
      /\ queue = <<>>
  BY DEF Init, IdleThread, IdleWorker
<1>2. Pending = {} /\ Calls = {}
  BY <1>1 DEF Pending, Calls, JobsQueuedBy, JobsCalledBy
<1>3. \A R : Clear(Pending, queue, Calls, R)
  BY <1>1, <1>2 DEF Clear, NoneIn
<1>4. \A R, x : ~Due(Pending, queue, Calls, R, x)
  BY <1>3, DueIsThere
<1>5. \A n \in Shares : share[n].drive = NoLetter
  BY DEF Init, NoShare
<1>6. AclMatches(share, conf, Pending, queue, Calls)
  BY <1>3, <1>4, <1>5 DEF AclMatches
<1> QED
  BY <1>1, <1>3, <1>6 DEF AclInv, At

\* Requests other than a patch leave the shares alone and queue jobs about
\* groups.
LEMMA GroupRequestJob ==
    ASSUME Typed, NEW h \in Handlers, Request(h), ~Touch(h), ~Enqueue(h)
    PROVE  /\ share' = share
           /\ thread'[h].pc = "enqueue" => /\ thread'[h].kind # "patch"
                                           /\ thread'[h].kind = thread[h].kind
                                           /\ thread'[h].name = thread[h].name
                                           /\ thread'[h].doc = thread[h].doc
           /\ thread'[h].pc # "idle" => thread'[h].kind = thread[h].kind
                                        /\ thread'[h].patch = thread[h].patch
<1>1. thread \in Threads /\ ~At(h, "idle") /\ share' = share
  BY DEF Typed, TypeOK, Threads, Request, FindGroup, InsertGroup, LoadGroup,
         WriteGroup, DeleteGroup, TouchGroup, At, dbVars
<1>2. thread[h] \in Task
  BY <1>1 DEF Threads, At, IdleThread
<1>3. Answer(h) => thread'[h].pc = "idle"
  BY <1>1 DEF Answer, IdleThread, Threads
<1>4. ASSUME NEW pc, Goto(h, pc)
      PROVE  /\ thread'[h].pc = pc /\ thread'[h].kind = thread[h].kind
             /\ thread'[h].name = thread[h].name /\ thread'[h].doc = thread[h].doc
             /\ thread'[h].patch = thread[h].patch
  <2>1. thread'[h] = [thread[h] EXCEPT !.pc = pc]
    BY <1>1, <1>4 DEF Goto, Threads
  <2> QED
    BY <1>2, <2>1 DEF Task, PatchTask, DocTask, MembersTask
<1>5. CASE FindGroup(h)
  <2>1. Answer(h) \/ Goto(h, "insert") \/ Goto(h, "write")
    BY <1>5 DEF FindGroup
  <2> QED
    BY <1>1, <1>3, <1>4, <2>1
<1>6. CASE InsertGroup(h) \/ WriteGroup(h) \/ DeleteGroup(h) \/ TouchGroup(h)
  <2>1. Answer(h) \/ Goto(h, "enqueue")
    BY <1>6 DEF InsertGroup, WriteGroup, DeleteGroup, TouchGroup
  <2>2. thread[h].kind # "patch"
    BY <1>2, <1>6, TaskKinds
       DEF InsertGroup, WriteGroup, DeleteGroup, TouchGroup, At, PatchTask
  <2> QED
    BY <1>1, <1>3, <1>4, <2>1, <2>2
<1>7. CASE LoadGroup(h)
  <2>1. \/ Answer(h) \/ Goto(h, "find")
        \/ thread' = [thread EXCEPT ![h].pc = "delete",
                                    ![h].name = group[thread[h].doc].name]
    BY <1>7 DEF LoadGroup
  <2>2. CASE thread' = [thread EXCEPT ![h].pc = "delete",
                                      ![h].name = group[thread[h].doc].name]
    <3>1. thread'[h] = [thread[h] EXCEPT !.pc = "delete",
                                         !.name = group[thread[h].doc].name]
      BY <1>1, <2>2 DEF Threads
    <3>2. /\ thread'[h].pc = "delete" /\ thread'[h].kind = thread[h].kind
          /\ thread'[h].patch = thread[h].patch
      BY <1>2, <3>1 DEF Task, PatchTask, DocTask, MembersTask
    <3> QED
      BY <1>1, <3>2
  <2> QED
    BY <1>1, <1>3, <1>4, <2>1, <2>2
<1> QED
  BY <1>5, <1>6, <1>7 DEF Request

\* The steps of requests keep the lists in step.
LEMMA RequestAcl ==
    ASSUME Typed, OneActs, Single, AclInv, NEW h \in Handlers, Request(h)
    PROVE  AclInv'
<1>1. /\ UNCHANGED <<deployment, conf, directory, worker>> /\ Calls' = Calls
      /\ \A g \in Handlers : g # h => thread[g].pc = "idle" /\ thread'[g].pc = "idle"
  BY RequestLine
<1>2. queue \in Seq(Job) /\ share \in [Shares -> ShareRecord] /\ thread \in Threads
  BY DEF Typed, TypeOK, Threads
<1>3. ASSUME Clear(Pending', queue', Calls', Removals),
             thread'[h].pc # "idle" /\ thread'[h].kind = "patch" =>
                thread'[h].patch \in FullPatches,
             AclMatches(share', conf, Pending', queue', Calls')
      PROVE  AclInv'
  BY <1>1, <1>3 DEF AclInv, At
<1>4. CASE Enqueue(h)
  <2>1. /\ Pending = {JobOf(thread[h])} /\ Pending' = {} /\ share' = share
        /\ JobOf(thread[h]) \in Job /\ queue' = Append(queue, JobOf(thread[h]))
        /\ thread'[h].pc = "idle"
    BY <1>4, RequestLine DEF IdleThread
  <2>2. \A R : /\ \A x : Due(Pending', queue', Calls', R, x) =>
                            Due(Pending, queue, Calls, R, x)
               /\ Clear(Pending', queue', Calls', R) <=>
                     Clear(Pending, queue, Calls, R)
    BY <1>1, <1>2, <2>1, LineMoves
  <2>3. AclMatches(share, conf, Pending', queue', Calls')
    BY <2>2, AclLine DEF AclInv
  <2> QED
    BY <1>3, <2>1, <2>2, <2>3 DEF AclInv
<1>5. CASE ~Enqueue(h)
  <2> DEFINE j == JobOf(thread'[h])
  <2>1. /\ ~At(h, "enqueue") /\ Pending = {} /\ queue' = queue
        /\ Pending' = IF thread'[h].pc = "enqueue" THEN {j} ELSE {}
    BY <1>5, RequestLine
  <2>2. Typed'
    BY RequestTyped
  <2>3. thread'[h].pc = "enqueue" => j \in Job
    <3>1. ASSUME thread'[h].pc = "enqueue" PROVE j \in Job
      <4>1. thread'[h] \in Task
        BY <2>2, <3>1 DEF Typed, TypeOK, IdleThread
      <4>2. thread'[h] \in DocTask => GroupRequest(thread'[h])
        BY <2>2 DEF Typed, Shape
      <4> QED
        BY <3>1, <4>1, <4>2, JobOfTyped
    <3> QED
      BY <3>1
  <2> HIDE DEF j
  <2>4. ASSUME NEW R, thread'[h].pc = "enqueue" => j \notin R
        PROVE  /\ \A x : Due(Pending', queue', Calls', R, x) =>
                            Due(Pending, queue, Calls, R, x)
               /\ Clear(Pending', queue', Calls', R) <=>
                     Clear(Pending, queue, Calls, R)
    BY <1>1, <1>2, <2>1, <2>3, <2>4, LineChanges
  <2>5. thread'[h].pc = "enqueue" => j \notin Removals
    BY DEF Removals, j, JobOf
  <2>6. Clear(Pending', queue', Calls', Removals)
    BY <2>4, <2>5 DEF AclInv
  <2>7. CASE ~Touch(h)
    <3>1. /\ share' = share
          /\ thread'[h].pc = "enqueue" => thread'[h].kind # "patch"
          /\ thread'[h].pc # "idle" => thread'[h].kind = thread[h].kind
                                       /\ thread'[h].patch = thread[h].patch
      BY <1>5, <2>7, GroupRequestJob
    <3>2. \A n : thread'[h].pc = "enqueue" => j \notin UpdatesOf(n)
      BY <3>1 DEF UpdatesOf, j, JobOf
    <3>3. AclMatches(share, conf, Pending', queue', Calls')
      BY <2>4, <3>2, AclLine DEF AclInv
    <3>4. ~At(h, "idle")
      BY DEF Request, Touch, FindGroup, InsertGroup, LoadGroup, WriteGroup,
             DeleteGroup, TouchGroup, Enqueue, At
    <3>5. thread[h].kind = "patch" => thread[h].patch \in FullPatches
      BY <3>4 DEF AclInv
    <3> QED
      BY <1>3, <2>6, <3>1, <3>3, <3>5
  <2>8. CASE Touch(h)
    <3> DEFINE n == thread[h].name
               p == thread[h].patch
    <3>1. /\ At(h, "touch") /\ thread[h].kind = "patch" /\ thread[h] \in Task
      BY <1>2, <2>8 DEF Touch, At, Threads, IdleThread
    <3>2. thread[h] \in PatchTask /\ n \in Shares /\ p \in FullPatches
      BY <3>1, TaskKinds DEF AclInv, At, PatchTask
    <3>3. CASE Answer(h) /\ UNCHANGED share
      <4>1. thread'[h].pc = "idle"
        BY <1>2, <3>3 DEF Answer, Threads, IdleThread
      <4>2. AclMatches(share, conf, Pending', queue', Calls')
        BY <2>4, <4>1, AclLine DEF AclInv
      <4> QED
        BY <1>3, <2>6, <3>3, <4>1, <4>2
    <3>4. CASE /\ n \in SharesInDb /\ Goto(h, "enqueue")
               /\ share' = [share EXCEPT ![n].acl = Patched(share[n].acl, p),
                                         ![n].updated = TRUE]
      <4>1. thread'[h] = [thread[h] EXCEPT !.pc = "enqueue"]
        BY <1>2, <3>4 DEF Goto, Threads
      <4>2. /\ thread'[h].pc = "enqueue" /\ thread'[h].kind = "patch"
            /\ thread'[h].name = n /\ thread'[h].patch = p
        BY <3>1, <3>2, <4>1 DEF PatchTask
      <4>3. j = [kind |-> "updateShare", name |-> n, acl |-> p]
        BY <3>2, <4>2, PatchedFull DEF j, JobOf
      <4>4. /\ share'[n].drive = share[n].drive /\ share'[n].acl = p
            /\ share'[n].updated = TRUE
            /\ \A m \in Shares : m # n => share'[m] = share[m]
        <5>1. share'[n] = [share[n] EXCEPT !.acl = p, !.updated = TRUE]
          BY <1>2, <3>2, <3>4, PatchedFull
        <5>2. share[n] \in ShareRecord
          BY <1>2, <3>2
        <5>3. /\ share'[n].drive = share[n].drive /\ share'[n].acl = p
              /\ share'[n].updated = TRUE
          BY <5>1, <5>2 DEF ShareRecord
        <5>4. \A m \in Shares : m # n => share'[m] = share[m]
          BY <1>2, <3>4
        <5> QED
          BY <5>3, <5>4
      <4>5. \A m : m # n => j \notin UpdatesOf(m)
        BY <4>3 DEF UpdatesOf
      <4>6. j \in UpdatesOf(n)
        BY <2>3, <4>2, <4>3 DEF UpdatesOf
      <4>7. Pending' = {j}
        BY <2>1, <4>2
      <4>8. AclMatches(share', conf, Pending', queue', Calls')
        <5> SUFFICES ASSUME NEW m \in Shares
                     PROVE  /\ share'[m].drive = NoLetter =>
                                  Clear(Pending', queue', Calls', UpdatesOf(m))
                            /\ \A x : Due(Pending', queue', Calls', UpdatesOf(m), x) =>
                                  share'[m].updated /\ share'[m].acl = x.acl
                            /\ /\ Clear(Pending', queue', Calls', UpdatesOf(m))
                               /\ share'[m].drive # NoLetter /\ conf[m].sections = 1
                               => conf[m].acl = IF share'[m].updated
                                                THEN share'[m].acl ELSE DefaultAcl
          BY DEF AclMatches
        <5>1. CASE m = n
          <6>1. share'[m].drive # NoLetter
            BY <3>4, <4>4, <5>1 DEF SharesInDb
          <6>2. /\ \A x : Due({j}, queue, Calls, UpdatesOf(n), x) => x = j
                /\ ~Clear({j}, queue, Calls, UpdatesOf(n))
            <7>1. j \in {j} \cap UpdatesOf(n)
              BY <4>6
            <7> QED
              BY <7>1 DEF Due, Clear
          <6>3. j.acl = p
            BY <4>3
          <6>4. Pending' = {j} /\ queue' = queue /\ Calls' = Calls
            BY <1>1, <2>1, <4>7
          <6> QED
            BY <4>4, <5>1, <6>1, <6>2, <6>3, <6>4
        <5>2. CASE m # n
          <6>1. /\ \A x : Due(Pending', queue', Calls', UpdatesOf(m), x) =>
                             Due(Pending, queue, Calls, UpdatesOf(m), x)
                /\ Clear(Pending', queue', Calls', UpdatesOf(m)) <=>
                      Clear(Pending, queue, Calls, UpdatesOf(m))
            BY <2>4, <4>5, <5>2
          <6> QED
            BY <4>4, <5>2, <6>1 DEF AclInv, AclMatches
        <5> QED
          BY <5>1, <5>2
      <4> QED
        BY <1>3, <2>6, <3>2, <4>2, <4>8
    <3> QED
      BY <2>8, <3>3, <3>4 DEF Touch
  <2> QED
    BY <2>7, <2>8
<1> QED
  BY <1>4, <1>5

\* The steps of jobs keep the lists in step.
LEMMA WorkAcl ==
    ASSUME Typed, OneActs, Single, SharesInv, AclInv, NEW w \in Workers,
           Take(w) \/ Work(w)
    PROVE  AclInv'
<1> DEFINE j == worker[w].job
           n == worker[w].job.name
<1>1. /\ UNCHANGED <<deployment, group, thread>> /\ Pending' = Pending
      /\ \A v \in Workers : v # w => worker[v].pc = "idle" /\ worker'[v].pc = "idle"
  BY WorkLine
<1>2. /\ queue \in Seq(Job) /\ share \in [Shares -> ShareRecord]
      /\ conf \in [Shares -> ConfRecord] /\ worker \in WorkersType
  BY DEF Typed, TypeOK, WorkersType
<1>3. ASSUME Clear(Pending', queue', Calls', Removals), worker'[w].pc # "erase",
             worker'[w].pc \in {"letter", "insert"} =>
                conf'[worker'[w].job.name].acl = DefaultAcl,
             AclMatches(share', conf', Pending', queue', Calls')
      PROVE  AclInv'
  BY <1>1, <1>3 DEF AclInv, At
<1>4. Ended(w) => worker'[w].pc = "idle"
  BY <1>2 DEF Ended, WorkersType, IdleWorker
<1>5. CASE Take(w)
  <2>1. /\ UNCHANGED <<share, conf>> /\ queue # <<>>
        /\ Calls = {} /\ Calls' = {Head(queue)} /\ queue' = Tail(queue)
        /\ worker'[w].pc = "call"
    BY <1>5, WorkLine DEF Take, Work, CallCreateShare, CallDeleteShare,
       CallUpdateShare, CallGroup, AllocateLetter, InsertShare, EraseShare, Calling
  <2>2. \A R : /\ \A x : Due(Pending', queue', Calls', R, x) =>
                            Due(Pending, queue, Calls, R, x)
               /\ Clear(Pending', queue', Calls', R) <=>
                     Clear(Pending, queue, Calls, R)
    BY <1>1, <1>2, <2>1, LineMoves
  <2>3. AclMatches(share, conf, Pending', queue', Calls')
    BY <2>2, AclLine DEF AclInv
  <2> QED
    BY <1>3, <2>1, <2>2, <2>3 DEF AclInv
<1>6. CASE Work(w) /\ worker[w].pc = "call"
  <2>1. /\ queue' = queue /\ share' = share /\ j \in Job
        /\ Calls = {j} /\ Calls' = {}
    BY <1>6, WorkLine DEF Take
  <2>2. \A R : /\ \A x : Due(Pending', queue', Calls', R, x) =>
                            Due(Pending, queue, Calls, R, x)
               /\ Clear(Pending, queue, Calls, R) <=>
                     Clear(Pending', queue', Calls', R) /\ j \notin R
               /\ Clear(Pending', queue', Calls', R) /\ j \in R =>
                     Due(Pending, queue, Calls, R, j)
    <3>1. j \in Job /\ queue \in Seq(Job)
      BY <1>2, <2>1
    <3> HIDE DEF j
    <3>2. ASSUME NEW R, NEW x
          PROVE  /\ Due(Pending, queue, {}, R, x) => Due(Pending, queue, {j}, R, x)
                 /\ Clear(Pending, queue, {j}, R) <=>
                       Clear(Pending, queue, {}, R) /\ j \notin R
                 /\ Clear(Pending, queue, {}, R) /\ j \in R =>
                       Due(Pending, queue, {j}, R, j)
      BY <3>1, LineChanges
    <3> QED
      BY <1>1, <2>1, <3>2
  <2>3. Clear(Pending', queue', Calls', Removals) /\ j \notin Removals
    BY <2>2 DEF AclInv
  <2>4. j.kind # "deleteShare"
    BY <2>1, <2>3 DEF Removals
  <2>5. ASSUME NEW m \in Shares, conf'[m] = conf[m], j \notin UpdatesOf(m)
        PROVE  /\ share[m].drive = NoLetter =>
                     Clear(Pending', queue', Calls', UpdatesOf(m))
               /\ \A x : Due(Pending', queue', Calls', UpdatesOf(m), x) =>
                     share[m].updated /\ share[m].acl = x.acl
               /\ /\ Clear(Pending', queue', Calls', UpdatesOf(m))
                  /\ share[m].drive # NoLetter /\ conf'[m].sections = 1
                  => conf'[m].acl = IF share[m].updated THEN share[m].acl
                                                        ELSE DefaultAcl
    BY <2>2, <2>5 DEF AclInv, AclMatches
  <2>6. ASSUME NEW m \in Shares
        PROVE  /\ share[m].drive = NoLetter =>
                     Clear(Pending', queue', Calls', UpdatesOf(m))
               /\ \A x : Due(Pending', queue', Calls', UpdatesOf(m), x) =>
                     share[m].updated /\ share[m].acl = x.acl
    BY <2>2 DEF AclInv, AclMatches
  <2>7. CASE CallGroup(w)
    <3>1. conf' = conf /\ Ended(w) /\ \A m : j \notin UpdatesOf(m)
      BY <2>7 DEF CallGroup, Calling, UpdatesOf
    <3>2. AclMatches(share', conf', Pending', queue', Calls')
      BY <2>1, <2>5, <3>1 DEF AclMatches
    <3> QED
      BY <1>3, <1>4, <2>3, <3>1, <3>2
  <2>8. CASE CallCreateShare(w)
    <3>1. /\ j.kind = "createShare" /\ GoesOn(w, "letter")
          /\ conf' = [conf EXCEPT ![n] = [sections |-> @.sections + 1,
                                          acl |-> DefaultAcl]]
      BY <2>8 DEF CallCreateShare, Calling
    <3>2. n \in Shares
      BY <2>1, <3>1 DEF Job, ShareJob, GroupJob
    <3>3. /\ conf'[n].acl = DefaultAcl /\ conf'[n].sections = conf[n].sections + 1
          /\ \A m \in Shares : m # n => conf'[m] = conf[m]
      BY <1>2, <3>1, <3>2
    <3>4. \A m : j \notin UpdatesOf(m)
      BY <3>1 DEF UpdatesOf
    <3>5. share[n].drive # NoLetter => conf'[n].sections # 1
      <4>1. \A v \in Workers : worker[v].pc # "erase"
        BY DEF AclInv
      <4>2. share[n].drive # NoLetter => conf[n].sections > 0
        BY <3>2, <4>1 DEF SharesInv, SharesInDb, SharesInConf, Doing
      <4>3. conf[n].sections \in Nat
        BY <1>2, <3>2 DEF ConfRecord
      <4> QED
        BY <3>3, <4>2, <4>3
    <3>6. AclMatches(share', conf', Pending', queue', Calls')
      BY <2>1, <2>5, <2>6, <3>3, <3>4, <3>5 DEF AclMatches
    <3>7. worker'[w].pc = "letter" /\ worker'[w].job = j
      BY <1>2, <1>6, <3>1 DEF GoesOn, WorkersType, IdleWorker, WorkerTask
    <3> QED
      BY <1>3, <2>3, <3>3, <3>6, <3>7
  <2>9. CASE CallUpdateShare(w)
    <3>1. /\ j.kind = "updateShare" /\ Ended(w)
          /\ conf' = IF n \in SharesInConf THEN [conf EXCEPT ![n].acl = j.acl]
                                           ELSE conf
      BY <2>9 DEF CallUpdateShare, Calling
    <3>2. n \in Shares
      BY <2>1, <3>1 DEF Job, ShareJob, GroupJob
    <3>3. /\ \A m \in Shares : m # n => conf'[m] = conf[m] /\ j \notin UpdatesOf(m)
          /\ j \in UpdatesOf(n)
      BY <1>2, <2>1, <3>1, <3>2 DEF UpdatesOf
    <3>4. conf'[n].sections = 1 => conf'[n].acl = j.acl
      BY <1>2, <3>1, <3>2 DEF SharesInConf, ConfRecord
    <3>5. Clear(Pending', queue', Calls', UpdatesOf(n)) =>
             share[n].updated /\ share[n].acl = j.acl
      BY <2>2, <3>2, <3>3 DEF AclInv, AclMatches
    <3>6. AclMatches(share', conf', Pending', queue', Calls')
      BY <2>1, <2>5, <2>6, <3>3, <3>4, <3>5 DEF AclMatches
    <3> QED
      BY <1>3, <1>4, <2>3, <3>1, <3>6
  <2> QED
    BY <1>6, <2>4, <2>7, <2>8, <2>9
       DEF Work, CallDeleteShare, AllocateLetter, InsertShare, EraseShare, Calling
<1>7. CASE Work(w) /\ worker[w].pc \in {"letter", "insert", "erase"}
  <2>1. queue' = queue /\ conf' = conf /\ Calls = {} /\ Calls' = {}
    BY <1>7, WorkLine DEF Take
  <2>2. worker[w].pc # "erase" /\ conf[n].acl = DefaultAcl
    BY <1>7 DEF AclInv
  <2>3. Clear(Pending', queue', Calls', Removals)
    BY <1>1, <2>1 DEF AclInv
  <2>4. CASE AllocateLetter(w)
    <3>1. share' = share
      BY <2>4 DEF AllocateLetter, dbVars
    <3>2. \/ worker'[w].pc = "idle"
          \/ worker'[w].pc = "insert" /\ worker'[w].job = j
      <4>1. \/ Ended(w)
            \/ \E l : worker' = [worker EXCEPT ![w].letter = l, ![w].pc = "insert"]
        BY <2>4 DEF AllocateLetter
      <4>2. ASSUME NEW l, worker' = [worker EXCEPT ![w].letter = l, ![w].pc = "insert"]
            PROVE  worker'[w].pc = "insert" /\ worker'[w].job = j
        <5>1. worker[w] \in WorkerTask
          BY <1>2, <1>7 DEF WorkersType, IdleWorker
        <5>2. worker'[w] = [worker[w] EXCEPT !.letter = l, !.pc = "insert"]
          BY <1>2, <4>2 DEF WorkersType
        <5> QED
          BY <5>1, <5>2 DEF WorkerTask
      <4> QED
        BY <1>4, <4>1, <4>2
    <3>3. AclMatches(share', conf', Pending', queue', Calls')
      BY <1>1, <2>1, <3>1 DEF AclInv
    <3> QED
      BY <1>3, <2>1, <2>2, <2>3, <3>2, <3>3
  <2>5. CASE InsertShare(w)
    <3>1. /\ worker[w].pc = "insert" /\ Ended(w)
          /\ share' = IF n \in SharesInDb \/ worker[w].letter \in LettersInUse
                      THEN share
                      ELSE [share EXCEPT ![n] = [drive |-> worker[w].letter,
                                                 acl |-> worker[w].job.acl,
                                                 updated |-> FALSE]]
      BY <2>5 DEF InsertShare
    <3>2. n \in Shares
      BY <1>2, <3>1 DEF WorkersType, IdleWorker, WorkerTask, ShareJob
    <3>3. CASE share' = share
      <4>1. AclMatches(share', conf', Pending', queue', Calls')
        BY <1>1, <2>1, <3>3 DEF AclInv
      <4> QED
        BY <1>3, <1>4, <2>3, <3>1, <4>1
    <3>4. CASE n \notin SharesInDb /\ share' # share
      <4>1. /\ share'[n].updated = FALSE /\ share'[n].drive = worker[w].letter
            /\ \A m \in Shares : m # n => share'[m] = share[m]
        BY <1>2, <3>1, <3>2, <3>4
      <4>2. share'[n].drive # NoLetter
        <5>1. worker[w].letter \in Letters
          BY <1>2, <3>1 DEF WorkersType, IdleWorker, WorkerTask
        <5> QED
          BY <4>1, <5>1, DirectoryAssumption
      <4>3. Clear(Pending, queue, Calls, UpdatesOf(n))
        BY <3>2, <3>4 DEF AclInv, AclMatches, SharesInDb
      <4>4. \A x : ~Due(Pending, queue, Calls, UpdatesOf(n), x)
        BY <4>3, DueIsThere
      <4>5. AclMatches(share', conf', Pending, queue, Calls)
        BY <2>1, <2>2, <4>1, <4>2, <4>4 DEF AclInv, AclMatches
      <4>6. AclMatches(share', conf', Pending', queue', Calls')
        BY <1>1, <2>1, <4>5
      <4> QED
        BY <1>3, <1>4, <2>3, <3>1, <4>6
    <3> QED
      BY <3>1, <3>3, <3>4
  <2> QED
    BY <1>7, <2>2, <2>4, <2>5
       DEF Work, CallCreateShare, CallDeleteShare, CallUpdateShare, CallGroup,
           EraseShare, Calling
<1>8. \/ Take(w) \/ (Work(w) /\ worker[w].pc = "call")
      \/ (Work(w) /\ worker[w].pc \in {"letter", "insert", "erase"})
  BY WorkLine
<1> QED
  BY <1>5, <1>6, <1>7, <1>8

\* Requests that arrive keep the lists in step, when shares are only made and
\* patched, each time with both lists.
LEMMA ArrivalAcl ==
    ASSUME Typed, OneActs, Single, AclInv, OnlyMadeAndPatched
    PROVE  /\ \A n \in Shares, acl \in Acl :
                 PostCreateShare(n, acl) \/ PostDeleteShare(n) => AclInv'
           /\ \A n \in Shares, h \in Handlers, p \in FullPatches \cup OnePatches :
                 PostPatch(h, n, p) => AclInv'
           /\ \A h \in Handlers, d \in GroupDocs, n \in GroupNames :
                 PostGroup(h, d, n) => AclInv'
<1>1. queue \in Seq(Job)
  BY DEF Typed, TypeOK
<1>2. ASSUME NEW n \in Shares, NEW acl \in Acl,
             PostCreateShare(n, acl) \/ PostDeleteShare(n)
      PROVE  AclInv'
  <2>1. /\ UNCHANGED <<deployment, dcVars, dbVars, thread, worker>>
        /\ Pending' = Pending /\ Calls' = Calls
    BY <1>2, ArrivalLine
  <2>2. PICK j \in ShareJob : queue' = Append(queue, j) /\ j.kind = "createShare"
    BY <1>2, ArrivalLine DEF OnlyMadeAndPatched
  <2>3. j \in Job /\ j \notin Removals /\ \A m : j \notin UpdatesOf(m)
    BY <2>2 DEF Job, Removals, UpdatesOf
  <2>4. \A R : j \notin R =>
           /\ \A x : Due(Pending', queue', Calls', R, x) =>
                        Due(Pending, queue, Calls, R, x)
           /\ Clear(Pending', queue', Calls', R) <=> Clear(Pending, queue, Calls, R)
    BY <1>1, <2>1, <2>2, <2>3, LineChanges
  <2>5. AclMatches(share, conf, Pending', queue', Calls')
    BY <2>3, <2>4, AclLine DEF AclInv
  <2>6. Clear(Pending', queue', Calls', Removals)
    BY <2>3, <2>4 DEF AclInv
  <2> QED
    BY <2>1, <2>5, <2>6 DEF AclInv, At, dcVars, dbVars
<1>3. ASSUME NEW h \in Handlers, NEW t \in Task, t.pc # "enqueue", Post(h, t),
             t.kind = "patch" => t.patch \in FullPatches
      PROVE  AclInv'
  <2>1. /\ UNCHANGED <<deployment, dcVars, dbVars, queue, worker>>
        /\ Pending = {} /\ Pending' = {} /\ Calls' = Calls /\ thread'[h] = t
        /\ \A g \in Handlers : g # h => thread'[g].pc = "idle"
    BY <1>3, ArrivalLine
  <2>2. AclMatches(share', conf', Pending', queue', Calls')
    BY <2>1 DEF AclInv, dcVars, dbVars
  <2> QED
    BY <1>3, <2>1, <2>2 DEF AclInv, At, dcVars
<1>4. ASSUME NEW n \in Shares, NEW h \in Handlers,
             NEW p \in FullPatches \cup OnePatches, PostPatch(h, n, p)
      PROVE  AclInv'
  <2> DEFINE t == [pc |-> "touch", kind |-> "patch", doc |-> NoDoc, name |-> n,
                   patch |-> p]
  <2>1. Post(h, t) /\ p \in FullPatches
    BY <1>4 DEF PostPatch, OnlyMadeAndPatched
  <2>2. t \in PatchTask
    BY <2>1 DEF PatchTask
  <2>3. t \in Task /\ t.pc # "enqueue" /\ t.patch \in FullPatches
    BY <2>1, <2>2 DEF Task
  <2> QED
    BY <1>3, <2>1, <2>3
<1>5. ASSUME NEW h \in Handlers, NEW d \in GroupDocs, NEW n \in GroupNames,
             PostGroup(h, d, n)
      PROVE  AclInv'
  <2>1. PICK pc \in {"find", "load", "touch"},
             kind \in {"create", "delete", "members", "rename"},
             e \in {d, NoDoc}, m \in {n, NoName} :
           /\ Post(h, AboutGroup(pc, kind, e, m))
           /\ pc = "touch" <=> kind = "members"
           /\ kind = "members" => e = NoDoc /\ m = n
           /\ kind # "members" => e = d
    BY <1>5 DEF PostGroup
  <2> DEFINE t == AboutGroup(pc, kind, e, m)
  <2>2. t.pc # "enqueue" /\ t.kind # "patch"
    BY DEF AboutGroup
  <2>3. t \in DocTask \cup MembersTask
    BY <2>1 DEF AboutGroup, DocTask, MembersTask
  <2>4. t \in Task
    BY <2>3 DEF Task
  <2> HIDE DEF t
  <2> QED
    BY <1>3, <2>1, <2>2, <2>4 DEF t
<1> QED
  BY <1>2, <1>4, <1>5

-----------------------------------------------------------------------------
(***************************************************************************)
(* The groups, and the theorems about one thread and one worker            *)
(***************************************************************************)

\* The jobs about a group.
ChangesOf(g) == {j \in Job : j.kind \in {"addGroup", "removeGroup"} /\ j.name = g}

\* The last change of a group on its way agrees with the documents, and when none
\* is on its way the directory does; renames leave groups behind.
GroupsLine(names, dir, renames, P, q, C) ==
    \A g \in GroupNames :
       /\ \A x : Due(P, q, C, ChangesOf(g), x) =>
             /\ x.kind = "removeGroup" => g \notin names
             /\ x.kind = "addGroup" /\ ~renames => g \in names
       /\ Clear(P, q, C, ChangesOf(g)) =>
             /\ g \in names => g \in dir
             /\ g \in dir /\ ~renames => g \in names

\* What a thread that is the only one knows about the document it works on.
GroupStep(t, gr) ==
    /\ t.pc = "insert" => t.kind = "create"
    /\ t.pc = "write" => t.kind = "rename"
    /\ t.kind = "create" /\ t.pc \in {"find", "insert"} =>
          gr[t.doc].phase = "unborn"
    /\ t.kind = "rename" /\ t.pc \in {"find", "write"} => gr[t.doc].phase = "live"
    /\ t.pc = "delete" => gr[t.doc].phase = "live" /\ gr[t.doc].name = t.name

\* Clients rename groups.
Renames == "rename" \in deployment.routes

\* Names are unique, the thread knows its document, and the line agrees with
\* the documents.
GroupsInv ==
    /\ \A d, e \in LiveGroups : group[d].name = group[e].name => d = e
    /\ \A h \in Handlers :
          ~At(h, "idle") => /\ GroupStep(thread[h], group)
                            /\ thread[h].kind = "rename" => Renames
    /\ GroupsLine(GroupNamesInDb, directory, Renames, Pending, queue, Calls)

\* A line that says the same of every group keeps the directory in step.
LEMMA GroupsMove ==
    ASSUME NEW names, NEW dir, NEW ren,
           NEW P, NEW q, NEW C, NEW P1, NEW q1, NEW C1,
           GroupsLine(names, dir, ren, P, q, C),
           \A g \in GroupNames :
              /\ \A x : Due(P1, q1, C1, ChangesOf(g), x) =>
                           Due(P, q, C, ChangesOf(g), x)
              /\ Clear(P1, q1, C1, ChangesOf(g)) <=> Clear(P, q, C, ChangesOf(g))
    PROVE  GroupsLine(names, dir, ren, P1, q1, C1)
BY DEF GroupsLine

\* A request that has changed one name is about to queue a job that says so.
LEMMA GroupsChange ==
    ASSUME NEW names, NEW names1, NEW dir, NEW ren, NEW q \in Seq(Job), NEW C,
           GroupsLine(names, dir, ren, {}, q, C),
           NEW j \in Job, j.kind \in {"addGroup", "removeGroup"},
           j.kind = "addGroup" => j.name \in names1,
           j.kind = "removeGroup" => j.name \notin names1,
           \A g \in GroupNames : g # j.name =>
              /\ g \in names1 => g \in names
              /\ ~ren /\ g \in names => g \in names1
    PROVE  GroupsLine(names1, dir, ren, {j}, q, C)
<1> SUFFICES ASSUME NEW g \in GroupNames
             PROVE  /\ \A x : Due({j}, q, C, ChangesOf(g), x) =>
                          /\ x.kind = "removeGroup" => g \notin names1
                          /\ x.kind = "addGroup" /\ ~ren => g \in names1
                    /\ Clear({j}, q, C, ChangesOf(g)) =>
                          /\ g \in names1 => g \in dir
                          /\ g \in dir /\ ~ren => g \in names1
  BY DEF GroupsLine
<1>1. CASE g = j.name
  <2>1. j \in {j} \cap ChangesOf(g)
    BY <1>1 DEF ChangesOf
  <2>2. /\ \A x : Due({j}, q, C, ChangesOf(g), x) => x = j
        /\ ~Clear({j}, q, C, ChangesOf(g))
    BY <2>1 DEF Due, Clear
  <2> QED
    BY <1>1, <2>2
<1>2. CASE g # j.name
  <2>1. j \notin ChangesOf(g)
    BY <1>2 DEF ChangesOf
  <2>2. /\ \A x : Due({j}, q, C, ChangesOf(g), x) => Due({}, q, C, ChangesOf(g), x)
        /\ Clear({j}, q, C, ChangesOf(g)) => Clear({}, q, C, ChangesOf(g))
    BY <2>1 DEF Due, Clear
  <2> QED
    BY <1>2, <2>2 DEF GroupsLine
<1> QED
  BY <1>1, <1>2

\* At the start there are no groups on either side.
LEMMA InitGroups == Init => GroupsInv
<1> SUFFICES ASSUME Init PROVE GroupsInv
  OBVIOUS
<1>1. /\ \A h \in Handlers : thread[h].pc = "idle"
      /\ \A w \in Workers : worker[w].pc = "idle"
      /\ queue = <<>> /\ directory = {} /\ LiveGroups = {}
  BY DEF Init, IdleThread, IdleWorker, LiveGroups
<1>2. Pending = {} /\ Calls = {}
  BY <1>1 DEF Pending, Calls, JobsQueuedBy, JobsCalledBy
<1>3. \A R : Clear(Pending, queue, Calls, R)
  BY <1>1, <1>2 DEF Clear, NoneIn
<1>4. \A R, x : ~Due(Pending, queue, Calls, R, x)
  BY <1>3, DueIsThere
<1>5. GroupsLine(GroupNamesInDb, directory, Renames, Pending, queue, Calls)
  BY <1>1, <1>4 DEF GroupsLine, GroupNamesInDb
<1> QED
  BY <1>1, <1>5 DEF GroupsInv, At

\* The steps of requests keep the directory in step.
LEMMA RequestGroups ==
    ASSUME Typed, OneActs, Single, GroupsInv, NEW h \in Handlers, Request(h)
    PROVE  GroupsInv'
<1> DEFINE d == thread[h].doc
           n == thread[h].name
           j == JobOf(thread'[h])
<1>1. /\ UNCHANGED <<deployment, conf, directory, worker>> /\ Calls' = Calls
      /\ \A g \in Handlers : g # h => thread[g].pc = "idle" /\ thread'[g].pc = "idle"
  BY RequestLine
<1>2. /\ queue \in Seq(Job) /\ group \in [GroupDocs -> GroupRecord]
      /\ thread \in Threads
  BY DEF Typed, TypeOK, Threads
<1>3. Renames' = Renames
  BY <1>1 DEF Renames
<1>4. ~At(h, "idle") /\ thread[h] \in Task /\ GroupStep(thread[h], group)
  <2>1. ~At(h, "idle")
    BY DEF Request, Touch, FindGroup, InsertGroup, LoadGroup, WriteGroup,
           DeleteGroup, TouchGroup, Enqueue, At
  <2> QED
    BY <1>2, <2>1 DEF At, Threads, IdleThread, GroupsInv
<1>5. ASSUME \A e, f \in LiveGroups' : group'[e].name = group'[f].name => e = f,
             thread'[h].pc # "idle" =>
                /\ GroupStep(thread'[h], group')
                /\ thread'[h].kind = thread[h].kind,
             GroupsLine(GroupNamesInDb', directory, Renames, Pending', queue', Calls')
      PROVE  GroupsInv'
  <2>1. \A g \in Handlers : ~At(g, "idle")' =>
           GroupStep(thread'[g], group') /\ (thread'[g].kind = "rename" => Renames')
    BY <1>1, <1>3, <1>4, <1>5 DEF GroupsInv, At
  <2> QED
    BY <1>1, <1>3, <1>5, <2>1 DEF GroupsInv
<1>6. group' = group => /\ GroupNamesInDb' = GroupNamesInDb
                        /\ \A e, f \in LiveGroups' :
                              group'[e].name = group'[f].name => e = f
  BY DEF GroupNamesInDb, LiveGroups, GroupsInv
<1>7. Answer(h) => thread'[h].pc = "idle"
  BY <1>2 DEF Answer, Threads, IdleThread
<1>8. ASSUME NEW pc, Goto(h, pc)
      PROVE  /\ thread'[h].pc = pc /\ thread'[h].kind = thread[h].kind
             /\ thread'[h].name = n /\ thread'[h].doc = d
             /\ thread'[h].patch = thread[h].patch
  <2>1. thread'[h] = [thread[h] EXCEPT !.pc = pc]
    BY <1>2, <1>8 DEF Goto, Threads
  <2> QED
    BY <1>4, <2>1 DEF Task, PatchTask, DocTask, MembersTask
<1>9. CASE Enqueue(h)
  <2>1. /\ Pending = {JobOf(thread[h])} /\ Pending' = {} /\ group' = group
        /\ JobOf(thread[h]) \in Job /\ queue' = Append(queue, JobOf(thread[h]))
        /\ thread'[h].pc = "idle"
    BY <1>9, RequestLine DEF IdleThread
  <2>2. \A R : /\ \A x : Due(Pending', queue', Calls', R, x) =>
                            Due(Pending, queue, Calls, R, x)
               /\ Clear(Pending', queue', Calls', R) <=>
                     Clear(Pending, queue, Calls, R)
    BY <1>1, <1>2, <2>1, LineMoves
  <2>3. GroupsLine(GroupNamesInDb, directory, Renames, Pending', queue', Calls')
    BY <2>2, GroupsMove DEF GroupsInv
  <2> QED
    BY <1>5, <1>6, <2>1, <2>3
<1>10. CASE ~Enqueue(h)
  <2>1. /\ Pending = {} /\ queue' = queue
        /\ Pending' = IF thread'[h].pc = "enqueue" THEN {j} ELSE {}
    BY <1>10, RequestLine
  <2>2. Typed'
    BY RequestTyped
  <2>3. thread'[h].pc = "enqueue" => j \in Job
    <3>1. ASSUME thread'[h].pc = "enqueue" PROVE j \in Job
      <4>1. thread'[h] \in Task
        BY <2>2, <3>1 DEF Typed, TypeOK, IdleThread
      <4>2. thread'[h] \in DocTask => GroupRequest(thread'[h])
        BY <2>2 DEF Typed, Shape
      <4> QED
        BY <3>1, <4>1, <4>2, JobOfTyped
    <3> QED
      BY <3>1
  <2>4. GroupsLine(GroupNamesInDb, directory, Renames, {}, queue, Calls)
    BY <2>1 DEF GroupsInv
  <2>5. ASSUME group' = group,
               thread'[h].pc = "enqueue" => thread'[h].kind = "patch"
        PROVE  GroupsLine(GroupNamesInDb', directory, Renames, Pending', queue', Calls')
    <3>1. \A g : thread'[h].pc = "enqueue" => j \notin ChangesOf(g)
      BY <2>5 DEF ChangesOf, JobOf
    <3>2. \A g : /\ \A x : Due(Pending', queue', Calls', ChangesOf(g), x) =>
                              Due({}, queue, Calls, ChangesOf(g), x)
                 /\ Clear(Pending', queue', Calls', ChangesOf(g)) <=>
                       Clear({}, queue, Calls, ChangesOf(g))
      <4> TAKE g
      <4>1. Pending' \cap ChangesOf(g) = {}
        BY <2>1, <3>1
      <4> QED
        BY <1>1, <2>1, <4>1 DEF Due, Clear
    <3> QED
      BY <1>6, <2>4, <2>5, <3>2, GroupsMove
  <2>6. ASSUME thread'[h].pc = "enqueue", thread'[h].kind # "patch",
               thread'[h].name = n,
               thread'[h].kind = "delete" => n \notin GroupNamesInDb',
               thread'[h].kind # "delete" => n \in GroupNamesInDb',
               \A g \in GroupNames : g # n =>
                  /\ g \in GroupNamesInDb' => g \in GroupNamesInDb
                  /\ ~Renames /\ g \in GroupNamesInDb => g \in GroupNamesInDb'
        PROVE  GroupsLine(GroupNamesInDb', directory, Renames, Pending', queue', Calls')
    <3>1. /\ j.kind = IF thread'[h].kind = "delete" THEN "removeGroup" ELSE "addGroup"
          /\ j.name = n
      BY <2>6 DEF JobOf
    <3>2. j \in Job
      BY <2>3, <2>6
    <3> HIDE DEF j
    <3>3. GroupsLine(GroupNamesInDb', directory, Renames, {j}, queue, Calls)
      BY <1>2, <2>4, <2>6, <3>1, <3>2, GroupsChange
    <3>4. Pending' = {j} /\ queue' = queue /\ Calls' = Calls
      BY <1>1, <2>1, <2>6
    <3> QED
      BY <3>3, <3>4
  <2> HIDE DEF j
  <2>7. CASE Touch(h)
    <3>1. (Answer(h) \/ Goto(h, "enqueue")) /\ thread[h].kind = "patch" /\ group' = group
      BY <2>7 DEF Touch
    <3>2. /\ thread'[h].pc # "idle" => /\ GroupStep(thread'[h], group')
                                       /\ thread'[h].kind = thread[h].kind
          /\ thread'[h].pc = "enqueue" => thread'[h].kind = "patch"
      BY <1>7, <1>8, <3>1 DEF GroupStep
    <3> QED
      BY <1>5, <1>6, <2>5, <3>1, <3>2
  <2>8. CASE FindGroup(h)
    <3>1. /\ At(h, "find") /\ group' = group
          /\ Answer(h) \/ (thread[h].kind = "create" /\ Goto(h, "insert"))
                       \/ (thread[h].kind # "create" /\ Goto(h, "write"))
      BY <2>8 DEF FindGroup, dbVars
    <3>2. thread[h].kind \in {"create", "rename"}
      <4>1. thread[h] \in DocTask
        BY <1>4, <3>1 DEF At, Task, PatchTask, MembersTask
      <4> QED
        BY <3>1, <4>1 DEF Typed, Shape, GroupRequest, At
    <3>3. /\ thread'[h].pc # "idle" => /\ GroupStep(thread'[h], group')
                                       /\ thread'[h].kind = thread[h].kind
          /\ thread'[h].pc # "enqueue"
      BY <1>4, <1>7, <1>8, <3>1, <3>2 DEF GroupStep, At
    <3> QED
      BY <1>5, <1>6, <2>5, <3>1, <3>3
  <2>9. CASE LoadGroup(h)
    <3>1. /\ group' = group
          /\ \/ Answer(h)
             \/ d \in LiveGroups /\ thread[h].kind = "rename" /\ Goto(h, "find")
             \/ /\ d \in LiveGroups /\ thread[h].kind = "delete"
                /\ thread' = [thread EXCEPT ![h].pc = "delete",
                                            ![h].name = group[d].name]
      BY <2>9 DEF LoadGroup, dbVars
    <3>2. ASSUME d \in LiveGroups, thread[h].kind = "delete",
                 thread' = [thread EXCEPT ![h].pc = "delete",
                                          ![h].name = group[d].name]
          PROVE  /\ thread'[h].pc = "delete" /\ thread'[h].kind = "delete"
                 /\ thread'[h].doc = d /\ thread'[h].name = group[d].name
      <4>1. thread'[h] = [thread[h] EXCEPT !.pc = "delete", !.name = group[d].name]
        BY <1>2, <3>2 DEF Threads
      <4>2. thread[h] \in DocTask
        BY <1>4, <3>2, TaskKinds
      <4>3. /\ thread'[h].pc = "delete" /\ thread'[h].name = group[d].name
            /\ thread'[h].kind = thread[h].kind /\ thread'[h].doc = thread[h].doc
        BY <4>1, <4>2 DEF DocTask
      <4> QED
        BY <3>2, <4>3
    <3>3. /\ thread'[h].pc # "idle" => /\ GroupStep(thread'[h], group')
                                       /\ thread'[h].kind = thread[h].kind
          /\ thread'[h].pc # "enqueue"
      BY <1>7, <1>8, <3>1, <3>2 DEF GroupStep, LiveGroups
    <3> QED
      BY <1>5, <1>6, <2>5, <3>1, <3>3
  <2>10. CASE TouchGroup(h)
    <3>1. /\ thread[h].kind = "members" /\ group' = group
          /\ Answer(h) \/ (n \in GroupNamesInDb /\ Goto(h, "enqueue"))
      BY <2>10 DEF TouchGroup, dbVars
    <3>2. thread'[h].pc # "idle" => /\ GroupStep(thread'[h], group')
                                    /\ thread'[h].kind = thread[h].kind
      BY <1>7, <1>8, <3>1 DEF GroupStep
    <3>3. CASE Answer(h)
      BY <1>5, <1>6, <1>7, <2>5, <3>1, <3>2, <3>3
    <3>4. CASE n \in GroupNamesInDb /\ Goto(h, "enqueue")
      <4>1. /\ thread'[h].pc = "enqueue" /\ thread'[h].kind = "members"
            /\ thread'[h].name = n
        BY <1>8, <3>1, <3>4
      <4>2. GroupsLine(GroupNamesInDb', directory, Renames, Pending', queue', Calls')
        BY <1>6, <2>6, <3>1, <3>4, <4>1
      <4> QED
        BY <1>5, <1>6, <3>1, <3>2, <4>2
    <3> QED
      BY <3>1, <3>3, <3>4
  <2>11. ASSUME InsertGroup(h) \/ WriteGroup(h) \/ DeleteGroup(h)
         PROVE  /\ thread[h] \in DocTask /\ d \in GroupDocs /\ n \in GroupNames
                /\ Answer(h) /\ group' = group => GroupsInv'
    <3>1. thread[h] \in DocTask
      BY <1>4, <2>11 DEF InsertGroup, WriteGroup, DeleteGroup, At, Task, PatchTask,
                         MembersTask
    <3>2. GroupRequest(thread[h])
      BY <3>1 DEF Typed, Shape
    <3>3. d \in GroupDocs /\ n \in GroupNames
      BY <2>11, <3>1, <3>2 DEF InsertGroup, WriteGroup, DeleteGroup, At, DocTask,
                               GroupRequest
    <3> QED
      BY <1>5, <1>6, <1>7, <2>5, <3>1, <3>3
  <2>12. CASE InsertGroup(h)
    <3>1. At(h, "insert") /\ thread[h].kind = "create" /\ group[d].phase = "unborn"
      BY <1>4, <2>12 DEF InsertGroup, GroupStep, At
    <3>2. CASE /\ NameFree(h) /\ Goto(h, "enqueue")
               /\ group' = [group EXCEPT ![d] = [phase |-> "live", name |-> n]]
      <4>1. d \in GroupDocs /\ n \in GroupNames
        BY <2>11, <2>12
      <4>2. /\ LiveGroups' = LiveGroups \cup {d} /\ d \notin LiveGroups
            /\ group'[d].name = n
            /\ \A e \in GroupDocs : e # d => group'[e] = group[e]
        BY <1>2, <3>1, <3>2, <4>1 DEF LiveGroups
      <4>3. \A e, f \in LiveGroups' : group'[e].name = group'[f].name => e = f
        BY <3>2, <4>2 DEF GroupsInv, NameFree, LiveGroups
      <4>4. GroupNamesInDb' = GroupNamesInDb \cup {n}
        BY <4>2 DEF GroupNamesInDb, LiveGroups
      <4>5. /\ thread'[h].pc = "enqueue" /\ thread'[h].kind = "create"
            /\ thread'[h].name = n
        BY <1>8, <3>1, <3>2
      <4>6. GroupsLine(GroupNamesInDb', directory, Renames, Pending', queue', Calls')
        BY <2>6, <4>4, <4>5
      <4> QED
        BY <1>5, <3>1, <4>3, <4>5, <4>6 DEF GroupStep
    <3> QED
      BY <2>11, <2>12, <3>2 DEF InsertGroup
  <2>13. CASE WriteGroup(h)
    <3>1. /\ At(h, "write") /\ thread[h].kind = "rename" /\ d \in LiveGroups
          /\ Renames
      BY <1>4, <2>11, <2>13 DEF WriteGroup, GroupStep, At, LiveGroups, GroupsInv
    <3>2. CASE /\ NameFree(h) /\ Goto(h, "enqueue")
               /\ group' = [group EXCEPT ![d].name = n]
      <4>1. d \in GroupDocs /\ n \in GroupNames
        BY <2>11, <2>13
      <4>2. /\ LiveGroups' = LiveGroups /\ group'[d].name = n
            /\ \A e \in GroupDocs : e # d => group'[e] = group[e]
        BY <1>2, <3>1, <3>2, <4>1 DEF LiveGroups, GroupRecord
      <4>3. \A e, f \in LiveGroups' : group'[e].name = group'[f].name => e = f
        BY <3>2, <4>2 DEF GroupsInv, NameFree, LiveGroups
      <4>4. /\ n \in GroupNamesInDb'
            /\ \A g : g # n /\ g \in GroupNamesInDb' => g \in GroupNamesInDb
        BY <3>1, <4>2 DEF GroupNamesInDb, LiveGroups
      <4>5. /\ thread'[h].pc = "enqueue" /\ thread'[h].kind = "rename"
            /\ thread'[h].name = n
        BY <1>8, <3>1, <3>2
      <4>6. GroupsLine(GroupNamesInDb', directory, Renames, Pending', queue', Calls')
        BY <2>6, <3>1, <4>4, <4>5
      <4> QED
        BY <1>5, <3>1, <4>3, <4>5, <4>6 DEF GroupStep
    <3> QED
      BY <2>11, <2>13, <3>1, <3>2 DEF WriteGroup
  <2>14. CASE DeleteGroup(h)
    <3>1. /\ At(h, "delete") /\ thread[h].kind = "delete" /\ d \in LiveGroups
          /\ group[d].name = n
      <4>1. GroupRequest(thread[h])
        BY <2>11, <2>14 DEF Typed, Shape
      <4> QED
        BY <1>4, <2>11, <2>14, <4>1
           DEF DeleteGroup, GroupStep, At, LiveGroups, GroupRequest
    <3>2. CASE Goto(h, "enqueue") /\ group' = [group EXCEPT ![d].phase = "deleted"]
      <4>1. d \in GroupDocs /\ n \in GroupNames
        BY <2>11, <2>14
      <4>2. /\ LiveGroups' = LiveGroups \ {d}
            /\ \A e \in LiveGroups' : group'[e] = group[e]
        BY <1>2, <3>1, <3>2, <4>1 DEF LiveGroups, GroupRecord
      <4>3. \A e, f \in LiveGroups' : group'[e].name = group'[f].name => e = f
        BY <4>2 DEF GroupsInv
      <4>4. GroupNamesInDb' = GroupNamesInDb \ {n}
        BY <3>1, <4>2 DEF GroupNamesInDb, GroupsInv
      <4>5. /\ thread'[h].pc = "enqueue" /\ thread'[h].kind = "delete"
            /\ thread'[h].name = n
        BY <1>8, <3>1, <3>2
      <4>6. GroupsLine(GroupNamesInDb', directory, Renames, Pending', queue', Calls')
        BY <2>6, <4>4, <4>5
      <4> QED
        BY <1>5, <3>1, <4>3, <4>5, <4>6 DEF GroupStep
    <3> QED
      BY <2>11, <2>14, <3>1, <3>2 DEF DeleteGroup
  <2> QED
    BY <1>10, <2>7, <2>8, <2>9, <2>10, <2>12, <2>13, <2>14 DEF Request
<1> QED
  BY <1>9, <1>10

\* The steps of jobs keep the directory in step.
LEMMA WorkGroups ==
    ASSUME Typed, OneActs, Single, GroupsInv, NEW w \in Workers,
           Take(w) \/ Work(w)
    PROVE  GroupsInv'
<1> DEFINE j == worker[w].job
<1>1. /\ UNCHANGED <<deployment, group, thread>> /\ Pending' = Pending
  BY WorkLine
<1>2. queue \in Seq(Job)
  BY DEF Typed, TypeOK
<1>3. GroupNamesInDb' = GroupNamesInDb /\ LiveGroups' = LiveGroups /\ Renames' = Renames
  BY <1>1 DEF GroupNamesInDb, LiveGroups, Renames
<1>4. ASSUME GroupsLine(GroupNamesInDb, directory', Renames, Pending', queue', Calls')
      PROVE  GroupsInv'
  BY <1>1, <1>3, <1>4 DEF GroupsInv, At
<1>5. CASE Take(w)
  <2>1. /\ directory' = directory /\ queue # <<>>
        /\ Calls = {} /\ Calls' = {Head(queue)} /\ queue' = Tail(queue)
    BY <1>5, WorkLine DEF Take, Work, CallCreateShare, CallDeleteShare,
       CallUpdateShare, CallGroup, AllocateLetter, InsertShare, EraseShare, Calling
  <2>2. \A R : /\ \A x : Due(Pending', queue', Calls', R, x) =>
                            Due(Pending, queue, Calls, R, x)
               /\ Clear(Pending', queue', Calls', R) <=>
                     Clear(Pending, queue, Calls, R)
    BY <1>1, <1>2, <2>1, LineMoves
  <2> QED
    BY <1>4, <2>1, <2>2, GroupsMove DEF GroupsInv
<1>6. CASE Work(w) /\ worker[w].pc = "call"
  <2>1. queue' = queue /\ j \in Job /\ Calls = {j} /\ Calls' = {}
    BY <1>6, WorkLine DEF Take
  <2>2. \A R : /\ \A x : Due(Pending', queue', Calls', R, x) =>
                            Due(Pending, queue, Calls, R, x)
               /\ Clear(Pending, queue, Calls, R) <=>
                     Clear(Pending', queue', Calls', R) /\ j \notin R
               /\ Clear(Pending', queue', Calls', R) /\ j \in R =>
                     Due(Pending, queue, Calls, R, j)
    <3> HIDE DEF j
    <3>1. ASSUME NEW R, NEW x
          PROVE  /\ Due(Pending, queue, {}, R, x) => Due(Pending, queue, {j}, R, x)
                 /\ Clear(Pending, queue, {j}, R) <=>
                       Clear(Pending, queue, {}, R) /\ j \notin R
                 /\ Clear(Pending, queue, {}, R) /\ j \in R =>
                       Due(Pending, queue, {j}, R, j)
      BY <1>2, <2>1, LineChanges
    <3> QED
      BY <1>1, <2>1, <3>1
  <2>3. CASE ~CallGroup(w)
    <3>1. /\ j.kind \notin {"addGroup", "removeGroup"} /\ directory' = directory
      BY <1>6, <2>3 DEF Work, CallCreateShare, CallDeleteShare, CallUpdateShare,
                        AllocateLetter, InsertShare, EraseShare, Calling
    <3>2. \A g : j \notin ChangesOf(g)
      BY <3>1 DEF ChangesOf
    <3> QED
      BY <1>4, <2>2, <3>1, <3>2, GroupsMove DEF GroupsInv
  <2>4. CASE CallGroup(w)
    <3>1. \/ j.kind = "addGroup" /\ directory' = directory \cup {j.name}
          \/ j.kind = "removeGroup" /\ directory' = directory \ {j.name}
      BY <2>4 DEF CallGroup, Calling
    <3> HIDE DEF j
    <3> SUFFICES ASSUME NEW g \in GroupNames
                 PROVE  /\ \A x : Due(Pending', queue', Calls', ChangesOf(g), x) =>
                              /\ x.kind = "removeGroup" => g \notin GroupNamesInDb
                              /\ x.kind = "addGroup" /\ ~Renames =>
                                    g \in GroupNamesInDb
                        /\ Clear(Pending', queue', Calls', ChangesOf(g)) =>
                              /\ g \in GroupNamesInDb => g \in directory'
                              /\ g \in directory' /\ ~Renames =>
                                    g \in GroupNamesInDb
      BY <1>4 DEF GroupsLine
    <3>2. \A x : Due(Pending', queue', Calls', ChangesOf(g), x) =>
                    /\ x.kind = "removeGroup" => g \notin GroupNamesInDb
                    /\ x.kind = "addGroup" /\ ~Renames => g \in GroupNamesInDb
      BY <2>2 DEF GroupsInv, GroupsLine
    <3>3. CASE g # j.name
      <4>1. j \notin ChangesOf(g) /\ (g \in directory' <=> g \in directory)
        BY <3>1, <3>3 DEF ChangesOf
      <4> QED
        BY <2>2, <3>2, <4>1 DEF GroupsInv, GroupsLine
    <3>4. CASE g = j.name
      <4>1. j \in ChangesOf(g)
        BY <2>1, <3>1, <3>4 DEF ChangesOf
      <4>2. Clear(Pending', queue', Calls', ChangesOf(g)) =>
               /\ j.kind = "removeGroup" => g \notin GroupNamesInDb
               /\ j.kind = "addGroup" /\ ~Renames => g \in GroupNamesInDb
        BY <2>2, <4>1 DEF GroupsInv, GroupsLine
      <4> QED
        BY <3>1, <3>2, <3>4, <4>2
    <3> QED
      BY <3>3, <3>4
  <2> QED
    BY <2>3, <2>4
<1>7. CASE Work(w) /\ worker[w].pc \in {"letter", "insert", "erase"}
  <2>1. queue' = queue /\ directory' = directory /\ Calls = {} /\ Calls' = {}
    BY <1>7, WorkLine DEF Take
  <2> QED
    BY <1>1, <1>4, <2>1 DEF GroupsInv
<1>8. \/ Take(w) \/ (Work(w) /\ worker[w].pc = "call")
      \/ (Work(w) /\ worker[w].pc \in {"letter", "insert", "erase"})
  BY WorkLine
<1> QED
  BY <1>5, <1>6, <1>7, <1>8

\* Requests that arrive keep the directory in step.
LEMMA ArrivalGroups ==
    ASSUME Typed, OneActs, Single, GroupsInv
    PROVE  /\ \A n \in Shares, acl \in Acl :
                 PostCreateShare(n, acl) \/ PostDeleteShare(n) => GroupsInv'
           /\ \A n \in Shares, h \in Handlers, p \in FullPatches \cup OnePatches :
                 PostPatch(h, n, p) => GroupsInv'
           /\ \A h \in Handlers, d \in GroupDocs, n \in GroupNames :
                 PostGroup(h, d, n) => GroupsInv'
<1>1. queue \in Seq(Job)
  BY DEF Typed, TypeOK
<1>2. ASSUME NEW n \in Shares, NEW acl \in Acl,
             PostCreateShare(n, acl) \/ PostDeleteShare(n)
      PROVE  GroupsInv'
  <2>1. /\ UNCHANGED <<deployment, dcVars, dbVars, thread, worker>>
        /\ Pending' = Pending /\ Calls' = Calls
    BY <1>2, ArrivalLine
  <2>2. PICK j \in ShareJob : queue' = Append(queue, j)
    BY <1>2, ArrivalLine
  <2>3. j \in Job /\ \A g : j \notin ChangesOf(g)
    BY <2>2 DEF Job, ShareJob, ChangesOf
  <2>4. \A R : j \notin R =>
           /\ \A x : Due(Pending', queue', Calls', R, x) =>
                        Due(Pending, queue, Calls, R, x)
           /\ Clear(Pending', queue', Calls', R) <=> Clear(Pending, queue, Calls, R)
    BY <1>1, <2>1, <2>2, <2>3, LineChanges
  <2>5. GroupsLine(GroupNamesInDb, directory, Renames, Pending', queue', Calls')
    BY <2>3, <2>4, GroupsMove DEF GroupsInv
  <2>6. /\ GroupNamesInDb' = GroupNamesInDb /\ LiveGroups' = LiveGroups
        /\ Renames' = Renames /\ directory' = directory /\ group' = group
    BY <2>1 DEF GroupNamesInDb, LiveGroups, Renames, dcVars, dbVars
  <2> QED
    BY <2>1, <2>5, <2>6 DEF GroupsInv, At
<1>3. ASSUME NEW h \in Handlers, NEW t \in Task, t.pc # "enqueue", Post(h, t),
             GroupStep(t, group), t.kind = "rename" => Renames
      PROVE  GroupsInv'
  <2>1. /\ UNCHANGED <<deployment, dcVars, dbVars, queue, worker>>
        /\ Pending = {} /\ Pending' = {} /\ Calls' = Calls /\ thread'[h] = t
        /\ \A g \in Handlers : g # h => thread'[g].pc = "idle"
    BY <1>3, ArrivalLine
  <2>2. /\ GroupNamesInDb' = GroupNamesInDb /\ LiveGroups' = LiveGroups
        /\ Renames' = Renames /\ directory' = directory /\ group' = group
    BY <2>1 DEF GroupNamesInDb, LiveGroups, Renames, dcVars, dbVars
  <2>3. GroupsLine(GroupNamesInDb, directory, Renames, Pending', queue', Calls')
    BY <2>1 DEF GroupsInv
  <2> QED
    BY <1>3, <2>1, <2>2, <2>3 DEF GroupsInv, At
<1>4. ASSUME NEW n \in Shares, NEW h \in Handlers,
             NEW p \in FullPatches \cup OnePatches, PostPatch(h, n, p)
      PROVE  GroupsInv'
  <2> DEFINE t == [pc |-> "touch", kind |-> "patch", doc |-> NoDoc, name |-> n,
                   patch |-> p]
  <2>1. Post(h, t)
    BY <1>4 DEF PostPatch
  <2>2. t \in PatchTask
    BY DEF PatchTask
  <2>3. t \in Task /\ t.pc = "touch" /\ t.kind = "patch"
    BY <2>2 DEF Task
  <2> HIDE DEF t
  <2> QED
    BY <1>3, <2>1, <2>3 DEF GroupStep
<1>5. ASSUME NEW h \in Handlers, NEW d \in GroupDocs, NEW n \in GroupNames,
             PostGroup(h, d, n)
      PROVE  GroupsInv'
  <2>1. PICK pc \in {"find", "load", "touch"},
             kind \in {"create", "delete", "members", "rename"},
             e \in {d, NoDoc}, m \in {n, NoName} :
           /\ Post(h, AboutGroup(pc, kind, e, m))
           /\ pc = "touch" <=> kind = "members"
           /\ kind = "members" => e = NoDoc /\ m = n
           /\ kind # "members" => e = d
           /\ pc = "find" => kind = "create" /\ d \in Fresh
           /\ kind = "create" => pc = "find"
           /\ kind = "rename" => Renames
    BY <1>5 DEF PostGroup, Renames
  <2> DEFINE t == AboutGroup(pc, kind, e, m)
  <2>2. t.pc = pc /\ t.kind = kind /\ t.doc = e
    BY DEF AboutGroup
  <2>3. t \in DocTask \cup MembersTask
    BY <2>1 DEF AboutGroup, DocTask, MembersTask
  <2>4. t \in Task
    BY <2>3 DEF Task
  <2> HIDE DEF t
  <2>5. GroupStep(t, group)
    BY <2>1, <2>2 DEF GroupStep, Fresh
  <2> QED
    BY <1>3, <2>1, <2>2, <2>4, <2>5 DEF t
<1> QED
  BY <1>2, <1>4, <1>5

\* What the three theorems rest on.
DirectoryInv ==
    /\ Typed /\ OneActs
    /\ Serial => SharesInv /\ GroupsInv
    /\ Serial /\ OnlyMadeAndPatched => AclInv

\* It holds at the start,
LEMMA InitDirectory == Init => DirectoryInv
BY InitTyped, InitActs, InitShares, InitGroups, InitAcl DEF DirectoryInv

\* and after every step, whoever takes it.
LEMMA NextDirectory == DirectoryInv /\ [Next]_vars => DirectoryInv'
<1> SUFFICES ASSUME DirectoryInv, [Next]_vars
             PROVE  DirectoryInv'
  OBVIOUS
<1>1. Typed' /\ OneActs' /\ deployment' = deployment
  <2>1. deployment' = deployment
    BY DEF Next, vars, PostCreateShare, PostDeleteShare, PostPatch, PostGroup, Post,
           Request, Touch, FindGroup, InsertGroup, LoadGroup, WriteGroup,
           DeleteGroup, TouchGroup, Enqueue, RequestLost, Take, Work, CallFails,
           JobLost, CallCreateShare, CallDeleteShare, CallUpdateShare, CallGroup,
           AllocateLetter, InsertShare, EraseShare
  <2> QED
    BY <2>1, NextTyped, NextActs DEF DirectoryInv
<1>2. Serial' = Serial /\ OnlyMadeAndPatched' = OnlyMadeAndPatched
  BY <1>1 DEF Serial, OnlyMadeAndPatched
<1>3. CASE ~Serial
  BY <1>1, <1>2, <1>3 DEF DirectoryInv
<1>4. CASE Serial
  <2>1. Typed /\ OneActs /\ Single /\ SharesInv /\ GroupsInv
    BY <1>4, SerialIsSingle DEF DirectoryInv, Typed
  <2>2. OnlyMadeAndPatched => AclInv
    BY <1>4 DEF DirectoryInv
  <2>3. CASE UNCHANGED vars
    <3>1. Pending' = Pending /\ Calls' = Calls /\ Renames' = Renames
          /\ SharesInDb' = SharesInDb /\ SharesInConf' = SharesInConf
          /\ LettersInUse' = LettersInUse /\ LiveGroups' = LiveGroups
          /\ GroupNamesInDb' = GroupNamesInDb
      BY <2>3 DEF vars, Pending, Calls, JobsQueuedBy, JobsCalledBy, Renames,
                  SharesInDb, SharesInConf, LettersInUse, LiveGroups, GroupNamesInDb
    <3>2. GroupsInv'
      BY <2>1, <2>3, <3>1 DEF GroupsInv, At, vars
    <3>3. SharesInv'
      BY <2>1, <2>3, SharesUndisturbed DEF vars
    <3>4. AclInv => AclInv'
      BY <2>3, <3>1 DEF AclInv, At, vars
    <3> QED
      BY <1>1, <1>2, <2>2, <3>2, <3>3, <3>4 DEF DirectoryInv
  <2>4. ASSUME NEW n \in Shares, NEW acl \in Acl,
               PostCreateShare(n, acl) \/ PostDeleteShare(n)
        PROVE  DirectoryInv'
    <3>1. SharesInv'
      BY <2>1, <2>4, SharesUndisturbed DEF PostCreateShare, PostDeleteShare, dcVars,
                                           dbVars
    <3> QED
      BY <1>1, <1>2, <2>1, <2>2, <2>4, <3>1, ArrivalGroups, ArrivalAcl
         DEF DirectoryInv
  <2>5. ASSUME NEW n \in Shares, NEW h \in Handlers,
               NEW p \in FullPatches \cup OnePatches, PostPatch(h, n, p)
        PROVE  DirectoryInv'
    <3>1. SharesInv'
      BY <2>1, <2>5, SharesUndisturbed DEF PostPatch, Post, dcVars, dbVars
    <3> QED
      BY <1>1, <1>2, <2>1, <2>2, <2>5, <3>1, ArrivalGroups, ArrivalAcl
         DEF DirectoryInv
  <2>6. ASSUME NEW h \in Handlers, NEW d \in GroupDocs, NEW n \in GroupNames,
               PostGroup(h, d, n)
        PROVE  DirectoryInv'
    <3>1. SharesInv'
      BY <2>1, <2>6, SharesUndisturbed DEF PostGroup, Post, dcVars, dbVars
    <3> QED
      BY <1>1, <1>2, <2>1, <2>2, <2>6, <3>1, ArrivalGroups, ArrivalAcl
         DEF DirectoryInv
  <2>7. ASSUME NEW h \in Handlers, Request(h)
        PROVE  DirectoryInv'
    <3>1. UNCHANGED <<deployment, conf, worker>>
      BY <2>1, <2>7, RequestLine
    <3>2. \A n \in Shares : share'[n].drive = share[n].drive
      <4>1. share \in [Shares -> ShareRecord] /\ thread \in Threads
        BY <2>1 DEF Typed, TypeOK, Threads
      <4>2. CASE Touch(h)
        BY <4>1, <4>2 DEF Touch, ShareRecord
      <4>3. CASE ~Touch(h)
        <5>1. share' = share
          BY <2>7, <4>3 DEF Request, FindGroup, InsertGroup, LoadGroup, WriteGroup,
                            DeleteGroup, TouchGroup, Enqueue, dbVars
        <5> QED
          BY <5>1
      <4> QED
        BY <4>2, <4>3
    <3>3. SharesInv'
      BY <2>1, <3>1, <3>2, SharesUndisturbed
    <3> QED
      BY <1>1, <1>2, <2>1, <2>2, <2>7, <3>3, RequestGroups, RequestAcl
         DEF DirectoryInv
  <2>8. ASSUME NEW w \in Workers, Take(w) \/ Work(w)
        PROVE  DirectoryInv'
    BY <1>1, <1>2, <2>1, <2>2, <2>8, WorkShares, WorkGroups, WorkAcl
       DEF DirectoryInv
  <2>9. ASSUME NEW h \in Handlers PROVE ~RequestLost(h)
    BY <2>1 DEF RequestLost, Single
  <2>10. ASSUME NEW w \in Workers PROVE ~CallFails(w) /\ ~JobLost(w)
    BY <2>1 DEF CallFails, JobLost, Single
  <2>11. ASSUME NEW n \in Shares, PostDeleteShare(n)
         PROVE  DirectoryInv'
    BY <2>4, <2>11, NoAclTyped
  <2> QED
    BY <2>3, <2>4, <2>5, <2>6, <2>7, <2>8, <2>9, <2>10, <2>11 DEF Next
<1> QED
  BY <1>3, <1>4

\* With nothing on its way, no job is.
LEMMA QuietIsClear ==
    ASSUME Quiet
    PROVE  /\ \A R : Clear(Pending, queue, Calls, R)
           /\ \A w \in Workers : worker[w].pc = "idle"
<1>1. Pending = {} /\ Calls = {}
  BY DEF Quiet, At, Pending, Calls, JobsQueuedBy, JobsCalledBy
<1> QED
  BY <1>1 DEF Quiet, Clear, NoneIn

\* One thread and one worker that does not fail bring the documents of the
\* shares and the sections of smb.conf together, in both directions as long as
\* there are enough letters.
THEOREM SharesAgree == Spec => []SharesMatch
<1>1. DirectoryInv => SharesMatch
  <2> SUFFICES ASSUME DirectoryInv, Serial, Quiet
               PROVE  /\ SharesInDb \subseteq SharesInConf
                      /\ Cardinality(deployment.letters) >= Cardinality(Shares)
                            => SharesInConf \subseteq SharesInDb
    BY DEF SharesMatch
  <2>1. SharesInv /\ \A pcs, n : "idle" \notin pcs => ~Doing(worker, pcs, n)
    BY QuietIsClear DEF DirectoryInv, Doing
  <2>2. SharesInDb \subseteq Shares /\ SharesInConf \subseteq Shares
    BY DEF SharesInDb, SharesInConf
  <2> QED
    BY <2>1, <2>2 DEF SharesInv
<1> QED
  BY <1>1, InitDirectory, NextDirectory, PTL DEF Spec

\* Under the same conditions, when shares are made and patched with both lists,
\* smb.conf opens a share to exactly those its document names once it was
\* patched: the last job of the line says what the document says.
THEOREM ListsAgree == Spec => []AclFollowsPatch
<1>1. DirectoryInv => AclFollowsPatch
  <2> SUFFICES ASSUME DirectoryInv, Serial, Quiet, OnlyMadeAndPatched,
                      NEW n \in SharesInDb, conf[n].sections = 1
               PROVE  conf[n].acl = IF share[n].updated THEN share[n].acl
                                                        ELSE DefaultAcl
    BY DEF AclFollowsPatch, OnlyMadeAndPatched
  <2>1. n \in Shares /\ share[n].drive # NoLetter
    BY DEF SharesInDb
  <2> QED
    BY <2>1, QuietIsClear DEF DirectoryInv, AclInv, AclMatches
<1> QED
  BY <1>1, InitDirectory, NextDirectory, PTL DEF Spec

\* Under the same conditions every access group has its group on the domain
\* controller, and nothing else is there unless groups were renamed.
THEOREM GroupsAgree == Spec => []GroupsMatch
<1>1. DirectoryInv => GroupsMatch
  <2> SUFFICES ASSUME DirectoryInv, Serial, Quiet
               PROVE  /\ GroupNamesInDb \subseteq directory
                      /\ "rename" \notin deployment.routes =>
                            directory = GroupNamesInDb
    BY DEF GroupsMatch
  <2>1. GroupNamesInDb \subseteq GroupNames /\ directory \subseteq GroupNames
    BY DEF DirectoryInv, Typed, TypeOK, Shape, GroupNamesInDb
  <2>2. \A g \in GroupNames :
           /\ g \in GroupNamesInDb => g \in directory
           /\ g \in directory /\ ~Renames => g \in GroupNamesInDb
    BY QuietIsClear DEF DirectoryInv, GroupsInv, GroupsLine
  <2> QED
    BY <2>1, <2>2 DEF Renames
<1> QED
  BY <1>1, InitDirectory, NextDirectory, PTL DEF Spec
=============================================================================
