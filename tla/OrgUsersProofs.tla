--------------------------- MODULE OrgUsersProofs ----------------------------
(***************************************************************************)
(* Proofs about OrgUsers, for any number of users, threads and workers and *)
(* in every deployment.                                                    *)
(***************************************************************************)
EXTENDS OrgUsers, FiniteSetTheorems, SequenceTheorems, TLAPS

-----------------------------------------------------------------------------
(***************************************************************************)
(* Types                                                                   *)
(***************************************************************************)

\* What the record of a thread holds depends on where the request is.
Shape ==
    \A h \in Handlers :
        /\ ~At(h, "idle") => h \in deployment.handlers
        /\ thread[h].pc \in {"find", "limit", "insert"} =>
              thread[h].name \in Names /\ thread[h].edit \in {"role"} \X Roles
        /\ thread[h].pc \in {"load", "write"} => thread[h].edit \in Edits
        /\ At(h, "enqueue") => thread[h].name \in Names

Typed == TypeOK /\ Shape

Threads == [Handlers -> Task \cup {IdleThread}]

\* A thread that moves on, or answers, keeps a well-typed record, and the
\* other threads keep theirs.
LEMMA MoveTyped ==
    ASSUME thread \in Threads, NEW h \in Handlers
    PROVE  /\ ~At(h, "idle") => thread[h] \in Task
           /\ \A pc \in ThreadSteps :
                 ~At(h, "idle") /\ Goto(h, pc) =>
                    /\ thread' \in Threads
                    /\ thread'[h] = [thread[h] EXCEPT !.pc = pc]
           /\ Answer(h) => thread' \in Threads /\ thread'[h] = IdleThread
           /\ (Answer(h) \/ \E pc \in ThreadSteps : Goto(h, pc)) =>
                 \A g \in Handlers : g # h => thread'[g] = thread[g]
<1>1. ~At(h, "idle") => thread[h] \in Task
  BY DEF At, Threads, IdleThread
<1>2. ASSUME NEW pc \in ThreadSteps, ~At(h, "idle"), Goto(h, pc)
      PROVE  /\ thread' \in Threads
             /\ thread'[h] = [thread[h] EXCEPT !.pc = pc]
  <2>1. [thread[h] EXCEPT !.pc = pc] \in Task
    BY <1>1, <1>2 DEF Task
  <2>2. thread' = [thread EXCEPT ![h] = [thread[h] EXCEPT !.pc = pc]]
    BY <1>2 DEF Goto
  <2> HIDE DEF Task
  <2> QED
    BY <2>1, <2>2 DEF Threads
<1>3. Answer(h) => thread' \in Threads /\ thread'[h] = IdleThread
  BY DEF Answer, Threads
<1>4. ASSUME Answer(h) \/ \E pc \in ThreadSteps : Goto(h, pc),
             NEW g \in Handlers, g # h
      PROVE  thread'[g] = thread[g]
  BY <1>4 DEF Answer, Goto, Threads
<1> QED
  BY <1>1, <1>2, <1>3, <1>4

\* A thread that goes from one step to the next, and changes no record but its
\* own, keeps Shape when its own record does.
LEMMA ShapeKept ==
    ASSUME Shape, deployment' = deployment, NEW h \in Handlers,
           \A g \in Handlers : g # h => thread'[g] = thread[g],
           /\ thread'[h].pc # "idle" => h \in deployment.handlers
           /\ thread'[h].pc \in {"find", "limit", "insert"} =>
                 /\ thread'[h].name \in Names
                 /\ thread'[h].edit \in {"role"} \X Roles
           /\ thread'[h].pc \in {"load", "write"} => thread'[h].edit \in Edits
           /\ thread'[h].pc = "enqueue" => thread'[h].name \in Names
    PROVE  Shape'
BY DEF Shape, At

\* A new document is a well-typed record.
LEMMA DocTyped ==
    ASSUME NEW n \in Names, NEW e \in Emails \cup {NoEmail}, NEW r \in Roles,
           NEW s \in BOOLEAN, NEW b \in BOOLEAN
    PROVE  Doc(n, e, r, s, b) \in UserRecord
BY DEF Doc, UserRecord

\* Deleting and editing a document keep its record well-typed.
LEMMA DocKept ==
    ASSUME NEW d \in UserRecord
    PROVE  /\ [d EXCEPT !.phase = "deleted"] \in UserRecord
           /\ \A e \in Edits : Edited(d, e) \in UserRecord
<1>1. [d EXCEPT !.phase = "deleted"] \in UserRecord
  BY DEF UserRecord
<1>2. ASSUME NEW e \in Edits
      PROVE  Edited(d, e) \in UserRecord
  <2>1. CASE e \in {"role"} \X Roles
    BY <2>1 DEF UserRecord, Edited
  <2>2. CASE e \in {"status"} \X {"active", "inactive"}
    BY <2>2 DEF UserRecord, Edited
  <2>3. CASE e \in {"name"} \X Names
    BY <2>3 DEF UserRecord, Edited
  <2> QED
    BY <1>2, <2>1, <2>2, <2>3 DEF Edits
<1> QED
  BY <1>1, <1>2

\* A step of a thread that changes nothing else keeps the types.
LEMMA StepTyped ==
    ASSUME Typed, NEW h \in Handlers, ~At(h, "idle"),
           UNCHANGED <<deployment, token, accounts, jobVars, posts>>,
           user' \in [Users -> UserRecord], profiles' = profiles,
           \/ Answer(h)
           \/ \E pc \in ThreadSteps :
                 /\ Goto(h, pc)
                 /\ pc \in {"find", "limit", "insert"} =>
                       thread[h].pc \in {"find", "limit", "insert"}
                 /\ pc \in {"load", "write"} => thread[h].pc \in {"load", "write"}
                 /\ pc = "enqueue" => thread[h].name \in Names
    PROVE  Typed'
<1>1. thread \in Threads
  BY DEF Typed, TypeOK, Threads
<1>2. h \in deployment.handlers
  BY DEF Typed, Shape
<1>3. ASSUME Answer(h)
      PROVE  thread' \in Threads /\ Shape'
  <2>1. /\ thread' \in Threads
        /\ thread'[h].pc = "idle"
        /\ \A g \in Handlers : g # h => thread'[g] = thread[g]
    BY <1>1, <1>3, MoveTyped DEF IdleThread
  <2> QED
    BY <2>1, ShapeKept DEF Typed
<1>4. ASSUME NEW pc \in ThreadSteps, Goto(h, pc),
             pc \in {"find", "limit", "insert"} =>
                thread[h].pc \in {"find", "limit", "insert"},
             pc \in {"load", "write"} => thread[h].pc \in {"load", "write"},
             pc = "enqueue" => thread[h].name \in Names
      PROVE  thread' \in Threads /\ Shape'
  <2>1. /\ thread' \in Threads
        /\ thread'[h] = [thread[h] EXCEPT !.pc = pc]
        /\ thread[h] \in Task
        /\ \A g \in Handlers : g # h => thread'[g] = thread[g]
    BY <1>1, <1>4, MoveTyped
  <2>2. /\ thread'[h].pc = pc
        /\ thread'[h].name = thread[h].name
        /\ thread'[h].edit = thread[h].edit
    BY <2>1 DEF Task
  <2>3. /\ pc \in {"find", "limit", "insert"} =>
              /\ thread[h].name \in Names
              /\ thread[h].edit \in {"role"} \X Roles
        /\ pc \in {"load", "write"} => thread[h].edit \in Edits
    BY <1>4 DEF Typed, Shape
  <2> QED
    BY <1>2, <1>4, <2>1, <2>2, <2>3, ShapeKept DEF Typed
<1>5. thread' \in Threads /\ Shape'
  BY <1>3, <1>4
<1> QED
  BY <1>5 DEF Typed, TypeOK, Threads, jobVars

\* The steps of a request keep the types.
LEMMA RequestTyped ==
    ASSUME Typed, NEW h \in Handlers, Request(h) \/ RequestLost(h)
    PROVE  Typed'
<1> USE DEF ThreadSteps
<1>0. /\ user \in [Users -> UserRecord]
      /\ thread \in Threads
  BY DEF Typed, TypeOK, Threads
<1>1. CASE Find(h)
  BY <1>0, <1>1, StepTyped DEF Find, At, dbVars
<1>2. CASE CheckLimit(h)
  BY <1>0, <1>2, StepTyped DEF CheckLimit, At, dbVars
<1>3. CASE Insert(h)
  <2>1. ~At(h, "idle") /\ thread[h] \in Task
    BY <1>0, <1>3, MoveTyped DEF Insert, At
  <2>2. thread[h].name \in Names /\ thread[h].edit \in {"role"} \X Roles
    BY <1>3 DEF Insert, At, Typed, Shape
  <2>3. thread[h].email \in Emails \cup {NoEmail}
    BY <2>1 DEF Task
  <2> DEFINE doc == Doc(thread[h].name, thread[h].email, thread[h].edit[2],
                        thread[h].kind = "create", FALSE)
  <2>4. doc \in UserRecord
    BY <2>2, <2>3, DocTyped
  <2> HIDE DEF doc
  <2>5. user' \in [Users -> UserRecord]
    <3>1. user' = user \/ user' = [user EXCEPT ![thread[h].user] = doc]
      BY <1>3 DEF Insert, doc
    <3> QED
      BY <1>0, <2>4, <3>1
  <2>6. Answer(h) \/ Goto(h, "enqueue")
    BY <1>3 DEF Insert
  <2> QED
    BY <1>3, <2>1, <2>2, <2>5, <2>6, StepTyped DEF Insert
<1>4. CASE Load(h)
  BY <1>0, <1>4, StepTyped DEF Load, At, dbVars
<1>5. CASE Write(h)
  <2>1. thread[h].edit \in Edits
    BY <1>5 DEF Write, At, Typed, Shape
  <2>2. user' \in [Users -> UserRecord]
    <3> DEFINE u == thread[h].user
    <3>1. \/ user' = user
          \/ u \in Users /\ user' = [user EXCEPT ![u] = Edited(user[u], thread[h].edit)]
      BY <1>5 DEF Write, Live
    <3>2. u \in Users => Edited(user[u], thread[h].edit) \in UserRecord
      BY <1>0, <2>1, DocKept
    <3> HIDE DEF u
    <3> QED
      BY <1>0, <3>1, <3>2
  <2> QED
    BY <1>5, <2>2, StepTyped DEF Write, At
<1>6. CASE Lookup(h)
  <2>1. PICK n \in Names \cup {NoName} :
           thread' = [thread EXCEPT ![h].pc = "before", ![h].name = n]
    <3>1. PICK n \in {IF thread[h].user \in Live
                      THEN user[thread[h].user].name ELSE NoName}
                        \cup (IF deployment.faults THEN {NoName} ELSE {}) :
             thread' = [thread EXCEPT ![h].pc = "before", ![h].name = n]
      BY <1>6 DEF Lookup
    <3>2. \A u \in Live : user[u].name \in Names \cup {NoName}
      BY <1>0 DEF Live, UserRecord
    <3>3. n \in Names \cup {NoName}
      BY <3>2
    <3> QED
      BY <3>1, <3>3
  <2>2. ~At(h, "idle") /\ thread[h] \in Task
    BY <1>0, <1>6, MoveTyped DEF Lookup, At
  <2> DEFINE t == [thread[h] EXCEPT !.pc = "before", !.name = n]
  <2>3. t \in Task /\ t.pc = "before"
    BY <2>2 DEF Task
  <2>4. thread' = [thread EXCEPT ![h] = t]
    BY <2>1
  <2> HIDE DEF t
  <2>5. /\ thread' \in Threads
        /\ thread'[h].pc = "before"
        /\ \A g \in Handlers : g # h => thread'[g] = thread[g]
    BY <1>0, <2>3, <2>4 DEF Threads
  <2>6. Shape'
    BY <1>6, <2>2, <2>5, ShapeKept DEF Typed, Shape, Lookup
  <2> QED
    BY <1>6, <2>5, <2>6 DEF Typed, TypeOK, Threads, Lookup, dbVars, jobVars
<1>7. CASE Before(h)
  BY <1>0, <1>7, StepTyped DEF Before, At, dbVars
<1>8. CASE Quorum(h)
  BY <1>0, <1>8, StepTyped DEF Quorum, At, dbVars
<1>9. CASE Delete(h)
  <2>1. ~At(h, "idle") /\ thread[h] \in Task
    BY <1>0, <1>9, MoveTyped DEF Delete, At
  <2>2. user' \in [Users -> UserRecord]
    <3> DEFINE u == thread[h].user
               d == [user[u] EXCEPT !.phase = "deleted"]
    <3>1. \/ user' = user
          \/ u \in Users /\ user' = [user EXCEPT ![u] = d]
      BY <1>9 DEF Delete, Live
    <3>2. u \in Users => d \in UserRecord
      BY <1>0, DocKept
    <3> HIDE DEF u, d
    <3> QED
      BY <1>0, <3>1, <3>2
  <2>3. Answer(h) \/ (Goto(h, "enqueue") /\ thread[h].name # NoName)
    BY <1>9 DEF Delete
  <2>4. thread[h].name # NoName => thread[h].name \in Names
    BY <2>1 DEF Task
  <2> QED
    BY <1>9, <2>1, <2>2, <2>3, <2>4, StepTyped DEF Delete
<1>10. CASE Enqueue(h)
  <2>1. PICK j \in Job : queue' = Append(queue, j)
    BY <1>10 DEF Enqueue, Typed, Shape, At, Job, JobKinds
  <2>2. /\ thread' \in Threads
        /\ thread'[h].pc = "idle"
        /\ \A g \in Handlers : g # h => thread'[g] = thread[g]
    <3>1. Answer(h)
      BY <1>10 DEF Enqueue
    <3>2. IdleThread.pc = "idle"
      BY DEF IdleThread
    <3> HIDE DEF Shape
    <3> QED
      BY <1>0, <3>1, <3>2, MoveTyped
  <2>3. Shape'
    BY <1>10, <2>2, ShapeKept DEF Enqueue, Typed
  <2> QED
    BY <1>10, <2>1, <2>2, <2>3 DEF Typed, TypeOK, Threads, Enqueue, dbVars
<1>11. CASE RequestLost(h)
  BY <1>0, <1>11, StepTyped DEF RequestLost, dbVars
<1> QED
  BY <1>1, <1>2, <1>3, <1>4, <1>5, <1>6, <1>7, <1>8, <1>9, <1>10, <1>11
     DEF Request

\* Posting a request keeps the types.
LEMMA PostTyped ==
    ASSUME Typed, NEW h \in Handlers, NEW t \in Task, Post(h, t),
           t.pc \in {"find", "load", "lookup"},
           t.pc = "find" => t.name \in Names /\ t.edit \in {"role"} \X Roles,
           t.pc = "load" => t.edit \in Edits
    PROVE  Typed'
<1>1. thread \in Threads
  BY DEF Typed, TypeOK, Threads
<1>2. /\ thread' \in Threads
      /\ thread'[h] = t
      /\ \A g \in Handlers : g # h => thread'[g] = thread[g]
  BY <1>1 DEF Post, Threads
<1>3. Shape'
  BY <1>2, ShapeKept DEF Post, Typed
<1>4. posts' \in 0 .. Requests
  BY LimitAssumption, DeploymentAssumption
     DEF Post, Typed, TypeOK, DeploymentType
<1> QED
  BY <1>2, <1>3, <1>4 DEF Typed, TypeOK, Threads, Post, dbVars, jobVars

\* Logging in, and the requests that are posted, keep the types.
LEMMA ArrivalTyped ==
    ASSUME Typed
    PROVE  /\ \A u \in Users : Login(u) => Typed'
           /\ \A h \in Handlers, a, u \in Users :
                 /\ \A p \in People, r \in Roles : PostCreate(h, a, p, r) => Typed'
                 /\ \A e \in Edits : PostUpdate(h, a, u, e) => Typed'
                 /\ PostDelete(h, a, u) => Typed'
           /\ \A k \in JobKinds, n \in Names : PostTask(k, n) => Typed'
<1>1. ASSUME NEW u \in Users, Login(u)
      PROVE  Typed'
  <2>1. user[u].role \in Roles
    BY DEF Typed, TypeOK, UserRecord
  <2> QED
    BY <1>1, <2>1 DEF Login, Typed, TypeOK, Shape, At
<1>2. ASSUME NEW h \in Handlers, NEW a \in Users, NEW p \in People,
             NEW r \in Roles, PostCreate(h, a, p, r)
      PROVE  Typed'
  <2> DEFINE new == CHOOSE u \in Fresh \ JobUsers : TRUE
  <2>1. new \in Users
    BY <1>2 DEF PostCreate, Fresh
  <2> HIDE DEF new
  <2>2. PICK k \in {"create", "import"} :
           Post(h, [pc |-> "find", kind |-> k, actor |-> a, user |-> new,
                    name |-> p.name, email |-> p.email, edit |-> <<"role", r>>])
    BY <1>2 DEF PostCreate, new
  <2>3. p.name \in Names /\ p.email \in Emails
    BY UsersAssumption
  <2>4. <<"role", r>> \in {"role"} \X Roles /\ <<"role", r>> \in Edits
    BY DEF Edits
  <2> DEFINE t == [pc |-> "find", kind |-> k, actor |-> a, user |-> new,
                   name |-> p.name, email |-> p.email, edit |-> <<"role", r>>]
  <2>5. t \in Task
    BY <2>1, <2>3, <2>4 DEF Task, ThreadSteps
  <2>6. t.pc = "find" /\ t.name \in Names /\ t.edit \in {"role"} \X Roles
    BY <2>3, <2>4
  <2>7. Post(h, t)
    BY <2>2
  <2> HIDE DEF t
  <2> QED
    BY <2>5, <2>6, <2>7, PostTyped
<1>3. ASSUME NEW h \in Handlers, NEW a \in Users, NEW u \in Users,
             NEW e \in Edits, PostUpdate(h, a, u, e)
      PROVE  Typed'
  <2> DEFINE t == [pc |-> "load", kind |-> "update", actor |-> a, user |-> u,
                   name |-> NoName, email |-> NoEmail, edit |-> e]
  <2>1. t \in Task /\ t.pc = "load" /\ t.edit \in Edits
    BY DEF Task, ThreadSteps
  <2>2. Post(h, t)
    BY <1>3 DEF PostUpdate
  <2> HIDE DEF t
  <2> QED
    BY <2>1, <2>2, PostTyped
<1>4. ASSUME NEW h \in Handlers, NEW a \in Users, NEW u \in Users,
             PostDelete(h, a, u)
      PROVE  Typed'
  <2> DEFINE t == [pc |-> "lookup", kind |-> "delete", actor |-> a, user |-> u,
                   name |-> NoName, email |-> NoEmail, edit |-> <<>>]
  <2>1. t \in Task /\ t.pc = "lookup"
    BY DEF Task, ThreadSteps
  <2>2. Post(h, t)
    BY <1>4 DEF PostDelete
  <2> HIDE DEF t
  <2> QED
    BY <2>1, <2>2, PostTyped
<1>5. ASSUME NEW k \in JobKinds, NEW n \in Names, PostTask(k, n)
      PROVE  Typed'
  <2>1. posts' \in 0 .. Requests
    BY <1>5, LimitAssumption, DeploymentAssumption
       DEF PostTask, Typed, TypeOK, DeploymentType
  <2>2. queue' \in Seq(Job)
    BY <1>5 DEF PostTask, Typed, TypeOK, Job
  <2> QED
    BY <1>5, <2>1, <2>2 DEF PostTask, Typed, TypeOK, Shape, At, dbVars
<1> QED
  BY <1>1, <1>2, <1>3, <1>4, <1>5

\* The steps of a job keep the types.
LEMMA JobTyped ==
    ASSUME Typed, NEW w \in Workers,
           Take(w) \/ Work(w) \/ CallFails(w) \/ JobLost(w)
    PROVE  Typed'
<1> USE DEF Typed, Shape, At, dbVars
<1>0. /\ worker \in [Workers -> WorkerTask \cup {IdleWorker}]
      /\ user \in [Users -> UserRecord]
      /\ worker[w].pc # "idle" => worker[w] \in WorkerTask
  BY DEF TypeOK, IdleWorker
<1>1. Ended(w) => worker' \in [Workers -> WorkerTask \cup {IdleWorker}]
  BY <1>0 DEF Ended
<1>2. ASSUME worker[w] \in WorkerTask
      PROVE  /\ worker[w].name \in Names
             /\ AccountsAfter(worker[w].kind, worker[w].name) \subseteq Names
  BY <1>2 DEF TypeOK, WorkerTask, AccountsAfter
<1>3. CASE Take(w)
  <2>1. Head(queue) \in Job /\ Tail(queue) \in Seq(Job)
    BY <1>3 DEF Take, TypeOK
  <2>2. [pc |-> "call", kind |-> Head(queue).kind, name |-> Head(queue).name]
           \in WorkerTask
    BY <2>1 DEF Job, WorkerTask
  <2>3. worker' \in [Workers -> WorkerTask \cup {IdleWorker}]
    BY <1>0, <1>3, <2>2 DEF Take
  <2> QED
    BY <1>3, <2>1, <2>3 DEF Take, TypeOK
<1>4. CASE Call(w)
  <2>1. worker[w] \in WorkerTask
    BY <1>0, <1>4 DEF Call
  <2>2. [worker[w] EXCEPT !.pc = "store"] \in WorkerTask
    BY <2>1 DEF WorkerTask
  <2>3. \/ worker' = [worker EXCEPT ![w] = [worker[w] EXCEPT !.pc = "store"]]
        \/ Ended(w)
    BY <1>4 DEF Call
  <2>4. worker' \in [Workers -> WorkerTask \cup {IdleWorker}]
    BY <1>0, <1>1, <2>2, <2>3
  <2>5. accounts' \subseteq Names
    BY <1>2, <1>4, <2>1 DEF Call, TypeOK
  <2> QED
    BY <1>4, <2>4, <2>5 DEF Call, TypeOK
<1>5. CASE StoreProfile(w)
  BY <1>0, <1>1, <1>2, <1>5 DEF StoreProfile, TypeOK
<1>6. ASSUME NEW u \in JobUsers, PersistUser(w, u)
      PROVE  Typed'
  <2>1. Doc(worker[w].name, NoEmail, "employee", TRUE, TRUE) \in UserRecord
    BY <1>0, <1>2, <1>6, DocTyped DEF PersistUser, Roles
  <2>2. user' \in [Users -> UserRecord]
    BY <1>0, <1>6, <2>1 DEF PersistUser
  <2> QED
    BY <1>1, <1>6, <2>2 DEF PersistUser, TypeOK
<1>7. CASE RemoveFromDb(w)
  <2>1. user' \in [Users -> UserRecord]
    <3>1. CASE user' = user
      BY <1>0, <3>1
    <3>2. ASSUME NEW u \in Users, user' = [user EXCEPT ![u].phase = "deleted"]
          PROVE  user' \in [Users -> UserRecord]
      BY <1>0, <3>2, DocKept
    <3> QED
      BY <1>7, <3>1, <3>2 DEF RemoveFromDb, Namesakes, Live
  <2> QED
    BY <1>1, <1>7, <2>1 DEF RemoveFromDb, TypeOK
<1>8. CASE CallFails(w)
  BY <1>0, <1>1, <1>2, <1>8 DEF CallFails, TypeOK
<1>9. CASE JobLost(w)
  BY <1>1, <1>9 DEF JobLost, TypeOK
<1> QED
  BY <1>3, <1>4, <1>5, <1>6, <1>7, <1>8, <1>9 DEF Work

LEMMA InitTyped == Init => Typed
<1> SUFFICES ASSUME Init PROVE Typed
  OBVIOUS
<1>1. user \in [Users -> UserRecord]
  BY UsersAssumption DEF Init, Doc, UserRecord, Roles
<1>2. /\ token \in [Users -> Roles \cup {"none"}]
      /\ accounts \subseteq Names
      /\ profiles \subseteq Names
  BY UsersAssumption DEF Init, Roles
<1>3. posts \in 0 .. Requests
  BY LimitAssumption DEF Init
<1>4. thread = [h \in Handlers |-> IdleThread] /\ IdleThread.pc = "idle"
  BY DEF Init, IdleThread
<1>5. Shape
  BY <1>4 DEF Shape, At
<1>6. /\ thread \in [Handlers -> Task \cup {IdleThread}]
      /\ worker \in [Workers -> WorkerTask \cup {IdleWorker}]
      /\ queue \in Seq(Job)
      /\ deployment \in Deployments
  BY <1>4 DEF Init
<1> QED
  BY <1>1, <1>2, <1>3, <1>5, <1>6 DEF Typed, TypeOK

LEMMA NextTyped == Typed /\ [Next]_vars => Typed'
<1> SUFFICES ASSUME Typed, [Next]_vars PROVE Typed'
  OBVIOUS
<1>1. CASE Next
  BY <1>1, ArrivalTyped, RequestTyped, JobTyped DEF Next
<1>2. CASE UNCHANGED vars
  BY <1>2 DEF vars, Typed, TypeOK, Shape, At
<1> QED
  BY <1>1, <1>2

\* Every variable of OrgUsers keeps its type: the steps of a thread and the
\* record it carries agree in every interleaving.
THEOREM TypeCorrect == Spec => []TypeOK
<1>1. Typed => TypeOK
  BY DEF Typed
<1> QED
  BY <1>1, InitTyped, NextTyped, PTL DEF Spec

-----------------------------------------------------------------------------
(***************************************************************************)
(* The limit                                                               *)
(***************************************************************************)

\* Only threads that are started have a request, and the sets that are
\* counted are finite.
LEMMA Finite ==
    ASSUME Typed
    PROVE  /\ Inserting \subseteq deployment.handlers
           /\ IsFiniteSet(deployment.handlers) /\ deployment.handlers # {}
           /\ IsFiniteSet(Live) /\ Counted \subseteq Live
           /\ UserLimit \in Nat
<1>1. Inserting \subseteq deployment.handlers
  BY DEF Inserting, Typed, Shape, At
<1>2. deployment.handlers \subseteq Handlers /\ deployment.handlers # {}
  BY DeploymentAssumption DEF Typed, TypeOK, DeploymentType
<1>3. IsFiniteSet(deployment.handlers)
  BY <1>2, DeploymentAssumption, FS_Subset
<1>4. IsFiniteSet(Live)
  BY UsersAssumption, FS_Subset DEF Live
<1> QED
  BY <1>1, <1>2, <1>3, <1>4, LimitAssumption DEF Counted

\* Counting: a step that only shrinks both sets keeps the bound, and so do a
\* thread that passes the limit when there is room and one that inserts.
LEMMA Bound ==
    ASSUME NEW C, NEW I, NEW C1, NEW I1, NEW H, NEW L,
           IsFiniteSet(C), IsFiniteSet(H), IsFiniteSet(L), H # {},
           I \subseteq H, I1 \subseteq H, C \subseteq L, UserLimit \in Nat,
           Cardinality(C) + Cardinality(I) <= UserLimit + Cardinality(H) - 1,
           \/ C1 \subseteq C /\ I1 \subseteq I
           \/ C1 \subseteq C /\ Cardinality(L) + 1 <= UserLimit
           \/ \E c : \E h \in I : C1 \subseteq C \cup {c} /\ I1 \subseteq I \ {h}
    PROVE  Cardinality(C1) + Cardinality(I1) <= UserLimit + Cardinality(H) - 1
<1>1. /\ IsFiniteSet(I) /\ IsFiniteSet(I1)
      /\ Cardinality(I1) <= Cardinality(H)
      /\ Cardinality(C) <= Cardinality(L)
  BY FS_Subset
<1>2. /\ Cardinality(C) \in Nat /\ Cardinality(H) \in Nat
      /\ Cardinality(L) \in Nat /\ Cardinality(I) \in Nat
      /\ Cardinality(I1) \in Nat
  BY <1>1, FS_CardinalityType
<1>3. CASE C1 \subseteq C /\ I1 \subseteq I
  <2>1. /\ IsFiniteSet(C1)
        /\ Cardinality(C1) <= Cardinality(C)
        /\ Cardinality(I1) <= Cardinality(I)
    BY <1>1, <1>3, FS_Subset
  <2>2. Cardinality(C1) \in Nat
    BY <2>1, FS_CardinalityType
  <2> QED
    BY <1>2, <2>1, <2>2
<1>4. CASE C1 \subseteq C /\ Cardinality(L) + 1 <= UserLimit
  <2>1. IsFiniteSet(C1) /\ Cardinality(C1) <= Cardinality(C)
    BY <1>4, FS_Subset
  <2>2. Cardinality(C1) \in Nat
    BY <2>1, FS_CardinalityType
  <2> QED
    BY <1>1, <1>2, <1>4, <2>1, <2>2
<1>5. ASSUME NEW c, NEW h \in I, C1 \subseteq C \cup {c}, I1 \subseteq I \ {h}
      PROVE  Cardinality(C1) + Cardinality(I1)
                <= UserLimit + Cardinality(H) - 1
  <2>1. /\ IsFiniteSet(C \cup {c})
        /\ Cardinality(C \cup {c}) \in {Cardinality(C), Cardinality(C) + 1}
    BY FS_AddElement
  <2>2. IsFiniteSet(C1) /\ Cardinality(C1) <= Cardinality(C \cup {c})
    BY <1>5, <2>1, FS_Subset
  <2>3. /\ IsFiniteSet(I \ {h})
        /\ Cardinality(I \ {h}) = Cardinality(I) - 1
    BY <1>1, <1>5, FS_RemoveElement
  <2>4. Cardinality(I1) <= Cardinality(I \ {h})
    BY <1>5, <2>3, FS_Subset
  <2>5. Cardinality(C1) \in Nat
    BY <2>2, FS_CardinalityType
  <2> QED
    BY <1>2, <2>1, <2>2, <2>3, <2>4, <2>5
<1> QED
  BY <1>3, <1>4, <1>5

\* What every step does to the two sets.
LEMMA CountStep ==
    ASSUME Typed, [Next]_vars
    PROVE  /\ deployment' = deployment
           /\ \/ Counted' \subseteq Counted /\ Inserting' \subseteq Inserting
              \/ Counted' \subseteq Counted /\ Cardinality(Live) + 1 <= UserLimit
              \/ \E c : \E h \in Inserting :
                    /\ Counted' \subseteq Counted \cup {c}
                    /\ Inserting' \subseteq Inserting \ {h}
<1>0. /\ user \in [Users -> UserRecord]
      /\ thread \in Threads
  BY DEF Typed, TypeOK, Threads
<1>1. user' = user => Counted' = Counted
  BY DEF Counted, Live
<1>2. thread' = thread => Inserting' = Inserting
  BY DEF Inserting, At
<1>3. ASSUME NEW u \in Users, user' = [user EXCEPT ![u].phase = "deleted"]
      PROVE  Counted' \subseteq Counted
  <2>1. \A v \in Users : /\ user'[v].byJob = user[v].byJob
                         /\ user'[v].phase = "live" => user[v].phase = "live"
    BY <1>0, <1>3 DEF UserRecord
  <2> QED
    BY <2>1 DEF Counted, Live
<1>4. ASSUME NEW h \in Handlers, ~At(h, "idle"),
             Answer(h) \/ \E pc \in ThreadSteps \ {"insert"} : Goto(h, pc)
      PROVE  Inserting' \subseteq Inserting \ {h}
  <2>1. /\ \A g \in Handlers : g # h => thread'[g] = thread[g]
        /\ thread'[h].pc # "insert"
    <3>1. CASE Answer(h)
      BY <1>0, <3>1, MoveTyped DEF IdleThread
    <3>2. ASSUME NEW pc \in ThreadSteps \ {"insert"}, Goto(h, pc)
          PROVE  /\ \A g \in Handlers : g # h => thread'[g] = thread[g]
                 /\ thread'[h].pc # "insert"
      <4>1. /\ thread[h] \in Task
            /\ thread'[h] = [thread[h] EXCEPT !.pc = pc]
            /\ \A g \in Handlers : g # h => thread'[g] = thread[g]
        BY <1>0, <1>4, <3>2, MoveTyped
      <4>2. thread'[h].pc = pc
        BY <4>1 DEF Task
      <4> QED
        BY <3>2, <4>1, <4>2
    <3> QED
      BY <1>4, <3>1, <3>2
  <2> QED
    BY <2>1 DEF Inserting, At
<1>5. ASSUME NEW h \in Handlers, NEW t, Post(h, t), t.pc # "insert"
      PROVE  Counted' \subseteq Counted /\ Inserting' \subseteq Inserting
  <2>1. \A g \in Handlers : thread'[g] = IF g = h THEN t ELSE thread[g]
    BY <1>0, <1>5 DEF Post, Threads
  <2> QED
    BY <1>1, <1>5, <2>1 DEF Inserting, At, Post, dbVars
<1>6. ASSUME NEW h \in Handlers, Request(h) \/ RequestLost(h)
      PROVE  \/ Counted' \subseteq Counted /\ Inserting' \subseteq Inserting
             \/ Counted' \subseteq Counted /\ Cardinality(Live) + 1 <= UserLimit
             \/ \E c : \E g \in Inserting :
                   /\ Counted' \subseteq Counted \cup {c}
                   /\ Inserting' \subseteq Inserting \ {g}
  <2>1. CASE Find(h)
    BY <1>1, <1>4, <2>1 DEF Find, At, dbVars, ThreadSteps
  <2>2. CASE CheckLimit(h)
    <3>1. UserLimit \in Nat /\ Cardinality(Live) \in Nat
      BY Finite, FS_CardinalityType
    <3>2. Counted' = Counted /\ ~At(h, "idle")
      BY <1>1, <2>2 DEF CheckLimit, At, dbVars
    <3>3. CASE Cardinality(Live) + 1 > UserLimit
      BY <1>4, <2>2, <3>2, <3>3 DEF CheckLimit
    <3>4. CASE ~(Cardinality(Live) + 1 > UserLimit)
      BY <3>1, <3>2, <3>4
    <3> QED
      BY <3>3, <3>4
  <2>3. CASE Insert(h)
    <3>1. h \in Inserting /\ ~At(h, "idle")
      BY <2>3 DEF Insert, Inserting, At
    <3>2. Inserting' \subseteq Inserting \ {h}
      BY <1>4, <2>3, <3>1 DEF Insert, ThreadSteps
    <3>3. Counted' \subseteq Counted \cup {thread[h].user}
      <4>1. \A v \in Users : v # thread[h].user => user'[v] = user[v]
        BY <1>0, <2>3 DEF Insert
      <4> QED
        BY <4>1 DEF Counted, Live
    <3> QED
      BY <3>1, <3>2, <3>3
  <2>4. CASE Load(h)
    BY <1>1, <1>4, <2>4 DEF Load, At, dbVars, ThreadSteps
  <2>5. CASE Write(h)
    <3>1. Inserting' \subseteq Inserting
      BY <1>4, <2>5 DEF Write, At
    <3>2. thread[h].edit \in Edits
      BY <2>5 DEF Write, At, Typed, Shape
    <3>3. thread[h].edit[1] \in {"role", "status", "name"}
      BY <3>2 DEF Edits
    <3>4. \A d \in UserRecord :
             /\ Edited(d, thread[h].edit).byJob = d.byJob
             /\ Edited(d, thread[h].edit).phase = d.phase
      BY <3>3 DEF Edited, UserRecord
    <3>5. \A v \in Users : user'[v].byJob = user[v].byJob /\ user'[v].phase = user[v].phase
      <4>1. \/ user' = user
            \/ user' = [user EXCEPT ![thread[h].user] =
                           Edited(user[thread[h].user], thread[h].edit)]
        BY <2>5 DEF Write
      <4> QED
        BY <1>0, <3>4, <4>1
    <3>6. Counted' = Counted
      BY <3>5 DEF Counted, Live
    <3> QED
      BY <3>1, <3>6
  <2>6. CASE Lookup(h)
    <3>1. \A g \in Handlers : g # h => thread'[g] = thread[g]
      BY <1>0, <2>6 DEF Lookup, Threads
    <3>2. thread'[h].pc = "before"
      <4>1. PICK n : thread' = [thread EXCEPT ![h].pc = "before", ![h].name = n]
        BY <2>6 DEF Lookup
      <4>2. thread[h] \in Task
        BY <1>0, <2>6, MoveTyped DEF Lookup, At
      <4> QED
        BY <1>0, <4>1, <4>2 DEF Task, Threads
    <3> QED
      BY <1>1, <2>6, <3>1, <3>2 DEF Lookup, Inserting, At, dbVars
  <2>7. CASE Before(h)
    BY <1>1, <1>4, <2>7 DEF Before, At, dbVars, ThreadSteps
  <2>8. CASE Quorum(h)
    BY <1>1, <1>4, <2>8 DEF Quorum, At, dbVars, ThreadSteps
  <2>9. CASE Delete(h)
    <3>1. Counted' \subseteq Counted
      BY <1>1, <1>3, <2>9 DEF Delete, Live
    <3>2. Inserting' \subseteq Inserting
      BY <1>4, <2>9 DEF Delete, At, ThreadSteps
    <3> QED
      BY <3>1, <3>2
  <2>10. CASE Enqueue(h)
    BY <1>1, <1>4, <2>10 DEF Enqueue, At, dbVars
  <2>11. CASE RequestLost(h)
    BY <1>1, <1>4, <2>11 DEF RequestLost, dbVars
  <2> QED
    BY <1>6, <2>1, <2>2, <2>3, <2>4, <2>5, <2>6, <2>7, <2>8, <2>9, <2>10, <2>11
       DEF Request
<1>7. ASSUME NEW w \in Workers,
             Take(w) \/ Work(w) \/ CallFails(w) \/ JobLost(w)
      PROVE  Counted' \subseteq Counted /\ Inserting' \subseteq Inserting
  <2>1. thread' = thread
    BY <1>7 DEF Take, Work, CallFails, JobLost, Call, StoreProfile,
                PersistUser, RemoveFromDb
  <2>2. CASE RemoveFromDb(w)
    <3>1. CASE user' = user
      BY <1>1, <1>2, <2>1, <3>1
    <3>2. CASE \E u \in Users : user' = [user EXCEPT ![u].phase = "deleted"]
      BY <1>2, <1>3, <2>1, <3>2
    <3> QED
      BY <2>2, <3>1, <3>2 DEF RemoveFromDb, Namesakes, Live
  <2>3. ASSUME NEW u \in JobUsers, PersistUser(w, u)
        PROVE  Counted' \subseteq Counted
    <3>1. u \in Users
      BY UsersAssumption
    <3>2. \A v \in Users : v # u => user'[v] = user[v]
      BY <1>0, <2>3 DEF PersistUser
    <3>3. user'[u].byJob
      BY <1>0, <2>3, <3>1 DEF PersistUser, Doc
    <3> QED
      BY <3>2, <3>3 DEF Counted, Live
  <2>4. CASE Take(w) \/ Call(w) \/ StoreProfile(w) \/ CallFails(w) \/ JobLost(w)
    <3>1. user' = user
      BY <2>4 DEF Take, Call, StoreProfile, CallFails, JobLost, dbVars
    <3> QED
      BY <1>1, <1>2, <2>1, <3>1
  <2> QED
    BY <1>2, <1>7, <2>1, <2>2, <2>3, <2>4 DEF Work
<1>8. ASSUME NEW h \in Handlers, NEW a \in Users,
             \/ \E p \in People, r \in Roles : PostCreate(h, a, p, r)
             \/ \E u \in Users, e \in Edits : PostUpdate(h, a, u, e)
             \/ \E u \in Users : PostDelete(h, a, u)
      PROVE  Counted' \subseteq Counted /\ Inserting' \subseteq Inserting
  <2>1. PICK t : Post(h, t) /\ t.pc # "insert"
    <3>1. CASE \E p \in People, r \in Roles : PostCreate(h, a, p, r)
      BY <3>1 DEF PostCreate
    <3>2. CASE \E u \in Users, e \in Edits : PostUpdate(h, a, u, e)
      BY <3>2 DEF PostUpdate
    <3>3. CASE \E u \in Users : PostDelete(h, a, u)
      BY <3>3 DEF PostDelete
    <3> QED
      BY <1>8, <3>1, <3>2, <3>3
  <2> QED
    BY <1>5, <2>1
<1>9. ASSUME \/ \E u \in Users : Login(u)
             \/ \E k \in JobKinds, n \in Names : PostTask(k, n)
             \/ UNCHANGED vars
      PROVE  Counted' \subseteq Counted /\ Inserting' \subseteq Inserting
  BY <1>1, <1>2, <1>9 DEF Login, PostTask, vars, dbVars
<1>10. deployment' = deployment
  BY DEF Next, vars, Login, PostCreate, PostUpdate, PostDelete, Post, PostTask,
         Request, Find, CheckLimit, Insert, Load, Write, Lookup, Before,
         Quorum, Delete, Enqueue, RequestLost, Work, Take, Call, StoreProfile,
         PersistUser, RemoveFromDb, CallFails, JobLost
<1>11. CASE Next
  BY <1>6, <1>7, <1>8, <1>9, <1>10, <1>11 DEF Next
<1> QED
  BY <1>9, <1>10, <1>11

\* However requests, jobs, failures and losses interleave, the organisation
\* never has more counted documents than its limit and one for every further
\* thread: the exact price of counting before inserting.
THEOREM LimitKept == Spec => []UsersWithinLimit
<1>1. Init => UsersWithinLimit
  <2> SUFFICES ASSUME Init PROVE UsersWithinLimit
    OBVIOUS
  <2>0. Typed
    BY InitTyped
  <2>1. Inserting = {}
    BY DEF Init, Inserting, At, IdleThread
  <2>2. Counted \subseteq Founders
    BY DEF Init, Counted, Live
  <2>3. IsFiniteSet(Founders)
    BY UsersAssumption, FS_Subset
  <2>4. /\ Cardinality(Counted) <= Cardinality(Founders)
        /\ IsFiniteSet(Counted)
    BY <2>2, <2>3, FS_Subset
  <2>5. Cardinality(deployment.handlers) \in Nat /\ Cardinality(deployment.handlers) # 0
    BY <2>0, Finite, FS_CardinalityType, FS_EmptySet
  <2>6. Cardinality(Counted) \in Nat /\ Cardinality(Founders) \in Nat
    BY <2>3, <2>4, FS_CardinalityType
  <2>7. Cardinality(Inserting) = 0
    BY <2>1, FS_EmptySet
  <2> QED
    BY <2>4, <2>5, <2>6, <2>7, LimitAssumption DEF UsersWithinLimit
<1>2. Typed /\ UsersWithinLimit /\ [Next]_vars => UsersWithinLimit'
  <2> SUFFICES ASSUME Typed, UsersWithinLimit, [Next]_vars
               PROVE  UsersWithinLimit'
    OBVIOUS
  <2>1. Typed'
    BY NextTyped
  <2>2. deployment' = deployment /\ Inserting' \subseteq deployment.handlers
    <3>1. deployment' = deployment
      BY CountStep
    <3> QED
      BY <2>1, <3>1 DEF Inserting, Typed, Shape, At
  <2>3. IsFiniteSet(Counted)
    BY Finite, FS_Subset
  <2> QED
    BY <2>2, <2>3, Bound, CountStep, Finite DEF UsersWithinLimit
<1> QED
  BY <1>1, <1>2, InitTyped, NextTyped, PTL DEF Spec

-----------------------------------------------------------------------------
(***************************************************************************)
(* The line of jobs to the domain controller, and where it leads           *)
(***************************************************************************)

\* A job of kind k for the name n is in the line L.
Awaits(L, k, n) == \E i \in 1..Len(L) : L[i].kind = k /\ L[i].name = n

\* A name has at most an account to be made and then to be removed.
InTurn(L) ==
    \A i, j \in 1..Len(L) :
        i < j /\ L[i].name = L[j].name => L[i].kind = "add" /\ L[j].kind = "remove"

\* One more job.
LEMMA LineGrows ==
    ASSUME NEW L \in Seq(Job), NEW j \in Job, InTurn(L),
           \A k \in JobKinds :
              Awaits(L, k, j.name) => k = "add" /\ j.kind = "remove"
    PROVE  /\ InTurn(Append(L, j))
           /\ \A k \in JobKinds, n \in Names :
                 Awaits(Append(L, j), k, n)
                    <=> Awaits(L, k, n) \/ (k = j.kind /\ n = j.name)
<1> DEFINE M == Append(L, j)
<1>1. /\ Len(L) \in Nat /\ Len(M) = Len(L) + 1
      /\ \A i \in 1..Len(L) : M[i] = L[i] /\ L[i] \in Job
      /\ M[Len(L) + 1] = j
  BY AppendProperties, LenProperties
<1> HIDE DEF M
<1>2. \A i \in 1..Len(L) : L[i].name = j.name => L[i].kind = "add" /\ j.kind = "remove"
  BY <1>1 DEF Awaits, Job, JobKinds
<1>3. InTurn(M)
  <2> SUFFICES ASSUME NEW i \in 1..Len(M), NEW l \in 1..Len(M), i < l,
                      M[i].name = M[l].name
               PROVE  M[i].kind = "add" /\ M[l].kind = "remove"
    BY DEF InTurn
  <2>1. i \in 1..Len(L)
    BY <1>1
  <2>2. CASE l \in 1..Len(L)
    BY <1>1, <2>1, <2>2 DEF InTurn
  <2>3. CASE l = Len(L) + 1
    BY <1>1, <1>2, <2>1, <2>3
  <2> QED
    BY <1>1, <2>2, <2>3
<1>4. ASSUME NEW k, NEW n
      PROVE  Awaits(M, k, n) <=> Awaits(L, k, n) \/ (k = j.kind /\ n = j.name)
  <2>1. \A i \in 1..Len(M) : i \in 1..Len(L) \/ i = Len(L) + 1
    BY <1>1
  <2>2. \A i \in 1..Len(L) : i \in 1..Len(M)
    BY <1>1
  <2>3. Len(L) + 1 \in 1..Len(M)
    BY <1>1
  <2> QED
    BY <1>1, <2>1, <2>2, <2>3 DEF Awaits
<1> QED
  BY <1>3, <1>4 DEF M

\* One job less.
LEMMA LineShrinks ==
    ASSUME NEW L \in Seq(Job), NEW j \in Job, InTurn(<<j>> \o L)
    PROVE  /\ InTurn(L)
           /\ \A k \in JobKinds, n \in Names :
                 Awaits(<<j>> \o L, k, n)
                    <=> Awaits(L, k, n) \/ (k = j.kind /\ n = j.name)
           /\ ~Awaits(L, "add", j.name)
           /\ Awaits(L, "remove", j.name) => j.kind = "add"
<1> DEFINE M == <<j>> \o L
<1>1. Len(L) \in Nat /\ <<j>> \in Seq(Job) /\ Len(<<j>>) = 1
  BY LenProperties
<1>2. Len(M) = 1 + Len(L)
  BY <1>1, ConcatProperties
<1>3. M[1] = j
  BY <1>1, ConcatProperties
<1>4. ASSUME NEW i \in 1..Len(L)
      PROVE  /\ M[i + 1] = L[i] /\ i + 1 \in 1..Len(M)
             /\ 1 < i + 1 /\ 1 \in 1..Len(M)
  <2>1. i + 1 \in 1 .. Len(<<j>>) + Len(L) /\ ~(i + 1 <= Len(<<j>>))
    BY <1>1
  <2>2. M[i + 1] = L[i + 1 - Len(<<j>>)]
    BY <1>1, <2>1, ConcatProperties
  <2> QED
    BY <1>1, <1>2, <2>2
<1> HIDE DEF M
<1>5. InTurn(M)
  BY DEF M
<1>6. InTurn(L)
  <2> SUFFICES ASSUME NEW i \in 1..Len(L), NEW l \in 1..Len(L), i < l,
                      L[i].name = L[l].name
               PROVE  L[i].kind = "add" /\ L[l].kind = "remove"
    BY DEF InTurn
  <2>1. i + 1 < l + 1
    OBVIOUS
  <2> QED
    BY <1>4, <1>5, <2>1 DEF InTurn
<1>7. ASSUME NEW i \in 1..Len(L), L[i].name = j.name
      PROVE  j.kind = "add" /\ L[i].kind = "remove"
  BY <1>3, <1>4, <1>5, <1>7 DEF InTurn
<1>8. ASSUME NEW k, NEW n
      PROVE  Awaits(M, k, n) <=> Awaits(L, k, n) \/ (k = j.kind /\ n = j.name)
  <2>1. ASSUME NEW i \in 1..Len(M)
        PROVE  i = 1 \/ \E l \in 1..Len(L) : i = l + 1
    <3>1. i = 1 \/ (i - 1 \in 1..Len(L) /\ i = (i - 1) + 1)
      BY <1>1, <1>2
    <3> QED
      BY <3>1
  <2>2. 1 \in 1..Len(M)
    BY <1>1, <1>2
  <2>3. ASSUME Awaits(M, k, n)
        PROVE  Awaits(L, k, n) \/ (k = j.kind /\ n = j.name)
    <3>1. PICK i \in 1..Len(M) : M[i].kind = k /\ M[i].name = n
      BY <2>3 DEF Awaits
    <3>2. CASE i = 1
      BY <1>3, <3>1, <3>2
    <3>3. ASSUME NEW l \in 1..Len(L), i = l + 1
          PROVE  Awaits(L, k, n)
      BY <1>4, <3>1, <3>3 DEF Awaits
    <3> QED
      BY <2>1, <3>2, <3>3
  <2>4. ASSUME NEW i \in 1..Len(L), L[i].kind = k, L[i].name = n
        PROVE  Awaits(M, k, n)
    BY <1>4, <2>4 DEF Awaits
  <2>5. k = j.kind /\ n = j.name => Awaits(M, k, n)
    BY <1>3, <2>2 DEF Awaits
  <2> QED
    BY <2>3, <2>4, <2>5 DEF Awaits
<1>9. /\ ~Awaits(L, "add", j.name)
      /\ Awaits(L, "remove", j.name) => j.kind = "add"
  BY <1>7 DEF Awaits
<1> QED
  BY <1>6, <1>8, <1>9 DEF M

\* Moving a job along does not change the line.
LEMMA LineStays ==
    ASSUME NEW q \in Seq(Job), NEW b \in Seq(Job), NEW j \in Job
    PROVE  /\ q # <<>> => <<Head(q)>> \o Tail(q) \o b = <<>> \o q \o b
           /\ b \o Append(q, j) \o <<>> = b \o q \o <<j>>
           /\ Append(b \o q \o <<>>, j) = b \o q \o <<j>>
           /\ <<j>> \o q \o b = <<j>> \o (q \o b)
           /\ <<>> \o q \o b = q \o b
<1>0. <<>> \in Seq(Job) /\ <<j>> \in Seq(Job)
  OBVIOUS
<1>1. ASSUME q # <<>>
      PROVE  <<Head(q)>> \o Tail(q) \o b = <<>> \o q \o b
  <2>1. <<Head(q)>> \o Tail(q) = q
    <3>1. /\ Head(q) \in Job /\ Tail(q) \in Seq(Job) /\ Head(q) = q[1]
          /\ Len(Tail(q)) = Len(q) - 1
          /\ \A i \in 1..Len(Tail(q)) : Tail(q)[i] = q[i + 1]
      BY <1>1, HeadTailProperties
    <3>2. <<Head(q)>> \in Seq(Job) /\ Len(<<Head(q)>>) = 1 /\ <<Head(q)>>[1] = q[1]
      BY <3>1
    <3>3. Len(q) \in Nat \ {0}
      BY <1>1, EmptySeq
    <3>4. /\ <<Head(q)>> \o Tail(q) \in Seq(Job)
          /\ Len(<<Head(q)>> \o Tail(q)) = 1 + Len(Tail(q))
          /\ \A i \in 1 .. 1 + Len(Tail(q)) :
                (<<Head(q)>> \o Tail(q))[i] =
                   IF i <= 1 THEN <<Head(q)>>[i] ELSE Tail(q)[i - 1]
      BY <3>1, <3>2, ConcatProperties
    <3>5. ASSUME NEW i \in 1..Len(q)
          PROVE  (<<Head(q)>> \o Tail(q))[i] = q[i]
      <4>1. i = 1 \/ (~(i <= 1) /\ i - 1 \in 1..Len(Tail(q)) /\ (i - 1) + 1 = i)
        BY <3>1, <3>3
      <4>2. i \in 1 .. 1 + Len(Tail(q))
        BY <3>1, <3>3
      <4> QED
        BY <3>1, <3>2, <3>4, <4>1, <4>2
    <3>6. Len(<<Head(q)>> \o Tail(q)) = Len(q)
      BY <3>1, <3>3, <3>4
    <3> QED
      BY <3>4, <3>5, <3>6, SeqEqual
  <2>2. <<>> \o q = q
    BY ConcatEmptySeq
  <2> QED
    BY <2>1, <2>2
<1>2. Append(q, j) = q \o <<j>> /\ Append(q, j) \in Seq(Job)
  BY AppendIsConcat, AppendProperties
<1>3. b \o q \in Seq(Job) /\ b \o Append(q, j) \in Seq(Job)
  BY <1>2, ConcatProperties
<1>4. b \o Append(q, j) \o <<>> = b \o q \o <<j>>
  <2>1. b \o Append(q, j) \o <<>> = b \o Append(q, j)
    BY <1>3, ConcatEmptySeq
  <2>2. b \o (q \o <<j>>) = b \o q \o <<j>>
    BY <1>0, ConcatAssociative
  <2> QED
    BY <1>2, <2>1, <2>2
<1>5. Append(b \o q \o <<>>, j) = b \o q \o <<j>>
  <2>1. b \o q \o <<>> = b \o q
    BY <1>3, ConcatEmptySeq
  <2>2. Append(b \o q, j) = (b \o q) \o <<j>>
    BY <1>3, AppendIsConcat
  <2> QED
    BY <2>1, <2>2
<1>6. <<j>> \o q \o b = <<j>> \o (q \o b)
  BY <1>0, ConcatAssociative
<1>7. <<>> \o q \o b = q \o b
  BY ConcatEmptySeq
<1> QED
  BY <1>1, <1>4, <1>5, <1>6, <1>7

\* Of the documents us: a user who was promised an account, any, a deleted one.
Promised(us, n) ==
    \E v \in Users : us[v].phase = "live" /\ us[v].stored /\ us[v].name = n
Known(us, n) == \E v \in Users : us[v].name = n
Deleted(us, n) == \E v \in Users : us[v].phase = "deleted" /\ us[v].name = n
Distinct(us) ==
    \A u, v \in Users : u # v /\ us[u].name # NoName => us[u].name # us[v].name

\* Once the jobs of the line are executed, the accounts are those promised.
Matching(us, acc, L) ==
    /\ InTurn(L)
    /\ \A n \in Names :
          /\ Promised(us, n) <=> /\ n \in acc \/ Awaits(L, "add", n)
                                 /\ ~Awaits(L, "remove", n)
          /\ ~(n \in acc /\ Awaits(L, "add", n))
          /\ n \in acc \/ Awaits(L, "add", n) => Known(us, n)
          /\ Awaits(L, "remove", n) => Deleted(us, n)
          /\ ~Awaits(L, "addgroup", n)

\* What a new document does: its name is nobody else's.
LEMMA MatchCreate ==
    ASSUME NEW us \in [Users -> UserRecord], NEW acc, NEW L \in Seq(Job),
           Matching(us, acc, L),
           NEW u \in Users, us[u].phase = "unborn", us[u].name = NoName,
           NEW d \in UserRecord, d.phase = "live", d.name \in Names,
           NEW new, new = [us EXCEPT ![u] = d], Distinct(new),
           NEW j \in Job, j.kind = "add", j.name = d.name
    PROVE  /\ d.stored => Matching(new, acc, Append(L, j))
           /\ ~d.stored => Matching(new, acc, L)
<1>1. /\ new[u] = d /\ \A v \in Users : v # u => new[v] = us[v]
  OBVIOUS
<1>2. NoName \notin Names
  BY UsersAssumption
<1>3. ~Known(us, d.name)
  BY <1>1, <1>2 DEF Known, Distinct
<1>4. ~Deleted(us, d.name) /\ ~Promised(us, d.name)
  BY <1>3 DEF Known, Deleted, Promised
<1>5. \A k \in JobKinds : ~Awaits(L, k, d.name)
  BY <1>3, <1>4 DEF Matching, JobKinds
<1>6. d.name \notin acc
  BY <1>3 DEF Matching
<1>7. ASSUME NEW n \in Names
      PROVE  /\ Known(new, n) <=> Known(us, n) \/ n = d.name
             /\ Deleted(new, n) <=> Deleted(us, n)
             /\ Promised(new, n) <=> Promised(us, n) \/ (d.stored /\ n = d.name)
  <2>1. Known(new, n) <=> Known(us, n) \/ n = d.name
    BY <1>1, <1>2 DEF Known
  <2>2. Deleted(new, n) <=> Deleted(us, n)
    BY <1>1 DEF Deleted
  <2>3. Promised(new, n) <=> Promised(us, n) \/ (d.stored /\ n = d.name)
    BY <1>1 DEF Promised
  <2> QED
    BY <2>1, <2>2, <2>3
<1>8. ~d.stored => Matching(new, acc, L)
  BY <1>7 DEF Matching
<1>9. ASSUME d.stored PROVE Matching(new, acc, Append(L, j))
  <2> DEFINE M == Append(L, j)
  <2>1. /\ InTurn(M)
        /\ \A k \in JobKinds, n \in Names :
              Awaits(M, k, n) <=> Awaits(L, k, n) \/ (k = j.kind /\ n = j.name)
    BY <1>5, LineGrows DEF Matching
  <2> HIDE DEF M
  <2>2. \A n \in Names :
           /\ Awaits(M, "add", n) <=> Awaits(L, "add", n) \/ n = d.name
           /\ Awaits(M, "remove", n) <=> Awaits(L, "remove", n)
           /\ Awaits(M, "addgroup", n) <=> Awaits(L, "addgroup", n)
    BY <2>1 DEF JobKinds
  <2>3. /\ ~Awaits(L, "remove", d.name)
        /\ ~Awaits(L, "add", d.name)
    BY <1>5 DEF JobKinds
  <2>4. Matching(new, acc, M)
    BY <1>6, <1>7, <1>9, <2>1, <2>2, <2>3 DEF Matching
  <2> QED
    BY <2>4 DEF M
<1> QED
  BY <1>8, <1>9

\* What deleting one does, and the job that is queued for it.
LEMMA MatchDelete ==
    ASSUME NEW us \in [Users -> UserRecord], NEW acc, NEW L \in Seq(Job),
           Matching(us, acc, L), Distinct(us),
           NEW u \in Users, us[u].phase = "live", us[u].name \in Names,
           NEW new, new = [us EXCEPT ![u].phase = "deleted"],
           NEW j \in Job, j.kind = "remove", j.name = us[u].name
    PROVE  Matching(new, acc, Append(L, j))
<1>1. /\ new[u].phase = "deleted" /\ new[u].name = us[u].name
      /\ \A v \in Users : v # u => new[v] = us[v]
  BY DEF UserRecord
<1>2. NoName \notin Names
  BY UsersAssumption
<1>3. ~Deleted(us, j.name) /\ (Promised(us, j.name) <=> us[u].stored)
  BY <1>2 DEF Deleted, Promised, Distinct
<1>4. ~Awaits(L, "remove", j.name) /\ ~Awaits(L, "addgroup", j.name)
  BY <1>3 DEF Matching
<1>5. ASSUME NEW n \in Names
      PROVE  /\ Known(new, n) <=> Known(us, n)
             /\ Deleted(new, n) <=> Deleted(us, n) \/ n = j.name
             /\ Promised(new, n) <=> Promised(us, n) /\ n # j.name
  <2>1. Known(new, n) <=> Known(us, n)
    BY <1>1 DEF Known
  <2>2. Deleted(new, n) <=> Deleted(us, n) \/ n = j.name
    BY <1>1 DEF Deleted
  <2>3. Promised(new, n) <=> Promised(us, n) /\ n # j.name
    BY <1>1, <1>2 DEF Promised, Distinct
  <2> QED
    BY <2>1, <2>2, <2>3
<1> DEFINE M == Append(L, j)
<1>6. /\ InTurn(M)
      /\ \A k \in JobKinds, n \in Names :
            Awaits(M, k, n) <=> Awaits(L, k, n) \/ (k = j.kind /\ n = j.name)
  BY <1>4, LineGrows DEF Matching, JobKinds
<1> HIDE DEF M
<1>7. \A n \in Names :
         /\ Awaits(M, "add", n) <=> Awaits(L, "add", n)
         /\ Awaits(M, "remove", n) <=> Awaits(L, "remove", n) \/ n = j.name
         /\ Awaits(M, "addgroup", n) <=> Awaits(L, "addgroup", n)
  BY <1>6 DEF JobKinds
<1>8. Matching(new, acc, M)
  BY <1>5, <1>6, <1>7 DEF Matching
<1> QED
  BY <1>8 DEF M

\* What the domain controller makes of the first job of the line.
LEMMA MatchCall ==
    ASSUME NEW us, NEW acc, NEW L \in Seq(Job), NEW j \in Job,
           Matching(us, acc, <<j>> \o L)
    PROVE  /\ j.kind \in {"add", "remove"}
           /\ j.kind = "add" => /\ j.name \notin acc
                                /\ Matching(us, acc \cup {j.name}, L)
           /\ j.kind = "remove" => Matching(us, acc \ {j.name}, L)
<1> DEFINE M == <<j>> \o L
<1>1. /\ InTurn(L)
      /\ \A k \in JobKinds, n \in Names :
            Awaits(M, k, n) <=> Awaits(L, k, n) \/ (k = j.kind /\ n = j.name)
      /\ ~Awaits(L, "add", j.name)
      /\ Awaits(L, "remove", j.name) => j.kind = "add"
  BY LineShrinks DEF Matching
<1> HIDE DEF M
<1>2. Matching(us, acc, M)
  BY DEF M
<1>3. j.name \in Names /\ j.kind \in JobKinds
  BY DEF Job
<1>4. j.kind \in {"add", "remove"}
  BY <1>1, <1>2, <1>3 DEF Matching, JobKinds
<1>5. \A n \in Names :
         /\ Awaits(M, "add", n) <=> Awaits(L, "add", n) \/ (j.kind = "add" /\ n = j.name)
         /\ Awaits(M, "remove", n) <=> Awaits(L, "remove", n) \/ (j.kind = "remove" /\ n = j.name)
         /\ Awaits(M, "addgroup", n) <=> Awaits(L, "addgroup", n)
  BY <1>1, <1>4 DEF JobKinds
<1>6. ASSUME j.kind = "add"
      PROVE  j.name \notin acc /\ Matching(us, acc \cup {j.name}, L)
  <2>1. j.name \notin acc
    BY <1>2, <1>3, <1>5, <1>6 DEF Matching
  <2> QED
    BY <1>1, <1>2, <1>5, <1>6, <2>1 DEF Matching
<1>7. ASSUME j.kind = "remove"
      PROVE  Matching(us, acc \ {j.name}, L)
  BY <1>1, <1>2, <1>5, <1>7 DEF Matching
<1> QED
  BY <1>4, <1>6, <1>7

-----------------------------------------------------------------------------
(***************************************************************************)
(* Accounts and administrators, when nothing is edited or overlaps         *)
(***************************************************************************)

\* Nothing is edited and nothing overlaps.
Plain == Serial /\ ~deployment.open

\* A document has a name once it was inserted.
DocsNamed == \A u \in Users : user[u].phase = "unborn" <=> user[u].name = NoName

\* A thread inserts a new document, and knows the name of the one it deletes.
Knows(h) ==
    /\ thread[h].pc \in {"find", "limit", "insert"} =>
          /\ thread[h].kind \in {"create", "import"}
          /\ user[thread[h].user].phase = "unborn"
    /\ thread[h].pc \in {"lookup", "before", "quorum", "delete"} =>
          thread[h].kind = "delete"
    /\ thread[h].pc \in {"before", "quorum", "delete"} =>
          (user[thread[h].user].phase = "live" =>
             /\ thread[h].name \in {NoName, user[thread[h].user].name}
             /\ ~deployment.faults => thread[h].name # NoName)
    /\ At(h, "enqueue") =>
          /\ thread[h].kind \in {"create", "delete"}
          /\ thread[h].kind = "delete" => Deleted(user, thread[h].name)
    /\ thread[h].pc \notin {"load", "write"}

\* A job adds an account, or removes that of a user who was deleted.
JobKnows(kind, name) ==
    kind \in {"add", "remove"} /\ (kind = "remove" => Deleted(user, name))

AllKnow ==
    /\ DocsNamed
    /\ \A h \in Handlers : Knows(h)
    /\ \A i \in 1..Len(queue) : JobKnows(queue[i].kind, queue[i].name)
    /\ \A w \in Workers :
          worker[w].pc # "idle" => /\ w \in deployment.workers
                                   /\ JobKnows(worker[w].kind, worker[w].name)

\* Who is deleted last is not the last administrator.
Remaining ==
    /\ LiveAdmins # {}
    /\ \A h \in Handlers : At(h, "delete") => LiveAdmins \ {thread[h].user} # {}

\* The jobs that have yet to reach the domain controller: that of the worker,
\* the queue, that of the thread.
JobOf(h) == [kind |-> IF thread[h].kind = "create" THEN "add" ELSE "remove",
             name |-> thread[h].name]
CallOf(w) == [kind |-> worker[w].kind, name |-> worker[w].name]
Line(h, w) ==
    (IF worker[w].pc = "call" THEN <<CallOf(w)>> ELSE <<>>) \o queue
        \o (IF At(h, "enqueue") THEN <<JobOf(h)>> ELSE <<>>)

LineMatches ==
    \A h \in deployment.handlers, w \in deployment.workers :
        Matching(user, accounts, Line(h, w))

PlainInv ==
    /\ AllKnow
    /\ NamesDistinct => Remaining
    /\ NamesDistinct /\ ~deployment.faults => LineMatches

OrgInv == Typed /\ (Plain => PlainInv)

\* Then there is one thread and one worker, and the others do nothing.
LEMMA OneEach ==
    ASSUME Typed, Plain
    PROVE  /\ deployment.handlers \subseteq Handlers
           /\ deployment.workers \subseteq Workers
           /\ \A g, h \in deployment.handlers : g = h
           /\ \A w, x \in deployment.workers : w = x
           /\ \A g, h \in Handlers :
                 g # h /\ (h \in deployment.handlers \/ ~At(h, "idle")) =>
                    thread[g].pc = "idle"
<1>1. /\ deployment.handlers \subseteq Handlers
      /\ deployment.workers \subseteq Workers
  BY DeploymentAssumption DEF Typed, TypeOK, DeploymentType
<1>2. IsFiniteSet(deployment.handlers) /\ IsFiniteSet(deployment.workers)
  BY <1>1, DeploymentAssumption, FS_Subset
<1>3. /\ \E h : deployment.handlers = {h}
      /\ \E w : deployment.workers = {w}
  BY <1>2, FS_Singleton DEF Plain, Serial
<1>4. \A h \in Handlers : ~At(h, "idle") => h \in deployment.handlers
  BY DEF Typed, Shape
<1> QED
  BY <1>1, <1>3, <1>4 DEF At

\* What is in the line are jobs.
LEMMA LineTyped ==
    ASSUME Typed, NEW h \in Handlers, NEW w \in Workers
    PROVE  /\ At(h, "enqueue") => thread[h] \in Task /\ JobOf(h) \in Job
           /\ worker[w].pc # "idle" => worker[w] \in WorkerTask /\ CallOf(w) \in Job
           /\ queue \in Seq(Job)
           /\ Line(h, w) \in Seq(Job)
<1>1. At(h, "enqueue") => thread[h] \in Task /\ JobOf(h) \in Job
  BY DEF Typed, TypeOK, Shape, At, IdleThread, JobOf, Job, JobKinds
<1>2. worker[w].pc # "idle" => worker[w] \in WorkerTask
  BY DEF Typed, TypeOK, IdleWorker
<1>3. worker[w].pc # "idle" => CallOf(w) \in Job
  BY <1>2 DEF WorkerTask, CallOf, Job
<1>4. queue \in Seq(Job)
  BY DEF Typed, TypeOK
<1> DEFINE a == IF worker[w].pc = "call" THEN <<CallOf(w)>> ELSE <<>>
           b == IF At(h, "enqueue") THEN <<JobOf(h)>> ELSE <<>>
<1>5. a \in Seq(Job) /\ b \in Seq(Job)
  <2>1. CASE worker[w].pc = "call" /\ At(h, "enqueue")
    BY <1>1, <1>3, <2>1
  <2>2. CASE worker[w].pc # "call" /\ At(h, "enqueue")
    BY <1>1, <2>2
  <2>3. CASE worker[w].pc = "call" /\ ~At(h, "enqueue")
    BY <1>3, <2>3
  <2>4. CASE worker[w].pc # "call" /\ ~At(h, "enqueue")
    BY <2>4
  <2> QED
    BY <2>1, <2>2, <2>3, <2>4
<1>6. Line(h, w) = a \o queue \o b
  BY DEF Line
<1> HIDE DEF a, b
<1>7. Line(h, w) \in Seq(Job)
  BY <1>4, <1>5, <1>6, ConcatProperties
<1> QED
  BY <1>1, <1>2, <1>3, <1>4, <1>7

\* A step that inserts into an unused document, or deletes one: who was deleted
\* stays so, and whoever has a name keeps it.
LEMMA NamesGrow ==
    ASSUME Typed, Typed', DocsNamed,
           \A v \in Users : user[v].phase # "unborn" =>
              /\ user'[v].name = user[v].name
              /\ user[v].phase = "deleted" => user'[v].phase = "deleted"
    PROVE  /\ NamesDistinct' => NamesDistinct
           /\ \A n \in Names : Deleted(user, n) => Deleted(user', n)
<1>1. NamesDistinct' => NamesDistinct
  BY DEF NamesDistinct, DocsNamed
<1>2. \A n \in Names : Deleted(user, n) => Deleted(user', n)
  BY DEF Deleted
<1> QED
  BY <1>1, <1>2

\* A step that changes nothing these speak of.
LEMMA AllAlone ==
    ASSUME PlainInv, UNCHANGED <<deployment, user, accounts, thread, queue, worker>>
    PROVE  PlainInv'
<1>1. AllKnow'
  BY DEF PlainInv, AllKnow, DocsNamed, Knows, JobKnows, At
<1>2. (NamesDistinct => Remaining)'
  BY DEF PlainInv, NamesDistinct, Remaining, LiveAdmins, Live, At
<1>3. LineMatches => LineMatches'
  BY DEF LineMatches, Line, CallOf, JobOf, At
<1> QED
  BY <1>1, <1>2, <1>3 DEF PlainInv, NamesDistinct

\* A thread that moves, and has no job to queue before or after.
LEMMA ThreadMoves ==
    ASSUME Typed, Typed', Plain, PlainInv, NEW h \in Handlers,
           UNCHANGED <<deployment, user, accounts, queue, worker>>,
           \A g \in Handlers : g # h => thread'[g] = thread[g],
           ~At(h, "enqueue"), thread'[h].pc # "enqueue", Knows(h)',
           NamesDistinct /\ thread'[h].pc = "delete" =>
              LiveAdmins \ {thread'[h].user} # {}
    PROVE  PlainInv'
<1>1. AllKnow'
  <2>1. \A g \in Handlers : g # h => Knows(g)'
    BY DEF PlainInv, AllKnow, Knows, At
  <2> QED
    BY <2>1 DEF PlainInv, AllKnow, DocsNamed, JobKnows
<1>2. (NamesDistinct => Remaining)'
  BY DEF PlainInv, NamesDistinct, Remaining, LiveAdmins, Live, At
<1>3. LineMatches => LineMatches'
  <2> SUFFICES ASSUME LineMatches, NEW g \in deployment.handlers,
                      NEW w \in deployment.workers
               PROVE  Matching(user', accounts', Line(g, w)')
    BY DEF LineMatches
  <2>1. g \in Handlers /\ w \in Workers
    BY OneEach
  <2>2. At(g, "enqueue")' <=> At(g, "enqueue")
    BY <2>1 DEF At
  <2>3. At(g, "enqueue") => g # h
    OBVIOUS
  <2>4. Line(g, w)' = Line(g, w)
    BY <2>1, <2>2, <2>3 DEF Line, CallOf, JobOf
  <2> QED
    BY <2>4 DEF LineMatches
<1> QED
  BY <1>1, <1>2, <1>3 DEF PlainInv, NamesDistinct

\* A worker that has no call to make before or after.
LEMMA WorkerMoves ==
    ASSUME Typed, Typed', Plain, PlainInv, NEW w \in Workers,
           UNCHANGED <<deployment, user, accounts, queue, thread>>,
           \A x \in Workers : x # w => worker'[x] = worker[x],
           worker[w].pc # "call" \/ deployment.faults,
           worker'[w].pc = "idle"
    PROVE  PlainInv'
<1>1. AllKnow'
  BY DEF PlainInv, AllKnow, DocsNamed, Knows, JobKnows, At
<1>2. (NamesDistinct => Remaining)'
  BY DEF PlainInv, NamesDistinct, Remaining, LiveAdmins, Live, At
<1>3. ~deployment.faults /\ LineMatches => LineMatches'
  <2> SUFFICES ASSUME ~deployment.faults, LineMatches,
                      NEW g \in deployment.handlers, NEW x \in deployment.workers
               PROVE  Matching(user', accounts', Line(g, x)')
    BY DEF LineMatches
  <2>1. g \in Handlers /\ x \in Workers
    BY OneEach
  <2>2. worker'[x].pc = "call" <=> worker[x].pc = "call"
    BY <2>1
  <2>3. worker[x].pc = "call" => x # w
    OBVIOUS
  <2>4. Line(g, x)' = Line(g, x)
    BY <2>1, <2>2, <2>3 DEF Line, CallOf, JobOf, At
  <2> QED
    BY <2>4 DEF LineMatches
<1> QED
  BY <1>1, <1>2, <1>3 DEF PlainInv, NamesDistinct

\* A request is posted.
LEMMA PostPlain ==
    ASSUME Typed, Typed', Plain, PlainInv, NEW h \in Handlers, NEW t, Post(h, t),
           \/ /\ t.pc = "find" /\ t.kind \in {"create", "import"}
              /\ user[t.user].phase = "unborn"
           \/ t.pc = "lookup" /\ t.kind = "delete"
    PROVE  PlainInv'
<1>1. /\ thread'[h] = t /\ \A g \in Handlers : g # h => thread'[g] = thread[g]
      /\ UNCHANGED <<deployment, user, accounts, queue, worker>>
      /\ At(h, "idle")
  BY DEF Post, dbVars, jobVars, Typed, TypeOK
<1>2. Knows(h)'
  BY <1>1 DEF Knows, At
<1> QED
  BY <1>1, <1>2, ThreadMoves DEF At

\* A round trip of a request that changes no document and queues no job.
LEMMA TripPlain ==
    ASSUME Typed, Typed', Plain, PlainInv, NEW h \in Handlers,
           \/ Find(h) \/ CheckLimit(h) \/ Load(h) \/ Lookup(h) \/ Before(h)
           \/ Quorum(h)
    PROVE  PlainInv'
<1>1. UNCHANGED <<deployment, user, accounts, queue, worker>>
  BY DEF Find, CheckLimit, Load, Lookup, Before, Quorum, dbVars, jobVars
<1>2. /\ thread \in Threads /\ user \in [Users -> UserRecord]
      /\ Knows(h) /\ DocsNamed
  BY DEF Typed, TypeOK, Threads, PlainInv, AllKnow
<1>3. ~At(h, "idle") /\ ~At(h, "enqueue") /\ ~At(h, "load")
  BY <1>2 DEF Find, CheckLimit, Load, Lookup, Before, Quorum, At, Knows
<1>4. thread[h] \in Task
  BY <1>2, <1>3, MoveTyped
<1>5. ASSUME Answer(h) PROVE PlainInv'
  <2>1. thread'[h].pc = "idle" /\ \A g \in Handlers : g # h => thread'[g] = thread[g]
    BY <1>2, <1>5, MoveTyped DEF IdleThread
  <2>2. Knows(h)'
    BY <2>1 DEF Knows, At
  <2> QED
    BY <1>1, <1>3, <2>1, <2>2, ThreadMoves
<1>6. ASSUME NEW pc \in {"limit", "insert", "quorum", "delete"}, Goto(h, pc),
             \/ /\ thread[h].pc \in {"find", "limit"} /\ pc \in {"limit", "insert"}
             \/ /\ thread[h].pc \in {"before", "quorum"} /\ pc \in {"quorum", "delete"}
                /\ NamesDistinct /\ pc = "delete" =>
                      LiveAdmins \ {thread[h].user} # {}
      PROVE  PlainInv'
  <2>1. /\ thread'[h] = [thread[h] EXCEPT !.pc = pc]
        /\ \A g \in Handlers : g # h => thread'[g] = thread[g]
    BY <1>2, <1>3, <1>6, MoveTyped DEF ThreadSteps
  <2>2. /\ thread'[h].pc = pc /\ thread'[h].user = thread[h].user
        /\ thread'[h].name = thread[h].name /\ thread'[h].kind = thread[h].kind
    BY <1>4, <2>1 DEF Task
  <2>3. Knows(h)'
    BY <1>1, <1>2, <1>6, <2>2 DEF Knows, At
  <2> QED
    BY <1>1, <1>3, <1>6, <2>1, <2>2, <2>3, ThreadMoves
<1>7. CASE Find(h)
  BY <1>5, <1>6, <1>7 DEF Find, At
<1>8. CASE CheckLimit(h)
  BY <1>5, <1>6, <1>8 DEF CheckLimit, At
<1>9. CASE Load(h)
  BY <1>3, <1>9 DEF Load
<1>10. CASE Lookup(h)
  <2>1. PICK n \in {IF thread[h].user \in Live
                    THEN user[thread[h].user].name ELSE NoName}
                      \cup (IF deployment.faults THEN {NoName} ELSE {}) :
           thread' = [thread EXCEPT ![h].pc = "before", ![h].name = n]
    BY <1>10 DEF Lookup
  <2> DEFINE t == [thread[h] EXCEPT !.pc = "before", !.name = n]
  <2>2. t.pc = "before" /\ t.name = n /\ t.user = thread[h].user /\ t.kind = thread[h].kind
    BY <1>4 DEF Task
  <2>3. thread' = [thread EXCEPT ![h] = t]
    BY <2>1
  <2> HIDE DEF t
  <2>4. thread'[h] = t /\ \A g \in Handlers : g # h => thread'[g] = thread[g]
    BY <1>2, <2>3 DEF Threads
  <2>5. thread[h].user \in Users /\ NoName \notin Names
    BY <1>4, UsersAssumption DEF Task
  <2>6. user[thread[h].user].phase = "live" =>
           /\ n \in {NoName, user[thread[h].user].name}
           /\ ~deployment.faults => n # NoName
    BY <1>2, <2>5 DEF Live, DocsNamed
  <2>7. Knows(h)'
    BY <1>1, <1>2, <1>10, <2>2, <2>4, <2>6 DEF Knows, At, Lookup
  <2> QED
    BY <1>1, <1>3, <2>2, <2>4, <2>7, ThreadMoves
<1>11. CASE Before(h)
  <2>1. CASE Answer(h)
    BY <1>5, <2>1
  <2>2. CASE thread[h].user \in Live /\ user[thread[h].user].role = "admin" /\ Goto(h, "quorum")
    BY <1>6, <1>11, <2>2 DEF Before, At
  <2>3. CASE thread[h].user \in Live /\ user[thread[h].user].role # "admin" /\ Goto(h, "delete")
    <3>1. NamesDistinct => LiveAdmins # {} /\ thread[h].user \notin LiveAdmins
      BY <2>3 DEF LiveAdmins, PlainInv, Remaining
    <3> QED
      BY <1>6, <1>11, <2>3, <3>1 DEF Before, At
  <2> QED
    BY <1>11, <2>1, <2>2, <2>3 DEF Before
<1>12. CASE Quorum(h)
  BY <1>5, <1>6, <1>12 DEF Quorum, At
<1> QED
  BY <1>7, <1>8, <1>9, <1>10, <1>11, <1>12

\* A job is put into the queue: the line stays as it was.
LEMMA EnqueuePlain ==
    ASSUME Typed, Typed', Plain, PlainInv, NEW h \in Handlers, Enqueue(h)
    PROVE  PlainInv'
<1>1. /\ UNCHANGED <<deployment, user, accounts, worker>>
      /\ queue' = Append(queue, JobOf(h)) /\ At(h, "enqueue")
  BY DEF Enqueue, dbVars, JobOf
<1>2. /\ thread'[h].pc = "idle"
      /\ \A g \in Handlers : g # h => thread'[g] = thread[g]
  BY DEF Enqueue, Answer, IdleThread, Typed, TypeOK
<1>3. Knows(h) /\ JobOf(h) \in Job
  BY <1>1, LineTyped DEF PlainInv, AllKnow, Typed, TypeOK, Shape, JobOf, Job, JobKinds, At
<1>4. JobKnows(JobOf(h).kind, JobOf(h).name)
  BY <1>1, <1>3 DEF JobKnows, JobOf, Knows
<1>5. AllKnow'
  <2>1. \A g \in Handlers : Knows(g)'
    BY <1>1, <1>2 DEF PlainInv, AllKnow, Knows, At
  <2>2. ASSUME NEW i \in 1..Len(queue')
        PROVE  JobKnows(queue'[i].kind, queue'[i].name)
    <3>1. /\ Len(queue') = Len(queue) + 1 /\ Len(queue) \in Nat
          /\ \A k \in 1..Len(queue) : queue'[k] = queue[k]
          /\ queue'[Len(queue) + 1] = JobOf(h)
      BY <1>1, <1>3, AppendProperties, LenProperties DEF Typed, TypeOK
    <3>2. CASE i \in 1..Len(queue)
      BY <3>1, <3>2 DEF PlainInv, AllKnow
    <3>3. CASE i = Len(queue) + 1
      BY <1>4, <3>1, <3>3
    <3> QED
      BY <3>1, <3>2, <3>3
  <2>3. (\A i \in 1..Len(queue) : JobKnows(queue[i].kind, queue[i].name))'
    BY <1>1, <2>2 DEF JobKnows
  <2> QED
    BY <1>1, <2>1, <2>3 DEF PlainInv, AllKnow, DocsNamed, JobKnows
<1>6. (NamesDistinct => Remaining)'
  BY <1>1, <1>2 DEF PlainInv, NamesDistinct, Remaining, LiveAdmins, Live, At
<1>7. LineMatches => LineMatches'
  <2> SUFFICES ASSUME LineMatches, NEW g \in deployment.handlers,
                      NEW w \in deployment.workers
               PROVE  Matching(user', accounts', Line(g, w)')
    BY <1>1 DEF LineMatches
  <2>1. g = h /\ g \in Handlers /\ w \in Workers
    BY <1>1, OneEach DEF Typed, Shape, At
  <2> DEFINE b == IF worker[w].pc = "call" THEN <<CallOf(w)>> ELSE <<>>
  <2>2. b \in Seq(Job) /\ queue \in Seq(Job)
    <3>1. worker[w].pc = "call" => CallOf(w) \in Job
      BY <2>1, LineTyped
    <3> QED
      BY <2>1, <3>1, LineTyped
  <2>3. Line(g, w)' = b \o Append(queue, JobOf(h)) \o <<>>
    BY <1>1, <1>2, <2>1 DEF Line, CallOf, At
  <2>4. Line(g, w) = b \o queue \o <<JobOf(h)>>
    BY <1>1, <2>1 DEF Line
  <2> HIDE DEF b
  <2>5. Line(g, w)' = Line(g, w)
    BY <1>3, <2>2, <2>3, <2>4, LineStays
  <2> QED
    BY <1>1, <2>5 DEF LineMatches
<1> QED
  BY <1>1, <1>5, <1>6, <1>7 DEF PlainInv, NamesDistinct

\* A job in the queue is for a name.
LEMMA QueueNames ==
    ASSUME Typed
    PROVE  \A i \in 1..Len(queue) : queue[i].name \in Names
<1>1. queue \in Seq(Job)
  BY DEF Typed, TypeOK
<1>2. ASSUME NEW i \in 1..Len(queue) PROVE queue[i].name \in Names
  <2>1. queue[i] \in Job
    BY <1>1, ElementOfSeq
  <2> QED
    BY <2>1 DEF Job
<1> QED
  BY <1>2

\* A document is inserted.
LEMMA InsertPlain ==
    ASSUME Typed, Typed', Plain, PlainInv, NEW h \in Handlers, Insert(h)
    PROVE  PlainInv'
<1> DEFINE d == Doc(thread[h].name, thread[h].email, thread[h].edit[2],
                    thread[h].kind = "create", FALSE)
           u == thread[h].user
<1>1. /\ UNCHANGED <<deployment, accounts, queue, worker>> /\ At(h, "insert")
      /\ \/ user' = user /\ Answer(h)
         \/ /\ user' = [user EXCEPT ![u] = d]
            /\ IF thread[h].kind = "create" THEN Goto(h, "enqueue") ELSE Answer(h)
  BY DEF Insert, jobVars
<1>2. /\ thread \in Threads /\ user \in [Users -> UserRecord]
      /\ Knows(h) /\ DocsNamed /\ ~At(h, "idle") /\ ~At(h, "enqueue")
  BY <1>1 DEF Typed, TypeOK, Threads, PlainInv, AllKnow, At
<1>3. thread[h] \in Task
  BY <1>2, MoveTyped
<1>4. /\ u \in Users /\ user[u].phase = "unborn" /\ user[u].name = NoName
      /\ thread[h].kind \in {"create", "import"}
  BY <1>1, <1>2, <1>3 DEF Knows, DocsNamed, At, Task
<1>5. /\ d \in UserRecord /\ d.phase = "live" /\ d.name = thread[h].name
      /\ d.name \in Names /\ d.name # NoName
      /\ d.stored <=> thread[h].kind = "create"
  <2>1. /\ thread[h].name \in Names /\ thread[h].edit \in {"role"} \X Roles
        /\ thread[h].email \in Emails \cup {NoEmail}
    BY <1>1, <1>3 DEF Typed, Shape, At, Task
  <2>2. d \in UserRecord
    BY <2>1, DocTyped
  <2>3. /\ d.phase = "live" /\ d.name = thread[h].name
        /\ d.stored <=> thread[h].kind = "create"
    BY DEF Doc
  <2> QED
    BY <2>1, <2>2, <2>3, UsersAssumption
<1> HIDE DEF d, u
<1>6. CASE user' = user /\ Answer(h)
  <2>1. thread'[h].pc = "idle" /\ \A g \in Handlers : g # h => thread'[g] = thread[g]
    BY <1>2, <1>6, MoveTyped DEF IdleThread
  <2>2. Knows(h)'
    BY <2>1 DEF Knows, At
  <2> QED
    BY <1>1, <1>2, <1>6, <2>1, <2>2, ThreadMoves
<1>7. ASSUME user' = [user EXCEPT ![u] = d],
             IF thread[h].kind = "create" THEN Goto(h, "enqueue") ELSE Answer(h)
      PROVE  PlainInv'
  <2>1. /\ user'[u] = d /\ \A v \in Users : v # u => user'[v] = user[v]
    BY <1>2, <1>4, <1>7
  <2>2. /\ \A g \in Handlers : g # h => thread'[g] = thread[g] /\ thread[g].pc = "idle"
        /\ h \in deployment.handlers
    <3>1. \A g \in Handlers : g # h => thread'[g] = thread[g]
      BY <1>2, <1>7, MoveTyped DEF ThreadSteps
    <3>2. \A g \in Handlers : g # h => thread[g].pc = "idle"
      BY <1>2, OneEach
    <3> QED
      BY <1>2, <3>1, <3>2 DEF Typed, Shape
  <2>3. IF thread[h].kind = "create"
        THEN /\ thread'[h].pc = "enqueue" /\ thread'[h].kind = "create"
             /\ thread'[h].name = d.name
        ELSE thread'[h].pc = "idle"
    <3>1. CASE thread[h].kind = "create"
      <4>1. thread'[h] = [thread[h] EXCEPT !.pc = "enqueue"]
        BY <1>2, <1>7, <3>1, MoveTyped DEF ThreadSteps
      <4> QED
        BY <1>3, <1>5, <3>1, <4>1 DEF Task
    <3>2. CASE thread[h].kind # "create"
      BY <1>2, <1>7, <3>2, MoveTyped DEF IdleThread
    <3> QED
      BY <3>1, <3>2
  <2>4. /\ NamesDistinct' => NamesDistinct
        /\ \A n \in Names : Deleted(user, n) => Deleted(user', n)
    BY <1>2, <1>4, <2>1, NamesGrow
  <2>5. AllKnow'
    <3>1. DocsNamed'
      BY <1>2, <1>5, <2>1 DEF DocsNamed
    <3>2. \A g \in Handlers : Knows(g)'
      BY <2>2, <2>3 DEF Knows, At
    <3>3. \A i \in 1..Len(queue) : queue[i].name \in Names
      BY QueueNames
    <3>4. \A w \in Workers : worker[w].pc # "idle" => worker[w].name \in Names
      BY DEF Typed, TypeOK, IdleWorker, WorkerTask
    <3> QED
      BY <1>1, <2>4, <3>1, <3>2, <3>3, <3>4 DEF PlainInv, AllKnow, JobKnows
  <2>6. Remaining => Remaining'
    <3>1. LiveAdmins \subseteq LiveAdmins'
      BY <1>4, <2>1 DEF LiveAdmins, Live
    <3>2. \A g \in Handlers : ~At(g, "delete")'
      BY <2>2, <2>3 DEF At
    <3> QED
      BY <3>1, <3>2 DEF Remaining
  <2>7. NamesDistinct' /\ LineMatches => LineMatches'
    <3> SUFFICES ASSUME NamesDistinct', LineMatches, NEW g \in deployment.handlers,
                        NEW w \in deployment.workers
                 PROVE  Matching(user', accounts', Line(g, w)')
      BY <1>1 DEF LineMatches
    <3>1. g = h /\ w \in Workers
      BY <2>2, OneEach
    <3> DEFINE b == IF worker[w].pc = "call" THEN <<CallOf(w)>> ELSE <<>>
               j == [kind |-> "add", name |-> d.name]
               L == Line(h, w)
    <3>2. b \in Seq(Job) /\ queue \in Seq(Job) /\ L \in Seq(Job)
      <4>1. worker[w].pc = "call" => CallOf(w) \in Job
        BY <3>1, LineTyped
      <4> QED
        BY <3>1, <4>1, LineTyped
    <3>3. j \in Job /\ j.kind = "add" /\ j.name = d.name
      BY <1>5 DEF Job, JobKinds
    <3>4. L = b \o queue \o <<>>
      BY <1>2 DEF Line
    <3>5. thread[h].kind = "create" => Line(h, w)' = b \o queue \o <<j>>
      <4>1. thread[h].kind = "create" => JobOf(h)' = j /\ At(h, "enqueue")'
        BY <2>3 DEF JobOf, At
      <4> HIDE DEF j
      <4> QED
        BY <1>1, <4>1 DEF Line, CallOf
    <3>6. thread[h].kind # "create" => Line(h, w)' = b \o queue \o <<>>
      BY <1>1, <2>3 DEF Line, CallOf, At
    <3> HIDE DEF b, j, L
    <3>7. Append(L, j) = b \o queue \o <<j>>
      BY <3>2, <3>3, <3>4, LineStays
    <3>8. Matching(user, accounts, L)
      BY <2>2, <3>1 DEF LineMatches, L
    <3>9. Distinct(user')
      BY DEF NamesDistinct, Distinct
    <3>10. /\ d.stored => Matching(user', accounts, Append(L, j))
           /\ ~d.stored => Matching(user', accounts, L)
      BY <1>2, <1>4, <1>5, <1>7, <3>2, <3>3, <3>8, <3>9, MatchCreate
    <3> QED
      BY <1>1, <1>5, <3>1, <3>4, <3>5, <3>6, <3>7, <3>10
  <2> QED
    BY <1>1, <2>4, <2>5, <2>6, <2>7 DEF PlainInv
<1> QED
  BY <1>1, <1>6, <1>7

\* A document is deleted.
LEMMA DeletePlain ==
    ASSUME Typed, Typed', Plain, PlainInv, NEW h \in Handlers, Delete(h)
    PROVE  PlainInv'
<1> DEFINE u == thread[h].user
           d == [user[u] EXCEPT !.phase = "deleted"]
<1>1. /\ UNCHANGED <<deployment, accounts, queue, worker>> /\ At(h, "delete")
      /\ \/ user' = user /\ Answer(h)
         \/ /\ u \in Live /\ user' = [user EXCEPT ![u] = d]
            /\ IF thread[h].name = NoName THEN Answer(h) ELSE Goto(h, "enqueue")
  BY DEF Delete, jobVars
<1>2. /\ thread \in Threads /\ user \in [Users -> UserRecord]
      /\ Knows(h) /\ DocsNamed /\ ~At(h, "idle") /\ ~At(h, "enqueue")
  BY <1>1 DEF Typed, TypeOK, Threads, PlainInv, AllKnow, At
<1>3. thread[h] \in Task
  BY <1>2, MoveTyped
<1> HIDE DEF d, u
<1>4. CASE user' = user /\ Answer(h)
  <2>1. thread'[h].pc = "idle" /\ \A g \in Handlers : g # h => thread'[g] = thread[g]
    BY <1>2, <1>4, MoveTyped DEF IdleThread
  <2>2. Knows(h)'
    BY <2>1 DEF Knows, At
  <2> QED
    BY <1>1, <1>2, <1>4, <2>1, <2>2, ThreadMoves
<1>5. ASSUME u \in Live, user' = [user EXCEPT ![u] = d],
             IF thread[h].name = NoName THEN Answer(h) ELSE Goto(h, "enqueue")
      PROVE  PlainInv'
  <2>1. /\ u \in Users /\ user[u].phase = "live" /\ user[u].name # NoName
        /\ user[u].name \in Names
    BY <1>2, <1>5 DEF Live, DocsNamed, UserRecord
  <2>2. /\ user'[u].phase = "deleted" /\ user'[u].name = user[u].name
        /\ \A v \in Users : v # u => user'[v] = user[v]
    BY <1>2, <1>5, <2>1 DEF d, UserRecord
  <2>3. /\ thread[h].name \in {NoName, user[u].name} /\ thread[h].kind = "delete"
        /\ ~deployment.faults => thread[h].name # NoName
    BY <1>1, <1>2, <2>1 DEF Knows, At, u
  <2>4. /\ \A g \in Handlers : g # h => thread'[g] = thread[g] /\ thread[g].pc = "idle"
        /\ h \in deployment.handlers
    <3>1. \A g \in Handlers : g # h => thread'[g] = thread[g]
      BY <1>2, <1>5, MoveTyped DEF ThreadSteps
    <3>2. \A g \in Handlers : g # h => thread[g].pc = "idle"
      BY <1>2, OneEach
    <3> QED
      BY <1>2, <3>1, <3>2 DEF Typed, Shape
  <2>5. IF thread[h].name = NoName
        THEN thread'[h].pc = "idle"
        ELSE /\ thread'[h].pc = "enqueue" /\ thread'[h].kind = "delete"
             /\ thread'[h].name = user[u].name
    <3>1. CASE thread[h].name # NoName
      <4>1. thread'[h] = [thread[h] EXCEPT !.pc = "enqueue"]
        BY <1>2, <1>5, <3>1, MoveTyped DEF ThreadSteps
      <4> QED
        BY <1>3, <2>3, <3>1, <4>1 DEF Task
    <3>2. CASE thread[h].name = NoName
      BY <1>2, <1>5, <3>2, MoveTyped DEF IdleThread
    <3> QED
      BY <3>1, <3>2
  <2>6. /\ NamesDistinct' => NamesDistinct
        /\ \A n \in Names : Deleted(user, n) => Deleted(user', n)
    BY <1>2, <2>1, <2>2, NamesGrow
  <2>7. AllKnow'
    <3>1. DocsNamed'
      BY <1>2, <2>1, <2>2 DEF DocsNamed
    <3>2. Deleted(user', user[u].name)
      BY <2>1, <2>2 DEF Deleted
    <3>3. \A g \in Handlers : Knows(g)'
      BY <2>4, <2>5, <3>2 DEF Knows, At
    <3>4. \A i \in 1..Len(queue) : queue[i].name \in Names
      BY QueueNames
    <3>5. \A w \in Workers : worker[w].pc # "idle" => worker[w].name \in Names
      BY DEF Typed, TypeOK, IdleWorker, WorkerTask
    <3> QED
      BY <1>1, <2>6, <3>1, <3>3, <3>4, <3>5 DEF PlainInv, AllKnow, JobKnows
  <2>8. Remaining => Remaining'
    <3>1. LiveAdmins \ {u} \subseteq LiveAdmins'
      BY <2>2 DEF LiveAdmins, Live
    <3>2. \A g \in Handlers : ~At(g, "delete")'
      BY <2>4, <2>5 DEF At
    <3> QED
      BY <1>1, <3>1, <3>2 DEF Remaining, u
  <2>9. NamesDistinct' /\ ~deployment.faults /\ LineMatches => LineMatches'
    <3> SUFFICES ASSUME NamesDistinct', ~deployment.faults, LineMatches,
                        NEW g \in deployment.handlers, NEW w \in deployment.workers
                 PROVE  Matching(user', accounts', Line(g, w)')
      BY <1>1 DEF LineMatches
    <3>1. g = h /\ w \in Workers
      BY <2>4, OneEach
    <3> DEFINE b == IF worker[w].pc = "call" THEN <<CallOf(w)>> ELSE <<>>
               j == [kind |-> "remove", name |-> user[u].name]
               L == Line(h, w)
    <3>2. b \in Seq(Job) /\ queue \in Seq(Job) /\ L \in Seq(Job)
      <4>1. worker[w].pc = "call" => CallOf(w) \in Job
        BY <3>1, LineTyped
      <4> QED
        BY <3>1, <4>1, LineTyped
    <3>3. j \in Job /\ j.kind = "remove" /\ j.name = user[u].name
      BY <2>1 DEF Job, JobKinds
    <3>4. L = b \o queue \o <<>>
      BY <1>2 DEF Line
    <3>5. Line(h, w)' = b \o queue \o <<j>>
      <4>1. JobOf(h)' = j /\ At(h, "enqueue")'
        BY <2>3, <2>5 DEF JobOf, At
      <4> HIDE DEF j
      <4> QED
        BY <1>1, <4>1 DEF Line, CallOf
    <3> HIDE DEF b, j, L
    <3>6. Append(L, j) = b \o queue \o <<j>>
      BY <3>2, <3>3, <3>4, LineStays
    <3>7. Matching(user, accounts, L)
      BY <2>4, <3>1 DEF LineMatches, L
    <3>8. Distinct(user)
      BY <2>6 DEF NamesDistinct, Distinct
    <3>9. Matching(user', accounts, Append(L, j))
      BY <1>2, <1>5, <2>1, <3>2, <3>3, <3>7, <3>8, MatchDelete DEF d
    <3> QED
      BY <1>1, <3>1, <3>5, <3>6, <3>9
  <2> QED
    BY <1>1, <2>6, <2>7, <2>8, <2>9 DEF PlainInv
<1> QED
  BY <1>1, <1>4, <1>5

\* A request is lost.
LEMMA LostPlain ==
    ASSUME Typed, Typed', Plain, PlainInv, NEW h \in Handlers, RequestLost(h)
    PROVE  PlainInv'
<1>1. /\ UNCHANGED <<deployment, user, accounts, queue, worker>>
      /\ thread'[h].pc = "idle" /\ deployment.faults
      /\ \A g \in Handlers : g # h => thread'[g] = thread[g]
  BY DEF RequestLost, Answer, IdleThread, dbVars, jobVars, Typed, TypeOK
<1>2. AllKnow'
  <2>1. \A g \in Handlers : Knows(g)'
    BY <1>1 DEF PlainInv, AllKnow, Knows, At
  <2> QED
    BY <1>1, <2>1 DEF PlainInv, AllKnow, DocsNamed, JobKnows
<1>3. (NamesDistinct => Remaining)'
  BY <1>1 DEF PlainInv, NamesDistinct, Remaining, LiveAdmins, Live, At
<1> QED
  BY <1>1, <1>2, <1>3 DEF PlainInv

\* A worker takes the first job of the queue: the line stays as it was.
LEMMA TakePlain ==
    ASSUME Typed, Typed', Plain, PlainInv, NEW w \in Workers, Take(w)
    PROVE  PlainInv'
<1>1. /\ UNCHANGED <<deployment, user, accounts, thread>>
      /\ w \in deployment.workers /\ worker[w].pc = "idle"
      /\ queue # <<>> /\ queue' = Tail(queue) /\ queue \in Seq(Job)
  BY DEF Take, dbVars, Typed, TypeOK
<1>2. /\ worker'[w].pc = "call" /\ worker'[w].kind = Head(queue).kind
      /\ worker'[w].name = Head(queue).name
      /\ \A x \in Workers : x # w => worker'[x] = worker[x]
  BY DEF Take, Typed, TypeOK
<1>3. /\ Len(queue) \in Nat /\ 1 \in 1..Len(queue) /\ Head(queue) = queue[1]
      /\ Head(queue) \in Job
      /\ Len(queue') = Len(queue) - 1
      /\ \A i \in 1..Len(queue') : queue'[i] = queue[i + 1] /\ i + 1 \in 1..Len(queue)
  <2>1. Len(queue) \in Nat \ {0}
    BY <1>1, EmptySeq
  <2>2. /\ Head(queue) = queue[1] /\ Head(queue) \in Job
        /\ Len(queue') = Len(queue) - 1
        /\ \A i \in 1..Len(queue') : queue'[i] = queue[i + 1]
    BY <1>1, HeadTailProperties
  <2>3. \A i \in 1..Len(queue') : i + 1 \in 1..Len(queue)
    BY <2>1, <2>2
  <2> QED
    BY <2>1, <2>2, <2>3
<1>4. AllKnow'
  <2>1. \A i \in 1..Len(queue) : JobKnows(queue[i].kind, queue[i].name)
    BY DEF PlainInv, AllKnow
  <2>2. (\A i \in 1..Len(queue) : JobKnows(queue[i].kind, queue[i].name))'
    BY <1>1, <1>3, <2>1 DEF JobKnows
  <2>3. (\A x \in Workers : worker[x].pc # "idle" =>
            x \in deployment.workers /\ JobKnows(worker[x].kind, worker[x].name))'
    BY <1>1, <1>2, <1>3, <2>1 DEF JobKnows, PlainInv, AllKnow
  <2>4. (DocsNamed /\ \A g \in Handlers : Knows(g))'
    BY <1>1 DEF PlainInv, AllKnow, DocsNamed, Knows, At
  <2> QED
    BY <2>2, <2>3, <2>4 DEF AllKnow
<1>5. (NamesDistinct => Remaining)'
  BY <1>1 DEF PlainInv, NamesDistinct, Remaining, LiveAdmins, Live, At
<1>6. LineMatches => LineMatches'
  <2> SUFFICES ASSUME LineMatches, NEW h \in deployment.handlers,
                      NEW x \in deployment.workers
               PROVE  Matching(user', accounts', Line(h, x)')
    BY <1>1 DEF LineMatches
  <2>1. x = w /\ h \in Handlers
    BY <1>1, OneEach
  <2> DEFINE b == IF At(h, "enqueue") THEN <<JobOf(h)>> ELSE <<>>
  <2>2. b \in Seq(Job)
    <3>1. At(h, "enqueue") => JobOf(h) \in Job
      BY <2>1, LineTyped
    <3> QED
      BY <3>1
  <2>3. CallOf(w)' = Head(queue)
    BY <1>2, <1>3 DEF CallOf, Job
  <2>4. Line(h, x)' = <<Head(queue)>> \o Tail(queue) \o b
    BY <1>1, <1>2, <2>1, <2>3 DEF Line, JobOf, At
  <2>5. Line(h, x) = <<>> \o queue \o b
    BY <1>1, <2>1 DEF Line
  <2> HIDE DEF b
  <2>6. Line(h, x)' = Line(h, x)
    BY <1>1, <1>3, <2>2, <2>4, <2>5, LineStays
  <2> QED
    BY <1>1, <2>6 DEF LineMatches
<1> QED
  BY <1>1, <1>4, <1>5, <1>6 DEF PlainInv, NamesDistinct

\* The domain controller executes a call: the first job leaves the line.
LEMMA CallPlain ==
    ASSUME Typed, Typed', Plain, PlainInv, NEW w \in Workers, Call(w)
    PROVE  PlainInv'
<1> DEFINE k == worker[w].kind
           n == worker[w].name
<1>1. /\ UNCHANGED <<deployment, user, thread, queue>> /\ worker[w].pc = "call"
      /\ \/ /\ Accepted(k, n) /\ accounts' = AccountsAfter(k, n)
            /\ worker' = [worker EXCEPT ![w].pc = "store"]
         \/ ~Accepted(k, n) /\ accounts' = accounts /\ Ended(w)
  BY DEF Call, dbVars
<1>2. worker[w] \in WorkerTask /\ CallOf(w) \in Job /\ CallOf(w).kind = k /\ CallOf(w).name = n
  BY <1>1, LineTyped DEF CallOf, Typed, TypeOK, IdleWorker, WorkerTask, Job
<1>3. /\ worker'[w].pc # "call"
      /\ worker'[w].pc # "idle" => worker'[w].kind = k /\ worker'[w].name = n
      /\ \A x \in Workers : x # w => worker'[x] = worker[x]
  BY <1>1, <1>2 DEF Ended, IdleWorker, WorkerTask, Typed, TypeOK
<1>4. w \in deployment.workers /\ JobKnows(k, n)
  BY <1>1 DEF PlainInv, AllKnow
<1> HIDE DEF k, n
<1>5. AllKnow'
  BY <1>1, <1>3, <1>4 DEF PlainInv, AllKnow, DocsNamed, Knows, At, JobKnows
<1>6. (NamesDistinct => Remaining)'
  BY <1>1 DEF PlainInv, NamesDistinct, Remaining, LiveAdmins, Live, At
<1>7. LineMatches => LineMatches'
  <2> SUFFICES ASSUME LineMatches, NEW h \in deployment.handlers,
                      NEW x \in deployment.workers
               PROVE  Matching(user', accounts', Line(h, x)')
    BY <1>1 DEF LineMatches
  <2>1. x = w /\ h \in Handlers
    BY <1>4, OneEach
  <2> DEFINE b == IF At(h, "enqueue") THEN <<JobOf(h)>> ELSE <<>>
  <2>2. b \in Seq(Job) /\ queue \in Seq(Job)
    <3>1. At(h, "enqueue") => JobOf(h) \in Job
      BY <2>1, LineTyped
    <3> QED
      BY <2>1, <3>1, LineTyped
  <2>3. Line(h, x) = <<CallOf(w)>> \o queue \o b
    BY <1>1, <2>1 DEF Line
  <2>4. Line(h, x)' = <<>> \o queue \o b
    BY <1>1, <1>3, <2>1 DEF Line, JobOf, At
  <2> HIDE DEF b
  <2>5. Line(h, x) = <<CallOf(w)>> \o Line(h, x)'
    BY <1>2, <2>2, <2>3, <2>4, LineStays
  <2>6. Line(h, x)' \in Seq(Job)
    <3>1. queue \o b \in Seq(Job)
      BY <2>2, ConcatProperties
    <3> QED
      BY <2>2, <2>4, <3>1, ConcatEmptySeq
  <2>7. Matching(user, accounts, <<CallOf(w)>> \o Line(h, x)')
    BY <2>5 DEF LineMatches
  <2> DEFINE L == Line(h, x)'
  <2>8. L \in Seq(Job) /\ Matching(user, accounts, <<CallOf(w)>> \o L)
    BY <2>6, <2>7
  <2> HIDE DEF L
  <2>9. /\ k \in {"add", "remove"}
        /\ k = "add" => n \notin accounts /\ Matching(user, accounts \cup {n}, L)
        /\ k = "remove" => Matching(user, accounts \ {n}, L)
    BY <1>2, <2>8, MatchCall
  <2>10. CASE k = "add"
    <3>1. accounts' = accounts \cup {n}
      BY <1>1, <2>9, <2>10 DEF Accepted, AccountsAfter, k, n
    <3> QED
      BY <1>1, <2>9, <2>10, <3>1 DEF L
  <2>11. CASE k = "remove"
    <3>1. accounts' = accounts \ {n}
      BY <1>1, <2>11 DEF Accepted, AccountsAfter
    <3> QED
      BY <1>1, <2>9, <2>11, <3>1 DEF L
  <2> QED
    BY <2>9, <2>10, <2>11
<1> QED
  BY <1>1, <1>5, <1>6, <1>7 DEF PlainInv, NamesDistinct

\* A job ends: the profile is stored, or nobody is found who has the name of
\* the user who was deleted; or the job is lost.
LEMMA EndPlain ==
    ASSUME Typed, Typed', Plain, PlainInv, NEW w \in Workers,
           \/ StoreProfile(w) \/ RemoveFromDb(w) \/ CallFails(w) \/ JobLost(w)
    PROVE  PlainInv'
<1>1. /\ UNCHANGED <<deployment, thread, queue>> /\ worker[w].pc # "idle"
      /\ worker'[w].pc = "idle"
      /\ \A x \in Workers : x # w => worker'[x] = worker[x]
  BY DEF StoreProfile, RemoveFromDb, CallFails, JobLost, Ended, IdleWorker, dbVars,
         Typed, TypeOK
<1>2. CASE StoreProfile(w) \/ JobLost(w)
  <2>1. UNCHANGED <<user, accounts>> /\ (worker[w].pc # "call" \/ deployment.faults)
    BY <1>2 DEF StoreProfile, JobLost, dbVars
  <2> QED
    BY <1>1, <2>1, WorkerMoves
<1>3. CASE CallFails(w)
  <2>1. user' = user /\ deployment.faults
    BY <1>3 DEF CallFails, dbVars
  <2>2. AllKnow'
    BY <1>1, <2>1 DEF PlainInv, AllKnow, DocsNamed, Knows, JobKnows, At
  <2>3. (NamesDistinct => Remaining)'
    BY <1>1, <2>1 DEF PlainInv, NamesDistinct, Remaining, LiveAdmins, Live, At
  <2> QED
    BY <1>1, <2>1, <2>2, <2>3 DEF PlainInv
<1>4. CASE RemoveFromDb(w)
  <2>1. /\ accounts' = accounts /\ worker[w].pc = "store" /\ worker[w].kind = "remove"
        /\ \/ user' = user
           \/ \E u \in Namesakes(worker[w].name) :
                 user' = [user EXCEPT ![u].phase = "deleted"]
    BY <1>4 DEF RemoveFromDb
  <2>2. CASE user' = user
    BY <1>1, <2>1, <2>2, WorkerMoves
  <2>3. ASSUME NEW u \in Namesakes(worker[w].name),
               user' = [user EXCEPT ![u].phase = "deleted"]
        PROVE  PlainInv'
    <3>1. /\ user \in [Users -> UserRecord] /\ u \in Users /\ user[u].phase = "live"
          /\ user[u].name = worker[w].name /\ DocsNamed
      BY DEF Namesakes, Live, Typed, TypeOK, PlainInv, AllKnow
    <3>2. /\ user'[u].phase = "deleted" /\ user'[u].name = user[u].name
          /\ \A v \in Users : v # u => user'[v] = user[v]
      BY <2>3, <3>1 DEF UserRecord
    <3>3. /\ NamesDistinct' => NamesDistinct
          /\ \A n \in Names : Deleted(user, n) => Deleted(user', n)
      BY <3>1, <3>2, NamesGrow
    <3>4. AllKnow'
      <4>1. DocsNamed'
        BY <3>1, <3>2 DEF DocsNamed
      <4>2. ASSUME NEW h \in Handlers PROVE Knows(h)'
        <5>1. Knows(h) /\ thread'[h] = thread[h]
          BY <1>1 DEF PlainInv, AllKnow
        <5>2. At(h, "enqueue") => thread[h].name \in Names
          BY DEF Typed, Shape
        <5>3. thread[h].pc # "idle" => thread[h].user \in Users
          BY DEF Typed, TypeOK, Task, IdleThread
        <5>4. \A v \in Users : /\ user[v].phase = "unborn" => user'[v].phase = "unborn"
                               /\ user'[v].phase = "live" => user[v].phase = "live"
                               /\ user'[v].name = user[v].name
          BY <3>1, <3>2
        <5> QED
          BY <1>1, <3>3, <5>1, <5>2, <5>3, <5>4 DEF Knows, At
      <4>3. \A i \in 1..Len(queue) : queue[i].name \in Names
        BY QueueNames
      <4>4. \A x \in Workers : worker[x].pc # "idle" => worker[x].name \in Names
        BY DEF Typed, TypeOK, IdleWorker, WorkerTask
      <4> QED
        BY <1>1, <3>3, <4>1, <4>2, <4>3, <4>4 DEF PlainInv, AllKnow, JobKnows
    <3>5. ~NamesDistinct
      <4>1. PICK v \in Users : user[v].phase = "deleted" /\ user[v].name = worker[w].name
        BY <1>1, <2>1 DEF PlainInv, AllKnow, JobKnows, Deleted
      <4> QED
        BY <3>1, <4>1 DEF NamesDistinct, DocsNamed
    <3> QED
      BY <3>3, <3>4, <3>5 DEF PlainInv
  <2> QED
    BY <2>1, <2>2, <2>3
<1> QED
  BY <1>2, <1>3, <1>4

\* The founders are administrators and have their accounts.
LEMMA InitOrg == Init => OrgInv
<1> SUFFICES ASSUME Init PROVE OrgInv
  OBVIOUS
<1>0. Typed
  BY InitTyped
<1>1. /\ \A u \in Founders : /\ u \in Users
                             /\ user[u] = Doc(Identity[u].name, Identity[u].email,
                                              "admin", TRUE, FALSE)
                             /\ Identity[u].name \in Names
      /\ \A u \in Users \ Founders : user[u].phase = "unborn" /\ user[u].name = NoName
      /\ NoName \notin Names
  BY UsersAssumption DEF Init
<1>2. \A u \in Founders : /\ user[u].phase = "live" /\ user[u].role = "admin"
                          /\ user[u].name = Identity[u].name /\ user[u].stored
  <2> TAKE u \in Founders
  <2>1. user[u] = Doc(Identity[u].name, Identity[u].email, "admin", TRUE, FALSE)
    BY <1>1
  <2> QED
    BY <2>1 DEF Doc
<1>3. /\ \A h \in Handlers : thread[h].pc = "idle"
      /\ \A w \in Workers : worker[w].pc = "idle"
      /\ queue = <<>> /\ Len(queue) = 0
      /\ accounts = {Identity[u].name : u \in Founders}
  BY DEF Init, IdleThread, IdleWorker
<1>4. DocsNamed
  <2>1. ASSUME NEW u \in Founders
        PROVE  user[u].phase # "unborn" /\ user[u].name # NoName
    <3>1. user[u].phase = "live" /\ user[u].name = Identity[u].name
      BY <1>2
    <3>2. Identity[u].name \in Names /\ NoName \notin Names
      BY <1>1
    <3> QED
      BY <3>1, <3>2
  <2>2. \A u \in Users \ Founders : user[u].phase = "unborn" /\ user[u].name = NoName
    BY <1>1
  <2> QED
    BY <2>1, <2>2 DEF DocsNamed
<1>5. AllKnow
  BY <1>3, <1>4 DEF AllKnow, Knows, At
<1>6. Remaining
  <2>1. Founders \subseteq LiveAdmins
    BY <1>1, <1>2 DEF LiveAdmins, Live
  <2> QED
    BY <1>3, <2>1, UsersAssumption DEF Remaining, At
<1>7. Plain => LineMatches
  <2> SUFFICES ASSUME Plain, NEW h \in deployment.handlers,
                      NEW w \in deployment.workers
               PROVE  Matching(user, accounts, Line(h, w))
    BY DEF LineMatches
  <2>1. h \in Handlers /\ w \in Workers
    BY <1>0, OneEach
  <2>2. Line(h, w) = <<>>
    <3>1. Line(h, w) = <<>> \o <<>> \o <<>>
      BY <1>3, <2>1 DEF Line, At
    <3>2. <<>> \in Seq(Job) /\ <<>> \o <<>> = <<>>
      BY ConcatEmptySeq
    <3> QED
      BY <3>1, <3>2
  <2>3. InTurn(<<>>) /\ \A k, n : ~Awaits(<<>>, k, n)
    <3>1. Len(<<>>) = 0
      OBVIOUS
    <3> QED
      BY <3>1 DEF InTurn, Awaits
  <2>4. ASSUME NEW n \in Names
        PROVE  /\ Promised(user, n) <=> n \in accounts
               /\ n \in accounts => Known(user, n)
    <3>1. n \in accounts => \E u \in Founders : user[u].name = n
      BY <1>2, <1>3
    <3>2. Promised(user, n) => n \in accounts
      BY <1>1, <1>2, <1>3 DEF Promised
    <3>3. n \in accounts => Promised(user, n) /\ Known(user, n)
      BY <1>1, <1>2, <3>1 DEF Promised, Known
    <3> QED
      BY <3>2, <3>3
  <2> QED
    BY <2>2, <2>3, <2>4 DEF Matching
<1> QED
  BY <1>0, <1>5, <1>6, <1>7 DEF OrgInv, PlainInv

\* Every step keeps the invariant.
LEMMA NextOrg == OrgInv /\ [Next]_vars => OrgInv'
<1> SUFFICES ASSUME OrgInv, [Next]_vars PROVE OrgInv'
  OBVIOUS
<1>1. Typed /\ Typed'
  BY NextTyped DEF OrgInv
<1>2. deployment' = deployment
  BY <1>1, CountStep
<1> SUFFICES ASSUME Plain, PlainInv PROVE PlainInv'
  BY <1>1, <1>2 DEF OrgInv, Plain, Serial
<1>3. ASSUME UNCHANGED vars \/ \E u \in Users : Login(u)
      PROVE  PlainInv'
  BY <1>3, AllAlone DEF vars, Login
<1>4. ASSUME NEW h \in Handlers, NEW a \in Users, NEW p \in People, NEW r \in Roles,
             PostCreate(h, a, p, r)
      PROVE  PlainInv'
  <2> DEFINE new == CHOOSE u \in Fresh \ JobUsers : TRUE
  <2>1. user[new].phase = "unborn"
    BY <1>4 DEF PostCreate, Fresh
  <2> HIDE DEF new
  <2>2. PICK k \in {"create", "import"} :
           Post(h, [pc |-> "find", kind |-> k, actor |-> a, user |-> new,
                    name |-> p.name, email |-> p.email, edit |-> <<"role", r>>])
    BY <1>4 DEF PostCreate, new
  <2> QED
    BY <1>1, <2>1, <2>2, PostPlain
<1>5. ASSUME NEW h \in Handlers, NEW a \in Users, NEW u \in Users, PostDelete(h, a, u)
      PROVE  PlainInv'
  BY <1>1, <1>5, PostPlain DEF PostDelete
<1>6. ASSUME NEW h \in Handlers, Request(h) \/ RequestLost(h)
      PROVE  PlainInv'
  <2>1. ~Write(h)
    BY DEF Write, PlainInv, AllKnow, Knows, At
  <2> QED
    BY <1>1, <1>6, <2>1, TripPlain, InsertPlain, DeletePlain, EnqueuePlain, LostPlain
       DEF Request
<1>7. ASSUME NEW w \in Workers, Take(w) \/ Work(w) \/ CallFails(w) \/ JobLost(w)
      PROVE  PlainInv'
  <2>1. ~\E u \in JobUsers : PersistUser(w, u)
    BY DEF PersistUser, PlainInv, AllKnow, JobKnows
  <2> QED
    BY <1>1, <1>7, <2>1, TakePlain, CallPlain, EndPlain DEF Work
<1>8. CASE Next
  <2>1. \A h \in Handlers, a, u \in Users, e \in Edits : ~PostUpdate(h, a, u, e)
    BY DEF PostUpdate, Plain
  <2>2. \A k \in JobKinds, n \in Names : ~PostTask(k, n)
    BY DEF PostTask, Plain
  <2> QED
    BY <1>3, <1>4, <1>5, <1>6, <1>7, <1>8, <2>1, <2>2 DEF Next
<1> QED
  BY <1>3, <1>8

\* When nothing is edited and nothing overlaps, an administrator remains: also
\* when calls fail and jobs are lost, for any number of users, requests and
\* administrators who signed up.
THEOREM AnAdminRemains == Spec => []AdminRemains
<1>1. OrgInv => AdminRemains
  BY DEF OrgInv, Plain, PlainInv, Remaining, AdminRemains
<1> QED
  BY <1>1, InitOrg, NextOrg, PTL DEF Spec

\* When nothing fails either, and the queue is empty, the accounts of the domain
\* controller are exactly those of the users whom a request created.
THEOREM AccountsFollow == Spec => []AccountsMatchUsers
<1>1. OrgInv => AccountsMatchUsers
  <2> SUFFICES ASSUME OrgInv, Serial, NamesDistinct, Quiet,
                      ~deployment.faults, ~deployment.open
               PROVE  accounts = {user[u].name : u \in {v \in Live : user[v].stored}}
    BY DEF AccountsMatchUsers
  <2>1. Typed /\ Plain /\ LineMatches /\ DocsNamed
    BY DEF OrgInv, Plain, PlainInv, AllKnow
  <2>2. PICK h \in deployment.handlers, w \in deployment.workers : TRUE
    <3>1. /\ IsFiniteSet(deployment.handlers) /\ IsFiniteSet(deployment.workers)
      BY <2>1, OneEach, DeploymentAssumption, FS_Subset
    <3> QED
      BY <3>1, FS_Singleton DEF Serial
  <2>3. h \in Handlers /\ w \in Workers
    BY <2>1, OneEach
  <2>4. Line(h, w) = <<>>
    <3>1. Line(h, w) = <<>> \o <<>> \o <<>>
      BY <2>3 DEF Line, Quiet, At
    <3>2. <<>> \in Seq(Job) /\ <<>> \o <<>> = <<>>
      BY ConcatEmptySeq
    <3> QED
      BY <3>1, <3>2
  <2>5. \A k, n : ~Awaits(<<>>, k, n)
    <3>1. Len(<<>>) = 0
      OBVIOUS
    <3> QED
      BY <3>1 DEF Awaits
  <2>6. \A n \in Names : Promised(user, n) <=> n \in accounts
    BY <2>1, <2>4, <2>5 DEF LineMatches, Matching
  <2>7. accounts \subseteq Names /\ \A v \in Live : user[v].name \in Names
    BY <2>1 DEF Typed, TypeOK, Live, DocsNamed, UserRecord
  <2>8. ASSUME NEW n
        PROVE  n \in accounts <=> \E v \in Live : user[v].stored /\ user[v].name = n
    BY <2>6, <2>7 DEF Promised, Live
  <2> QED
    BY <2>8
<1> QED
  BY <1>1, InitOrg, NextOrg, PTL DEF Spec
=============================================================================
