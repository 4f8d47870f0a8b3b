------------------------------ MODULE OrgUsers -------------------------------
(***************************************************************************)
(* The users of one organisation: the documents of the users collection,   *)
(* the accounts of the organisation's domain controller, and the jobs that *)
(* are meant to keep the second in step with the first.                    *)
(*                                                                         *)
(* A request is a sequence of MongoDB round trips on a thread of its own;  *)
(* a job is an RPC to the domain controller followed by a database call.   *)
(* What the operator starts (how many threads and workers serve) and what  *)
(* may go wrong is the deployment, chosen once in the initial state.       *)
(***************************************************************************)
EXTENDS Naturals, FiniteSets, Sequences

CONSTANTS
    Users,        \* the documents the collection may get (their ObjectIds)
    JobUsers,     \* those of them dc_create_user_with_group may insert
    Founders,     \* the administrators who signed the organisation up
    Names,        \* domain user names
    Emails,       \* e-mail addresses
    People,       \* whom a request may create: a name and an address
    Identity,     \* Identity[u]: the name and the address of a founder
    UserLimit,    \* organizations.user_limit
    Handlers,     \* threads serving the users routes
    Workers,      \* rq workers of the api queue
    Deployments,  \* what may be deployed, see DeploymentType
    Requests,     \* how many requests are posted at most (a bound)
    NoUser, NoName, NoEmail

DeploymentType ==
    [handlers : SUBSET Handlers,  \* the threads that serve at once
     workers  : SUBSET Workers,   \* the workers that are started
     requests : 0..Requests,      \* how many requests are posted
     faults   : BOOLEAN,          \* calls fail, processes are lost
     open     : BOOLEAN]          \* documents are edited, /task routes used

ASSUME UsersAssumption ==
    /\ IsFiniteSet(Users)
    /\ JobUsers \subseteq Users
    /\ Founders \subseteq Users /\ Founders # {}
    /\ People \subseteq [name : Names, email : Emails]
    /\ Identity \in [Founders -> [name : Names, email : Emails]]
    /\ NoUser \notin Users
    /\ NoName \notin Names
    /\ NoEmail \notin Emails

ASSUME LimitAssumption ==
    /\ UserLimit \in Nat
    /\ Cardinality(Founders) <= UserLimit
    /\ Requests \in Nat

ASSUME DeploymentAssumption ==
    /\ IsFiniteSet(Handlers) /\ IsFiniteSet(Workers)
    /\ Deployments \subseteq DeploymentType
    /\ \A d \in Deployments : d.handlers # {}

VARIABLES
    deployment, \* what the operator runs
    user,       \* user[u]: the document
    token,      \* token[u]: the role in the JWT u was issued last
    accounts,   \* the user accounts of the domain controller
    profiles,   \* the names vpn_configs holds an .ovpn file for
    thread,     \* thread[h]: the request the thread is serving
    queue,      \* the api queue
    worker,     \* worker[w]: the job the worker is executing
    posts       \* requests posted so far

vars == <<deployment, user, token, accounts, profiles, thread, queue, worker,
          posts>>
dbVars == <<user, profiles>>
jobVars == <<queue, worker>>

Roles    == {"admin", "employee"}
JobKinds == {"add", "addgroup", "remove"}
Edits    == (({"role"} \X Roles) \cup ({"status"} \X {"active", "inactive"}))
                \cup ({"name"} \X Names)

UserRecord == [phase : {"unborn", "live", "deleted"},
               name : Names \cup {NoName}, email : Emails \cup {NoEmail},
               role : Roles,
               status : {"active", "inactive"}, stored : BOOLEAN,
               byJob : BOOLEAN]
ThreadSteps == {"find", "limit", "insert", "enqueue", "load", "write",
                "lookup", "before", "quorum", "delete"}
Task == [pc : ThreadSteps, kind : {"create", "import", "update", "delete"},
         actor : Users, user : Users, name : Names \cup {NoName},
         email : Emails \cup {NoEmail},
         edit : Edits \cup {<<>>}]
IdleThread == [pc |-> "idle"]
Job == [kind : JobKinds, name : Names]
IdleWorker == [pc |-> "idle"]
WorkerTask == [pc : {"call", "store"}, kind : JobKinds, name : Names]

Doc(n, e, r, stored, byJob) ==
    [phase |-> "live", name |-> n, email |-> e, role |-> r,
     status |-> "active", stored |-> stored, byJob |-> byJob]

Live == {u \in Users : user[u].phase = "live"}
LiveAdmins == {u \in Live : user[u].role = "admin"}

\* The unique index of the users collection is on (org_id, email).
EmailTaken(e) == \E v \in Live : user[v].email = e

\* The ObjectId an insert is going to get: one that is not in use yet.
Fresh == {u \in Users : /\ user[u].phase = "unborn"
                        /\ \A h \in Handlers :
                              thread[h].pc # "idle" => thread[h].user # u}

-----------------------------------------------------------------------------

Init ==
    /\ deployment \in Deployments
    /\ user = [u \in Users |->
                 IF u \in Founders
                 THEN Doc(Identity[u].name, Identity[u].email, "admin",
                          TRUE, FALSE)
                 ELSE [phase |-> "unborn", name |-> NoName,
                       email |-> NoEmail, role |-> "employee", status |-> "active",
                       stored |-> FALSE, byJob |-> FALSE]]
    /\ token = [u \in Users |-> IF u \in Founders THEN "admin" ELSE "none"]
    /\ accounts = {Identity[u].name : u \in Founders}
    /\ profiles = {Identity[u].name : u \in Founders}
    /\ thread = [h \in Handlers |-> IdleThread]
    /\ queue = <<>>
    /\ worker = [w \in Workers |-> IdleWorker]
    /\ posts = 0

\* POST /auth/login: the claims are those of the document at that moment, and
\* nothing reads the document again while the token lives.
Login(u) ==
    /\ u \in Live
    /\ user[u].status = "active"
    /\ token' = [token EXCEPT ![u] = user[u].role]
    /\ UNCHANGED <<deployment, user, accounts, profiles, thread, queue, worker,
                   posts>>

(***************************************************************************)
(* The requests.  Post picks one up, the other actions are its round trips *)
(* to the database; an answer, or an exception, returns the thread.        *)
(***************************************************************************)

At(h, pc) == thread[h].pc = pc
Goto(h, pc) == thread' = [thread EXCEPT ![h].pc = pc]
Answer(h) == thread' = [thread EXCEPT ![h] = IdleThread]

Post(h, task) ==
    /\ h \in deployment.handlers
    /\ At(h, "idle")
    /\ posts < deployment.requests
    /\ posts' = posts + 1
    /\ thread' = [thread EXCEPT ![h] = task]
    /\ UNCHANGED <<deployment, token, accounts, dbVars, jobVars>>

\* POST /users and one row of POST /users/import-csv.  The ObjectId of the
\* document the request is going to insert is settled here.
PostCreate(h, a, p, r) ==
    /\ token[a] = "admin"
    /\ Fresh \ JobUsers # {}
    /\ \E k \in {"create", "import"} :
          Post(h, [pc |-> "find", kind |-> k, actor |-> a,
                   user |-> CHOOSE u \in Fresh \ JobUsers : TRUE,
                   name |-> p.name, email |-> p.email,
                   edit |-> <<"role", r>>])

\* PATCH /users/<id>, by an administrator or the user, and POST
\* /users/<id>/deactivate, by an administrator.
PostUpdate(h, a, u, e) ==
    /\ deployment.open
    /\ \/ token[a] = "admin"
       \/ token[a] = "employee" /\ a = u
    /\ Post(h, [pc |-> "load", kind |-> "update", actor |-> a, user |-> u,
                name |-> NoName, email |-> NoEmail, edit |-> e])

\* DELETE /users/<id>
PostDelete(h, a, u) ==
    /\ token[a] = "admin"
    /\ Post(h, [pc |-> "lookup", kind |-> "delete", actor |-> a, user |-> u,
                name |-> NoName, email |-> NoEmail, edit |-> <<>>])

\* create_user and the import look the e-mail address up first.
Find(h) ==
    /\ At(h, "find")
    /\ IF EmailTaken(thread[h].email) THEN Answer(h) ELSE Goto(h, "limit")
    /\ UNCHANGED <<deployment, token, accounts, dbVars, jobVars, posts>>

\* Mutant of CheckLimit: the user who is about to be added is not counted.
CheckLimit_OffByOne(h) ==
    /\ At(h, "limit")
    /\ IF Cardinality(Live) > UserLimit THEN Answer(h) ELSE Goto(h, "insert")
    /\ UNCHANGED <<deployment, token, accounts, dbVars, jobVars, posts>>

\* enforce_org_user_limit counts the documents, a round trip before the insert.
CheckLimit(h) ==
    /\ At(h, "limit")
    /\ IF Cardinality(Live) + 1 > UserLimit
       THEN Answer(h)
       ELSE Goto(h, "insert")
    /\ UNCHANGED <<deployment, token, accounts, dbVars, jobVars, posts>>

\* Mutant of Insert: the route answers 201 and queues no job.
Insert_NoJob(h) ==
    /\ At(h, "insert")
    /\ ~EmailTaken(thread[h].email)
    /\ user' = [user EXCEPT ![thread[h].user] =
                   Doc(thread[h].name, thread[h].email, thread[h].edit[2],
                       TRUE, FALSE)]
    /\ Answer(h)
    /\ UNCHANGED <<deployment, token, accounts, profiles, jobVars, posts>>

\* insert_one.  The index decides between two requests for one address.  An
\* imported document gets no username field and no account is queued for it.
Insert(h) ==
    /\ At(h, "insert")
    /\ \/ /\ EmailTaken(thread[h].email)
          /\ Answer(h)
          /\ UNCHANGED user
       \/ /\ ~EmailTaken(thread[h].email)
          /\ user' = [user EXCEPT ![thread[h].user] =
                         Doc(thread[h].name, thread[h].email,
                             thread[h].edit[2], thread[h].kind = "create", FALSE)]
          /\ IF thread[h].kind = "create"
             THEN Goto(h, "enqueue")
             ELSE Answer(h)
    /\ UNCHANGED <<deployment, token, accounts, profiles, jobVars, posts>>

Load(h) ==
    /\ At(h, "load")
    /\ IF thread[h].user \in Live THEN Goto(h, "write") ELSE Answer(h)
    /\ UNCHANGED <<deployment, token, accounts, dbVars, jobVars, posts>>

\* The document with one field set; a stored username is one of them.
Edited(doc, e) ==
    [doc EXCEPT ![e[1]] = e[2], !.stored = (doc.stored \/ e[1] = "name")]

\* update_one(..., {"$set": ...}), which matches nothing when the document is
\* gone by now.  The domain controller never hears of a new username.
Write(h) ==
    /\ At(h, "write")
    /\ LET u == thread[h].user
       IN  user' = IF u \in Live
                   THEN [user EXCEPT ![u] = Edited(user[u], thread[h].edit)]
                   ELSE user
    /\ Answer(h)
    /\ UNCHANGED <<deployment, token, accounts, profiles, jobVars, posts>>

\* The route reads the name of the account before it calls delete_user; when
\* that fails the user is deleted and the domain controller is not told.
Lookup(h) ==
    /\ At(h, "lookup")
    /\ \E n \in {IF thread[h].user \in Live THEN user[thread[h].user].name
                                             ELSE NoName}
                    \cup (IF deployment.faults THEN {NoName} ELSE {}) :
          thread' = [thread EXCEPT ![h].pc = "before", ![h].name = n]
    /\ UNCHANGED <<deployment, token, accounts, dbVars, jobVars, posts>>

\* delete_user reads the document again, and refuses to delete the caller.
Before(h) ==
    /\ At(h, "before")
    /\ LET u == thread[h].user
       IN  \/ (u \notin Live \/ u = thread[h].actor) /\ Answer(h)
           \/ /\ u \in Live /\ u # thread[h].actor
              /\ Goto(h, IF user[u].role = "admin" THEN "quorum" ELSE "delete")
    /\ UNCHANGED <<deployment, token, accounts, dbVars, jobVars, posts>>

\* Mutant of Quorum: the document to be deleted is counted itself.
Quorum_CountsSelf(h) ==
    /\ At(h, "quorum")
    /\ IF LiveAdmins = {} THEN Answer(h) ELSE Goto(h, "delete")
    /\ UNCHANGED <<deployment, token, accounts, dbVars, jobVars, posts>>

\* The other administrators are counted, a round trip before the delete.
Quorum(h) ==
    /\ At(h, "quorum")
    /\ IF LiveAdmins \ {thread[h].user} = {}
       THEN Answer(h)
       ELSE Goto(h, "delete")
    /\ UNCHANGED <<deployment, token, accounts, dbVars, jobVars, posts>>

\* delete_one, and the job only when the name of the account is known.
Delete(h) ==
    /\ At(h, "delete")
    /\ LET u == thread[h].user
       IN  \/ u \notin Live /\ Answer(h) /\ UNCHANGED user
           \/ /\ u \in Live
              /\ user' = [user EXCEPT ![u].phase = "deleted"]
              /\ IF thread[h].name = NoName
                 THEN Answer(h)
                 ELSE Goto(h, "enqueue")
    /\ UNCHANGED <<deployment, token, accounts, profiles, jobVars, posts>>

\* service_dispatcher: dc_add_user after an insert, dc_remove_user after a
\* delete.
Enqueue(h) ==
    /\ At(h, "enqueue")
    /\ queue' = Append(queue,
                       [kind |-> IF thread[h].kind = "create" THEN "add"
                                                              ELSE "remove",
                        name |-> thread[h].name])
    /\ Answer(h)
    /\ UNCHANGED <<deployment, token, accounts, dbVars, worker, posts>>

\* POST /task/dc/add_user, /add_user_with_group and /remove_user queue a job
\* for any name.
PostTask(k, n) ==
    /\ deployment.open
    /\ posts < deployment.requests
    /\ posts' = posts + 1
    /\ queue' = Append(queue, [kind |-> k, name |-> n])
    /\ UNCHANGED <<deployment, token, accounts, dbVars, thread, worker>>

\* A database call or the queue fails, or the process is stopped.
RequestLost(h) ==
    /\ deployment.faults
    /\ ~At(h, "idle")
    /\ Answer(h)
    /\ UNCHANGED <<deployment, token, accounts, dbVars, jobVars, posts>>

(***************************************************************************)
(* The jobs.                                                               *)
(***************************************************************************)

Ended(w) == worker' = [worker EXCEPT ![w] = IdleWorker]

Take(w) ==
    /\ w \in deployment.workers
    /\ worker[w].pc = "idle"
    /\ queue # <<>>
    /\ worker' = [worker EXCEPT ![w] = [pc |-> "call",
                                        kind |-> Head(queue).kind,
                                        name |-> Head(queue).name]]
    /\ queue' = Tail(queue)
    /\ UNCHANGED <<deployment, token, accounts, dbVars, thread, posts>>

\* Whether the domain controller answers SUCCESS, and the accounts it then
\* has.  InfraService handles one call at a time.
Accepted(kind, n) == IF kind = "remove" THEN n \in accounts ELSE n \notin accounts
AccountsAfter(kind, n) ==
    IF kind = "remove" THEN accounts \ {n} ELSE accounts \cup {n}

\* Mutant of Call: the account is made and the reply is not looked at.
Call_NoAccount(w) ==
    /\ worker[w].pc = "call"
    /\ worker' = [worker EXCEPT ![w].pc = "store"]
    /\ UNCHANGED <<deployment, token, accounts, dbVars, thread, queue, posts>>

\* AddDomainUser, CreateDomainUserWithGroup or RemoveDomainUser, through the
\* organisation's gateway.  DUPLICATE and USER_NOT_FOUND end the job.
Call(w) ==
    /\ worker[w].pc = "call"
    /\ LET kind == worker[w].kind
           n == worker[w].name
       IN  IF Accepted(kind, n)
           THEN /\ accounts' = AccountsAfter(kind, n)
                /\ worker' = [worker EXCEPT ![w].pc = "store"]
           ELSE UNCHANGED accounts /\ Ended(w)
    /\ UNCHANGED <<deployment, token, dbVars, thread, queue, posts>>

\* proxy_rpc_request returns None, or samba-tool fails: the call may have been
\* executed all the same, and nothing repeats the job.
CallFails(w) ==
    /\ deployment.faults
    /\ worker[w].pc = "call"
    /\ accounts' \in {accounts, AccountsAfter(worker[w].kind, worker[w].name)}
    /\ Ended(w)
    /\ UNCHANGED <<deployment, token, dbVars, thread, queue, posts>>

\* dc_add_user stores the .ovpn file the gateway made.
StoreProfile(w) ==
    /\ worker[w].pc = "store" /\ worker[w].kind = "add"
    /\ profiles' = profiles \cup {worker[w].name}
    /\ Ended(w)
    /\ UNCHANGED <<deployment, user, token, accounts, thread, queue, posts>>

\* persist_domain_user under a made-up address of its own (NoEmail stands for
\* all of them, and no request asks for one): the limit is not looked at.
PersistUser(w, u) ==
    /\ worker[w].pc = "store" /\ worker[w].kind = "addgroup"
    /\ user[u].phase = "unborn"
    /\ user' = [user EXCEPT ![u] = Doc(worker[w].name, NoEmail, "employee",
                                    TRUE, TRUE)]
    /\ Ended(w)
    /\ UNCHANGED <<deployment, token, accounts, profiles, thread, queue, posts>>

Namesakes(n) == {u \in Live : user[u].stored /\ user[u].name = n}

\* remove_domain_user_from_db deletes one document that carries the name,
\* whoever it belongs to; the .ovpn file stays.
RemoveFromDb(w) ==
    /\ worker[w].pc = "store" /\ worker[w].kind = "remove"
    /\ LET found == Namesakes(worker[w].name)
       IN  \/ found = {} /\ UNCHANGED user
           \/ \E u \in found : user' = [user EXCEPT ![u].phase = "deleted"]
    /\ Ended(w)
    /\ UNCHANGED <<deployment, token, accounts, profiles, thread, queue, posts>>

\* The database call fails, or the worker is lost with its job.
JobLost(w) ==
    /\ deployment.faults
    /\ worker[w].pc # "idle"
    /\ Ended(w)
    /\ UNCHANGED <<deployment, token, accounts, dbVars, thread, queue, posts>>

-----------------------------------------------------------------------------

Request(h) ==
    \/ Find(h) \/ CheckLimit(h) \/ Insert(h) \/ Load(h) \/ Write(h)
    \/ Lookup(h) \/ Before(h) \/ Quorum(h) \/ Delete(h) \/ Enqueue(h)

Work(w) ==
    \/ Call(w) \/ StoreProfile(w) \/ RemoveFromDb(w)
    \/ \E u \in JobUsers : PersistUser(w, u)

Next ==
    \/ \E u \in Users : Login(u)
    \/ \E h \in Handlers, a \in Users, p \in People, r \in Roles :
          PostCreate(h, a, p, r)
    \/ \E h \in Handlers, a, u \in Users :
          \/ \E e \in Edits : PostUpdate(h, a, u, e)
          \/ PostDelete(h, a, u)
    \/ \E k \in JobKinds, n \in Names : PostTask(k, n)
    \/ \E h \in Handlers : Request(h) \/ RequestLost(h)
    \/ \E w \in Workers : Take(w) \/ Work(w) \/ CallFails(w) \/ JobLost(w)

\* A thread that has a request keeps serving it, a worker keeps taking jobs
\* and executing the one it has.
Fairness ==
    /\ \A h \in Handlers : WF_vars(Request(h))
    /\ \A w \in Workers : WF_vars(Take(w)) /\ WF_vars(Work(w))

Spec == Init /\ [][Next]_vars /\ Fairness

-----------------------------------------------------------------------------
(***************************************************************************)
(* Properties.                                                             *)
(***************************************************************************)

\* Every variable keeps the shape the code gives it.
TypeOK ==
    /\ deployment \in Deployments
    /\ user \in [Users -> UserRecord]
    /\ token \in [Users -> Roles \cup {"none"}]
    /\ accounts \subseteq Names
    /\ profiles \subseteq Names
    /\ thread \in [Handlers -> Task \cup {IdleThread}]
    /\ queue \in Seq(Job)
    /\ worker \in [Workers -> WorkerTask \cup {IdleWorker}]
    /\ posts \in 0..Requests

\* The documents the limit is meant for: those the requests insert.
Counted == {u \in Live : ~user[u].byJob}
Inserting == {h \in Handlers : At(h, "insert")}

\* The count and the insert are two round trips: every thread but one may pass
\* the limit by one document, and none by more, whatever is deleted, lost or
\* queued meanwhile.  One thread keeps the limit exactly.
UsersWithinLimit ==
    Cardinality(Counted) + Cardinality(Inserting)
        <= UserLimit + Cardinality(deployment.handlers) - 1

Serial == /\ Cardinality(deployment.handlers) = 1
          /\ Cardinality(deployment.workers) = 1

\* No two users of the organisation ever had one name.
NamesDistinct ==
    \A u, v \in Users :
        u # v /\ user[u].name # NoName => user[u].name # user[v].name

Quiet == /\ \A h \in Handlers : At(h, "idle")
         /\ queue = <<>>
         /\ \A w \in Workers : worker[w].pc = "idle"

\* With one thread and one worker, as docker-compose.prod.yml starts them, no
\* namesakes, no edits and nothing lost, the domain controller ends up with
\* the accounts of exactly the users created by a request: neither an account
\* whose user was deleted nor a user who was promised an account without one.
AccountsMatchUsers ==
    /\ Serial /\ NamesDistinct /\ Quiet
    /\ ~deployment.faults /\ ~deployment.open
    => accounts = {user[u].name : u \in {v \in Live : user[v].stored}}

\* delete_user refuses to delete the last administrator.  One thread at a time
\* and without namesakes an administrator remains, also when calls fail, jobs
\* are lost, and the token of a deleted administrator is still in use.
AdminRemains ==
    Serial /\ NamesDistinct /\ ~deployment.open => LiveAdmins # {}

\* A user whom POST /users has just inserted is given a domain account, or is
\* deleted before, also when threads and workers race and names collide, as
\* long as nothing fails.
EveryUserGetsAccount ==
    \A u \in Users :
        (/\ ~deployment.faults
         /\ \E h \in Handlers : /\ At(h, "enqueue") /\ thread[h].kind = "create"
                                /\ thread[h].user = u)
        ~> (u \notin Live \/ user[u].name \in accounts)
=============================================================================
