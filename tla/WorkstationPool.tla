--------------------------- MODULE WorkstationPool ---------------------------
(***************************************************************************)
(* The pool of virtual workstations of the CloudShield server.             *)
(*                                                                         *)
(* An administrator posts a workstation template; a job on the             *)
(* "workstations" queue builds its image and queues one ws_start job per   *)
(* member; each ws_start job boots one VM and marks it active.  The        *)
(* desktop client asks for a VM (GET /workstations/assign) and gives it    *)
(* back (GET /workstations/release).                                       *)
(*                                                                         *)
(* Flask serves every request on a thread of its own and eight processes   *)
(* work on the queue, so one action is one round trip to MongoDB: the read *)
(* of the free VMs and the write of the assignment are separate actions.   *)
(***************************************************************************)
EXTENDS Naturals, FiniteSets

CONSTANTS
    Users,          \* users of one organisation
    VMs,            \* the documents the workstations collection may get
    Templates,      \* the workstation templates that may be posted
    Groups,         \* access groups
    StartJobs,      \* the ws_start jobs that may be queued
    ManualJobs,     \* those of them the debug route may queue (a bound)
    Handlers,       \* threads serving GET /workstations/assign
    Members,        \* Members[t]: users listed in the template itself
    AccessGroups,   \* AccessGroups[t]: the groups listed in the template
    GroupMembers,   \* GroupMembers[g]: users listed in the access group
    Faults,         \* whether jobs fail and workers are lost
    NoUser, NoVM, NoTemplate

ASSUME AccessAssumption ==
    /\ Members \in [Templates -> SUBSET Users]
    /\ AccessGroups \in [Templates -> SUBSET Groups]
    /\ GroupMembers \in [Groups -> SUBSET Users]
    /\ IsFiniteSet(Users)

ASSUME NullAssumption ==
    /\ NoUser \notin Users
    /\ NoVM \notin VMs
    /\ NoTemplate \notin Templates

ASSUME BoundsAssumption == Faults \in BOOLEAN /\ ManualJobs \subseteq StartJobs

VARIABLES
    template,   \* template[t]: its document, and whether is_ready is set
    create,     \* create[t]: the ws_create_default job of the template
    left,       \* left[t]: ws_start jobs that job has still to queue
    vm,         \* vm[v]: the workstation document
    job,        \* job[j]: the ws_start job
    req,        \* req[h]: the assign request the thread is serving
    seat,       \* seat[u]: the VMs the client of u was told to use
    denied      \* the users whose last request was answered "no workstation"

vars == <<template, create, left, vm, job, req, seat, denied>>

poolVars == <<template, create, left, job>>
clientVars == <<req, seat, denied>>

TemplateStates == {"absent", "preparing", "ready"}
CreateStates   == {"none", "queued", "starting", "ended"}
VMStates       == {"absent", "provisioning", "active", "used"}
JobStates      == {"free", "queued", "booting", "ended"}

VMRecord  == [status : VMStates,
              template : Templates \cup {NoTemplate},
              cur_user_id : Users \cup {NoUser}]
JobRecord == [pc : JobStates,
              template : Templates \cup {NoTemplate},
              vm : VMs \cup {NoVM}]
IdleReq   == [pc |-> "idle", user |-> NoUser, pick |-> NoVM]
ReqRecord == {IdleReq} \cup [pc : {"assign"}, user : Users, pick : VMs]

(***************************************************************************)
(* Who may use which template.                                             *)
(***************************************************************************)

\* get_unique_members_by_ids turns the template's group ids into ObjectIds
\* before it looks them up, so the pool is sized for the groups' members too.
PoolMembers(t) ==
    Members[t] \cup UNION {GroupMembers[g] : g \in AccessGroups[t]}

\* A group id as the template stores it (a string) and as the access_groups
\* documents carry it (an ObjectId): MongoDB never finds the two equal.
StringId(g) == [type |-> "str", id |-> g]
ObjectId(g) == [type |-> "oid", id |-> g]

\* Mutant of TemplatesOf: the templates are not filtered by access.
TemplatesOf_Unfiltered(u) == {t \in Templates : template[t] # "absent"}

\* The templates get_available_workstation finds for the user.
TemplatesOf(u) ==
    {t \in Templates :
        /\ template[t] # "absent"
        /\ \/ u \in Members[t]
           \/ \E g \in AccessGroups[t], k \in Groups :
                 u \in GroupMembers[k] /\ StringId(g) = ObjectId(k)}

\* Mutant of Available: the VMs in use are offered too.
Available_AnyStatus(u) ==
    {v \in VMs : vm[v].status # "absent" /\ vm[v].template \in TemplatesOf(u)}

\* The VMs it returns.
Available(u) ==
    {v \in VMs : vm[v].status = "active" /\ vm[v].template \in TemplatesOf(u)}

Held(u) == {v \in VMs : vm[v].cur_user_id = u}

-----------------------------------------------------------------------------

Init ==
    /\ template = [t \in Templates |-> "absent"]
    /\ create = [t \in Templates |-> "none"]
    /\ left = [t \in Templates |-> 0]
    /\ vm = [v \in VMs |-> [status |-> "absent", template |-> NoTemplate,
                            cur_user_id |-> NoUser]]
    /\ job = [j \in StartJobs |-> [pc |-> "free", template |-> NoTemplate,
                                   vm |-> NoVM]]
    /\ req = [h \in Handlers |-> IdleReq]
    /\ seat = [u \in Users |-> {}]
    /\ denied = {}

\* Mutant of Inserted: the stub document is offered before its VM is booted.
Inserted_Active(v, t) ==
    vm' = [vm EXCEPT ![v] = [status |-> "active", template |-> t,
                             cur_user_id |-> NoUser]]

\* insert_workstation: a new document for template t, without cur_user_id.
Inserted(v, t) ==
    vm' = [vm EXCEPT ![v] = [status |-> "provisioning", template |-> t,
                             cur_user_id |-> NoUser]]

\* enqueue_ws_start(template_id, vm_id)
Enqueued(j, t, v) ==
    job' = [job EXCEPT ![j] = [pc |-> "queued", template |-> t, vm |-> v]]

(***************************************************************************)
(* POST /workstations/templates, and the ws_create_default job.            *)
(***************************************************************************)

\* The document is inserted first, then the job queued; when the queue cannot
\* be reached the document stays behind.
CreateTemplate(t) ==
    /\ template[t] = "absent"
    /\ template' = [template EXCEPT ![t] = "preparing"]
    /\ \/ create' = [create EXCEPT ![t] = "queued"]
       \/ Faults /\ create' = [create EXCEPT ![t] = "ended"]
    /\ UNCHANGED <<left, vm, job, clientVars>>

\* Mutant of BuildTemplate: the jobs are queued and is_ready is never set.
BuildTemplate_NotReady(t) ==
    /\ create[t] = "queued"
    /\ left' = [left EXCEPT ![t] = Cardinality(PoolMembers(t))]
    /\ create' = [create EXCEPT ![t] = "starting"]
    /\ UNCHANGED <<template, vm, job, clientVars>>

\* The image is built: is_ready is set before the first ws_start is queued.
BuildTemplate(t) ==
    /\ create[t] = "queued"
    /\ template' = [template EXCEPT ![t] = "ready"]
    /\ left' = [left EXCEPT ![t] = Cardinality(PoolMembers(t))]
    /\ create' = [create EXCEPT ![t] = "starting"]
    /\ UNCHANGED <<vm, job, clientVars>>

\* One turn of the loop of start_workstations: a stub document, then a job.
StartOne(t) ==
    /\ create[t] = "starting"
    /\ left[t] > 0
    /\ \E v \in VMs, j \in StartJobs \ ManualJobs :
          /\ vm[v].status = "absent"
          /\ job[j].pc = "free"
          /\ Inserted(v, t)
          /\ Enqueued(j, t, v)
    /\ left' = [left EXCEPT ![t] = @ - 1]
    /\ UNCHANGED <<template, create, clientVars>>

StartsDone(t) ==
    /\ create[t] = "starting"
    /\ left[t] = 0
    /\ create' = [create EXCEPT ![t] = "ended"]
    /\ UNCHANGED <<template, left, vm, job, clientVars>>

\* The job gives up before the image is ready (organisation or domain
\* controller not found, build failed), or its worker is lost in the loop,
\* possibly between the stub document and the job that would boot it.
CreateFails(t) ==
    /\ Faults
    /\ create[t] \in {"queued", "starting"}
    /\ create' = [create EXCEPT ![t] = "ended"]
    /\ \/ UNCHANGED vm
       \/ /\ create[t] = "starting" /\ left[t] > 0
          /\ \E v \in VMs : vm[v].status = "absent" /\ Inserted(v, t)
    /\ UNCHANGED <<template, left, job, clientVars>>

(***************************************************************************)
(* POST /workstations/start, and the ws_start job.                         *)
(***************************************************************************)

\* The route queues a job without a VM and checks nothing but the arguments.
StartRoute(t) ==
    /\ \E j \in ManualJobs : job[j].pc = "free" /\ Enqueued(j, t, NoVM)
    /\ UNCHANGED <<template, create, left, vm, clientVars>>

EndJob(j) == job' = [job EXCEPT ![j].pc = "ended"]

\* ws_start returns early when the template is missing or not ready; a stub
\* that was inserted for it stays "provisioning".
StartRefused(j) ==
    /\ job[j].pc = "queued"
    /\ template[job[j].template] # "ready"
    /\ EndJob(j)
    /\ UNCHANGED <<template, create, left, vm, clientVars>>

StartAccepted(j) ==
    /\ job[j].pc = "queued"
    /\ template[job[j].template] = "ready"
    /\ \/ /\ job[j].vm # NoVM
          /\ job' = [job EXCEPT ![j].pc = "booting"]
          /\ UNCHANGED vm
       \/ /\ job[j].vm = NoVM
          /\ \E v \in VMs :
                /\ vm[v].status = "absent"
                /\ Inserted(v, job[j].template)
                /\ job' = [job EXCEPT ![j].pc = "booting", ![j].vm = v]
    /\ UNCHANGED <<template, create, left, clientVars>>

\* provision_workstation_vm succeeded: update_workstation writes the status
\* and leaves cur_user_id alone.
BootSucceeds(j) ==
    /\ job[j].pc = "booting"
    /\ vm' = [vm EXCEPT ![job[j].vm].status = "active"]
    /\ EndJob(j)
    /\ UNCHANGED <<template, create, left, clientVars>>

\* Provisioning failed, or the worker was lost: nothing is written.
BootFails(j) ==
    /\ Faults
    /\ job[j].pc = "booting"
    /\ EndJob(j)
    /\ UNCHANGED <<template, create, left, vm, clientVars>>

(***************************************************************************)
(* GET /workstations/assign and GET /workstations/release.                 *)
(***************************************************************************)

\* get_available_workstation: the handler keeps the first VM it read.  The
\* template_id of the request is required and then not used.
PickAvailable(h, u) ==
    /\ req[h].pc = "idle"
    /\ \E v \in Available(u) :
          req' = [req EXCEPT ![h] = [pc |-> "assign", user |-> u, pick |-> v]]
    /\ denied' = denied \ {u}
    /\ UNCHANGED <<poolVars, vm, seat>>

\* It read none: the client is answered {"workstation": null}.
AssignRefused(h, u) ==
    /\ req[h].pc = "idle"
    /\ Available(u) = {}
    /\ denied' = denied \cup {u}
    /\ UNCHANGED <<poolVars, vm, req, seat>>

\* set_assigned_workstation writes by _id alone; the client is told the VM when
\* the write modified the document, null when it was this user's already.
Assign(h) ==
    LET v == req[h].pick
        u == req[h].user
        modified == vm[v].cur_user_id # u \/ vm[v].status # "used"
    IN  /\ req[h].pc = "assign"
        /\ vm' = [vm EXCEPT ![v].cur_user_id = u, ![v].status = "used"]
        /\ seat' = IF modified THEN [seat EXCEPT ![u] = @ \cup {v}] ELSE seat
        /\ denied' = IF modified THEN denied ELSE denied \cup {u}
        /\ req' = [req EXCEPT ![h] = IdleReq]
        /\ UNCHANGED poolVars

\* The server is lost before the write, or after it and before the answer.
AssignLost(h) ==
    /\ Faults
    /\ req[h].pc = "assign"
    /\ \/ UNCHANGED vm
       \/ vm' = [vm EXCEPT ![req[h].pick].cur_user_id = req[h].user,
                            ![req[h].pick].status = "used"]
    /\ req' = [req EXCEPT ![h] = IdleReq]
    /\ UNCHANGED <<poolVars, seat, denied>>

\* release_assigned_workstation: update_one, so one of the user's VMs; the
\* client drops every VM it was told to use.
Release(u) ==
    /\ seat[u] # {} \/ Held(u) # {}
    /\ \/ \E v \in Held(u) :
             vm' = [vm EXCEPT ![v].cur_user_id = NoUser, ![v].status = "active"]
       \/ Held(u) = {} /\ UNCHANGED vm
    /\ seat' = [seat EXCEPT ![u] = {}]
    /\ UNCHANGED <<poolVars, req, denied>>

-----------------------------------------------------------------------------

Jobs ==
    \/ \E t \in Templates :
          BuildTemplate(t) \/ StartOne(t) \/ StartsDone(t) \/ CreateFails(t)
    \/ \E j \in StartJobs :
          StartRefused(j) \/ StartAccepted(j) \/ BootSucceeds(j) \/ BootFails(j)

Requests ==
    \/ \E t \in Templates : CreateTemplate(t) \/ StartRoute(t)
    \/ \E h \in Handlers, u \in Users : PickAvailable(h, u) \/ AssignRefused(h, u)
    \/ \E h \in Handlers : Assign(h) \/ AssignLost(h)
    \/ \E u \in Users : Release(u)

Next == Jobs \/ Requests

Spec == Init /\ [][Next]_vars

\* The queue's workers take every job and, when nothing fails, finish it.
\* Clients promise nothing.
Fairness ==
    /\ \A t \in Templates : WF_vars(BuildTemplate(t) \/ StartOne(t) \/ StartsDone(t))
    /\ \A j \in StartJobs :
          WF_vars(StartRefused(j) \/ StartAccepted(j) \/ BootSucceeds(j))

FairSpec == Spec /\ Fairness

-----------------------------------------------------------------------------
(***************************************************************************)
(* Properties                                                              *)
(***************************************************************************)

\* Every variable keeps its type.
TypeOK ==
    /\ template \in [Templates -> TemplateStates]
    /\ create \in [Templates -> CreateStates]
    /\ left \in [Templates -> Nat]
    /\ vm \in [VMs -> VMRecord]
    /\ job \in [StartJobs -> JobRecord]
    /\ req \in [Handlers -> ReqRecord]
    /\ seat \in [Users -> SUBSET VMs]
    /\ denied \in SUBSET Users

\* A VM is marked "used" exactly when it carries a user: no boot job, release
\* or late assignment, however they interleave, leaves a VM that is offered
\* to others while someone holds it, or one nobody holds and nobody is offered.
UsedIffOwned ==
    \A v \in VMs : vm[v].status = "used" <=> vm[v].cur_user_id # NoUser

\* A VM is only ever held by a user its template admits, also when the write
\* of the assignment comes long after the read that chose the VM.
OwnersEntitled ==
    \A v \in VMs :
        vm[v].cur_user_id # NoUser =>
            /\ vm[v].template \in Templates
            /\ vm[v].cur_user_id \in Members[vm[v].template]

\* With requests served one at a time, a client that was told to use a VM
\* holds it until it releases it: no other user is given the same VM.
SeatsAreHeld == \A u \in Users : seat[u] \subseteq Held(u)

\* When nothing fails, a template that was posted ends with a VM for every
\* member it was sized for: no ws_start job runs before is_ready is set, and
\* no stub document is left behind.
EveryMemberGetsAVM ==
    \A t \in Templates :
        create[t] = "queued" ~>
            Cardinality({v \in VMs : /\ vm[v].template = t
                                     /\ vm[v].status \in {"active", "used"}})
                >= Cardinality(PoolMembers(t))

\* "find a ACTIVE workstation vm and assign it to a user"
\* (Server/routes/workstations.py:37): a VM that changes hands was active.
AssignsActiveOnly ==
    [][\A v \in VMs :
          vm'[v].cur_user_id \notin {NoUser, vm[v].cur_user_id}
              => vm[v].status = "active"]_vars

=============================================================================
