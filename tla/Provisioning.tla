---------------------------- MODULE Provisioning -----------------------------
(***************************************************************************)
(* How the environment of one organisation is built and torn down.         *)
(*                                                                         *)
(* Signup queues the first build.  POST /task/provision, POST              *)
(* /task/provisionworkstations and POST /task/destroy queue further jobs.  *)
(* The jobs run on the workers of the "api" queue (eight in                *)
(* docker/supervisord.conf, one in docker-compose.prod.yml).  Routes and   *)
(* jobs meet in the organisation's document, the workstation documents,    *)
(* the inventory collection and the Docker host (or the Terraform state).  *)
(*                                                                         *)
(* One action is one round trip to MongoDB, Redis or Docker.  Every such   *)
(* step of a job may raise, and the worker may be lost before any of them. *)
(***************************************************************************)
EXTENDS Naturals, Sequences

CONSTANTS
    Handlers,   \* threads serving the three POST routes
    Workers,    \* processes working on the "api" queue
    Modes,      \* deployments, each a pair: what _detect_mode answers, and what
                \* provision_workstations takes from DEPLOYMENT_MODE
    Counts,     \* values of workstation_count and count in requests
    Limits,     \* values workstation_limit may take
    Faults,     \* which of {"raise", "crash"} may happen
    MaxPosts    \* bound on the requests posted

\* With DEPLOYMENT_MODE unset and a Docker socket at hand the two differ.
ASSUME ModeAssumption ==
    Modes \subseteq {<<"docker", "docker">>, <<"docker", "terraform">>,
                     <<"terraform", "terraform">>}
ASSUME CountsAssumption == Counts \subseteq Nat \ {0} /\ Limits \subseteq Nat \ {0}
ASSUME FaultsAssumption == Faults \subseteq {"raise", "crash"}
ASSUME BoundAssumption == MaxPosts \in Nat

VARIABLES
    mode,       \* the deployment, fixed by the environment of the processes
    org,        \* the organisation's document
    signup,     \* how far the signup request has come
    admin,      \* whether the organisation's first admin is in users
    stubs,      \* workstation documents seeded and without a container_id
    linked,     \* workstation documents that carry a container_id
    online,     \* workstation documents set "online" by provision_workstations
    queue,      \* the "api" queue in Redis
    thread,     \* thread[h]: the request the thread is serving
    worker,     \* worker[w]: the job the worker is running
    infra,      \* the containers of the organisation (or the Terraform stack)
    itam,       \* itam[w]: the organisation's inventory documents w inserted
    emails,     \* emails[w]: welcome emails w has queued
    uncleared,  \* uncleared[w]: deletions of the inventory that failed in w
    unflagged,  \* unflagged[w]: of these, queued by a job that then set no flag
    accepted,   \* accepted[h]: provision requests that passed h's check
    unmarked,   \* unmarked[h]: of these, lost before h marked the organisation
    posts       \* requests posted so far

docVars    == <<stubs, linked, online>>
workCounts == <<emails, uncleared, unflagged>>
countVars  == <<workCounts, accepted, unmarked>>
vars == <<mode, org, signup, admin, docVars, queue, thread, worker, infra, itam,
          countVars, posts>>

Finals == {"completed", "failed", "destroyed"}

(***************************************************************************)
(* Container names, as their parts between the hyphens.  Docker's name     *)
(* filter "<org_id>-" finds the names that contain the id and a hyphen     *)
(* after it.                                                               *)
(***************************************************************************)

ContainerName(c) ==
    CASE c = "dc"  -> <<"samba", "test", "org">>
      [] c = "vpn" -> <<"openvpn", "test", "org">>
      [] c = "td"  -> <<"threat", "detection", "org">>
      [] c = "ws"  -> <<"app", "workstation", "run", "hex">>
      [] c = "aws" -> <<"org">>

Containers == {"dc", "vpn", "td", "ws", "aws"}

\* c in docker_client.container.list(filters=[("name", f"{org_id}-")])
DestroyFilter(c) ==
    \E i \in 1 .. Len(ContainerName(c)) - 1 : ContainerName(c)[i] = "org"

(***************************************************************************)
(* Jobs and requests                                                       *)
(***************************************************************************)

JobKinds  == {"network", "workstations", "destroy"}
Job(k, n) == [kind |-> k, count |-> n]

\* The steps of provision_network, provision_workstations, destroy_environment
\* and enqueue_org_welcome_email_if_ready.
WorkerSteps ==
    {"idle", "begin", "mark", "dc", "rest", "link", "clear", "insert",
     "complete", "ready", "email", "flag", "fail", "online",
     "remove", "wipe", "destroyed"}

IdleWorker  == [pc |-> "idle", kind |-> "none", count |-> 0]
IdleThread  == [pc |-> "idle", kind |-> "none", count |-> 0]
ThreadSteps == {"idle", "check", "seed", "mark", "dispatch"}

Goto(w, pc) == worker' = [worker EXCEPT ![w].pc = pc]
Ends(w)     == worker' = [worker EXCEPT ![w] = IdleWorker]

SmallerOf(a, b) == IF a <= b THEN a ELSE b

Init ==
    /\ mode \in Modes
    /\ \E n \in Limits :
          org = [exists |-> FALSE, status |-> "unset", prov |-> "pending",
                 welcomed |-> FALSE, limit |-> n]
    /\ signup = "start"
    /\ admin = FALSE
    /\ stubs = 0 /\ linked = 0 /\ online = 0
    /\ queue = <<>>
    /\ thread = [h \in Handlers |-> IdleThread]
    /\ worker = [w \in Workers |-> IdleWorker]
    /\ infra = {}
    /\ itam = [w \in Workers |-> 0]
    /\ emails = [w \in Workers |-> 0]
    /\ uncleared = [w \in Workers |-> 0]
    /\ unflagged = [w \in Workers |-> 0]
    /\ accepted = [h \in Handlers |-> 0]
    /\ unmarked = [h \in Handlers |-> 0]
    /\ posts = 0

-----------------------------------------------------------------------------
(***************************************************************************)
(* Signup: the organisation, its admin, the job, and the status last.      *)
(***************************************************************************)

jobVars == <<mode, docVars, worker, infra, itam, countVars>>

SignupOrg ==
    /\ signup = "start"
    /\ org' = [org EXCEPT !.exists = TRUE]
    /\ signup' = "org"
    /\ UNCHANGED <<admin, queue, thread, posts, jobVars>>

SignupUser ==
    /\ signup = "org"
    /\ admin' = TRUE
    /\ signup' = "user"
    /\ UNCHANGED <<org, queue, thread, posts, jobVars>>

\* provision_network without a count: enqueue_provision's default is 0.
SignupEnqueue ==
    /\ signup = "user"
    /\ queue' = Append(queue, Job("network", 0))
    /\ signup' = "queued"
    /\ UNCHANGED <<org, admin, thread, posts, jobVars>>

\* "Update org status to reflect that building has started": written after
\* the job was queued, over whatever the job has written in the meantime.
SignupStatus ==
    /\ signup = "queued"
    /\ org' = [org EXCEPT !.prov = "in_progress"]
    /\ signup' = "done"
    /\ UNCHANGED <<admin, queue, thread, posts, jobVars>>

\* Redis or MongoDB fails in the second half of the request: the status is set
\* to "failed" and the answer is still 201.
SignupFails ==
    /\ "raise" \in Faults
    /\ signup \in {"user", "queued"}
    /\ org' = [org EXCEPT !.prov = "failed"]
    /\ signup' = "done"
    /\ UNCHANGED <<admin, queue, thread, posts, jobVars>>

\* The server is lost in the middle of the request.
SignupLost ==
    /\ "crash" \in Faults
    /\ signup \in {"org", "user", "queued"}
    /\ signup' = "done"
    /\ UNCHANGED <<org, admin, queue, thread, posts, jobVars>>

(***************************************************************************)
(* The three POST routes.  A client posts once its signup was answered.    *)
(***************************************************************************)

Posted(h, pc, k, n) ==
    /\ signup = "done" /\ org.exists
    /\ thread[h].pc = "idle"
    /\ posts < MaxPosts
    /\ posts' = posts + 1
    /\ thread' = [thread EXCEPT ![h] = [pc |-> pc, kind |-> k, count |-> n]]

\* POST /task/provision reads the limit: it is the default count and the cap.
PostProvision(h) ==
    /\ \/ Posted(h, "check", "network", org.limit)
       \/ \E n \in Counts :
             Posted(h, "check", "network", SmallerOf(n, org.limit))
    /\ UNCHANGED <<org, signup, admin, queue, jobVars>>

\* POST /task/provisionworkstations checks neither limit nor status.
PostWorkstations(h) ==
    /\ \E n \in Counts : Posted(h, "seed", "workstations", n)
    /\ UNCHANGED <<org, signup, admin, queue, jobVars>>

PostDestroy(h) ==
    /\ Posted(h, "dispatch", "destroy", 0)
    /\ UNCHANGED <<org, signup, admin, queue, jobVars>>

\* The second read of the organisation.  No code writes "complete" or
\* "completed" into its status, so "provisioning" is what it can find.
CheckProvisioned(h) ==
    /\ thread[h].pc = "check"
    /\ \/ /\ org.status \in {"complete", "completed", "provisioning"}
          /\ thread' = [thread EXCEPT ![h] = IdleThread]
          /\ UNCHANGED accepted
       \/ /\ org.status \notin {"complete", "completed", "provisioning"}
          /\ thread' = [thread EXCEPT ![h].pc = "seed"]
          /\ accepted' = [accepted EXCEPT ![h] = @ + 1]
    /\ UNCHANGED <<mode, org, signup, admin, docVars, queue, worker, infra, itam,
                   workCounts, unmarked, posts>>

\* _seed_workstations(org_id, count)
SeedWorkstations(h) ==
    /\ thread[h].pc = "seed"
    /\ stubs' = stubs + thread[h].count
    /\ thread' = [thread EXCEPT ![h].pc =
                     IF thread[h].kind = "network" THEN "mark" ELSE "dispatch"]
    /\ UNCHANGED <<mode, org, signup, admin, linked, online, queue, worker, infra, itam,
                   countVars, posts>>

\* Mutant of MarkProvisioning: the mark is not written.
MarkProvisioning_NoMark(h) ==
    /\ thread[h].pc = "mark"
    /\ thread' = [thread EXCEPT ![h].pc = "dispatch"]
    /\ UNCHANGED <<org, signup, admin, queue, posts, jobVars>>

MarkProvisioning(h) ==
    /\ thread[h].pc = "mark"
    /\ org' = [org EXCEPT !.status = "provisioning"]
    /\ thread' = [thread EXCEPT ![h].pc = "dispatch"]
    /\ UNCHANGED <<signup, admin, queue, posts, jobVars>>

Dispatch(h) ==
    /\ thread[h].pc = "dispatch"
    /\ queue' = Append(queue, Job(thread[h].kind, thread[h].count))
    /\ thread' = [thread EXCEPT ![h] = IdleThread]
    /\ UNCHANGED <<org, signup, admin, posts, jobVars>>

\* MongoDB or Redis fails, or the server is lost: the request ends where it
\* is, and nothing undoes what it did.
RequestLost(h) ==
    /\ Faults # {}
    /\ thread[h].pc # "idle"
    /\ unmarked' = IF thread[h].kind = "network" /\ thread[h].pc \in {"seed", "mark"}
                      THEN [unmarked EXCEPT ![h] = @ + 1] ELSE unmarked
    /\ thread' = [thread EXCEPT ![h] = IdleThread]
    /\ UNCHANGED <<mode, org, signup, admin, docVars, queue, worker, infra, itam,
                   workCounts, accepted, posts>>

\* The billing webhook gives the organisation the limit of another package.
LimitChanges ==
    /\ org.exists
    /\ \E n \in Limits \ {org.limit} : org' = [org EXCEPT !.limit = n]
    /\ UNCHANGED <<signup, admin, queue, thread, posts, jobVars>>

-----------------------------------------------------------------------------
(***************************************************************************)
(* The jobs                                                                *)
(***************************************************************************)

frontVars == <<mode, signup, admin, thread, accepted, unmarked, posts>>

Take(w) ==
    /\ worker[w].pc = "idle"
    /\ queue # <<>>
    /\ worker' = [worker EXCEPT ![w] = [pc |-> "begin", kind |-> Head(queue).kind,
                                        count |-> Head(queue).count]]
    /\ queue' = Tail(queue)
    /\ UNCHANGED <<org, docVars, infra, itam, workCounts, frontVars>>

At(w, pc, k) == worker[w].pc = pc /\ worker[w].kind = k

\* _update_org_provisioning_status: what it raises is logged and swallowed.
WriteStatus(s) ==
    \/ org' = [org EXCEPT !.prov = s]
    \/ "raise" \in Faults /\ UNCHANGED org

(* provision_network *)

\* The limit is read again and the ValueError raised outside of the try: the
\* job then ends without a status.
BeginNetwork(w) ==
    /\ At(w, "begin", "network")
    /\ LET desired == IF worker[w].count # 0 THEN worker[w].count ELSE org.limit
       IN  IF desired > org.limit THEN Ends(w) ELSE Goto(w, "mark")
    /\ UNCHANGED <<org, docVars, queue, infra, itam, workCounts, frontVars>>

MarkInProgress(w) ==
    /\ worker[w].pc = "mark"
    /\ WriteStatus("in_progress")
    /\ Goto(w, "dc")
    /\ UNCHANGED <<docVars, queue, infra, itam, workCounts, frontVars>>

ModeOf(w) == mode[IF worker[w].kind = "workstations" THEN 2 ELSE 1]

\* What a build that did not succeed does next: provision_network records
\* "failed", provision_workstations only raises or returns.
Failed(w) ==
    IF worker[w].kind = "workstations" THEN Ends(w) ELSE Goto(w, "fail")

\* provision_network_docker up to the domain controller.  Its container has
\* the organisation's name, so Docker refuses to run a second one.
RunDomainController(w) ==
    /\ ModeOf(w) = "docker"
    /\ worker[w].pc = "dc"
    /\ \/ /\ "dc" \notin infra
          /\ infra' = infra \cup {"dc"}
          /\ Goto(w, "rest")
       \/ Failed(w) /\ UNCHANGED infra
    /\ UNCHANGED <<org, docVars, queue, itam, workCounts, frontVars>>

\* The rest of it: VPN server, threat detection, workstation.  It returns
\* metadata with or without a workstation, or gives up and leaves behind the
\* containers it has started.
RunOthers(w) ==
    /\ worker[w].pc = "rest"
    /\ \/ /\ {"vpn", "td"} \cap infra = {}
          /\ \E new \in {{"vpn", "td"}, {"vpn", "td", "ws"}} :
                /\ infra' = infra \cup new
                /\ CASE worker[w].kind = "workstations" -> Ends(w)
                     [] worker[w].kind # "workstations" /\ "ws" \in new ->
                            Goto(w, "link")
                     [] OTHER        -> Goto(w, "clear")
       \/ /\ \E new \in {{}, {"vpn"}} : infra' = infra \cup new
          /\ Failed(w)
    /\ UNCHANGED <<org, docVars, queue, itam, workCounts, frontVars>>

\* provision_network_terraform, or the terraform apply of
\* provision_workstations.
ApplyTerraform(w) ==
    /\ ModeOf(w) = "terraform"
    /\ worker[w].pc = "dc"
    /\ \/ /\ infra' = infra \cup {"aws"}
          /\ Goto(w, IF worker[w].kind = "workstations" THEN "online" ELSE "clear")
       \/ Failed(w) /\ UNCHANGED infra
    /\ UNCHANGED <<org, docVars, queue, itam, workCounts, frontVars>>

\* The workstation's container id goes to one seeded document without one.
LinkContainer(w) ==
    /\ worker[w].pc = "link"
    /\ \/ stubs > 0 /\ stubs' = stubs - 1 /\ linked' = linked + 1
       \/ stubs = 0 /\ UNCHANGED <<stubs, linked>>
    /\ Goto(w, "clear")
    /\ UNCHANGED <<org, online, queue, infra, itam, workCounts, frontVars>>

\* Mutant of ClearInventory: nothing is deleted before the insert.
ClearInventory_Kept(w) ==
    /\ worker[w].pc = "clear"
    /\ Goto(w, "insert")
    /\ UNCHANGED <<org, docVars, queue, infra, itam, workCounts, frontVars>>

\* insert_inventory: delete_many, whose exceptions are swallowed ...
ClearInventory(w) ==
    /\ worker[w].pc = "clear"
    /\ \/ itam' = [v \in Workers |-> 0] /\ UNCHANGED uncleared
       \/ /\ "raise" \in Faults
          /\ uncleared' = [uncleared EXCEPT ![w] = @ + 1]
          /\ UNCHANGED itam
    /\ Goto(w, "insert")
    /\ UNCHANGED <<org, docVars, queue, infra, emails, unflagged, frontVars>>

\* ... then insert_one.
InsertInventory(w) ==
    /\ worker[w].pc = "insert"
    /\ itam' = [itam EXCEPT ![w] = @ + 1]
    /\ Goto(w, "complete")
    /\ UNCHANGED <<org, docVars, queue, infra, workCounts, frontVars>>

MarkCompleted(w) ==
    /\ worker[w].pc = "complete"
    /\ WriteStatus("completed")
    /\ Goto(w, "ready")
    /\ UNCHANGED <<docVars, queue, infra, itam, workCounts, frontVars>>

\* enqueue_org_welcome_email_if_ready: the two guards and the admin are read,
\* then the email is queued, then the flag set.
WelcomeReady(w) ==
    /\ worker[w].pc = "ready"
    /\ IF org.prov = "completed" /\ ~ org.welcomed /\ admin
         THEN Goto(w, "email") ELSE Ends(w)
    /\ UNCHANGED <<org, docVars, queue, infra, itam, workCounts, frontVars>>

EnqueueWelcome(w) ==
    /\ worker[w].pc = "email"
    /\ emails' = [emails EXCEPT ![w] = @ + 1]
    /\ Goto(w, "flag")
    /\ UNCHANGED <<org, docVars, queue, infra, itam, uncleared, unflagged, frontVars>>

\* Mutant of FlagWelcomed: the flag is not set.
FlagWelcomed_NoFlag(w) ==
    /\ worker[w].pc = "flag"
    /\ Ends(w)
    /\ UNCHANGED <<org, docVars, queue, infra, itam, workCounts, frontVars>>

FlagWelcomed(w) ==
    /\ worker[w].pc = "flag"
    /\ org' = [org EXCEPT !.welcomed = TRUE]
    /\ Ends(w)
    /\ UNCHANGED <<docVars, queue, infra, itam, workCounts, frontVars>>

\* Mutant of MarkFailed: the failure is raised and no status written.
MarkFailed_NoStatus(w) ==
    /\ worker[w].pc = "fail"
    /\ Ends(w)
    /\ UNCHANGED <<org, docVars, queue, infra, itam, workCounts, frontVars>>

MarkFailed(w) ==
    /\ worker[w].pc = "fail"
    /\ WriteStatus("failed")
    /\ Ends(w)
    /\ UNCHANGED <<docVars, queue, infra, itam, workCounts, frontVars>>

(* provision_workstations *)

\* It builds with the same Docker function, and records no status.
BeginWorkstations(w) ==
    /\ At(w, "begin", "workstations")
    /\ Goto(w, "dc")
    /\ UNCHANGED <<org, docVars, queue, infra, itam, workCounts, frontVars>>

\* update_many: every seeded document of the organisation, also those of a
\* request whose job has not run yet.
SetOnline(w) ==
    /\ worker[w].pc = "online"
    /\ \/ stubs' = 0 /\ online' = online + stubs
       \/ "raise" \in Faults /\ UNCHANGED <<stubs, online>>
    /\ Ends(w)
    /\ UNCHANGED <<org, linked, queue, infra, itam, workCounts, frontVars>>

(* destroy_environment *)

\* Without a run directory, Terraform has nothing to destroy unless forced.
BeginDestroy(w) ==
    /\ At(w, "begin", "destroy")
    /\ \/ Goto(w, "remove")
       \/ ModeOf(w) = "terraform" /\ "aws" \notin infra /\ Ends(w)
    /\ UNCHANGED <<org, docVars, queue, infra, itam, workCounts, frontVars>>

RemoveInfrastructure(w) ==
    /\ worker[w].pc = "remove"
    /\ infra' = IF ModeOf(w) = "docker" THEN {c \in infra : ~ DestroyFilter(c)}
                                   ELSE infra \ {"aws"}
    /\ Goto(w, "wipe")
    /\ UNCHANGED <<org, docVars, queue, itam, workCounts, frontVars>>

\* find_one_and_delete: one document, whichever it finds.
DeleteInventory(w) ==
    /\ worker[w].pc = "wipe"
    /\ \/ \E v \in Workers : itam[v] > 0 /\ itam' = [itam EXCEPT ![v] = @ - 1]
       \/ (\A v \in Workers : itam[v] = 0) /\ UNCHANGED itam
    /\ Goto(w, "destroyed")
    /\ UNCHANGED <<org, docVars, queue, infra, workCounts, frontVars>>

MarkDestroyed(w) ==
    /\ worker[w].pc = "destroyed"
    /\ WriteStatus("destroyed")
    /\ Ends(w)
    /\ UNCHANGED <<docVars, queue, infra, itam, workCounts, frontVars>>

(* Failures *)

\* The job ends in the middle of the welcome email.
LosesFlag(w) ==
    unflagged' = IF worker[w].pc = "flag" THEN [unflagged EXCEPT ![w] = @ + 1]
                                          ELSE unflagged

\* A step of the job raises (a lost connection, the job's timeout).  Who
\* catches it decides what comes next.
Raises(w) ==
    /\ "raise" \in Faults
    /\ worker[w].pc \in {"begin", "dc", "rest", "link", "clear", "insert",
                         "ready", "email", "flag", "remove", "wipe"}
    /\ CASE worker[w].pc \in {"dc", "rest"} -> Failed(w)
         [] worker[w].pc = "link" -> Goto(w, "clear")
         [] worker[w].pc \in {"clear", "insert"} ->
               Goto(w, IF ModeOf(w) = "docker" THEN "complete" ELSE "fail")
         [] worker[w].pc \in {"remove", "wipe"} -> Goto(w, "fail")
         [] worker[w].pc \in {"begin", "ready", "email", "flag"} -> Ends(w)
    /\ LosesFlag(w)
    /\ UNCHANGED <<org, docVars, queue, infra, itam, emails, uncleared, frontVars>>

\* The worker process is lost.  No job is queued with a retry.
Crashes(w) ==
    /\ "crash" \in Faults
    /\ worker[w].pc # "idle"
    /\ Ends(w)
    /\ LosesFlag(w)
    /\ UNCHANGED <<org, docVars, queue, infra, itam, emails, uncleared, frontVars>>

-----------------------------------------------------------------------------

Signup == SignupOrg \/ SignupUser \/ SignupEnqueue \/ SignupStatus

Serve(h) ==
    CheckProvisioned(h) \/ SeedWorkstations(h) \/ MarkProvisioning(h) \/ Dispatch(h)

Network(w) ==
    \/ BeginNetwork(w) \/ MarkInProgress(w) \/ RunDomainController(w)
    \/ RunOthers(w) \/ ApplyTerraform(w) \/ LinkContainer(w)
    \/ ClearInventory(w) \/ InsertInventory(w) \/ MarkCompleted(w)
    \/ WelcomeReady(w) \/ EnqueueWelcome(w) \/ FlagWelcomed(w) \/ MarkFailed(w)

Run(w) ==
    \/ Take(w) \/ Network(w)
    \/ BeginWorkstations(w) \/ SetOnline(w)
    \/ BeginDestroy(w) \/ RemoveInfrastructure(w) \/ DeleteInventory(w)
    \/ MarkDestroyed(w)

Next ==
    \/ Signup \/ SignupFails \/ SignupLost
    \/ LimitChanges
    \/ \E h \in Handlers :
          \/ PostProvision(h) \/ PostWorkstations(h) \/ PostDestroy(h)
          \/ Serve(h) \/ RequestLost(h)
    \/ \E w \in Workers : Run(w) \/ Raises(w) \/ Crashes(w)

Spec == Init /\ [][Next]_vars

\* A request that was begun is served to its end, and the workers take and run
\* every job.  Nobody has to sign up or post anything.
Fairness ==
    /\ WF_vars(signup # "start" /\ Signup)
    /\ \A h \in Handlers : WF_vars(Serve(h))
    /\ \A w \in Workers : WF_vars(Run(w))

FairSpec == Spec /\ Fairness

-----------------------------------------------------------------------------
(***************************************************************************)
(* Properties                                                              *)
(***************************************************************************)

OrgRecord == [exists : BOOLEAN,
              status : {"unset", "provisioning"},
              prov : {"pending", "in_progress"} \cup Finals,
              welcomed : BOOLEAN,
              limit : Limits]

TaskRecord(steps) == [pc : steps, kind : JobKinds \cup {"none"}, count : Nat]

\* Every variable keeps its type.
TypeOK ==
    /\ mode \in Modes
    /\ org \in OrgRecord
    /\ signup \in {"start", "org", "user", "queued", "done"}
    /\ admin \in BOOLEAN
    /\ stubs \in Nat /\ linked \in Nat /\ online \in Nat
    /\ queue \in Seq([kind : JobKinds, count : Nat])
    /\ thread \in [Handlers -> TaskRecord(ThreadSteps)]
    /\ worker \in [Workers -> TaskRecord(WorkerSteps)]
    /\ infra \in SUBSET Containers
    /\ itam \in [Workers -> Nat]
    /\ emails \in [Workers -> Nat]
    /\ uncleared \in [Workers -> Nat]
    /\ unflagged \in [Workers -> Nat]
    /\ accepted \in [Handlers -> Nat]
    /\ unmarked \in [Handlers -> Nat]
    /\ posts \in 0 .. MaxPosts

\* insert_inventory deletes and inserts in two steps.  Whatever the workers'
\* steps interleave to, and wherever they are lost, a worker leaves at most one
\* of its own documents in the inventory, plus one for every deletion of its
\* own that failed: the documents are bounded by the workers and the failures.
OneInventoryPerWorker == \A w \in Workers : itam[w] <= 1 + uncleared[w]

\* The flag that stops a second welcome email is set after the email is queued
\* and read long before.  A worker still queues at most one, plus one for every
\* of its jobs that ended between the email and the flag.
OneWelcomePerWorker == \A w \in Workers : emails[w] <= 1 + unflagged[w]

\* The mark that refuses a second build is written two round trips after it is
\* checked.  A request thread still lets at most one build through, plus one
\* for every request it lost before the mark.
OneBuildPerThread == \A h \in Handlers : accepted[h] <= 1 + unmarked[h]

Quiet ==
    /\ queue = <<>>
    /\ \A h \in Handlers : thread[h].pc = "idle"
    /\ \A w \in Workers : worker[w].pc = "idle"

\* When no step fails and the limit does not change, an organisation marked as
\* provisioning comes to rest with the outcome of a job in its
\* provisioning_status, never with the "in_progress" of a job that is over.
MarkedOrgSettles ==
    org.status = "provisioning" ~> Quiet /\ org.prov \in Finals

=============================================================================
