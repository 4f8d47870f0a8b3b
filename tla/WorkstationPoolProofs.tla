------------------------ MODULE WorkstationPoolProofs ------------------------
(***************************************************************************)
(* Proofs about WorkstationPool, for every value of its constants: every   *)
(* number of users, VMs, request threads and jobs, with and without faults;*)
(* and about DockerHost, the host on which the pool's VMs are built and    *)
(* started, for every number of organisations, builds, boots and subnets.  *)
(***************************************************************************)
EXTENDS WorkstationPool, DockerHost, FiniteSetTheorems, WellFoundedInduction, TLAPS

(***************************************************************************)
(* UsedIffOwned is not inductive: the end of a boot writes "active" over   *)
(* whatever it finds, and a late assignment writes "used" over whatever it *)
(* finds.  Both are harmless because of three facts about the jobs and the *)
(* requests in flight.                                                     *)
(***************************************************************************)

\* The VM of a start job that is not over is still provisioning ...
BootsProvisioning ==
    \A j \in StartJobs :
        /\ job[j].pc \in {"queued", "booting"} => job[j].template \in Templates
        /\ job[j].pc = "booting" => job[j].vm \in VMs
        /\ job[j].pc \in {"queued", "booting"} /\ job[j].vm # NoVM
              => vm[job[j].vm].status = "provisioning"

\* ... and no other start job that is not over has the same VM.
BootsDistinct ==
    \A i, j \in StartJobs :
        /\ i # j
        /\ job[i].pc \in {"queued", "booting"}
        /\ job[j].pc \in {"queued", "booting"}
        /\ job[i].vm # NoVM
        => job[i].vm # job[j].vm

\* The VM a request is about to assign has been booted, and is of a template
\* that admits the user the request is for.
PicksBooted ==
    \A h \in Handlers :
        req[h].pc = "assign" =>
            /\ req[h].user \in Users
            /\ req[h].pick \in VMs
            /\ vm[req[h].pick].status \in {"active", "used"}
            /\ vm[req[h].pick].template \in Templates
            /\ req[h].user \in Members[vm[req[h].pick].template]

IInv ==
    /\ TypeOK
    /\ UsedIffOwned
    /\ OwnersEntitled
    /\ BootsProvisioning
    /\ BootsDistinct
    /\ PicksBooted

USE DEF poolVars, clientVars

-----------------------------------------------------------------------------
(* The access rule: only direct members are ever offered a VM. *)

\* A string id never equals an ObjectId, so the templates a user can be served
\* from are those that list the user directly.
LEMMA TemplatesOfMembers ==
    ASSUME NEW u \in Users, NEW t \in TemplatesOf(u)
    PROVE  t \in Templates /\ u \in Members[t]
<1>1. ASSUME NEW g, NEW k PROVE StringId(g) # ObjectId(k)
  <2>1. "str" # "oid"
    OBVIOUS
  <2>2. StringId(g).type = "str" /\ ObjectId(k).type = "oid"
    BY DEF StringId, ObjectId
  <2>. QED BY <2>1, <2>2
<1>. QED BY <1>1 DEF TemplatesOf

-----------------------------------------------------------------------------
(* Type correctness *)

\* The number of jobs a template is sized for is a natural number.
LEMMA PoolSize ==
    ASSUME NEW t \in Templates
    PROVE  Cardinality(PoolMembers(t)) \in Nat
<1>1. PoolMembers(t) \subseteq Users
  BY AccessAssumption DEF PoolMembers
<1>2. IsFiniteSet(PoolMembers(t))
  BY <1>1, AccessAssumption, FS_Subset
<1>. QED BY <1>2, FS_CardinalityType

\* The edits the actions make keep a record in its type.
LEMMA VMEdit ==
    ASSUME NEW r \in VMRecord, NEW s \in VMStates, NEW u \in Users \cup {NoUser}
    PROVE  /\ [r EXCEPT !.status = s] \in VMRecord
           /\ [r EXCEPT !.cur_user_id = u, !.status = s] \in VMRecord
BY DEF VMRecord

\* So do the edits of a ws_start job.
LEMMA JobEdit ==
    ASSUME NEW r \in JobRecord, NEW p \in JobStates, NEW v \in VMs \cup {NoVM}
    PROVE  /\ [r EXCEPT !.pc = p] \in JobRecord
           /\ [r EXCEPT !.pc = p, !.vm = v] \in JobRecord
BY DEF JobRecord

\* The records the actions write from scratch are of their types.
LEMMA NewRecords ==
    ASSUME NEW t \in Templates, NEW v \in VMs \cup {NoVM}
    PROVE  /\ [status |-> "provisioning", template |-> t, cur_user_id |-> NoUser]
                  \in VMRecord
           /\ [pc |-> "queued", template |-> t, vm |-> v] \in JobRecord
           /\ IdleReq \in ReqRecord
BY DEF VMRecord, VMStates, JobRecord, JobStates, ReqRecord, IdleReq

\* The types hold initially ...
LEMMA InitTypeOK == Init => TypeOK
BY DEF Init, TypeOK, IdleReq, VMRecord, JobRecord, ReqRecord, TemplateStates,
   CreateStates, VMStates, JobStates

\* ... and every step of a route or a job keeps them.
LEMMA NextTypeOK == TypeOK /\ [Next]_vars => TypeOK'
<1>. SUFFICES ASSUME TypeOK, [Next]_vars PROVE TypeOK'
  OBVIOUS
<1>. USE DEF TypeOK
<1>1. ASSUME NEW t \in Templates, CreateTemplate(t) PROVE TypeOK'
  BY <1>1 DEF CreateTemplate, TemplateStates, CreateStates
<1>2. ASSUME NEW t \in Templates, StartRoute(t) PROVE TypeOK'
  <2>1. PICK j \in StartJobs :
          job' = [job EXCEPT ![j] = [pc |-> "queued", template |-> t, vm |-> NoVM]]
    BY <1>2, BoundsAssumption DEF StartRoute, Enqueued
  <2>2. [pc |-> "queued", template |-> t, vm |-> NoVM] \in JobRecord
    BY NewRecords
  <2>. QED BY <1>2, <2>1, <2>2 DEF StartRoute
<1>3. ASSUME NEW t \in Templates, BuildTemplate(t) PROVE TypeOK'
  BY <1>3, PoolSize DEF BuildTemplate, TemplateStates, CreateStates
<1>4. ASSUME NEW t \in Templates, StartOne(t) PROVE TypeOK'
  BY <1>4, NewRecords DEF StartOne, Inserted, Enqueued
<1>5. ASSUME NEW t \in Templates, StartsDone(t) PROVE TypeOK'
  BY <1>5 DEF StartsDone, CreateStates
<1>6. ASSUME NEW t \in Templates, CreateFails(t) PROVE TypeOK'
  BY <1>6, NewRecords DEF CreateFails, Inserted, CreateStates
<1>7. ASSUME NEW j \in StartJobs, EndJob(j) PROVE job' \in [StartJobs -> JobRecord]
  <2>1. job[j] \in JobRecord /\ "ended" \in JobStates
    BY DEF JobStates
  <2>2. [job[j] EXCEPT !.pc = "ended"] \in JobRecord
    BY <2>1, JobEdit
  <2>. QED BY <2>2, <1>7 DEF EndJob
<1>8. ASSUME NEW j \in StartJobs, StartRefused(j) \/ BootFails(j) PROVE TypeOK'
  BY <1>7, <1>8 DEF StartRefused, BootFails
<1>9. ASSUME NEW j \in StartJobs, StartAccepted(j) PROVE TypeOK'
  <2>1. job[j] \in JobRecord /\ "booting" \in JobStates
    BY DEF JobStates
  <2>2. [job[j] EXCEPT !.pc = "booting"] \in JobRecord
    BY <2>1, JobEdit
  <2>3. CASE job[j].vm # NoVM
    BY <2>2, <2>3, <1>9 DEF StartAccepted
  <2>4. CASE job[j].vm = NoVM
    <3>1. PICK v \in VMs :
            /\ Inserted(v, job[j].template)
            /\ job' = [job EXCEPT ![j].pc = "booting", ![j].vm = v]
      BY <2>4, <1>9 DEF StartAccepted
    <3>2. [job[j] EXCEPT !.pc = "booting", !.vm = v] \in JobRecord
      BY <2>1, JobEdit
    <3>3. job[j].template \in Templates \cup {NoTemplate}
      BY DEF JobRecord
    <3>4. [status |-> "provisioning", template |-> job[j].template,
           cur_user_id |-> NoUser] \in VMRecord
      BY <3>3 DEF VMRecord, VMStates
    <3>. QED BY <3>1, <3>2, <3>4, <1>9 DEF StartAccepted, Inserted
  <2>. QED BY <2>3, <2>4
<1>10. ASSUME NEW j \in StartJobs, BootSucceeds(j) PROVE TypeOK'
  <2>1. job' \in [StartJobs -> JobRecord]
    BY <1>7, <1>10 DEF BootSucceeds
  <2>2. ASSUME NEW v \in VMs PROVE [vm[v] EXCEPT !.status = "active"] \in VMRecord
    BY VMEdit DEF VMStates
  <2>. QED BY <2>1, <2>2, <1>10 DEF BootSucceeds
<1>11. ASSUME NEW h \in Handlers, NEW u \in Users,
              PickAvailable(h, u) \/ AssignRefused(h, u)
       PROVE  TypeOK'
  BY <1>11 DEF PickAvailable, AssignRefused, Available, ReqRecord
<1>12. ASSUME NEW v \in VMs, NEW u \in Users \cup {NoUser},
              NEW s \in {"active", "used"}
       PROVE  [vm[v] EXCEPT !.cur_user_id = u, !.status = s] \in VMRecord
  BY VMEdit DEF VMStates
<1>13. ASSUME NEW h \in Handlers, Assign(h) \/ AssignLost(h) PROVE TypeOK'
  <2>1. req[h].user \in Users /\ req[h].pick \in VMs
    BY <1>13 DEF Assign, AssignLost, ReqRecord, IdleReq
  <2>2. req' \in [Handlers -> ReqRecord]
    BY <1>13, NewRecords DEF Assign, AssignLost, ReqRecord
  <2>3. [vm[req[h].pick] EXCEPT !.cur_user_id = req[h].user, !.status = "used"]
           \in VMRecord
    BY <2>1, <1>12
  <2>4. vm' \in [VMs -> VMRecord]
    BY <2>1, <2>3, <1>13 DEF Assign, AssignLost
  <2>. QED BY <2>1, <2>2, <2>4, <1>13 DEF Assign, AssignLost
<1>14. ASSUME NEW u \in Users, Release(u) PROVE TypeOK'
  <2>1. ASSUME NEW v \in VMs
        PROVE  [vm[v] EXCEPT !.cur_user_id = NoUser, !.status = "active"]
                  \in VMRecord
    BY <1>12
  <2>2. vm' \in [VMs -> VMRecord]
    BY <2>1, <1>14 DEF Release, Held
  <2>. QED BY <2>2, <1>14 DEF Release
<1>15. CASE UNCHANGED vars
  BY <1>15 DEF vars
<1>. QED
  BY <1>1, <1>2, <1>3, <1>4, <1>5, <1>6, <1>8, <1>9, <1>10, <1>11, <1>13,
     <1>14, <1>15
     DEF Next, Jobs, Requests

-----------------------------------------------------------------------------
(* The inductive invariant *)

\* The inductive invariant holds before any template is posted ...
LEMMA InitInv == Init => IInv
BY InitTypeOK, NullAssumption DEF Init, IInv, IdleReq, UsedIffOwned,
   OwnersEntitled, BootsProvisioning, BootsDistinct, PicksBooted

\* A step that changes no document, job or request keeps the rest.
LEMMA NothingMoves ==
    ASSUME IInv, TypeOK', UNCHANGED <<vm, job, req>>
    PROVE  IInv'
BY DEF IInv, UsedIffOwned, OwnersEntitled, BootsProvisioning, BootsDistinct,
   PicksBooted

\* A new stub document disturbs no job and no request: theirs are not absent.
LEMMA InsertKeeps ==
    ASSUME IInv, NEW v \in VMs, NEW t \in Templates,
           vm[v].status = "absent", Inserted(v, t)
    PROVE  /\ UsedIffOwned'
           /\ OwnersEntitled'
           /\ \A w \in VMs : w # v => vm'[w] = vm[w]
           /\ vm'[v].status = "provisioning" /\ vm'[v].template = t
           /\ UNCHANGED req => PicksBooted'
<1>1. /\ \A w \in VMs : w # v => vm'[w] = vm[w]
      /\ vm'[v] = [status |-> "provisioning", template |-> t, cur_user_id |-> NoUser]
  BY DEF IInv, TypeOK, Inserted
<1>. QED BY <1>1 DEF IInv, UsedIffOwned, OwnersEntitled, PicksBooted

\* A job that is queued for a provisioning VM nobody else boots, or for none.
LEMMA EnqueueKeeps ==
    ASSUME IInv, TypeOK', NEW j \in StartJobs, NEW t \in Templates,
           NEW v \in VMs \cup {NoVM}, Enqueued(j, t, v),
           v # NoVM => /\ vm'[v].status = "provisioning"
                       /\ vm[v].status = "absent",
           \A w \in VMs : w # v => vm'[w] = vm[w]
    PROVE  BootsProvisioning' /\ BootsDistinct'
<1>1. /\ job'[j] = [pc |-> "queued", template |-> t, vm |-> v]
      /\ \A i \in StartJobs : i # j => job'[i] = job[i]
  BY DEF IInv, TypeOK, Enqueued
<1>2. \A i \in StartJobs : job[i].vm \in VMs \cup {NoVM}
  BY DEF IInv, TypeOK, JobRecord
<1>3. \A i \in StartJobs : job[i].pc \in {"queued", "booting"} => job[i].vm # v \/ v = NoVM
  BY DEF IInv, BootsProvisioning
<1>4. BootsProvisioning'
  BY <1>1, <1>2, <1>3 DEF IInv, BootsProvisioning
<1>5. BootsDistinct'
  BY <1>1, <1>3 DEF IInv, BootsDistinct
<1>. QED BY <1>4, <1>5

\* Ending a job, and leaving the documents of the other jobs' VMs alone.
LEMMA EndKeeps ==
    ASSUME IInv, NEW j \in StartJobs, EndJob(j),
           \A w \in VMs : w # job[j].vm => vm'[w].status = vm[w].status,
           job[j].pc \in {"queued", "booting"},
           vm' = vm \/ job[j].vm # NoVM
    PROVE  BootsProvisioning' /\ BootsDistinct'
<1>1. /\ job'[j].pc = "ended"
      /\ \A i \in StartJobs : i # j => job'[i] = job[i]
  BY DEF IInv, TypeOK, EndJob, JobRecord
<1>2. \A i \in StartJobs : job[i].vm \in VMs \cup {NoVM}
  BY DEF IInv, TypeOK, JobRecord
<1>3. BootsProvisioning'
  BY <1>1, <1>2 DEF IInv, BootsProvisioning, BootsDistinct
<1>4. BootsDistinct'
  BY <1>1 DEF IInv, BootsDistinct
<1>. QED BY <1>3, <1>4

\* A client's step touches at most one VM, one that was booted: the VM of no
\* start job that is not over.
LEMMA JobsUndisturbed ==
    ASSUME IInv, job' = job, NEW v \in VMs,
           vm' = vm \/ vm[v].status \in {"active", "used"},
           \A w \in VMs : w # v => vm'[w] = vm[w]
    PROVE  BootsProvisioning' /\ BootsDistinct'
<1>1. \A i \in StartJobs : job[i].vm \in VMs \cup {NoVM}
  BY DEF IInv, TypeOK, JobRecord
<1>2. BootsProvisioning'
  BY <1>1 DEF IInv, BootsProvisioning
<1>3. BootsDistinct'
  BY DEF IInv, BootsDistinct
<1>. QED BY <1>2, <1>3

\* ... and every step keeps it: one step of the proof per action.
LEMMA NextInv == IInv /\ [Next]_vars => IInv'
<1>. SUFFICES ASSUME IInv, [Next]_vars PROVE IInv'
  OBVIOUS
<1>0. TypeOK'
  BY NextTypeOK DEF IInv
<1>1. ASSUME UNCHANGED <<vm, job, req>> PROVE IInv'
  BY <1>0, <1>1, NothingMoves
<1>2. ASSUME NEW t \in Templates,
             CreateTemplate(t) \/ BuildTemplate(t) \/ StartsDone(t)
      PROVE  IInv'
  BY <1>1, <1>2 DEF CreateTemplate, BuildTemplate, StartsDone
<1>3. ASSUME NEW t \in Templates, StartRoute(t) PROVE IInv'
  <2>1. PICK j \in StartJobs : Enqueued(j, t, NoVM)
    BY <1>3, BoundsAssumption DEF StartRoute
  <2>2. BootsProvisioning' /\ BootsDistinct'
    BY <1>0, <1>3, <2>1, EnqueueKeeps DEF StartRoute
  <2>3. UsedIffOwned' /\ OwnersEntitled' /\ PicksBooted'
    BY <1>3 DEF StartRoute, IInv, UsedIffOwned, OwnersEntitled, PicksBooted
  <2>. QED BY <1>0, <2>2, <2>3 DEF IInv
<1>4. ASSUME NEW t \in Templates, StartOne(t) PROVE IInv'
  <2>1. PICK v \in VMs, j \in StartJobs :
           vm[v].status = "absent" /\ Inserted(v, t) /\ Enqueued(j, t, v)
    BY <1>4 DEF StartOne
  <2>2. UsedIffOwned' /\ OwnersEntitled' /\ PicksBooted'
    BY <1>4, <2>1, InsertKeeps DEF StartOne
  <2>3. vm'[v].status = "provisioning" /\ \A w \in VMs : w # v => vm'[w] = vm[w]
    BY <2>1, InsertKeeps
  <2>4. BootsProvisioning' /\ BootsDistinct'
    BY <1>0, <2>1, <2>3, EnqueueKeeps
  <2>. QED BY <1>0, <2>2, <2>4 DEF IInv
<1>5. ASSUME NEW t \in Templates, CreateFails(t) PROVE IInv'
  <2>1. CASE UNCHANGED vm
    BY <1>1, <1>5, <2>1 DEF CreateFails
  <2>2. CASE \E v \in VMs : vm[v].status = "absent" /\ Inserted(v, t)
    <3>1. PICK v \in VMs : vm[v].status = "absent" /\ Inserted(v, t)
      BY <2>2
    <3>2. UsedIffOwned' /\ OwnersEntitled' /\ PicksBooted'
      BY <1>5, <3>1, InsertKeeps DEF CreateFails
    <3>3. \A w \in VMs : w # v => vm'[w] = vm[w]
      BY <3>1, InsertKeeps
    <3>4. \A i \in StartJobs : job[i].vm \in VMs \cup {NoVM}
      BY DEF IInv, TypeOK, JobRecord
    <3>5. BootsProvisioning' /\ BootsDistinct'
      BY <1>5, <3>1, <3>3, <3>4 DEF CreateFails, IInv, BootsProvisioning,
         BootsDistinct
    <3>. QED BY <1>0, <3>2, <3>5 DEF IInv
  <2>. QED BY <1>5, <2>1, <2>2 DEF CreateFails
<1>6. ASSUME NEW j \in StartJobs, StartRefused(j) \/ BootFails(j) PROVE IInv'
  <2>1. EndJob(j) /\ vm' = vm /\ req' = req /\ job[j].pc \in {"queued", "booting"}
    BY <1>6 DEF StartRefused, BootFails
  <2>2. BootsProvisioning' /\ BootsDistinct'
    BY <2>1, EndKeeps
  <2>3. UsedIffOwned' /\ OwnersEntitled' /\ PicksBooted'
    BY <2>1 DEF IInv, UsedIffOwned, OwnersEntitled, PicksBooted
  <2>. QED BY <1>0, <2>2, <2>3 DEF IInv
<1>7. ASSUME NEW j \in StartJobs, StartAccepted(j) PROVE IInv'
  <2>0. \A i \in StartJobs : job[i].vm \in VMs \cup {NoVM}
    BY DEF IInv, TypeOK, JobRecord
  <2>1. CASE job[j].vm # NoVM
    <3>1. /\ job'[j].pc = "booting" /\ job'[j].vm = job[j].vm
          /\ job'[j].template = job[j].template
          /\ \A i \in StartJobs : i # j => job'[i] = job[i]
          /\ vm' = vm /\ req' = req /\ job[j].pc = "queued"
      BY <1>7, <2>1 DEF StartAccepted, IInv, TypeOK, JobRecord
    <3>2. BootsProvisioning'
      BY <2>0, <2>1, <3>1 DEF IInv, BootsProvisioning
    <3>3. BootsDistinct'
      BY <2>1, <3>1 DEF IInv, BootsDistinct
    <3>4. UsedIffOwned' /\ OwnersEntitled' /\ PicksBooted'
      BY <3>1 DEF IInv, UsedIffOwned, OwnersEntitled, PicksBooted
    <3>. QED BY <1>0, <3>2, <3>3, <3>4 DEF IInv
  <2>2. CASE job[j].vm = NoVM
    <3>0. job[j].pc = "queued" /\ job[j].template \in Templates /\ req' = req
      BY <1>7 DEF StartAccepted, IInv, BootsProvisioning
    <3>1. PICK v \in VMs :
             /\ vm[v].status = "absent" /\ Inserted(v, job[j].template)
             /\ job' = [job EXCEPT ![j].pc = "booting", ![j].vm = v]
      BY <1>7, <2>2 DEF StartAccepted
    <3>2. /\ job'[j].pc = "booting" /\ job'[j].vm = v
          /\ job'[j].template = job[j].template
          /\ \A i \in StartJobs : i # j => job'[i] = job[i]
      BY <3>1 DEF IInv, TypeOK, JobRecord
    <3>3. UsedIffOwned' /\ OwnersEntitled' /\ PicksBooted'
      BY <3>0, <3>1, InsertKeeps
    <3>4. vm'[v].status = "provisioning" /\ \A w \in VMs : w # v => vm'[w] = vm[w]
      BY <3>0, <3>1, InsertKeeps
    <3>5. \A i \in StartJobs : job[i].pc \in {"queued", "booting"} => job[i].vm # v
      BY <3>1, NullAssumption DEF IInv, BootsProvisioning
    <3>6. BootsProvisioning'
      BY <2>0, <3>0, <3>2, <3>4, <3>5 DEF IInv, BootsProvisioning
    <3>7. BootsDistinct'
      BY <3>2, <3>5 DEF IInv, BootsDistinct
    <3>. QED BY <1>0, <3>3, <3>6, <3>7 DEF IInv
  <2>. QED BY <2>1, <2>2
<1>8. ASSUME NEW j \in StartJobs, BootSucceeds(j) PROVE IInv'
  <2>1. /\ job[j].pc = "booting" /\ job[j].vm \in VMs /\ job[j].vm # NoVM
        /\ vm[job[j].vm].status = "provisioning" /\ EndJob(j) /\ req' = req
    BY <1>8, NullAssumption DEF BootSucceeds, IInv, BootsProvisioning
  <2>2. /\ \A w \in VMs : w # job[j].vm => vm'[w] = vm[w]
        /\ vm'[job[j].vm].status = "active"
        /\ vm'[job[j].vm].cur_user_id = vm[job[j].vm].cur_user_id
        /\ vm'[job[j].vm].template = vm[job[j].vm].template
    BY <1>8, <2>1 DEF BootSucceeds, IInv, TypeOK, VMRecord
  <2>3. BootsProvisioning' /\ BootsDistinct'
    BY <2>1, <2>2, EndKeeps
  <2>4. UsedIffOwned' /\ OwnersEntitled' /\ PicksBooted'
    BY <2>1, <2>2 DEF IInv, UsedIffOwned, OwnersEntitled, PicksBooted
  <2>. QED BY <1>0, <2>3, <2>4 DEF IInv
<1>9. ASSUME NEW h \in Handlers, NEW u \in Users, PickAvailable(h, u) PROVE IInv'
  <2>1. PICK v \in VMs :
           /\ vm[v].status = "active" /\ vm[v].template \in TemplatesOf(u)
           /\ req' = [req EXCEPT ![h] = [pc |-> "assign", user |-> u, pick |-> v]]
    BY <1>9 DEF PickAvailable, Available
  <2>2. vm[v].template \in Templates /\ u \in Members[vm[v].template]
    BY <2>1, TemplatesOfMembers
  <2>3. /\ req'[h] = [pc |-> "assign", user |-> u, pick |-> v]
        /\ \A k \in Handlers : k # h => req'[k] = req[k]
        /\ vm' = vm /\ job' = job
    BY <1>9, <2>1 DEF PickAvailable, IInv, TypeOK
  <2>4. PicksBooted'
    BY <2>1, <2>2, <2>3 DEF IInv, PicksBooted
  <2>5. UsedIffOwned' /\ OwnersEntitled' /\ BootsProvisioning' /\ BootsDistinct'
    BY <2>3 DEF IInv, UsedIffOwned, OwnersEntitled, BootsProvisioning,
       BootsDistinct
  <2>. QED BY <1>0, <2>4, <2>5 DEF IInv
<1>10. ASSUME NEW h \in Handlers, NEW u \in Users, AssignRefused(h, u) PROVE IInv'
  BY <1>1, <1>10 DEF AssignRefused
<1>11. ASSUME NEW h \in Handlers, Assign(h) \/ AssignLost(h) PROVE IInv'
  <2>1. /\ req[h].pc = "assign" /\ req[h].user \in Users /\ req[h].pick \in VMs
        /\ vm[req[h].pick].status \in {"active", "used"}
        /\ vm[req[h].pick].template \in Templates
        /\ req[h].user \in Members[vm[req[h].pick].template]
    BY <1>11 DEF Assign, AssignLost, IInv, PicksBooted
  <2>2. /\ req'[h].pc = "idle" /\ job' = job
        /\ \A k \in Handlers : k # h => req'[k] = req[k]
    BY <1>11 DEF Assign, AssignLost, IdleReq, IInv, TypeOK
  <2>3. \/ vm' = vm
        \/ /\ \A w \in VMs : w # req[h].pick => vm'[w] = vm[w]
           /\ vm'[req[h].pick].status = "used"
           /\ vm'[req[h].pick].cur_user_id = req[h].user
           /\ vm'[req[h].pick].template = vm[req[h].pick].template
    BY <1>11, <2>1 DEF Assign, AssignLost, IInv, TypeOK, VMRecord
  <2>4. UsedIffOwned' /\ OwnersEntitled'
    BY <2>1, <2>3, NullAssumption DEF IInv, UsedIffOwned, OwnersEntitled
  <2>5. PicksBooted'
    BY <2>1, <2>2, <2>3 DEF IInv, PicksBooted
  <2>6. BootsProvisioning' /\ BootsDistinct'
    BY <2>1, <2>2, <2>3, JobsUndisturbed
  <2>. QED BY <1>0, <2>4, <2>5, <2>6 DEF IInv
<1>12. ASSUME NEW u \in Users, Release(u) PROVE IInv'
  <2>1. job' = job /\ req' = req
    BY <1>12 DEF Release
  <2>2. CASE vm' = vm
    BY <1>1, <2>1, <2>2
  <2>3. CASE \E v \in Held(u) :
            vm' = [vm EXCEPT ![v].cur_user_id = NoUser, ![v].status = "active"]
    <3>1. PICK v \in VMs :
             /\ vm[v].cur_user_id = u
             /\ vm' = [vm EXCEPT ![v].cur_user_id = NoUser, ![v].status = "active"]
      BY <2>3 DEF Held
    <3>2. /\ \A w \in VMs : w # v => vm'[w] = vm[w]
          /\ vm'[v].status = "active" /\ vm'[v].cur_user_id = NoUser
          /\ vm'[v].template = vm[v].template
      BY <3>1 DEF IInv, TypeOK, VMRecord
    <3>3. vm[v].status = "used"
      BY <3>1, NullAssumption DEF IInv, UsedIffOwned
    <3>4. UsedIffOwned' /\ OwnersEntitled'
      BY <3>2 DEF IInv, UsedIffOwned, OwnersEntitled
    <3>5. PicksBooted'
      BY <2>1, <3>2 DEF IInv, PicksBooted
    <3>6. BootsProvisioning' /\ BootsDistinct'
      BY <2>1, <3>2, <3>3, JobsUndisturbed
    <3>. QED BY <1>0, <3>4, <3>5, <3>6 DEF IInv
  <2>. QED BY <1>12, <2>2, <2>3 DEF Release
<1>13. CASE UNCHANGED vars
  BY <1>1, <1>13 DEF vars
<1>. QED
  BY <1>2, <1>3, <1>4, <1>5, <1>6, <1>7, <1>8, <1>9, <1>10, <1>11, <1>12, <1>13
     DEF Next, Jobs, Requests

-----------------------------------------------------------------------------
(* The theorems *)

\* So it always holds.
LEMMA Invariance == Spec => []IInv
<1>1. Init => IInv
  BY InitInv
<1>2. IInv /\ [Next]_vars => IInv'
  BY NextInv
<1>. QED BY <1>1, <1>2, PTL DEF Spec

\* Every variable keeps its type, whatever the jobs and requests do.
THEOREM TypeCorrect == Spec => []TypeOK
<1>1. IInv => TypeOK
  BY DEF IInv
<1>. QED BY <1>1, Invariance, PTL

\* However many threads assign and release at once, and wherever a worker is
\* lost, a VM document is "used" exactly when it names a user: the unguarded
\* writes of set_assigned_workstation and update_workstation never meet.
THEOREM UsedIffOwnedAlways == Spec => []UsedIffOwned
<1>1. IInv => UsedIffOwned
  BY DEF IInv
<1>. QED BY <1>1, Invariance, PTL

\* No interleaving gives a VM to a user its template does not list directly.
THEOREM OwnersEntitledAlways == Spec => []OwnersEntitled
<1>1. IInv => OwnersEntitled
  BY DEF IInv
<1>. QED BY <1>1, Invariance, PTL

-----------------------------------------------------------------------------
(* Seats, when requests are served one at a time *)

\* The deployment: one request is served at a time.
OneHandler == \A g, h \in Handlers : g = h

\* Nobody else assigns the VM a request has read, so it is active still.
PicksActive ==
    \A h \in Handlers : req[h].pc = "assign" => vm[req[h].pick].status = "active"

\* The inductive invariant.
SeatInv == IInv /\ PicksActive /\ SeatsAreHeld

\* A step that keeps the users of the VMs, and the active ones active.
LEMMA SeatsUndisturbed ==
    ASSUME SeatInv, IInv', seat' = seat,
           \A v \in VMs : vm'[v].cur_user_id = vm[v].cur_user_id,
           \A v \in VMs : vm[v].status = "active" => vm'[v].status = "active",
           \A h \in Handlers : req'[h].pc = "assign" =>
              \/ req'[h] = req[h]
              \/ vm[req'[h].pick].status = "active"
    PROVE  SeatInv'
<1>1. PicksActive'
  <2>1. \A h \in Handlers : req'[h].pc = "assign" => req'[h].pick \in VMs
    BY DEF IInv, PicksBooted
  <2> QED
    BY <2>1 DEF SeatInv, PicksActive
<1>2. SeatsAreHeld'
  BY DEF SeatInv, SeatsAreHeld, Held
<1> QED
  BY <1>1, <1>2 DEF SeatInv

\* Every step keeps it: a new document is nobody's, a boot and a request that
\* reads change no owner, an assignment takes a VM nobody has, and a release
\* frees one of the user who gives up all seats.
LEMMA NextSeats == OneHandler /\ SeatInv /\ [Next]_vars => SeatInv'
<1> SUFFICES ASSUME OneHandler, SeatInv, [Next]_vars PROVE SeatInv'
  OBVIOUS
<1>0. IInv /\ IInv'
  BY NextInv DEF SeatInv
<1>1. ASSUME UNCHANGED <<vm, req, seat>> PROVE SeatInv'
  BY <1>0, <1>1, SeatsUndisturbed
<1>2. ASSUME NEW v \in VMs, NEW t, vm[v].status = "absent", Inserted(v, t),
             UNCHANGED <<req, seat>>
      PROVE  SeatInv'
  <2>1. /\ \A w \in VMs : w # v => vm'[w] = vm[w]
        /\ vm'[v].cur_user_id = NoUser
    BY <1>0, <1>2 DEF IInv, TypeOK, Inserted
  <2>2. vm[v].cur_user_id = NoUser
    BY <1>0, <1>2 DEF IInv, UsedIffOwned
  <2> QED
    BY <1>0, <1>2, <2>1, <2>2, SeatsUndisturbed
<1>3. ASSUME NEW t \in Templates,
             \/ CreateTemplate(t) \/ StartRoute(t) \/ BuildTemplate(t)
             \/ StartOne(t) \/ StartsDone(t) \/ CreateFails(t)
      PROVE  SeatInv'
  <2>1. CASE CreateTemplate(t) \/ StartRoute(t) \/ BuildTemplate(t) \/ StartsDone(t)
    BY <1>1, <2>1 DEF CreateTemplate, StartRoute, BuildTemplate, StartsDone
  <2>2. CASE StartOne(t) \/ CreateFails(t)
    <3>1. /\ UNCHANGED <<req, seat>>
          /\ vm' = vm \/ \E v \in VMs : vm[v].status = "absent" /\ Inserted(v, t)
      BY <2>2 DEF StartOne, CreateFails
    <3> QED
      BY <1>1, <1>2, <3>1
  <2> QED
    BY <1>3, <2>1, <2>2
<1>4. ASSUME NEW j \in StartJobs, StartRefused(j) \/ StartAccepted(j) \/ BootFails(j)
      PROVE  SeatInv'
  <2>1. /\ UNCHANGED <<req, seat>>
        /\ \/ vm' = vm
           \/ \E v \in VMs : vm[v].status = "absent" /\ Inserted(v, job[j].template)
    BY <1>4 DEF StartRefused, StartAccepted, BootFails
  <2> QED
    BY <1>1, <1>2, <2>1
<1>5. ASSUME NEW j \in StartJobs, BootSucceeds(j) PROVE SeatInv'
  <2>1. /\ UNCHANGED <<req, seat>> /\ vm \in [VMs -> VMRecord]
        /\ vm' = [vm EXCEPT ![job[j].vm].status = "active"]
    BY <1>0, <1>5 DEF BootSucceeds, IInv, TypeOK
  <2>2. ASSUME NEW w \in VMs
        PROVE  /\ vm'[w].cur_user_id = vm[w].cur_user_id
               /\ vm[w].status = "active" => vm'[w].status = "active"
    <3>1. vm[w] \in VMRecord /\ vm'[w] \in {vm[w], [vm[w] EXCEPT !.status = "active"]}
      BY <2>1
    <3> QED
      BY <3>1 DEF VMRecord
  <2> QED
    BY <1>0, <2>1, <2>2, SeatsUndisturbed
<1>6. ASSUME NEW h \in Handlers, NEW u \in Users, PickAvailable(h, u)
      PROVE  SeatInv'
  <2>1. PICK v \in VMs :
           /\ vm[v].status = "active"
           /\ req' = [req EXCEPT ![h] = [pc |-> "assign", user |-> u, pick |-> v]]
    BY <1>6 DEF PickAvailable, Available
  <2>2. /\ req'[h].pick = v
        /\ \A g \in Handlers : g # h => req'[g] = req[g]
        /\ UNCHANGED <<vm, seat>>
    BY <1>0, <1>6, <2>1 DEF PickAvailable, IInv, TypeOK
  <2> QED
    BY <1>0, <2>1, <2>2, SeatsUndisturbed
<1>7. ASSUME NEW h \in Handlers, NEW u \in Users, AssignRefused(h, u)
      PROVE  SeatInv'
  BY <1>1, <1>7 DEF AssignRefused
<1>8. ASSUME NEW h \in Handlers, Assign(h) \/ AssignLost(h) PROVE SeatInv'
  <2> DEFINE v == req[h].pick
             u == req[h].user
  <2>1. /\ v \in VMs /\ u \in Users /\ vm[v].status = "active"
        /\ vm[v].cur_user_id = NoUser
    BY <1>0, <1>8 DEF Assign, AssignLost, SeatInv, PicksActive, IInv,
       PicksBooted, UsedIffOwned
  <2>2. \A g \in Handlers : req'[g].pc = "idle"
    BY <1>0, <1>8 DEF Assign, AssignLost, OneHandler, IdleReq, IInv, TypeOK
  <2>3. \/ vm' = vm /\ seat' = seat
        \/ /\ \A w \in VMs : w # v => vm'[w] = vm[w]
           /\ vm'[v].cur_user_id = u
           /\ seat' = seat \/ seat' = [seat EXCEPT ![u] = @ \cup {v}]
    <3>1. CASE Assign(h)
      BY <1>0, <2>1, <3>1 DEF Assign, IInv, TypeOK, VMRecord
    <3>2. CASE AssignLost(h)
      BY <1>0, <2>1, <3>2 DEF AssignLost, IInv, TypeOK, VMRecord
    <3> QED
      BY <1>8, <3>1, <3>2
  <2> HIDE DEF v, u
  <2>4. \A x \in Users : v \notin seat[x]
    BY <2>1, NullAssumption DEF SeatInv, SeatsAreHeld, Held
  <2>5. SeatsAreHeld'
    <3>1. \A x \in Users : seat'[x] \subseteq seat[x] \cup {v}
      BY <1>0, <2>1, <2>3 DEF IInv, TypeOK
    <3>2. \A x \in Users \ {u} : seat'[x] = seat[x]
      BY <1>0, <2>3 DEF IInv, TypeOK
    <3>3. CASE vm' = vm /\ seat' = seat
      BY <3>3 DEF SeatInv, SeatsAreHeld, Held
    <3>4. CASE /\ \A w \in VMs : w # v => vm'[w] = vm[w]
               /\ vm'[v].cur_user_id = u
      BY <2>1, <2>4, <3>1, <3>2, <3>4 DEF SeatInv, SeatsAreHeld, Held
    <3> QED
      BY <2>3, <3>3, <3>4
  <2> QED
    BY <1>0, <2>2, <2>5 DEF SeatInv, PicksActive
<1>9. ASSUME NEW u \in Users, Release(u) PROVE SeatInv'
  <2>1. /\ req' = req /\ seat'[u] = {}
        /\ \A x \in Users : x # u => seat'[x] = seat[x]
    BY <1>0, <1>9 DEF Release, IInv, TypeOK
  <2>2. \A w \in VMs : /\ vm[w].cur_user_id # u => vm'[w] = vm[w]
                       /\ vm[w].status = "active" => vm'[w].status = "active"
    <3>1. /\ vm \in [VMs -> VMRecord]
          /\ \/ vm' = vm
             \/ \E v \in Held(u) :
                   vm' = [vm EXCEPT ![v].cur_user_id = NoUser, ![v].status = "active"]
      BY <1>0, <1>9 DEF Release, IInv, TypeOK
    <3>2. ASSUME NEW v \in VMs, vm[v].cur_user_id = u,
                 vm' = [vm EXCEPT ![v].cur_user_id = NoUser, ![v].status = "active"]
          PROVE  vm'[v].status = "active" /\ \A w \in VMs : w # v => vm'[w] = vm[w]
      BY <3>1, <3>2 DEF VMRecord
    <3> QED
      BY <3>1, <3>2 DEF Held
  <2>3. SeatsAreHeld'
    BY <2>1, <2>2 DEF SeatInv, SeatsAreHeld, Held
  <2>4. PicksActive'
    BY <1>0, <2>1, <2>2 DEF SeatInv, PicksActive, IInv, PicksBooted
  <2> QED
    BY <1>0, <2>3, <2>4 DEF SeatInv
<1>10. CASE UNCHANGED vars
  BY <1>1, <1>10 DEF vars
<1> QED
  BY <1>3, <1>4, <1>5, <1>6, <1>7, <1>8, <1>9, <1>10 DEF Next, Jobs, Requests

\* When requests are served one at a time, whoever was told to use a VM holds
\* it until he releases it, for any number of users, VMs and jobs, also when
\* workers and answers are lost.
THEOREM SeatsAlwaysHeld ==
    ASSUME OneHandler
    PROVE  Spec => []SeatsAreHeld
<1>1. Init => SeatInv
  BY InitInv DEF Init, SeatInv, PicksActive, SeatsAreHeld, Held, IdleReq
<1>2. SeatInv => SeatsAreHeld
  BY DEF SeatInv
<1>3. SeatInv /\ [Next]_vars => SeatInv'
  BY NextSeats
<1> QED
  BY <1>1, <1>2, <1>3, PTL DEF Spec

-----------------------------------------------------------------------------
(***************************************************************************)
(* The Docker host: what holds however its builds overlap, and what holds  *)
(* when those of one organisation, all builds, or boots too take turns.    *)
(***************************************************************************)

\* A boot that was taken is of an organisation, and a build that was taken is
\* among the deployment's jobs.
HostTyped ==
    /\ HostTypeOK
    /\ \A v \in Boots : boot[v].pc # "queued" => boot[v].org \in Orgs
    /\ \A b \in Builds : build[b].pc # "queued" => b \in deployment.jobs

\* No two networks have one subnet.
SubnetsDistinct ==
    \A o, p \in Orgs : net[o] = net[p] /\ net[o] # NoOctet => o = p

\* A build has passed over no subnet that is free.
OctetsTaken ==
    \A b \in Builds :
        /\ build[b].used \subseteq InUse
        /\ At(b, "no_subnet") => Octets \subseteq InUse

\* Who is about to remove the noVNC container of the host itself has seen it,
\* and it is gone when a build runs its own.  When a build is through, the
\* container is a build's or about to be.
NoVNCRunning ==
    /\ \A b \in Builds :
          /\ oem[b].ready =>
                build[b].pc \in {"list_novnc", "clear_novnc", "run_novnc", "done"}
          /\ At(b, "clear_novnc") /\ novnc = Dev => build[b].seen = Dev
          /\ At(b, "run_novnc") => novnc # Dev
    /\ (\E b \in Builds : oem[b].ready /\ At(b, "done"))
          => \/ novnc \in Builds
             \/ novnc = NoBuild /\ \E b \in Builds : At(b, "run_novnc")

\* With one worker, one build runs.
OneBuildRuns ==
    deployment.workers = 1 => \A b, c \in Builds : Active(b) /\ Active(c) => b = c

\* The steps of a build that has its network, has run its domain controller, and
\* has its workstation.
Networked ==
    {"keys", "samba", "vpn", "setup", "key_samba", "key_vpn", "td", "pick", "run",
     "allow", "sync", "stage", "scripts", "copy_scripts", "copy_agent", "bat",
     "copy_bat", "ready", "list_novnc", "clear_novnc", "run_novnc"}
Portless == {"vpn", "setup", "key_samba", "key_vpn", "td", "pick", "run"}
Controlled == (Networked \ {"keys", "samba"}) \cup {"done"}

\* The steps before a build runs its domain controller.
Early == {"queued", "look", "create", "keys", "samba"}

\* What a build holds of its organisation when no other build of it runs: its
\* network and the key pair on disk, and from its domain controller on the
\* organisation's node, its VPN and its port.
Holds(b) ==
    LET o == OrgOf(b)
    IN  /\ At(b, "create") => net[o] = NoOctet
        /\ build[b].pc \in Networked =>
              build[b].octet = net[o] /\ net[o] # NoOctet
        /\ build[b].pc \in {"samba", "vpn", "setup", "key_samba", "key_vpn"} =>
              keyfile[o] = b
        /\ build[b].pc \in Controlled => node[o]["samba"] = b
        /\ build[b].pc \in Portless => published[b] = NoPort
        /\ At(b, "run") => build[b].port = net[o]
        /\ published[b] # NoPort =>
              published[b] = net[o] /\ node[o]["samba"] = b
        /\ ~At(b, "port_taken")

\* Whose nodes and keys an organisation has.
Nodes(o) ==
    /\ \A n \in Names : node[o][n] # NoBuild =>
          LET b == node[o][n]
          IN  /\ OrgOf(b) = o
              /\ build[b].octet = net[o] /\ net[o] # NoOctet
              /\ build[b].pc \notin Early
    /\ node[o]["vpn"] # NoBuild => node[o]["samba"] = node[o]["vpn"]
    /\ \A n \in {"samba", "vpn"} :
          authorized[o][n] \in {NoBuild, node[o]["samba"]}

\* Of every build and every organisation.
HostShared == (\A b \in Builds : Holds(b)) /\ (\A o \in Orgs : Nodes(o))

\* How far a workstation's files are, by the step of its build.
Filed(b) ==
    /\ At(b, "copy_scripts") => scripts.ps1 = b
    /\ At(b, "copy_bat") => scripts.bat = b
    /\ {oem[b].scripts, oem[b].bat} \subseteq {b, NoBuild}
    /\ build[b].pc \in {"copy_agent", "bat", "copy_bat", "ready", "list_novnc",
                        "clear_novnc", "run_novnc", "done"}
          => oem[b].scripts = b \/ "copy" \in deployment.faults
    /\ build[b].pc \in {"bat", "copy_bat", "ready"} => oem[b].agent
    /\ At(b, "ready") => oem[b].bat = b
    /\ oem[b].ready => oem[b].agent /\ oem[b].bat = b
    /\ oem[b].ready => oem[b].scripts = b \/ "copy" \in deployment.faults

\* Of every build.
HostFiled == \A b \in Builds : Filed(b)

\* The entry of a build's agent.
OwnEntry(b) == [id |-> "own", ip |-> b]

\* One worker on each queue, and no copy fails.
Careful ==
    /\ deployment.workers = 1 /\ deployment.booting = 1
    /\ "copy" \notin deployment.faults

\* One boot runs, for an organisation a build of which is done.
OneBootRuns ==
    /\ \A v, w \in Boots : Booting(v) /\ Booting(w) => v = w
    /\ \A v \in Boots : boot[v].pc # "queued" =>
          \E b \in Builds : At(b, "done") /\ OrgOf(b) = boot[v].org

\* A boot has emptied the organisation's agents.json and not yet written it.
Writing(o) == \E v \in Boots : boot[v].org = o /\ boot[v].pc = "write"

\* The steps of a build that has made its entry.
Allowed == {"sync", "stage", "scripts", "copy_scripts", "copy_agent", "bat",
            "copy_bat", "ready", "list_novnc", "clear_novnc", "run_novnc", "done"}

\* What a boot read is what the file says, and what it is about to write has
\* the entry of every build that is done; once it has, a VM is admitted.
ListKept(v) ==
    LET o == boot[v].org
    IN  /\ boot[v].pc = "truncate" => boot[v].list = allow[o]
        /\ boot[v].pc = "write" =>
              \A b \in Builds :
                  At(b, "done") /\ OrgOf(b) = o => OwnEntry(b) \in boot[v].list
        /\ boot[v].pc \in {"sync", "wait", "up"} /\ ~Writing(o) =>
              \E w \in Boots : [id |-> "*", ip |-> w] \in allow[o]

\* The entry a build has made stays in the file, but for the time of a rewrite.
EntryKept(b) ==
    build[b].pc \in Allowed /\ ~Writing(OrgOf(b)) =>
        OwnEntry(b) \in allow[OrgOf(b)]

\* The server's copy is older than the file only while someone registers.
CopyCurrent(o) == ~Registering(o) => tdlist[o] = allow[o]

\* All three, of everybody.
Registered ==
    /\ \A v \in Boots : ListKept(v)
    /\ \A b \in Builds : EntryKept(b)
    /\ \A o \in Orgs : CopyCurrent(o)

\* The inductive invariant: what holds however builds overlap, and what holds when
\* builds of one organisation, all builds, or all boots too take turns.
HostInv ==
    /\ HostTyped /\ SubnetsDistinct /\ OctetsTaken /\ NoVNCRunning /\ OneBuildRuns
    /\ OneAtATime => HostShared
    /\ deployment.workers = 1 => HostFiled
    /\ Careful => OneBootRuns /\ Registered

-----------------------------------------------------------------------------
(***************************************************************************)
(* The Docker host: the types.                                             *)
(***************************************************************************)

USE DEF hostVars

\* A command of a build that only moves it on edits its step.
LEMMA BuildMoves ==
    ASSUME build \in [Builds -> BuildRecord],
           NEW b \in Builds, NEW s \in BuildSteps, GoTo(b, s)
    PROVE  /\ build' \in [Builds -> BuildRecord]
           /\ \A c \in Builds \ {b} : build'[c] = build[c]
           /\ build'[b].pc = s /\ build'[b].octet = build[b].octet
           /\ build'[b].used = build[b].used /\ build'[b].port = build[b].port
           /\ build'[b].seen = build[b].seen
BY DEF GoTo, BuildRecord

\* The edits of a build's record stay in their type, ...
LEMMA BuildEdits ==
    ASSUME NEW r \in BuildRecord, NEW s \in BuildSteps
    PROVE  /\ \A p \in Ports : [r EXCEPT !.pc = s, !.port = p] \in BuildRecord
           /\ \A x \in Builds \cup {Dev, NoBuild} :
                 [r EXCEPT !.pc = s, !.seen = x] \in BuildRecord
BY DEF BuildRecord

\* ... those of a boot's ...
LEMMA BootEdits ==
    ASSUME NEW r \in BootRecord, NEW s \in BootSteps
    PROVE  /\ \A o \in Orgs : [r EXCEPT !.pc = s, !.org = o] \in BootRecord
           /\ \A l \in SUBSET Entry : [r EXCEPT !.pc = s, !.list = l] \in BootRecord
BY DEF BootRecord

\* ... and those of what a workstation has been given.
LEMMA OemEdits ==
    ASSUME NEW r \in OemRecord, NEW c \in Builds \cup {NoBuild}
    PROVE  /\ [r EXCEPT !.scripts = c] \in OemRecord
           /\ [r EXCEPT !.bat = c] \in OemRecord
           /\ [r EXCEPT !.agent = TRUE] \in OemRecord
           /\ [r EXCEPT !.ready = TRUE] \in OemRecord
BY DEF OemRecord

\* A command of a boot that only moves it on edits its step.
LEMMA BootMoves ==
    ASSUME boot \in [Boots -> BootRecord], NEW v \in Boots, NEW s \in BootSteps,
           BootTo(v, s)
    PROVE  /\ boot' \in [Boots -> BootRecord]
           /\ \A w \in Boots \ {v} : boot'[w] = boot[w]
           /\ boot'[v].pc = s /\ boot'[v].org = boot[v].org
           /\ boot'[v].list = boot[v].list
BY DEF BootTo, BootRecord

\* A set of natural numbers that is not empty has a smallest member.
LEMMA Smallest ==
    ASSUME NEW S \in SUBSET Nat, S # {}
    PROVE  \E x \in S : \A y \in S : x <= y
<1> DEFINE R == OpToRel(<, Nat)
<1>1. IsWellFoundedOn(R, Nat)
  BY NatLessThanWellFounded
<1>2. \A x, y \in Nat : x < y => <<x, y>> \in R
  BY DEF OpToRel
<1> HIDE DEF R
<1>3. PICK x \in S : \A y \in S : ~(<<y, x>> \in R)
  BY <1>1, WFMin
<1>4. ASSUME NEW y \in S PROVE x <= y
  <2>1. x \in Nat /\ y \in Nat /\ ~(y < x)
    BY <1>2, <1>3
  <2> QED
    BY <2>1
<1> QED
  BY <1>4

\* The next octet to try is the smallest of those that are left.
LEMMA NextOctetIs ==
    ASSUME NEW b \in Builds, Untried(b) # {}
    PROVE  NextOctet(b) \in Octets /\ NextOctet(b) \notin build[b].used
<1>1. Untried(b) \in SUBSET Nat
  BY HostAssumption DEF Untried
<1>2. \E x \in Untried(b) : \A y \in Untried(b) : x <= y
  BY <1>1, Smallest
<1> QED
  BY <1>2 DEF NextOctet, Untried

\* The types hold initially ...
LEMMA InitHostTyped == HostInit => HostTyped
BY HostAssumption DEF HostInit, HostTyped, HostTypeOK, BuildRecord, BuildSteps,
   BootRecord, BootSteps, OemRecord, Names

\* A step of a build edits its own record, within its type.
BuildKept(b) ==
    /\ build' \in [Builds -> BuildRecord]
    /\ build'[b].pc # "queued"
    /\ \A c \in Builds \ {b} : build'[c] = build[c]

\* Every step of a build does no more than that ...
LEMMA BuildKeeps ==
    ASSUME HostTyped, NEW b \in Builds, BuildStep(b)
    PROVE  BuildKept(b)
<1>0. /\ build \in [Builds -> BuildRecord]
      /\ net \in [Orgs -> Octets \cup {NoOctet}]
      /\ published \in [Builds -> Ports \cup {NoPort}]
      /\ novnc \in Builds \cup {Dev, NoBuild}
      /\ OrgOf(b) \in Orgs
  BY HostAssumption DEF HostTyped, HostTypeOK, OrgOf, Deployment
<1>1. ASSUME NEW s \in BuildSteps \ {"queued"}, GoTo(b, s)
      PROVE  BuildKept(b)
  BY <1>0, <1>1, BuildMoves DEF BuildKept
<1>2. CASE \/ Take(b) \/ Raises(b) \/ NoSubnetLeft(b) \/ NodeExists(b) \/ SetUp(b)
           \/ StageAgent(b) \/ CopyFails(b) \/ GenerateKeys(b) \/ CopyKey(b)
           \/ RunNode(b) \/ RunWorkstation(b) \/ AllowAgent(b) \/ SyncBuild(b)
           \/ WriteScripts(b) \/ WriteBat(b) \/ ClearNoVNC(b) \/ RunNoVNC(b)
           \/ CopyFile(b)
  <2>1. \E s \in BuildSteps \ {"queued"} : GoTo(b, s)
    BY <1>2 DEF Take, Raises, NoSubnetLeft, NodeExists, SetUp, StageAgent,
       CopyFails, GenerateKeys, CopyKey, RunNode, At, BuildSteps, BuildEnds,
       Names, AfterNode, AfterCopy, RunWorkstation, AllowAgent, SyncBuild,
       WriteScripts, WriteBat, ClearNoVNC, RunNoVNC, CopyFile
  <2> QED
    BY <1>1, <2>1
<1>3. CASE LookForNetwork(b)
  <2>1. InUse \subseteq Octets
    BY <1>0 DEF InUse
  <2> QED
    BY <1>0, <1>3, <2>1 DEF LookForNetwork, At, BuildRecord, BuildSteps,
       BuildKept
<1>4. CASE NameExists(b) \/ Overlaps(b) \/ CreateNetwork(b)
  BY <1>0, <1>4, NextOctetIs DEF NameExists, Overlaps, CreateNetwork, At,
     BuildRecord, BuildSteps, BuildKept
<1>5. CASE PickPort(b)
  <2> DEFINE free == {p \in Ports : p >= build[b].octet /\ p \notin PortsInUse}
             new == CHOOSE p \in free : \A q \in free : p <= q
  <2>1. free \in SUBSET Nat /\ free # {}
    BY <1>5, HostAssumption DEF PickPort
  <2>2. \E p \in free : \A q \in free : p <= q
    BY <2>1, Smallest
  <2>3. new \in Ports
    BY <2>2
  <2>4. build' = [build EXCEPT ![b].pc = "run", ![b].port = new]
    BY <1>5 DEF PickPort
  <2>5. "run" \in BuildSteps
    BY DEF BuildSteps
  <2> HIDE DEF new
  <2> QED
    <3>1. [build[b] EXCEPT !.pc = "run", !.port = new] \in BuildRecord
      BY <1>0, <2>3, <2>5, BuildEdits
    <3>2. build' = [build EXCEPT ![b] =
                       [build[b] EXCEPT !.pc = "run", !.port = new]]
      BY <1>0, <2>4
    <3>3. build'[b].pc = "run"
      BY <1>0, <2>4 DEF BuildRecord
    <3> QED
      BY <1>0, <3>1, <3>2, <3>3 DEF BuildKept
<1>6. CASE ListNoVNC(b)
  <2>1. "clear_novnc" \in BuildSteps
    BY DEF BuildSteps
  <2> QED
    <3>1. [build[b] EXCEPT !.pc = "clear_novnc", !.seen = novnc] \in BuildRecord
      BY <1>0, <2>1, BuildEdits
    <3>2. build' = [build EXCEPT ![b] =
                       [build[b] EXCEPT !.pc = "clear_novnc", !.seen = novnc]]
      BY <1>0, <1>6 DEF ListNoVNC
    <3>3. build'[b].pc = "clear_novnc"
      BY <1>0, <1>6 DEF ListNoVNC, BuildRecord
    <3> QED
      BY <1>0, <3>1, <3>2, <3>3 DEF BuildKept
<1> QED
  BY <1>2, <1>3, <1>4, <1>5, <1>6 DEF BuildStep

\* ... and keeps all types, ...
LEMMA BuildTyped ==
    ASSUME HostTyped, NEW b \in Builds, BuildStep(b)
    PROVE  HostTyped'
<1>1. /\ build' \in [Builds -> BuildRecord]
      /\ build'[b].pc # "queued"
      /\ \A c \in Builds \ {b} : build'[c] = build[c]
  BY BuildKeeps DEF BuildKept
<1>2. UNCHANGED <<deployment, boot>>
  BY DEF BuildStep, Take, Raises, NoSubnetLeft, NodeExists, SetUp, StageAgent,
     CopyFails, GenerateKeys, CopyKey, RunNode, RunWorkstation, AllowAgent,
     SyncBuild, WriteScripts, WriteBat, ClearNoVNC, RunNoVNC, CopyFile,
     LookForNetwork, NameExists, Overlaps, CreateNetwork, PickPort, ListNoVNC
<1>3. b \in deployment.jobs
  BY DEF BuildStep, Take, HostTyped, At, Raises, NoSubnetLeft, NodeExists,
     SetUp, StageAgent, CopyFails, GenerateKeys, CopyKey, RunNode,
     RunWorkstation, AllowAgent, SyncBuild, WriteScripts, WriteBat, ClearNoVNC,
     RunNoVNC, CopyFile, LookForNetwork, NameExists, Overlaps, CreateNetwork,
     PickPort, ListNoVNC, Names, AfterCopy
<1>4. OrgOf(b) \in Orgs
  BY HostAssumption DEF HostTyped, HostTypeOK, OrgOf, Deployment
<1>5. CASE CreateNetwork(b)
  <2>1. net' \in [Orgs -> Octets \cup {NoOctet}]
    BY <1>4, <1>5, NextOctetIs DEF CreateNetwork, HostTyped, HostTypeOK
  <2> QED
    BY <1>1, <1>2, <1>3, <1>5, <2>1 DEF CreateNetwork, HostTyped, HostTypeOK
<1>6. CASE GenerateKeys(b)
  BY <1>1, <1>2, <1>3, <1>4, <1>6 DEF GenerateKeys, HostTyped, HostTypeOK
<1>7. CASE RunNode(b)
  BY <1>1, <1>2, <1>3, <1>4, <1>7 DEF RunNode, HostTyped, HostTypeOK
<1>8. CASE CopyKey(b)
  BY <1>1, <1>2, <1>3, <1>4, <1>8 DEF CopyKey, HostTyped, HostTypeOK
<1>9. CASE RunWorkstation(b)
  <2>1. published' \in [Builds -> Ports \cup {NoPort}]
    BY <1>9 DEF RunWorkstation, HostTyped, HostTypeOK, BuildRecord
  <2> QED
    BY <1>1, <1>2, <1>3, <1>9, <2>1 DEF RunWorkstation, HostTyped, HostTypeOK
<1>10. CASE AllowAgent(b) \/ SyncBuild(b)
  <2>1. [id |-> "own", ip |-> b] \in Entry
    BY DEF Entry, Machines
  <2>2. allow' \in [Orgs -> SUBSET Entry] /\ tdlist' \in [Orgs -> SUBSET Entry]
    <3>1. allow \in [Orgs -> SUBSET Entry] /\ tdlist \in [Orgs -> SUBSET Entry]
      BY DEF HostTyped, HostTypeOK
    <3> QED
      BY <1>4, <1>10, <2>1, <3>1 DEF AllowAgent, SyncBuild, SyncAgents
  <2> QED
    BY <1>1, <1>2, <1>3, <1>10, <2>2 DEF AllowAgent, SyncBuild, HostTyped,
       HostTypeOK
<1>11. CASE WriteScripts(b) \/ WriteBat(b) \/ ClearNoVNC(b) \/ RunNoVNC(b)
  BY <1>1, <1>2, <1>3, <1>11 DEF WriteScripts, WriteBat, ClearNoVNC, RunNoVNC,
     HostTyped, HostTypeOK
<1>12. CASE CopyFile(b)
  <2>1. oem' \in [Builds -> OemRecord]
    <3>1. oem \in [Builds -> OemRecord] /\ scripts.ps1 \in Builds \cup {NoBuild}
          /\ scripts.bat \in Builds \cup {NoBuild}
      BY DEF HostTyped, HostTypeOK
    <3>2. \E r \in OemRecord : oem' = [oem EXCEPT ![b] = r]
      BY <1>12, <3>1, OemEdits DEF CopyFile, At
    <3> QED
      BY <3>1, <3>2
  <2> QED
    BY <1>1, <1>2, <1>3, <1>12, <2>1 DEF CopyFile, HostTyped, HostTypeOK
<1>13. CASE UNCHANGED <<net, node, keyfile, authorized, published, scripts, oem,
                        allow, tdlist, novnc>>
  BY <1>1, <1>2, <1>3, <1>13 DEF HostTyped, HostTypeOK
<1> QED
  BY <1>5, <1>6, <1>7, <1>8, <1>9, <1>10, <1>11, <1>12, <1>13 DEF BuildStep,
     Take, Raises, NoSubnetLeft, NodeExists, SetUp, StageAgent, CopyFails,
     LookForNetwork, NameExists, Overlaps, PickPort, ListNoVNC

\* ... and so does every step of a boot.
LEMMA BootTyped ==
    ASSUME HostTyped, NEW v \in Boots, BootStep(v)
    PROVE  HostTyped'
<1>0. /\ boot \in [Boots -> BootRecord]
      /\ boot[v].pc # "queued" => boot[v].org \in Orgs
      /\ allow \in [Orgs -> SUBSET Entry]
  BY DEF HostTyped, HostTypeOK
<1>1. CASE TakeBoot(v)
  <2>1. PICK b \in Builds :
           boot' = [boot EXCEPT ![v].pc = "copy", ![v].org = OrgOf(b)]
    BY <1>1 DEF TakeBoot
  <2>2. OrgOf(b) \in Orgs
    BY HostAssumption DEF HostTyped, HostTypeOK, OrgOf, Deployment
  <2>4. "copy" \in BootSteps
    BY DEF BootSteps
  <2>3. /\ boot' \in [Boots -> BootRecord]
        /\ \A w \in Boots :
              boot'[w].pc # "queued" => boot'[w].org \in Orgs
    <3>1. [boot[v] EXCEPT !.pc = "copy", !.org = OrgOf(b)] \in BootRecord
      BY <1>0, <2>2, <2>4, BootEdits
    <3>2. boot' = [boot EXCEPT ![v] =
                      [boot[v] EXCEPT !.pc = "copy", !.org = OrgOf(b)]]
      BY <1>0, <2>1
    <3>3. boot'[v].org = OrgOf(b)
      BY <1>0, <2>1 DEF BootRecord
    <3>4. \A w \in Boots : boot[w].pc # "queued" => boot[w].org \in Orgs
      BY DEF HostTyped
    <3> QED
      BY <1>0, <2>2, <3>1, <3>2, <3>3, <3>4
  <2> QED
    BY <1>1, <2>3 DEF TakeBoot, HostTyped, HostTypeOK
<1>2. ASSUME boot[v].pc # "queued", NEW s \in BootSteps, BootTo(v, s)
      PROVE  /\ boot' \in [Boots -> BootRecord]
             /\ \A w \in Boots :
                   boot'[w].pc # "queued" => boot'[w].org \in Orgs
  <2>1. \A w \in Boots : boot[w].pc # "queued" => boot[w].org \in Orgs
    BY DEF HostTyped
  <2>2. /\ boot' \in [Boots -> BootRecord]
        /\ \A w \in Boots \ {v} : boot'[w] = boot[w]
        /\ boot'[v].org = boot[v].org
    BY <1>0, <1>2, BootMoves
  <2> QED
    BY <1>2, <2>1, <2>2
<1>3. CASE \/ CopyImage(v) \/ RunVM(v) \/ SyncBoot(v) \/ WaitForRDP(v)
           \/ TruncateAgents(v) \/ WriteAgents(v)
  <2>1. boot[v].pc # "queued" /\ \E s \in BootSteps : BootTo(v, s)
    BY <1>3 DEF CopyImage, RunVM, SyncBoot, WaitForRDP, TruncateAgents,
       WriteAgents, BootSteps, BootEnds
  <2>2. /\ boot' \in [Boots -> BootRecord]
        /\ \A w \in Boots :
              boot'[w].pc # "queued" => boot'[w].org \in Orgs
    BY <1>2, <2>1
  <2>3. Upserted(boot[v].list, v) \in SUBSET Entry
    <3>1. [id |-> "*", ip |-> v] \in Entry
      BY DEF Entry, Machines
    <3>2. boot[v].list \in SUBSET Entry
      BY <1>0 DEF BootRecord
    <3> QED
      BY <3>1, <3>2 DEF Upserted
  <2>4. allow' \in [Orgs -> SUBSET Entry] /\ tdlist' \in [Orgs -> SUBSET Entry]
    <3>1. tdlist \in [Orgs -> SUBSET Entry]
      BY DEF HostTyped, HostTypeOK
    <3> QED
      BY <1>0, <1>3, <2>3, <3>1 DEF CopyImage, RunVM, SyncBoot, WaitForRDP,
         TruncateAgents, WriteAgents, SyncAgents
  <2> QED
    BY <1>3, <2>2, <2>4 DEF CopyImage, RunVM, SyncBoot, WaitForRDP,
       TruncateAgents, WriteAgents, HostTyped, HostTypeOK
<1>4. CASE LoadAgents(v)
  <2>3. /\ boot' \in [Boots -> BootRecord]
        /\ \A w \in Boots :
              boot'[w].pc # "queued" => boot'[w].org \in Orgs
    <3>1. boot[v].org \in Orgs /\ allow[boot[v].org] \in SUBSET Entry
      BY <1>0, <1>4 DEF LoadAgents
    <3>2. \A w \in Boots : boot[w].pc # "queued" => boot[w].org \in Orgs
      BY DEF HostTyped
    <3>3. "truncate" \in BootSteps
      BY DEF BootSteps
    <3> QED
      <4>1. [boot[v] EXCEPT !.pc = "truncate", !.list = allow[boot[v].org]]
               \in BootRecord
        BY <1>0, <3>1, <3>3, BootEdits
      <4>2. boot' = [boot EXCEPT ![v] =
                       [boot[v] EXCEPT !.pc = "truncate", !.list = allow[boot[v].org]]]
        BY <1>0, <1>4 DEF LoadAgents
      <4>3. boot'[v].org = boot[v].org
        BY <1>0, <1>4 DEF LoadAgents, BootRecord
      <4> QED
        BY <1>0, <3>1, <3>2, <4>1, <4>2, <4>3
  <2> QED
    BY <1>4, <2>3 DEF LoadAgents, HostTyped, HostTypeOK
<1> QED
  BY <1>1, <1>3, <1>4 DEF BootStep

-----------------------------------------------------------------------------
(***************************************************************************)
(* The Docker host: what overlapping builds keep.                          *)
(***************************************************************************)

\* What a step of a build leaves alone.
LEMMA BuildAlone ==
    ASSUME HostTyped, NEW b \in Builds, BuildStep(b)
    PROVE  /\ UNCHANGED <<deployment, boot>>
           /\ \A c \in Builds \ {b} :
                 /\ build'[c] = build[c]
                 /\ oem'[c] = oem[c]
                 /\ published'[c] = published[c]
           /\ build[b].pc \notin BuildEnds
<1>1. \A c \in Builds \ {b} : build'[c] = build[c]
  BY BuildKeeps DEF BuildKept
<1>2. UNCHANGED <<deployment, boot>>
  BY DEF BuildStep, Take, Raises, NoSubnetLeft, NodeExists, SetUp, StageAgent,
     CopyFails, GenerateKeys, CopyKey, RunNode, RunWorkstation, AllowAgent,
     SyncBuild, WriteScripts, WriteBat, ClearNoVNC, RunNoVNC, CopyFile,
     LookForNetwork, NameExists, Overlaps, CreateNetwork, PickPort, ListNoVNC
<1>3. build[b].pc \notin BuildEnds
  BY DEF BuildStep, Take, Raises, NoSubnetLeft, NodeExists, SetUp, At,
     StageAgent, CopyFails, GenerateKeys, CopyKey, RunNode, RunWorkstation,
     AllowAgent, SyncBuild, WriteScripts, WriteBat, ClearNoVNC, RunNoVNC,
     CopyFile, LookForNetwork, NameExists, Overlaps, CreateNetwork, PickPort,
     ListNoVNC, Names, AfterCopy, BuildEnds
<1>4. \A c \in Builds \ {b} : oem'[c] = oem[c] /\ published'[c] = published[c]
  <2>1. /\ oem \in [Builds -> OemRecord]
        /\ published \in [Builds -> Ports \cup {NoPort}]
    BY DEF HostTyped, HostTypeOK
  <2>2. CASE CopyFile(b)
    BY <2>1, <2>2 DEF CopyFile
  <2>3. CASE RunWorkstation(b)
    BY <2>1, <2>3 DEF RunWorkstation
  <2> QED
    BY <2>2, <2>3 DEF BuildStep, Take, Raises, NoSubnetLeft, NodeExists, SetUp,
       StageAgent, CopyFails, GenerateKeys, CopyKey, RunNode, AllowAgent,
       SyncBuild, WriteScripts, WriteBat, ClearNoVNC, RunNoVNC, LookForNetwork,
       NameExists, Overlaps, CreateNetwork, PickPort, ListNoVNC
<1> QED
  BY <1>1, <1>2, <1>3, <1>4

\* What a build has read stays when it only moves on.
LEMMA BuildGoes ==
    ASSUME HostTyped, NEW b \in Builds, NEW s, GoTo(b, s)
    PROVE  /\ build'[b].pc = s
           /\ build'[b].octet = build[b].octet /\ build'[b].used = build[b].used
           /\ build'[b].port = build[b].port /\ build'[b].seen = build[b].seen
<1>1. build \in [Builds -> BuildRecord]
  BY DEF HostTyped, HostTypeOK
<1> QED
  BY <1>1 DEF GoTo, BuildRecord

-----------------------------------------------------------------------------
\* A network, once made, stays: a subnet in use stays in use.
LEMMA NetGrows ==
    ASSUME HostTyped, NEW b \in Builds, BuildStep(b)
    PROVE  /\ \A o \in Orgs : net[o] # NoOctet => net'[o] = net[o]
           /\ InUse \subseteq InUse'
<1>1. net \in [Orgs -> Octets \cup {NoOctet}]
  BY DEF HostTyped, HostTypeOK
<1>2. net' = net \/ CreateNetwork(b)
  BY DEF BuildStep, Take, Raises, NoSubnetLeft, NodeExists, SetUp, StageAgent,
     CopyFails, GenerateKeys, CopyKey, RunNode, RunWorkstation, AllowAgent,
     SyncBuild, WriteScripts, WriteBat, ClearNoVNC, RunNoVNC, CopyFile,
     LookForNetwork, NameExists, Overlaps, PickPort, ListNoVNC
<1>3. \A o \in Orgs : net[o] # NoOctet => net'[o] = net[o]
  BY <1>1, <1>2 DEF CreateNetwork
<1> QED
  BY <1>3 DEF InUse

\* A subnet is created only when Docker finds it free, and passed over only when
\* another network has it.
LEMMA SubnetsKept ==
    ASSUME HostTyped, SubnetsDistinct, OctetsTaken, NEW b \in Builds, BuildStep(b)
    PROVE  SubnetsDistinct' /\ OctetsTaken'
<1>0. /\ \A c \in Builds \ {b} : build'[c] = build[c]
      /\ InUse \subseteq InUse'
      /\ net \in [Orgs -> Octets \cup {NoOctet}]
      /\ build \in [Builds -> BuildRecord]
      /\ OrgOf(b) \in Orgs
  BY BuildAlone, NetGrows, HostAssumption DEF HostTyped, HostTypeOK, OrgOf,
     Deployment
<1>1. CASE CreateNetwork(b)
  <2>1. SubnetsDistinct'
    BY <1>0, <1>1, NextOctetIs DEF CreateNetwork, SubnetsDistinct, InUse
  <2>2. build'[b].used = build[b].used /\ build'[b].pc # "no_subnet"
    BY <1>0, <1>1 DEF CreateNetwork, BuildRecord
  <2> QED
    BY <1>0, <2>1, <2>2 DEF OctetsTaken, At
<1>2. ASSUME net' = net,
             build'[b].used \subseteq InUse,
             build'[b].pc = "no_subnet" => Octets \subseteq InUse
      PROVE  SubnetsDistinct' /\ OctetsTaken'
  BY <1>0, <1>2 DEF SubnetsDistinct, OctetsTaken, At
<1>3. CASE NoSubnetLeft(b)
  BY <1>2, <1>3, BuildGoes DEF NoSubnetLeft, OctetsTaken, Untried
<1>4. CASE \/ LookForNetwork(b) \/ NameExists(b) \/ Overlaps(b) \/ PickPort(b)
           \/ ListNoVNC(b)
  <2>1. build[b].used \subseteq InUse
    BY DEF OctetsTaken
  <2>2. net' = net /\ build'[b].used \subseteq InUse /\ build'[b].pc # "no_subnet"
    BY <1>0, <1>4, <2>1 DEF LookForNetwork, NameExists, Overlaps, PickPort,
       ListNoVNC, BuildRecord, At
  <2> QED
    BY <1>2, <2>2
<1>5. CASE net' = net /\ \E s \in BuildSteps \ {"no_subnet"} : GoTo(b, s)
  BY <1>2, <1>5, BuildGoes DEF OctetsTaken
<1> QED
  BY <1>1, <1>3, <1>4, <1>5 DEF BuildStep, Take, Raises, NodeExists, SetUp,
     BuildSteps, BuildEnds, StageAgent, CopyFails, GenerateKeys, CopyKey,
     RunNode, RunWorkstation, AllowAgent, SyncBuild, WriteScripts, WriteBat,
     ClearNoVNC, RunNoVNC, CopyFile, AfterNode, AfterCopy, Names, At

\* Whoever removes the noVNC container runs one before it is through, and runs
\* it only if nobody else has.
LEMMA NoVNCKept ==
    ASSUME HostTyped, NoVNCRunning, NEW b \in Builds, BuildStep(b)
    PROVE  NoVNCRunning'
<1>0. /\ \A c \in Builds \ {b} : build'[c] = build[c] /\ oem'[c] = oem[c]
      /\ build \in [Builds -> BuildRecord] /\ oem \in [Builds -> OemRecord]
      /\ novnc \in Builds \cup {Dev, NoBuild}
      /\ NoBuild \notin Builds \cup {Dev} /\ Dev \notin Builds
      /\ build[b].pc \notin BuildEnds
  BY BuildAlone, HostAssumption DEF HostTyped, HostTypeOK
<1>1. ASSUME novnc' = novnc, oem'[b].ready = oem[b].ready,
             oem[b].ready => FALSE,
             build'[b].pc \notin {"clear_novnc", "run_novnc"},
             build[b].pc # "run_novnc"
      PROVE  NoVNCRunning'
  BY <1>0, <1>1 DEF NoVNCRunning, At
<1>2. CASE ListNoVNC(b)
  <2>1. /\ novnc' = novnc /\ oem' = oem /\ build'[b].pc = "clear_novnc"
        /\ build'[b].seen = novnc /\ build[b].pc = "list_novnc"
    BY <1>0, <1>2 DEF ListNoVNC, BuildRecord, At
  <2> QED
    BY <1>0, <2>1 DEF NoVNCRunning, At
<1>3. CASE ClearNoVNC(b)
  <2>1. /\ novnc' = (IF novnc = build[b].seen THEN NoBuild ELSE novnc) /\ oem' = oem
        /\ build'[b].pc = "run_novnc" /\ build[b].pc = "clear_novnc"
    BY <1>0, <1>3, BuildGoes DEF ClearNoVNC, At
  <2>2. novnc' # Dev
    BY <1>0, <2>1 DEF NoVNCRunning, At
  <2>3. \A c \in Builds : At(c, "done")' => At(c, "done")
    BY <1>0, <2>1 DEF At
  <2> QED
    BY <1>0, <2>1, <2>2, <2>3 DEF NoVNCRunning, At
<1>4. CASE RunNoVNC(b)
  <2>1. /\ novnc' = (IF novnc = NoBuild THEN b ELSE novnc) /\ oem' = oem
        /\ build'[b].pc = "done" /\ build[b].pc = "run_novnc"
    BY <1>0, <1>4, BuildGoes DEF RunNoVNC, At
  <2>2. novnc' \in Builds
    BY <1>0, <2>1 DEF NoVNCRunning, At
  <2> QED
    BY <1>0, <2>1, <2>2 DEF NoVNCRunning, At
<1>5. CASE CopyFile(b)
  <2>1. /\ novnc' = novnc
        /\ build'[b].pc \in {"copy_agent", "bat", "ready", "list_novnc"}
    BY <1>0, <1>5, BuildGoes DEF CopyFile, AfterCopy
  <2>2. build'[b].pc # "list_novnc" => oem'[b].ready = oem[b].ready
    <3>1. \/ build[b].pc \in {"copy_scripts", "copy_agent", "copy_bat"}
          \/ build'[b].pc = "list_novnc"
      BY <1>0, <1>5, BuildGoes DEF CopyFile, AfterCopy
    <3>2. ~At(b, "ready") => oem'[b].ready = oem[b].ready
      <4>1. CASE At(b, "copy_scripts")
        BY <1>0, <1>5, <4>1 DEF CopyFile, OemRecord, At
      <4>2. CASE At(b, "copy_agent")
        BY <1>0, <1>5, <4>2 DEF CopyFile, OemRecord, At
      <4>3. CASE At(b, "copy_bat")
        BY <1>0, <1>5, <4>3 DEF CopyFile, OemRecord, At
      <4> QED
        BY <1>5, <4>1, <4>2, <4>3 DEF CopyFile, AfterCopy, At
    <3> QED
      BY <3>1, <3>2 DEF At
  <2>3. build[b].pc \in {"copy_scripts", "copy_agent", "copy_bat", "ready"}
    BY <1>5 DEF CopyFile, AfterCopy
  <2> QED
    BY <1>0, <2>1, <2>2, <2>3 DEF NoVNCRunning, At
<1>6. CASE /\ novnc' = novnc /\ oem' = oem
           /\ build[b].pc \in BuildSteps \ {"list_novnc", "clear_novnc", "run_novnc"}
           /\ build'[b].pc \notin {"clear_novnc", "run_novnc"}
  BY <1>0, <1>1, <1>6 DEF NoVNCRunning, BuildEnds
<1>7. CASE \/ LookForNetwork(b) \/ NameExists(b) \/ Overlaps(b)
           \/ CreateNetwork(b) \/ PickPort(b)
  BY <1>0, <1>6, <1>7 DEF LookForNetwork, NameExists, Overlaps, CreateNetwork,
     PickPort, BuildRecord, At, BuildSteps
<1>8. CASE /\ novnc' = novnc /\ oem' = oem
           /\ build[b].pc \in BuildSteps \ {"list_novnc", "clear_novnc", "run_novnc"}
           /\ \E s \in BuildSteps \ {"clear_novnc", "run_novnc"} : GoTo(b, s)
  BY <1>6, <1>8, BuildGoes
<1> QED
  BY <1>2, <1>3, <1>4, <1>5, <1>7, <1>8 DEF BuildStep, Take, Raises,
     NodeExists, SetUp, BuildSteps, BuildEnds, StageAgent, CopyFails,
     GenerateKeys, CopyKey, RunNode, RunWorkstation, NoSubnetLeft, AllowAgent,
     SyncBuild, WriteScripts, WriteBat, AfterNode, AfterCopy, Names, At

\* With one worker, a build is taken only when none runs.
LEMMA OneBuildKept ==
    ASSUME HostTyped, OneBuildRuns, NEW b \in Builds, BuildStep(b)
    PROVE  OneBuildRuns'
<1>0. /\ \A c \in Builds \ {b} : build'[c] = build[c]
      /\ deployment' = deployment
      /\ IsFiniteSet(Builds)
      /\ build[b].pc \notin BuildEnds
  BY BuildAlone, HostAssumption
<1>1. CASE Take(b)
  <2> SUFFICES ASSUME deployment.workers = 1 PROVE \A c \in Builds : ~Active(c)
    BY <1>0 DEF OneBuildRuns, Active
  <2> DEFINE S == {c \in Builds : Active(c)}
  <2>1. IsFiniteSet(S) /\ Cardinality(S) < 1
    BY <1>0, <1>1, FS_Subset DEF Take
  <2>2. Cardinality(S) = 0
    BY <2>1, FS_CardinalityType
  <2> QED
    BY <2>1, <2>2, FS_EmptySet
<1>2. CASE ~Take(b)
  <2>1. Active(b)
    BY <1>0, <1>2 DEF Active, BuildStep, Raises, NoSubnetLeft, NodeExists,
       SetUp, At, StageAgent, CopyFails, GenerateKeys, CopyKey, RunNode,
       RunWorkstation, AllowAgent, SyncBuild, WriteScripts, WriteBat,
       ClearNoVNC, RunNoVNC, CopyFile, LookForNetwork, NameExists, Overlaps,
       CreateNetwork, PickPort, ListNoVNC, Names, AfterCopy
  <2> QED
    BY <1>0, <2>1 DEF OneBuildRuns, Active
<1> QED
  BY <1>1, <1>2

\* When builds of one organisation do not overlap, no other build of it runs.
LEMMA Alone ==
    ASSUME HostTyped, OneBuildRuns, OneAtATime, NEW b \in Builds,
           BuildStep(b), ~Take(b)
    PROVE  \A c \in Builds \ {b} : OrgOf(c) = OrgOf(b) => ~Active(c)
<1>1. Active(b)
  BY BuildAlone DEF Active, BuildStep, Raises, NoSubnetLeft, NodeExists, SetUp,
     At, StageAgent, CopyFails, GenerateKeys, CopyKey, RunNode, RunWorkstation,
     AllowAgent, SyncBuild, WriteScripts, WriteBat, ClearNoVNC, RunNoVNC,
     CopyFile, LookForNetwork, NameExists, Overlaps, CreateNetwork, PickPort,
     ListNoVNC, Names, AfterCopy
<1>2. \A c \in Builds : Active(c) => c \in deployment.jobs
  BY DEF HostTyped, Active
<1> QED
  BY <1>1, <1>2 DEF OneAtATime, OneBuildRuns

-----------------------------------------------------------------------------
(***************************************************************************)
(* The Docker host: builds of one organisation that take turns.            *)
(***************************************************************************)

\* What one build holds, the steps of the others of its organisation leave alone.
LEMMA OthersHold ==
    ASSUME HostTyped, OneBuildRuns, OneAtATime, HostShared,
           NEW b \in Builds, BuildStep(b), NEW c \in Builds \ {b}
    PROVE  Holds(c)'
<1>0. /\ build'[c] = build[c] /\ published'[c] = published[c]
      /\ deployment' = deployment
      /\ OrgOf(c) \in Orgs /\ OrgOf(b) \in Orgs
      /\ \A o \in Orgs : net[o] # NoOctet => net'[o] = net[o]
      /\ NoBuild \notin Builds
  BY BuildAlone, NetGrows, HostAssumption DEF HostTyped, HostTypeOK, OrgOf,
     Deployment
<1>1. OrgOf(c) = OrgOf(b) /\ ~Take(b) => ~Active(c)
  BY Alone
<1>2. node'[OrgOf(c)]["samba"] = c \/ node[OrgOf(c)]["samba"] # c
  <2>1. CASE RunNode(b)
    BY <1>0, <2>1 DEF RunNode, HostTyped, HostTypeOK, Names
  <2>2. CASE node' = node
    BY <2>2
  <2> QED
    BY <2>1, <2>2 DEF BuildStep, Take, Raises, NoSubnetLeft, NodeExists, SetUp,
       StageAgent, CopyFails, GenerateKeys, CopyKey, RunWorkstation,
       AllowAgent, SyncBuild, WriteScripts, WriteBat, ClearNoVNC, RunNoVNC,
       CopyFile, LookForNetwork, NameExists, Overlaps, CreateNetwork, PickPort,
       ListNoVNC
<1>3. \/ keyfile'[OrgOf(c)] = keyfile[OrgOf(c)]
      \/ (OrgOf(c) = OrgOf(b) /\ GenerateKeys(b))
  <2>1. CASE GenerateKeys(b)
    BY <1>0, <2>1 DEF GenerateKeys, HostTyped, HostTypeOK
  <2>2. CASE keyfile' = keyfile
    BY <2>2
  <2> QED
    BY <2>1, <2>2 DEF BuildStep, Take, Raises, NoSubnetLeft, NodeExists, SetUp,
       StageAgent, CopyFails, CopyKey, RunWorkstation, RunNode, AllowAgent,
       SyncBuild, WriteScripts, WriteBat, ClearNoVNC, RunNoVNC, CopyFile,
       LookForNetwork, NameExists, Overlaps, CreateNetwork, PickPort, ListNoVNC
<1>4. net'[OrgOf(c)] = net[OrgOf(c)] \/ (OrgOf(c) = OrgOf(b) /\ CreateNetwork(b))
  <2>1. CASE CreateNetwork(b)
    BY <1>0, <2>1 DEF CreateNetwork, HostTyped, HostTypeOK
  <2>2. CASE net' = net
    BY <2>2
  <2> QED
    BY <2>1, <2>2 DEF BuildStep, Take, Raises, NoSubnetLeft, NodeExists, SetUp,
       StageAgent, CopyFails, CopyKey, RunWorkstation, RunNode, GenerateKeys,
       AllowAgent, SyncBuild, WriteScripts, WriteBat, ClearNoVNC, RunNoVNC,
       CopyFile, LookForNetwork, NameExists, Overlaps, PickPort, ListNoVNC
<1>5. Holds(c) /\ Nodes(OrgOf(c))
  BY <1>0 DEF HostShared
<1>6. Active(c) => /\ keyfile'[OrgOf(c)] = keyfile[OrgOf(c)]
                   /\ net'[OrgOf(c)] = net[OrgOf(c)]
  BY <1>1, <1>3, <1>4 DEF GenerateKeys, CreateNetwork, Take, At
<1>7. published[c] # NoPort => net[OrgOf(c)] # NoOctet
  BY <1>0, <1>5 DEF Holds, Nodes, Names
<1>8. OrgOf(c)' = OrgOf(c)
  BY <1>0 DEF OrgOf
<1>9. build[c].pc \in {"create", "samba", "vpn", "setup", "key_samba",
                       "key_vpn", "run"} => Active(c)
  BY DEF Active, BuildEnds
<1>10. build[c].pc = "run" => build[c].pc \in Networked
  BY DEF Networked
<1> QED
  BY <1>0, <1>2, <1>5, <1>6, <1>7, <1>8, <1>9, <1>10 DEF Holds, At

\* Nodes and keys stay with the build that has them, when a step runs no node
\* and copies no key.
LEMMA NodesStay ==
    ASSUME HostTyped, HostShared, NEW b \in Builds, BuildStep(b),
           node' = node, authorized' = authorized,
           build[b].pc \notin Early =>
               build'[b].pc \notin Early /\ build'[b].octet = build[b].octet,
           NEW o \in Orgs
    PROVE  Nodes(o)'
<1>0. /\ \A c \in Builds \ {b} : build'[c] = build[c]
      /\ deployment' = deployment
      /\ \A p \in Orgs : net[p] # NoOctet => net'[p] = net[p]
      /\ \A n \in Names : node[o][n] \in Builds \cup {NoBuild}
  BY BuildAlone, NetGrows DEF HostTyped, HostTypeOK
<1>1. Nodes(o)
  BY DEF HostShared
<1> QED
  BY <1>0, <1>1 DEF Nodes, OrgOf

\* A step that only moves a build on, or ends it.
LEMMA MovesOn ==
    ASSUME HostTyped, OneBuildRuns, OneAtATime, HostShared,
           NEW b \in Builds, BuildStep(b),
           UNCHANGED <<net, node, keyfile, authorized, published>>,
           build'[b].octet = build[b].octet, build'[b].port = build[b].port,
           build'[b].pc \notin {"create", "run", "port_taken"},
           build'[b].pc \in Portless => build[b].pc \in Portless,
           build'[b].pc \in Networked => build[b].pc \in Networked,
           build'[b].pc \in Controlled => build[b].pc \in Controlled,
           build'[b].pc \in {"samba", "vpn", "setup", "key_samba", "key_vpn"} =>
               build[b].pc \in {"samba", "vpn", "setup", "key_samba", "key_vpn"},
           build'[b].pc \in Early => build[b].pc \in Early
    PROVE  HostShared'
<1>1. \A o \in Orgs : Nodes(o)'
  BY NodesStay
<1>2. deployment' = deployment /\ OrgOf(b)' = OrgOf(b)
  BY BuildAlone DEF OrgOf
<1>3. Holds(b)
  BY DEF HostShared
<1>4. Holds(b)'
  BY <1>2, <1>3 DEF Holds, At
<1> QED
  BY <1>1, <1>4, OthersHold DEF HostShared

\* The port a build picks is the one of its network.
LEMMA OwnPort ==
    ASSUME HostTyped, SubnetsDistinct, OneAtATime, HostShared, NEW b \in Builds,
           build[b].pc \in {"pick", "run"}
    PROVE  net[OrgOf(b)] \in Octets /\ net[OrgOf(b)] \notin PortsInUse
<1>1. OrgOf(b) \in Orgs /\ net \in [Orgs -> Octets \cup {NoOctet}]
      /\ \A c \in Builds : OrgOf(c) \in Orgs
  BY HostAssumption DEF HostTyped, HostTypeOK, OrgOf, Deployment
<1>2. /\ net[OrgOf(b)] \in Octets /\ node[OrgOf(b)]["samba"] = b
      /\ published[b] = NoPort
      /\ net[OrgOf(b)] \in Ports
  <2>1. Holds(b) /\ build[b].pc \in Networked \cap Controlled \cap Portless
    BY DEF HostShared, Networked, Controlled, Portless
  <2>2. /\ net[OrgOf(b)] # NoOctet /\ node[OrgOf(b)]["samba"] = b
        /\ published[b] = NoPort
    BY <2>1 DEF Holds
  <2> QED
    BY <1>1, <2>2, HostAssumption
<1>3. ASSUME NEW c \in Builds, published[c] = net[OrgOf(b)] PROVE FALSE
  <2>1. published[c] # NoPort
    BY <1>2, <1>3, HostAssumption
  <2>2. published[c] = net[OrgOf(c)] /\ node[OrgOf(c)]["samba"] = c
    BY <2>1 DEF HostShared, Holds
  <2>3. OrgOf(c) = OrgOf(b)
    BY <1>1, <1>2, <1>3, <2>2, HostAssumption DEF SubnetsDistinct
  <2> QED
    BY <1>2, <2>1, <2>2, <2>3
<1> QED
  BY <1>2, <1>3 DEF PortsInUse

\* Every step of a build keeps what the builds of other organisations hold, and
\* moves what is its own in step with it.
LEMMA SharedKept ==
    ASSUME HostTyped, SubnetsDistinct, OneBuildRuns, OneAtATime, HostShared,
           NEW b \in Builds, BuildStep(b)
    PROVE  HostShared'
<1>0. /\ build \in [Builds -> BuildRecord]
      /\ net \in [Orgs -> Octets \cup {NoOctet}]
      /\ node \in [Orgs -> [Names -> Builds \cup {NoBuild}]]
      /\ keyfile \in [Orgs -> Builds \cup {NoBuild}]
      /\ authorized \in [Orgs -> [{"samba", "vpn"} -> Builds \cup {NoBuild}]]
      /\ published \in [Builds -> Ports \cup {NoPort}]
      /\ OrgOf(b) \in Orgs
      /\ NoBuild \notin Builds /\ NoOctet \notin Octets /\ NoPort \notin Ports
  BY HostAssumption DEF HostTyped, HostTypeOK, OrgOf, Deployment
<1>1. deployment' = deployment /\ OrgOf(b)' = OrgOf(b)
  BY BuildAlone DEF OrgOf
<1>2. Holds(b) /\ Nodes(OrgOf(b)) /\ \A o \in Orgs : Nodes(o)
  BY <1>0 DEF HostShared
<1>3. ASSUME Holds(b)', \A o \in Orgs : Nodes(o)' PROVE HostShared'
  BY <1>3, OthersHold DEF HostShared
<1>4. CASE LookForNetwork(b)
  <2>1. /\ UNCHANGED <<net, node, keyfile, authorized, published>>
        /\ build[b].pc = "look"
        /\ IF net[OrgOf(b)] # NoOctet
           THEN build'[b].pc = "keys" /\ build'[b].octet = net[OrgOf(b)]
           ELSE build'[b].pc = "create"
    BY <1>0, <1>4 DEF LookForNetwork, BuildRecord, At
  <2>2. \A o \in Orgs : Nodes(o)'
    BY <2>1, NodesStay DEF Early
  <2>3. Holds(b)'
    BY <1>1, <1>2, <2>1 DEF Holds, At, Networked, Controlled, Portless
  <2> QED
    BY <1>3, <2>2, <2>3
<1>5. CASE NameExists(b)
  BY <1>2, <1>5 DEF NameExists, Holds, At
<1>6. CASE CreateNetwork(b)
  <2>1. /\ UNCHANGED <<node, keyfile, authorized, published>>
        /\ build[b].pc = "create"
        /\ net' = [net EXCEPT ![OrgOf(b)] = NextOctet(b)]
        /\ build'[b].pc = "keys" /\ build'[b].octet = NextOctet(b)
        /\ NextOctet(b) \in Octets
    BY <1>0, <1>6, NextOctetIs DEF CreateNetwork, BuildRecord, At
  <2>2. \A o \in Orgs : Nodes(o)'
    BY <2>1, NodesStay DEF Early
  <2>3. published[b] = NoPort
    BY <1>0, <1>2, <1>6 DEF Holds, Nodes, CreateNetwork, Names
  <2>4. Holds(b)'
    BY <1>0, <1>1, <1>2, <2>1, <2>3 DEF Holds, At, Networked, Controlled,
       Portless
  <2> QED
    BY <1>3, <2>2, <2>4
<1>7. CASE GenerateKeys(b)
  <2>1. /\ UNCHANGED <<net, node, authorized, published>> /\ build[b].pc = "keys"
        /\ keyfile' = [keyfile EXCEPT ![OrgOf(b)] = b]
        /\ build'[b].pc = "samba" /\ build'[b].octet = build[b].octet
    BY <1>0, <1>7, BuildGoes DEF GenerateKeys, At
  <2>2. \A o \in Orgs : Nodes(o)'
    BY <2>1, NodesStay DEF Early
  <2>3. Holds(b)'
    BY <1>0, <1>1, <1>2, <2>1 DEF Holds, At, Networked, Controlled, Portless
  <2> QED
    BY <1>3, <2>2, <2>3
<1>8. CASE RunNode(b)
  <2> DEFINE n == build[b].pc
  <2>1. /\ UNCHANGED <<net, keyfile, authorized, published>>
        /\ n \in Names /\ node[OrgOf(b)][n] = NoBuild
        /\ node' = [node EXCEPT ![OrgOf(b)][n] = b]
        /\ build'[b].pc = AfterNode[n] /\ build'[b].octet = build[b].octet
        /\ build'[b].port = build[b].port
    BY <1>0, <1>8, BuildGoes DEF RunNode
  <2>2. /\ node'[OrgOf(b)][n] = b
        /\ \A m \in Names \ {n} : node'[OrgOf(b)][m] = node[OrgOf(b)][m]
        /\ \A o \in Orgs \ {OrgOf(b)} : node'[o] = node[o]
    BY <1>0, <2>1
  <2>3. build[b].octet = net[OrgOf(b)] /\ net[OrgOf(b)] # NoOctet
    BY <1>2, <2>1 DEF Holds, Networked, Names
  <2>4. published[b] = NoPort
    <3>1. CASE n = "samba"
      BY <1>0, <1>2, <2>1, <3>1 DEF Holds
    <3>2. CASE n # "samba"
      BY <1>2, <2>1, <3>2 DEF Holds, Portless, Names
    <3> QED
      BY <3>1, <3>2
  <2>5. Holds(b)'
    BY <1>1, <1>2, <2>1, <2>2, <2>3, <2>4 DEF Holds, At, Networked, Controlled,
       Portless, AfterNode, Names
  <2>6. ASSUME NEW o \in Orgs PROVE Nodes(o)'
    <3>1. \A c \in Builds \ {b} : build'[c] = build[c]
      BY BuildAlone
    <3>2. CASE o # OrgOf(b)
      <4>1. build[b].pc \notin Early => build'[b].pc \notin Early
        BY <2>1 DEF Names, Early, AfterNode
      <4>2. /\ Nodes(o) /\ node'[o] = node[o]
            /\ \A m \in Names : node[o][m] \in Builds \cup {NoBuild}
        BY <1>0, <1>2, <2>2, <2>6, <3>2
      <4> QED
        <5>1. ASSUME NEW m \in Names, node[o][m] # NoBuild
              PROVE  /\ OrgOf(node[o][m]) = o
                     /\ build'[node[o][m]].octet = net[o] /\ net[o] # NoOctet
                     /\ build'[node[o][m]].pc \notin Early
          BY <2>1, <3>1, <4>1, <4>2, <5>1 DEF Nodes
        <5> QED
          BY <1>1, <2>1, <4>2, <5>1 DEF Nodes, OrgOf
    <3>3. CASE o = OrgOf(b)
      <4>1. build'[b].pc \notin Early
        BY <2>1 DEF Names, Early, AfterNode
      <4>2. \A m \in Names : node'[o][m] # NoBuild =>
               /\ OrgOf(node'[o][m]) = o
               /\ build'[node'[o][m]].octet = net'[o] /\ net'[o] # NoOctet
               /\ build'[node'[o][m]].pc \notin Early
        <5> SUFFICES ASSUME NEW m \in Names, node'[o][m] # NoBuild
                     PROVE  /\ OrgOf(node'[o][m]) = o
                            /\ build'[node'[o][m]].octet = net'[o]
                            /\ net'[o] # NoOctet
                            /\ build'[node'[o][m]].pc \notin Early
          OBVIOUS
        <5>1. CASE m = n
          <6>1. node'[o][m] = b
            BY <2>2, <3>3, <5>1
          <6> QED
            BY <2>1, <2>3, <3>3, <4>1, <6>1
        <5>2. CASE m # n
          <6>1. node'[o][m] = node[o][m] /\ node[o][m] \in Builds
            BY <1>0, <2>2, <3>3, <5>2
          <6> QED
            <7>1. /\ OrgOf(node[o][m]) = o
                  /\ build[node[o][m]].octet = net[o] /\ net[o] # NoOctet
              BY <1>2, <6>1 DEF Nodes
            <7>2. build[node[o][m]].pc \notin Early
              BY <1>2, <6>1 DEF Nodes
            <7>3. CASE node[o][m] = b
              BY <2>1, <4>1, <6>1, <7>1, <7>3
            <7>4. CASE node[o][m] # b
              BY <2>1, <3>1, <6>1, <7>1, <7>2, <7>4
            <7> QED
              BY <7>3, <7>4
        <5> QED
          BY <5>1, <5>2
      <4>3. node'[o]["vpn"] # NoBuild => node'[o]["samba"] = node'[o]["vpn"]
        <5>1. CASE n = "samba"
          BY <1>2, <2>1, <2>2, <3>3, <5>1 DEF Nodes, Names
        <5>2. CASE n = "vpn"
          BY <1>2, <2>1, <2>2, <3>3, <5>2 DEF Holds, Controlled, Networked,
             Names
        <5>3. CASE n = "td"
          BY <1>2, <2>1, <2>2, <3>3, <5>3 DEF Nodes, Names
        <5> QED
          BY <2>1, <5>1, <5>2, <5>3 DEF Names
      <4>4. \A m \in {"samba", "vpn"} :
               authorized'[o][m] \in {NoBuild, node'[o]["samba"]}
        <5>1. CASE n = "samba"
          BY <1>2, <2>1, <2>2, <3>3, <5>1 DEF Nodes
        <5>2. CASE n # "samba"
          BY <1>2, <2>1, <2>2, <3>3, <5>2 DEF Nodes, Names
        <5> QED
          BY <5>1, <5>2
      <4> QED
        BY <1>1, <4>2, <4>3, <4>4 DEF Nodes, OrgOf
    <3> QED
      BY <3>2, <3>3
  <2> QED
    BY <1>3, <2>5, <2>6
<1>9. CASE CopyKey(b)
  <2>1. /\ UNCHANGED <<net, node, keyfile, published>>
        /\ build[b].pc \in {"key_samba", "key_vpn"}
        /\ build'[b].pc \in {"td", "key_samba", "key_vpn"}
        /\ build'[b].octet = build[b].octet
        /\ \E m \in {"samba", "vpn"} :
              authorized' = [authorized EXCEPT ![OrgOf(b)][m] = keyfile[OrgOf(b)]]
    <3>1. /\ build'[b].octet = build[b].octet
          /\ build'[b].pc \in {"td", "key_samba", "key_vpn"}
      BY <1>9, BuildGoes DEF CopyKey
    <3> QED
      BY <1>9, <3>1 DEF CopyKey, At
  <2>2. PICK m \in {"samba", "vpn"} :
              authorized' = [authorized EXCEPT ![OrgOf(b)][m] = keyfile[OrgOf(b)]]
    BY <2>1
  <2>3. keyfile[OrgOf(b)] = b /\ node[OrgOf(b)]["samba"] = b
    BY <1>2, <2>1 DEF Holds, Controlled, Networked
  <2>4. Holds(b)'
    BY <1>1, <1>2, <2>1 DEF Holds, At, Networked, Controlled, Portless
  <2>5. ASSUME NEW o \in Orgs PROVE Nodes(o)'
    <3>1. \A c \in Builds \ {b} : build'[c] = build[c]
      BY BuildAlone
    <3>2. \A k \in {"samba", "vpn"} :
             authorized'[o][k] \in {authorized[o][k],
                                     IF o = OrgOf(b) THEN b ELSE NoBuild}
      BY <1>0, <2>2, <2>3
    <3>3. \A k \in {"samba", "vpn"} :
             authorized'[o][k] \in {NoBuild, node[o]["samba"]}
      BY <1>2, <2>3, <3>2 DEF Nodes
    <3>4. build'[b].pc \notin Early
      BY <2>1 DEF Early
    <3>5. Nodes(o) /\ \A k \in Names : node[o][k] \in Builds \cup {NoBuild}
      BY <1>0, <1>2
    <3> QED
      BY <1>1, <2>1, <3>1, <3>3, <3>4, <3>5 DEF Nodes, OrgOf
  <2> QED
    BY <1>3, <2>4, <2>5
<1>10. CASE PickPort(b)
  <2> DEFINE free == {p \in Ports : p >= build[b].octet /\ p \notin PortsInUse}
             new == CHOOSE p \in free : \A q \in free : p <= q
  <2>1. /\ build[b].pc = "pick"
        /\ UNCHANGED <<net, node, keyfile, authorized, published>>
        /\ build' = [build EXCEPT ![b].pc = "run", ![b].port = new]
    BY <1>10 DEF PickPort, At
  <2>2. net[OrgOf(b)] \in Octets /\ net[OrgOf(b)] \notin PortsInUse
    BY <2>1, OwnPort
  <2>3. build[b].octet = net[OrgOf(b)]
    BY <1>2, <2>1 DEF Holds, Networked
  <2>4. new = net[OrgOf(b)]
    <3>1. Ports \subseteq Nat /\ Octets \subseteq Ports
      BY HostAssumption
    <3>2. net[OrgOf(b)] \in free /\ \A q \in free : net[OrgOf(b)] <= q
      <4>1. /\ net[OrgOf(b)] \in Nat
            /\ net[OrgOf(b)] \in Ports
            /\ build[b].octet = net[OrgOf(b)]
        BY <2>2, <2>3, <3>1
      <4>2. net[OrgOf(b)] >= build[b].octet
        BY <4>1
      <4>3. \A q \in free : q \in Nat /\ q >= net[OrgOf(b)]
        BY <3>1, <4>1
      <4> QED
        BY <2>2, <4>1, <4>2, <4>3
    <3>3. free \subseteq Nat
      BY <3>1
    <3>4. new \in free /\ \A q \in free : new <= q
      BY <3>2
    <3>5. /\ new \in Nat
          /\ net[OrgOf(b)] \in Nat
          /\ new <= net[OrgOf(b)]
          /\ net[OrgOf(b)] <= new
      BY <3>2, <3>3, <3>4
    <3> HIDE DEF new, free
    <3> QED
      BY <3>5
  <2> HIDE DEF new, free
  <2>5. /\ build'[b].pc = "run"
        /\ build'[b].port = new
        /\ build'[b].octet = build[b].octet
    BY <1>0, <2>1 DEF BuildRecord
  <2>6. \A o \in Orgs : Nodes(o)'
    BY <2>1, <2>5, NodesStay DEF Early
  <2>7. Holds(b)'
    BY <1>1, <1>2, <2>1, <2>3, <2>4, <2>5 DEF Holds, At, Networked, Controlled,
       Portless
  <2> QED
    BY <1>3, <2>6, <2>7
<1>11. CASE RunWorkstation(b)
  <2>1. build[b].pc = "run" /\ UNCHANGED <<net, node, keyfile, authorized>>
    BY <1>11 DEF RunWorkstation, At
  <2>2. build[b].port = net[OrgOf(b)] /\ build[b].port \notin PortsInUse
    BY <1>2, <2>1, OwnPort DEF Holds, At
  <2>3. published' = [published EXCEPT ![b] = build[b].port] /\ GoTo(b, "allow")
    BY <1>11, <2>2 DEF RunWorkstation
  <2>4. /\ build'[b].pc = "allow"
        /\ build'[b].octet = build[b].octet
        /\ published'[b] = net[OrgOf(b)]
    BY <1>0, <2>2, <2>3, BuildGoes
  <2>5. \A o \in Orgs : Nodes(o)'
    BY <2>1, <2>4, NodesStay DEF Early
  <2>6. Holds(b)'
    BY <1>1, <1>2, <2>1, <2>4 DEF Holds, At, Networked, Controlled, Portless
  <2> QED
    BY <1>3, <2>5, <2>6
<1>12. CASE Overlaps(b) \/ ListNoVNC(b)
  <2>1. /\ UNCHANGED <<net, node, keyfile, authorized, published>>
        /\ build'[b].octet = build[b].octet /\ build'[b].port = build[b].port
        /\ \/ build[b].pc = "create" /\ build'[b].pc = "create"
           \/ build[b].pc = "list_novnc" /\ build'[b].pc = "clear_novnc"
    BY <1>0, <1>12 DEF Overlaps, ListNoVNC, BuildRecord, At
  <2>2. \A o \in Orgs : Nodes(o)'
    BY <2>1, NodesStay DEF Early
  <2>3. Holds(b)'
    BY <1>1, <1>2, <2>1 DEF Holds, At, Networked, Controlled, Portless
  <2> QED
    BY <1>3, <2>2, <2>3
<1>13. ASSUME NEW s, GoTo(b, s),
              UNCHANGED <<net, node, keyfile, authorized, published>>,
              s \notin {"create", "run", "port_taken"},
              s \in Portless => build[b].pc \in Portless,
              s \in Networked => build[b].pc \in Networked,
              s \in Controlled => build[b].pc \in Controlled,
              s \in {"samba", "vpn", "setup", "key_samba", "key_vpn"} =>
                  build[b].pc \in {"samba", "vpn", "setup", "key_samba", "key_vpn"},
              s \in Early => build[b].pc \in Early
       PROVE  HostShared'
  BY <1>13, BuildGoes, MovesOn
<1>14. CASE Take(b)
  BY <1>13, <1>14 DEF Take, At, Portless, Networked, Controlled, Early
<1>15. CASE Raises(b) \/ NoSubnetLeft(b) \/ NodeExists(b)
  BY <1>13, <1>15 DEF Raises, NoSubnetLeft, NodeExists, Portless, Networked,
     Controlled, Early
<1>16. CASE SetUp(b)
  BY <1>13, <1>16 DEF SetUp, At, Portless, Networked, Controlled, Early
<1>17. CASE \/ AllowAgent(b) \/ SyncBuild(b) \/ StageAgent(b)
            \/ WriteScripts(b) \/ WriteBat(b)
  BY <1>13, <1>17 DEF AllowAgent, SyncBuild, StageAgent, WriteScripts,
     WriteBat, At, Portless, Networked, Controlled, Early
<1>18. CASE CopyFile(b) \/ CopyFails(b) \/ ClearNoVNC(b) \/ RunNoVNC(b)
  BY <1>13, <1>18 DEF CopyFile, CopyFails, ClearNoVNC, RunNoVNC, AfterCopy, At,
     Portless, Networked, Controlled, Early
<1> QED
  BY <1>4, <1>5, <1>6, <1>7, <1>8, <1>9, <1>10, <1>11, <1>12, <1>14, <1>15,
     <1>16, <1>17, <1>18
     DEF BuildStep

-----------------------------------------------------------------------------
(***************************************************************************)
(* The Docker host: one worker, and the folder its builds share.           *)
(***************************************************************************)

\* A step of a build leaves the files of the other workstations alone, and the
\* shared folder too while another build copies from it.
LEMMA OthersFiled ==
    ASSUME HostTyped, OneBuildRuns, deployment.workers = 1, HostFiled,
           NEW b \in Builds, BuildStep(b), NEW c \in Builds \ {b}
    PROVE  Filed(c)'
<1>1. build'[c] = build[c] /\ oem'[c] = oem[c] /\ deployment' = deployment
  BY BuildAlone
<1>2. scripts' = scripts \/ Active(b)
  BY DEF Active, BuildEnds, BuildStep, Take, Raises, NoSubnetLeft, NodeExists,
     SetUp, StageAgent, CopyFails, GenerateKeys, CopyKey, RunNode,
     RunWorkstation, AllowAgent, SyncBuild, WriteScripts, WriteBat, ClearNoVNC,
     RunNoVNC, CopyFile, LookForNetwork, NameExists, Overlaps, CreateNetwork,
     PickPort, ListNoVNC, At
<1>3. At(c, "copy_scripts") \/ At(c, "copy_bat") => scripts' = scripts
  BY <1>2 DEF OneBuildRuns, Active, At, BuildEnds
<1>4. Filed(c)
  BY DEF HostFiled
<1> QED
  BY <1>1, <1>3, <1>4 DEF Filed, At

\* Every step keeps the files in step with the builds.
LEMMA FiledKept ==
    ASSUME HostTyped, OneBuildRuns, deployment.workers = 1, HostFiled,
           NoVNCRunning, NEW b \in Builds, BuildStep(b)
    PROVE  HostFiled'
<1>0. /\ build \in [Builds -> BuildRecord] /\ oem \in [Builds -> OemRecord]
      /\ scripts \in [ps1 : Builds \cup {NoBuild}, bat : Builds \cup {NoBuild}]
      /\ deployment' = deployment /\ build[b].pc \notin BuildEnds
      /\ Filed(b)
      /\ oem[b].ready =>
            build[b].pc \in {"list_novnc", "clear_novnc", "run_novnc", "done"}
  BY BuildAlone DEF HostTyped, HostTypeOK, HostFiled, NoVNCRunning
<1>1. ASSUME Filed(b)' PROVE HostFiled'
  BY <1>1, OthersFiled DEF HostFiled
<1>2. ASSUME scripts' = scripts, oem' = oem,
             build'[b].pc \notin {"copy_scripts", "copy_agent", "bat", "copy_bat",
                                  "ready", "list_novnc"},
             build'[b].pc \in {"clear_novnc", "run_novnc", "done"} =>
                \/ build[b].pc \in {"list_novnc", "clear_novnc", "run_novnc"}
                \/ "copy" \in deployment.faults
      PROVE  Filed(b)'
  BY <1>0, <1>2 DEF Filed, At
<1>3. CASE WriteScripts(b)
  <2>1. scripts'.ps1 = b /\ oem' = oem /\ build'[b].pc = "copy_scripts"
    BY <1>0, <1>3, BuildGoes DEF WriteScripts
  <2> QED
    BY <1>0, <1>1, <2>1 DEF Filed, At
<1>4. CASE WriteBat(b)
  <2>1. /\ scripts'.bat = b
        /\ oem' = oem
        /\ build'[b].pc = "copy_bat"
        /\ build[b].pc = "bat"
    BY <1>0, <1>4, BuildGoes DEF WriteBat, At
  <2> QED
    BY <1>0, <1>1, <2>1 DEF Filed, At
<1>5. CASE CopyFile(b)
  <2>1. /\ scripts' = scripts /\ build[b].pc \in DOMAIN AfterCopy
        /\ build'[b].pc = AfterCopy[build[b].pc]
    BY <1>5, BuildGoes DEF CopyFile
  <2>2. CASE At(b, "copy_scripts")
    <3>1. /\ oem'[b].scripts = b
          /\ oem'[b].bat = oem[b].bat
          /\ oem'[b].agent = oem[b].agent
          /\ oem'[b].ready = oem[b].ready
      <4>1. scripts.ps1 = b
        BY <1>0, <2>2 DEF Filed
      <4>2. oem' = [oem EXCEPT ![b].scripts = scripts.ps1]
        BY <1>5, <2>2 DEF CopyFile, At
      <4> QED
        BY <1>0, <4>1, <4>2 DEF OemRecord
    <3> QED
      BY <1>0, <1>1, <2>1, <2>2, <3>1 DEF Filed, At, AfterCopy
  <2>3. CASE At(b, "copy_agent")
    <3>1. /\ oem'[b].scripts = oem[b].scripts
          /\ oem'[b].bat = oem[b].bat
          /\ oem'[b].agent
          /\ oem'[b].ready = oem[b].ready
      BY <1>0, <1>5, <2>3 DEF CopyFile, OemRecord, At
    <3> QED
      BY <1>0, <1>1, <2>1, <2>3, <3>1 DEF Filed, At, AfterCopy
  <2>4. CASE At(b, "copy_bat")
    <3>1. /\ oem'[b].scripts = oem[b].scripts
          /\ oem'[b].bat = b
          /\ oem'[b].agent = oem[b].agent
          /\ oem'[b].ready = oem[b].ready
      BY <1>0, <1>5, <2>4 DEF CopyFile, OemRecord, At, Filed
    <3> QED
      BY <1>0, <1>1, <2>1, <2>4, <3>1 DEF Filed, At, AfterCopy
  <2>5. CASE At(b, "ready")
    <3>1. /\ oem'[b].scripts = oem[b].scripts
          /\ oem'[b].bat = oem[b].bat
          /\ oem'[b].agent = oem[b].agent
      BY <1>0, <1>5, <2>5 DEF CopyFile, OemRecord, At, Filed
    <3> QED
      BY <1>0, <1>1, <2>1, <2>5, <3>1 DEF Filed, At, AfterCopy
  <2> QED
    BY <2>1, <2>2, <2>3, <2>4, <2>5 DEF AfterCopy, At
<1>6. CASE CopyFails(b)
  <2>1. /\ scripts' = scripts /\ oem' = oem /\ "copy" \in deployment.faults
        /\ build'[b].pc \in {"copy_agent", "done"}
    BY <1>6, BuildGoes DEF CopyFails
  <2> QED
    BY <1>0, <1>1, <2>1 DEF Filed, At
<1>7. CASE ClearNoVNC(b) \/ RunNoVNC(b) \/ ListNoVNC(b)
  <2>1. /\ scripts' = scripts /\ oem' = oem
        /\ build[b].pc \in {"list_novnc", "clear_novnc", "run_novnc"}
        /\ build'[b].pc \in {"clear_novnc", "run_novnc", "done"}
    BY <1>0, <1>7, BuildGoes DEF ClearNoVNC, RunNoVNC, ListNoVNC, BuildRecord,
       At
  <2> QED
    BY <1>1, <1>2, <2>1
<1>8. CASE StageAgent(b)
  <2>1. /\ scripts' = scripts /\ oem' = oem
        /\ \/ build'[b].pc = "scripts"
           \/ build'[b].pc = "done" /\ "copy" \in deployment.faults
    BY <1>8, BuildGoes DEF StageAgent
  <2> QED
    BY <1>1, <1>2, <2>1
<1>9. CASE \/ LookForNetwork(b) \/ NameExists(b) \/ Overlaps(b)
           \/ CreateNetwork(b) \/ PickPort(b)
  <2>1. /\ scripts' = scripts /\ oem' = oem
        /\ build'[b].pc \in {"keys", "create", "run"}
    BY <1>0, <1>9 DEF LookForNetwork, NameExists, Overlaps, CreateNetwork,
       PickPort, BuildRecord, At
  <2> QED
    BY <1>1, <1>2, <2>1
<1>10. ASSUME NEW s, GoTo(b, s), scripts' = scripts, oem' = oem,
              s \in {"look", "failed", "no_subnet", "samba", "vpn", "setup", "pick",
                     "key_samba", "key_vpn", "td", "port_taken", "allow", "sync",
                     "stage"}
       PROVE  HostFiled'
  BY <1>1, <1>2, <1>10, BuildGoes
<1>11. CASE \/ Take(b) \/ Raises(b) \/ NoSubnetLeft(b) \/ NodeExists(b)
            \/ SetUp(b) \/ GenerateKeys(b)
  BY <1>10, <1>11 DEF Take, Raises, NoSubnetLeft, NodeExists, SetUp,
     GenerateKeys
<1>12. CASE \/ RunNode(b) \/ CopyKey(b) \/ RunWorkstation(b) \/ AllowAgent(b)
            \/ SyncBuild(b)
  BY <1>10, <1>12 DEF RunNode, CopyKey, RunWorkstation, AllowAgent, SyncBuild,
     AfterNode, Names
<1> QED
  BY <1>3, <1>4, <1>5, <1>6, <1>7, <1>8, <1>9, <1>11, <1>12 DEF BuildStep

-----------------------------------------------------------------------------
(***************************************************************************)
(* The Docker host: one build and one boot at a time, and the allowlist.   *)
(***************************************************************************)

\* What a step of a boot leaves alone.
LEMMA BootAlone ==
    ASSUME HostTyped, NEW v \in Boots, BootStep(v)
    PROVE  /\ UNCHANGED <<deployment, build, net, node, keyfile, authorized,
                          published, scripts, oem, novnc>>
           /\ \A w \in Boots \ {v} : boot'[w] = boot[w]
<1>1. boot \in [Boots -> BootRecord]
  BY DEF HostTyped, HostTypeOK
<1> QED
  BY <1>1 DEF BootStep, TakeBoot, CopyImage, RunVM, LoadAgents, TruncateAgents,
     WriteAgents, SyncBoot, WaitForRDP, BootTo

\* With one worker, a boot is taken only when none runs, and a build that is
\* done stays done.
LEMMA OneBootKept ==
    ASSUME HostTyped, OneBootRuns, deployment.booting = 1,
           \/ \E b \in Builds : BuildStep(b)
           \/ \E v \in Boots : BootStep(v)
    PROVE  OneBootRuns'
<1>1. ASSUME NEW b \in Builds, BuildStep(b) PROVE OneBootRuns'
  <2>1. /\ UNCHANGED <<deployment, boot>>
        /\ \A c \in Builds : At(c, "done") => build'[c] = build[c]
    BY <1>1, BuildAlone DEF At, BuildEnds
  <2> QED
    BY <2>1 DEF OneBootRuns, Booting, At, OrgOf
<1>2. ASSUME NEW v \in Boots, BootStep(v) PROVE OneBootRuns'
  <2>0. /\ UNCHANGED <<deployment, build>>
        /\ \A w \in Boots \ {v} : boot'[w] = boot[w]
        /\ boot \in [Boots -> BootRecord]
    BY <1>2, BootAlone DEF HostTyped, HostTypeOK
  <2>1. CASE TakeBoot(v)
    <3> DEFINE S == {w \in Boots : Booting(w)}
    <3>1. IsFiniteSet(S) /\ Cardinality(S) < 1
      BY <2>1, FS_Subset, HostAssumption DEF TakeBoot
    <3>2. Cardinality(S) = 0
      BY <3>1, FS_CardinalityType
    <3>3. \A w \in Boots : ~Booting(w)
      BY <3>1, <3>2, FS_EmptySet
    <3>4. PICK b \in Builds :
             /\ At(b, "done")
             /\ boot' = [boot EXCEPT ![v].pc = "copy", ![v].org = OrgOf(b)]
      BY <2>1 DEF TakeBoot
    <3>5. boot'[v].org = OrgOf(b)
      BY <2>0, <3>4 DEF BootRecord
    <3> QED
      BY <2>0, <3>3, <3>4, <3>5 DEF OneBootRuns, Booting, At, OrgOf
  <2>2. CASE ~TakeBoot(v)
    <3>1. Booting(v)
      BY <1>2, <2>2 DEF Booting, BootStep, CopyImage, RunVM, LoadAgents,
         TruncateAgents, WriteAgents, SyncBoot, WaitForRDP, BootEnds
    <3>2. boot'[v].org = boot[v].org
      BY <1>2, <2>0, <2>2 DEF BootStep, CopyImage, RunVM, LoadAgents,
         TruncateAgents, WriteAgents, SyncBoot, WaitForRDP, BootTo, BootRecord
    <3> QED
      BY <2>0, <3>1, <3>2 DEF OneBootRuns, Booting, At, OrgOf, BootEnds
  <2> QED
    BY <2>1, <2>2
<1> QED
  BY <1>1, <1>2

\* While a build of an organisation is at work on its workstation, no boot of
\* that organisation has begun.
LEMMA NoBootYet ==
    ASSUME HostTyped, HostShared, OneBootRuns, NEW b \in Builds,
           build[b].pc \in Controlled \ {"done"}, NEW v \in Boots,
           boot[v].pc # "queued"
    PROVE  boot[v].org # OrgOf(b)
BY DEF HostShared, Holds, OneBootRuns, At, Controlled

\* The allowlist, when a build takes a step.
LEMMA RegisteredByBuild ==
    ASSUME HostTyped, HostShared, OneBootRuns, Registered, Careful,
           NEW b \in Builds, BuildStep(b)
    PROVE  Registered'
<1>0. /\ UNCHANGED <<deployment, boot>>
      /\ \A c \in Builds \ {b} : build'[c] = build[c]
      /\ build \in [Builds -> BuildRecord]
      /\ allow \in [Orgs -> SUBSET Entry] /\ tdlist \in [Orgs -> SUBSET Entry]
      /\ OrgOf(b) \in Orgs
      /\ build[b].pc \notin BuildEnds
  BY BuildAlone, HostAssumption DEF HostTyped, HostTypeOK, OrgOf, Deployment
<1>1. build[b].pc \in Controlled \ {"done"} =>
         \A v \in Boots : boot[v].pc # "queued" => boot[v].org # OrgOf(b)
  BY NoBootYet
<1>2. \A c \in Builds, o \in Orgs :
         /\ OrgOf(c)' = OrgOf(c)
         /\ Writing(o)' = Writing(o)
         /\ OwnEntry(c)' = OwnEntry(c)
  BY <1>0 DEF OrgOf, Writing, OwnEntry
<1>3. \A c \in Builds : OrgOf(c) \in Orgs
  BY HostAssumption DEF HostTyped, HostTypeOK, OrgOf, Deployment
<1>4. CASE AllowAgent(b)
  <2>1. /\ build[b].pc = "allow" /\ build'[b].pc = "sync" /\ tdlist' = tdlist
        /\ allow' = [allow EXCEPT ![OrgOf(b)] = @ \cup {OwnEntry(b)}]
    BY <1>0, <1>4, BuildGoes DEF AllowAgent, At, OwnEntry
  <2>2. \A o \in Orgs :
           allow[o] \subseteq allow'[o] /\ (o # OrgOf(b) => allow'[o] = allow[o])
    BY <1>0, <2>1
  <2>3. OwnEntry(b) \in allow'[OrgOf(b)]
    BY <1>0, <2>1
  <2>4. \A v \in Boots :
           boot[v].pc # "queued" => boot[v].org # OrgOf(b) /\ boot[v].org \in Orgs
    BY <1>1, <2>1 DEF Controlled, Networked, HostTyped
  <2>5. \A o \in Orgs : Registering(o)' \/ (o # OrgOf(b) /\ ~Registering(o))
    BY <1>0, <2>1 DEF Registering, OrgOf
  <2>6. \A c \in Builds : At(c, "done")' => At(c, "done")
    BY <1>0, <2>1 DEF At
  <2> QED
    <3>1. ASSUME NEW v \in Boots PROVE ListKept(v)'
      <4>1. ListKept(v)
        BY DEF Registered
      <4>2. CASE boot[v].pc = "queued"
        BY <1>0, <4>2 DEF ListKept
      <4>3. CASE boot[v].pc # "queued"
        <5>1. allow'[boot[v].org] = allow[boot[v].org]
          BY <2>2, <2>4, <4>3
        <5>2. Writing(boot[v].org)' = Writing(boot[v].org)
          BY <1>0 DEF Writing
        <5> QED
          BY <1>0, <1>2, <2>6, <4>1, <5>1, <5>2 DEF ListKept
      <4> QED
        BY <4>2, <4>3
    <3>2. ASSUME NEW c \in Builds PROVE EntryKept(c)'
      <4>1. EntryKept(c) /\ OrgOf(c) \in Orgs
        BY <1>3 DEF Registered
      <4>2. OrgOf(c)' = OrgOf(c) /\ Writing(OrgOf(c))' = Writing(OrgOf(c))
        BY <1>0 DEF OrgOf, Writing
      <4>3. CASE c = b
        BY <2>3, <4>2, <4>3 DEF EntryKept, OwnEntry
      <4>4. CASE c # b
        BY <1>0, <2>2, <4>1, <4>2, <4>4 DEF EntryKept, OwnEntry
      <4> QED
        BY <4>3, <4>4
    <3>3. ASSUME NEW o \in Orgs PROVE CopyCurrent(o)'
      BY <2>1, <2>2, <2>5, <3>3 DEF Registered, CopyCurrent
    <3> QED
      BY <3>1, <3>2, <3>3 DEF Registered
<1>5. CASE ~AllowAgent(b)
  <2>1. allow' = allow
    BY <1>5 DEF BuildStep, Take, Raises, NoSubnetLeft, NodeExists, SetUp,
       StageAgent, CopyFails, GenerateKeys, CopyKey, RunNode, RunWorkstation,
       SyncBuild, WriteScripts, WriteBat, ClearNoVNC, RunNoVNC, CopyFile,
       LookForNetwork, NameExists, Overlaps, CreateNetwork, PickPort, ListNoVNC
  <2>2. /\ build'[b].pc \in Allowed => build[b].pc \in Allowed
        /\ build[b].pc = "allow" => FALSE
    <3>1. CASE \/ LookForNetwork(b) \/ NameExists(b) \/ Overlaps(b)
               \/ CreateNetwork(b) \/ PickPort(b) \/ ListNoVNC(b)
      BY <1>0, <3>1 DEF LookForNetwork, NameExists, Overlaps, CreateNetwork,
         PickPort, ListNoVNC, BuildRecord, At, Allowed
    <3>2. CASE \/ Take(b) \/ Raises(b) \/ NoSubnetLeft(b) \/ NodeExists(b)
               \/ SetUp(b)
           \/ StageAgent(b) \/ CopyFails(b) \/ GenerateKeys(b) \/ CopyKey(b)
           \/ RunNode(b) \/ RunWorkstation(b) \/ SyncBuild(b)
           \/ WriteScripts(b) \/ WriteBat(b) \/ ClearNoVNC(b) \/ RunNoVNC(b)
           \/ CopyFile(b)
      <4>1. \E s : /\ GoTo(b, s)
                   /\ s \in Allowed => build[b].pc \in Allowed
                   /\ build[b].pc # "allow"
        BY <3>2 DEF Take, Raises, NoSubnetLeft, NodeExists, SetUp, StageAgent,
           CopyFails, GenerateKeys, CopyKey, RunNode, At, Allowed, Names,
           AfterNode, AfterCopy, RunWorkstation, SyncBuild, WriteScripts,
           WriteBat, ClearNoVNC, RunNoVNC, CopyFile
      <4> QED
        BY <4>1, BuildGoes
    <3> QED
      BY <1>5, <3>1, <3>2 DEF BuildStep
  <2>3. tdlist' = tdlist \/ SyncBuild(b)
    BY <1>5 DEF BuildStep, Take, Raises, NoSubnetLeft, NodeExists, SetUp,
       StageAgent, CopyFails, GenerateKeys, CopyKey, RunNode, RunWorkstation,
       WriteScripts, WriteBat, ClearNoVNC, RunNoVNC, CopyFile, LookForNetwork,
       NameExists, Overlaps, CreateNetwork, PickPort, ListNoVNC
  <2>4. ASSUME NEW o \in Orgs, ~Registering(o)' PROVE tdlist'[o] = allow'[o]
    <3>1. CASE SyncBuild(b)
      <4>1. tdlist' = [tdlist EXCEPT ![OrgOf(b)] = allow[OrgOf(b)]]
        BY <3>1 DEF SyncBuild, SyncAgents, Careful
      <4>2. CASE o = OrgOf(b)
        BY <1>0, <2>1, <4>1, <4>2
      <4>3. CASE o # OrgOf(b)
        <5>1. ~Registering(o)
          BY <1>0, <2>4, <4>3 DEF Registering, OrgOf
        <5> QED
          BY <1>0, <2>1, <4>1, <4>3, <5>1 DEF Registered, CopyCurrent
      <4> QED
        BY <4>2, <4>3
    <3>2. CASE ~SyncBuild(b)
      <4>1. build[b].pc # "sync"
        BY <3>2 DEF BuildStep, Take, Raises, NoSubnetLeft, NodeExists, SetUp,
           At, AllowAgent, StageAgent, CopyFails, GenerateKeys, CopyKey,
           RunNode, RunWorkstation, WriteScripts, WriteBat, ClearNoVNC,
           RunNoVNC, Names, AfterCopy, CopyFile, LookForNetwork, NameExists,
           Overlaps, CreateNetwork, PickPort, ListNoVNC
      <4>2. ~Registering(o)
        BY <1>0, <2>2, <2>4, <4>1 DEF Registering, OrgOf
      <4> QED
        BY <2>1, <2>3, <3>2, <4>2 DEF Registered, CopyCurrent
    <3> QED
      BY <3>1, <3>2
  <2>5. \A c \in Builds : At(c, "done")' =>
           At(c, "done") \/ (c = b /\ build[b].pc \in Controlled \ {"done"})
    BY <1>0, <2>2 DEF At, Allowed, Controlled, Networked, BuildEnds
  <2>6. ASSUME NEW v \in Boots PROVE ListKept(v)'
    <3>1. ListKept(v)
      BY DEF Registered
    <3>2. Writing(boot[v].org)' = Writing(boot[v].org)
      BY <1>0 DEF Writing
    <3>3. boot[v].pc = "write" =>
            \A c \in Builds :
               At(c, "done")' /\ OrgOf(c) = boot[v].org => At(c, "done")
      BY <1>1, <2>5
    <3> QED
      BY <1>0, <1>2, <2>1, <3>1, <3>2, <3>3 DEF ListKept
  <2>7. ASSUME NEW c \in Builds PROVE EntryKept(c)'
    <3>1. EntryKept(c)
      BY DEF Registered
    <3>2. OrgOf(c)' = OrgOf(c) /\ Writing(OrgOf(c))' = Writing(OrgOf(c))
      BY <1>0 DEF OrgOf, Writing
    <3>3. build'[c].pc \in Allowed => build[c].pc \in Allowed
      BY <1>0, <2>2
    <3> QED
      BY <2>1, <3>1, <3>2, <3>3 DEF EntryKept, OwnEntry
  <2> QED
    BY <2>4, <2>6, <2>7 DEF Registered, CopyCurrent
<1> QED
  BY <1>4, <1>5

\* The allowlist, when a boot takes a step.
LEMMA RegisteredByBoot ==
    ASSUME HostTyped, HostShared, OneBootRuns, Registered, Careful,
           NEW v \in Boots, BootStep(v)
    PROVE  Registered'
<1>0. /\ UNCHANGED <<deployment, build>>
      /\ \A w \in Boots \ {v} : boot'[w] = boot[w]
      /\ boot \in [Boots -> BootRecord]
      /\ allow \in [Orgs -> SUBSET Entry] /\ tdlist \in [Orgs -> SUBSET Entry]
      /\ boot[v].pc # "queued" => boot[v].org \in Orgs
  BY BootAlone DEF HostTyped, HostTypeOK
<1>1. /\ \A b \in Builds : ListKept(v) /\ EntryKept(b)
      /\ \A o \in Orgs : CopyCurrent(o)
      /\ \A w \in Boots : ListKept(w)
  BY DEF Registered
<1>2. \A b \in Builds : /\ OrgOf(b) \in Orgs /\ OrgOf(b)' = OrgOf(b)
                        /\ At(b, "done")' = At(b, "done")
  BY <1>0, HostAssumption DEF HostTyped, HostTypeOK, OrgOf, Deployment, At
<1>3. boot[v].pc # "queued" =>
        /\ \A w \in Boots \ {v} : ~Booting(w) \/ ~Booting(v)
        /\ \A b \in Builds : OrgOf(b) = boot[v].org =>
              build[b].pc \notin Controlled \ {"done"}
  BY NoBootYet DEF OneBootRuns
<1>4. ASSUME allow' = allow, tdlist' = tdlist,
             boot'[v].org = boot[v].org \/ boot[v].pc = "queued",
             \/ boot[v].pc = "queued" /\ boot'[v].pc = "copy"
             \/ boot[v].pc = "copy" /\ boot'[v].pc \in {"check", "failed"}
             \/ boot[v].pc = "check" /\ boot'[v].pc \in {"load", "failed"}
             \/ /\ boot[v].pc = "load" /\ boot'[v].pc = "truncate"
                /\ boot'[v].list = allow[boot[v].org]
             \/ boot[v].pc = "wait" /\ boot'[v].pc = "up"
      PROVE  Registered'
  <2>1. \A o \in Orgs \cup {NoOrg} : Writing(o)' = Writing(o)
    BY <1>0, <1>4 DEF Writing
  <2>2. \A o \in Orgs : Registering(o) => Registering(o)'
    BY <1>0, <1>2, <1>4 DEF Registering
  <2>3. \A b \in Builds : EntryKept(b)'
    BY <1>0, <1>1, <1>2, <1>4, <2>1 DEF EntryKept, OwnEntry
  <2>4. \A o \in Orgs : CopyCurrent(o)'
    BY <1>1, <1>4, <2>2 DEF CopyCurrent
  <2>5. ASSUME NEW w \in Boots PROVE ListKept(w)'
    <3>1. CASE w = v
      BY <1>0, <1>1, <1>4, <2>1, <3>1 DEF ListKept
    <3>2. CASE w # v
      <4>1. boot[w].org \in Orgs \cup {NoOrg} /\ boot'[w] = boot[w]
        BY <1>0, <3>2 DEF BootRecord
      <4> QED
        BY <1>0, <1>1, <1>2, <1>4, <2>1, <4>1 DEF ListKept, OwnEntry
    <3> QED
      BY <3>1, <3>2
  <2> QED
    BY <2>3, <2>4, <2>5 DEF Registered
<1>5. CASE TakeBoot(v)
  <2>1. /\ boot[v].pc = "queued"
        /\ boot'[v].pc = "copy"
        /\ UNCHANGED <<allow, tdlist>>
    BY <1>0, <1>5 DEF TakeBoot, BootRecord
  <2> QED
    BY <1>4, <2>1
<1>6. CASE CopyImage(v) \/ RunVM(v) \/ WaitForRDP(v)
  <2>1. PICK s \in BootSteps : BootTo(v, s)
    BY <1>6 DEF CopyImage, RunVM, WaitForRDP, BootSteps, BootEnds
  <2>2. boot'[v].pc = s /\ boot'[v].org = boot[v].org
    BY <1>0, <2>1, BootMoves
  <2>3. UNCHANGED <<allow, tdlist>>
    BY <1>6 DEF CopyImage, RunVM, WaitForRDP
  <2>4. \/ boot[v].pc = "copy" /\ boot'[v].pc \in {"check", "failed"}
        \/ boot[v].pc = "check" /\ boot'[v].pc \in {"load", "failed"}
        \/ boot[v].pc = "wait" /\ boot'[v].pc = "up"
    BY <1>0, <1>6 DEF CopyImage, RunVM, WaitForRDP, BootTo, BootRecord
  <2> QED
    BY <1>4, <2>2, <2>3, <2>4
<1>7. CASE LoadAgents(v)
  <2>1. /\ boot[v].pc = "load" /\ boot'[v].pc = "truncate"
        /\ boot'[v].list = allow[boot[v].org] /\ boot'[v].org = boot[v].org
        /\ UNCHANGED <<allow, tdlist>>
    BY <1>0, <1>7 DEF LoadAgents, BootRecord
  <2> QED
    BY <1>4, <2>1
<1> DEFINE o == boot[v].org
<1>8. ASSUME boot[v].pc \in {"truncate", "write", "sync"}
      PROVE  \A w \in Boots \ {v} :
                boot[w].pc \in {"queued", "up", "failed"} \/ boot[w].org # o
  BY <1>0, <1>3, <1>8 DEF Booting, BootEnds
<1>9. CASE TruncateAgents(v)
  <2>1. /\ boot[v].pc = "truncate" /\ boot'[v].pc = "write" /\ boot'[v].org = o
        /\ boot'[v].list = boot[v].list /\ tdlist' = tdlist
        /\ allow' = [allow EXCEPT ![o] = {}] /\ o \in Orgs
    <3>1. "write" \in BootSteps
      BY DEF BootSteps
    <3> QED
      BY <1>0, <1>9, <3>1, BootMoves DEF TruncateAgents
  <2>2. Writing(o)' /\ ~Writing(o) /\ Registering(o)'
    BY <1>0, <1>8, <2>1 DEF Writing, Registering
  <2>3. \A p \in Orgs \ {o} : /\ allow'[p] = allow[p] /\ Writing(p)' = Writing(p)
                              /\ Registering(p)' = Registering(p)
    BY <1>0, <1>2, <2>1 DEF Writing, Registering
  <2>4. ASSUME NEW b \in Builds PROVE EntryKept(b)'
    <3>1. /\ OrgOf(b) \in Orgs
          /\ OrgOf(b)' = OrgOf(b)
          /\ EntryKept(b)
          /\ build'[b] = build[b]
      BY <1>0, <1>1, <1>2
    <3>2. CASE OrgOf(b) = o
      BY <2>1, <2>2, <3>1, <3>2 DEF EntryKept, Writing
    <3>3. CASE OrgOf(b) # o
      BY <2>3, <3>1, <3>3 DEF EntryKept, OwnEntry
    <3> QED
      BY <3>2, <3>3
  <2>5. \A p \in Orgs : CopyCurrent(p)'
    BY <1>1, <2>1, <2>2, <2>3 DEF CopyCurrent
  <2>6. ListKept(v)'
    <3>1. \A b \in Builds :
             At(b, "done") /\ OrgOf(b) = o => OwnEntry(b) \in boot[v].list
      BY <1>1, <2>1, <2>2 DEF ListKept, EntryKept, At, Allowed
    <3> QED
      BY <1>2, <2>1, <3>1 DEF ListKept, OwnEntry
  <2>7. ASSUME NEW w \in Boots \ {v} PROVE ListKept(w)'
    <3>1. CASE boot[w].org = o
      BY <1>0, <1>8, <2>1, <2>2, <3>1 DEF ListKept
    <3>2. CASE boot[w].org # o /\ boot[w].pc # "queued"
      <4>1. boot[w].org \in Orgs \ {o}
        BY <3>2 DEF HostTyped
      <4> QED
        BY <1>0, <1>1, <1>2, <2>3, <4>1 DEF ListKept, OwnEntry
    <3>3. CASE boot[w].pc = "queued"
      BY <1>0, <3>3 DEF ListKept
    <3> QED
      BY <3>1, <3>2, <3>3
  <2> QED
    BY <2>4, <2>5, <2>6, <2>7 DEF Registered
<1>10. CASE WriteAgents(v)
  <2>1. /\ boot[v].pc = "write" /\ boot'[v].pc = "sync" /\ boot'[v].org = o
        /\ tdlist' = tdlist /\ o \in Orgs
        /\ allow' = [allow EXCEPT ![o] = Upserted(boot[v].list, v)]
    <3>1. "sync" \in BootSteps
      BY DEF BootSteps
    <3> QED
      BY <1>0, <1>10, <3>1, BootMoves DEF WriteAgents
  <2>2. Registering(o)' /\ allow'[o] = Upserted(boot[v].list, v)
    BY <1>0, <2>1 DEF Registering
  <2>3. \A p \in Orgs \ {o} : /\ allow'[p] = allow[p] /\ Writing(p)' = Writing(p)
                              /\ Registering(p)' = Registering(p)
    BY <1>0, <1>2, <2>1 DEF Writing, Registering
  <2>4. [id |-> "*", ip |-> v] \in allow'[o]
    BY <2>2 DEF Upserted
  <2>5. ASSUME NEW b \in Builds PROVE EntryKept(b)'
    <3>1. CASE OrgOf(b) = o /\ build[b].pc \in Allowed
      <4>1. At(b, "done")
        BY <1>3, <2>1, <3>1 DEF Allowed, Controlled, Networked, At
      <4>2. OwnEntry(b) \in boot[v].list
        BY <1>1, <2>1, <3>1, <4>1 DEF ListKept
      <4>3. OwnEntry(b).id # "*" /\ OwnEntry(b).ip # v
        <5>1. OwnEntry(b).id = "own" /\ OwnEntry(b).ip = b /\ "own" # "*"
          BY DEF OwnEntry
        <5> QED
          BY <5>1, HostAssumption
      <4>4. OwnEntry(b) \in allow'[o]
        BY <2>2, <4>2, <4>3 DEF Upserted
      <4> QED
        BY <1>2, <3>1, <4>4 DEF EntryKept, OwnEntry
    <3>2. CASE OrgOf(b) # o \/ build[b].pc \notin Allowed
      BY <1>0, <1>1, <1>2, <2>3, <3>2 DEF EntryKept, OwnEntry
    <3> QED
      BY <3>1, <3>2
  <2>6. \A p \in Orgs : CopyCurrent(p)'
    BY <1>1, <2>1, <2>2, <2>3 DEF CopyCurrent
  <2>7. ASSUME NEW w \in Boots PROVE ListKept(w)'
    <3>1. CASE boot'[w].org = o
      <4>1. boot'[w].pc \notin {"truncate", "write"}
        BY <1>0, <1>8, <2>1, <3>1
      <4> QED
        BY <2>4, <3>1, <4>1 DEF ListKept
    <3>2. CASE boot'[w].org # o /\ boot[w].pc # "queued"
      <4>1. boot[w].org \in Orgs \ {o} /\ boot'[w] = boot[w]
        BY <1>0, <2>1, <3>2 DEF HostTyped
      <4> QED
        BY <1>0, <1>1, <1>2, <2>3, <4>1 DEF ListKept, OwnEntry
    <3>3. CASE boot[w].pc = "queued"
      BY <1>0, <2>1, <3>3 DEF ListKept
    <3> QED
      BY <3>1, <3>2, <3>3
  <2> QED
    BY <2>5, <2>6, <2>7 DEF Registered
<1>11. CASE SyncBoot(v)
  <2>1. /\ boot[v].pc = "sync" /\ boot'[v].pc = "wait" /\ boot'[v].org = o
        /\ allow' = allow /\ o \in Orgs
        /\ tdlist' = [tdlist EXCEPT ![o] = allow[o]]
    <3>1. "wait" \in BootSteps
      BY DEF BootSteps
    <3> QED
      BY <1>0, <1>11, <3>1, BootMoves DEF SyncBoot, SyncAgents, Careful
  <2>2. \A p \in Orgs \cup {NoOrg} : Writing(p)' = Writing(p)
    BY <1>0, <2>1 DEF Writing
  <2>3. \A p \in Orgs \ {o} : Registering(p)' = Registering(p)
    BY <1>0, <1>2, <2>1 DEF Registering
  <2>4. \A b \in Builds : EntryKept(b)'
    BY <1>0, <1>1, <1>2, <2>1, <2>2 DEF EntryKept, OwnEntry
  <2>5. \A p \in Orgs : CopyCurrent(p)'
    BY <1>0, <1>1, <2>1, <2>3 DEF CopyCurrent
  <2>6. ASSUME NEW w \in Boots PROVE ListKept(w)'
    <3>1. boot[w].org \in Orgs \cup {NoOrg} /\ boot'[w].org = boot[w].org
      BY <1>0, <2>1 DEF BootRecord
    <3> QED
      BY <1>0, <1>1, <1>2, <2>1, <2>2, <3>1 DEF ListKept, OwnEntry
  <2> QED
    BY <2>4, <2>5, <2>6 DEF Registered
<1> QED
  BY <1>5, <1>6, <1>7, <1>9, <1>10, <1>11 DEF BootStep

-----------------------------------------------------------------------------
\* The invariant holds on a new host ...
LEMMA InitHost == HostInit => HostInv
<1> SUFFICES ASSUME HostInit PROVE HostInv
  OBVIOUS
<1>1. HostTyped
  BY InitHostTyped
<1>2. SubnetsDistinct /\ OctetsTaken /\ NoVNCRunning /\ OneBuildRuns
  BY DEF HostInit, SubnetsDistinct, OctetsTaken, NoVNCRunning, OneBuildRuns,
     At, Active
<1>3. HostShared
  BY DEF HostInit, HostShared, Holds, Nodes, Names, At, Networked, Controlled,
     Portless
<1>4. HostFiled
  BY DEF HostInit, HostFiled, Filed, At
<1>5. OneBootRuns /\ Registered
  BY DEF HostInit, OneBootRuns, Registered, ListKept, EntryKept, CopyCurrent,
     Booting, Allowed
<1> QED
  BY <1>1, <1>2, <1>3, <1>4, <1>5 DEF HostInv

\* ... and every step of a build or a boot keeps it.
LEMMA NextHost == HostInv /\ [HostNext]_hostVars => HostInv'
<1> SUFFICES ASSUME HostInv, [HostNext]_hostVars PROVE HostInv'
  OBVIOUS
<1>1. ASSUME NEW b \in Builds, BuildStep(b) PROVE HostInv'
  <2>1. HostTyped /\ HostTyped'
    BY <1>1, BuildTyped DEF HostInv
  <2>2. SubnetsDistinct' /\ OctetsTaken' /\ NoVNCRunning' /\ OneBuildRuns'
    BY <1>1, <2>1, SubnetsKept, NoVNCKept, OneBuildKept DEF HostInv
  <2>3. deployment' = deployment
    BY <1>1, <2>1, BuildAlone
  <2>4. OneAtATime' = OneAtATime
    BY <2>3 DEF OneAtATime, OrgOf
  <2>5. OneAtATime => HostShared'
    BY <1>1, <2>1, SharedKept DEF HostInv
  <2>6. deployment.workers = 1 => HostFiled'
    BY <1>1, <2>1, FiledKept DEF HostInv
  <2>7. Careful => OneBootRuns' /\ Registered'
    <3> SUFFICES ASSUME Careful PROVE OneBootRuns' /\ Registered'
      OBVIOUS
    <3>1. deployment.booting = 1 /\ OneAtATime
      BY DEF Careful, OneAtATime
    <3>2. HostShared /\ OneBootRuns /\ Registered
      BY <3>1 DEF HostInv
    <3> QED
      BY <1>1, <2>1, <3>1, <3>2, OneBootKept, RegisteredByBuild
  <2> QED
    BY <2>1, <2>2, <2>3, <2>4, <2>5, <2>6, <2>7 DEF HostInv, Careful
<1>2. ASSUME NEW v \in Boots, BootStep(v) PROVE HostInv'
  <2>1. HostTyped /\ HostTyped'
    BY <1>2, BootTyped DEF HostInv
  <2>2. UNCHANGED <<deployment, build, net, node, keyfile, authorized, published,
                    scripts, oem, novnc>>
    BY <1>2, <2>1, BootAlone
  <2>3. SubnetsDistinct' /\ OctetsTaken' /\ NoVNCRunning' /\ OneBuildRuns'
    BY <2>2 DEF HostInv, SubnetsDistinct, OctetsTaken, NoVNCRunning,
       OneBuildRuns, InUse, At, Active
  <2>4. (OneAtATime => HostShared)'
    BY <2>2 DEF HostInv, OneAtATime, HostShared, Holds, Nodes, OrgOf, At
  <2>5. (deployment.workers = 1 => HostFiled)'
    BY <2>2 DEF HostInv, HostFiled, Filed, At
  <2>6. (Careful => OneBootRuns /\ Registered)'
    <3> SUFFICES ASSUME Careful PROVE OneBootRuns' /\ Registered'
      BY <2>2 DEF Careful
    <3>1. deployment.booting = 1 /\ OneAtATime
      BY DEF Careful, OneAtATime
    <3>2. HostShared /\ OneBootRuns /\ Registered
      BY <3>1 DEF HostInv
    <3> QED
      BY <1>2, <2>1, <3>1, <3>2, OneBootKept, RegisteredByBoot
  <2> QED
    BY <2>1, <2>3, <2>4, <2>5, <2>6 DEF HostInv
<1>3. CASE UNCHANGED hostVars
  <2>1. HostTyped'
    BY <1>3 DEF HostInv, HostTyped, HostTypeOK
  <2>2. SubnetsDistinct' /\ OctetsTaken' /\ NoVNCRunning' /\ OneBuildRuns'
    BY <1>3 DEF HostInv, SubnetsDistinct, OctetsTaken, NoVNCRunning,
       OneBuildRuns, InUse, At, Active
  <2>3. (OneAtATime => HostShared)'
    BY <1>3 DEF HostInv, OneAtATime, HostShared, Holds, Nodes, OrgOf, At
  <2>4. (deployment.workers = 1 => HostFiled)'
    BY <1>3 DEF HostInv, HostFiled, Filed, At
  <2>5. (Careful => OneBootRuns /\ Registered)'
    BY <1>3 DEF HostInv, Careful, OneBootRuns, Registered, ListKept, EntryKept,
       CopyCurrent, Booting, Writing, Registering, OwnEntry, OrgOf, At
  <2> QED
    BY <2>1, <2>2, <2>3, <2>4, <2>5 DEF HostInv
<1> QED
  BY <1>1, <1>2, <1>3 DEF HostNext

\* What the invariant says of the host, the scripts and the allowlist.
LEMMA HostInvImplies ==
    ASSUME HostInv
    PROVE  /\ HostTypeOK /\ HostIsShared
           /\ InstalledFromOwnScripts /\ AllowlistIsKept
<1>1. HostTyped /\ HostTypeOK
  BY DEF HostInv, HostTyped
<1>2. OneAtATime => NodesFit
  <2> SUFFICES ASSUME OneAtATime PROVE NodesFit
    OBVIOUS
  <2>1. HostShared
    BY DEF HostInv
  <2>2. ASSUME NEW o \in Orgs, node[o]["vpn"] # NoBuild
        PROVE  /\ build[node[o]["vpn"]].octet = net[o]
               /\ node[o]["samba"] = node[o]["vpn"]
    BY <2>1, <2>2 DEF HostShared, Nodes, Names
  <2>3. ASSUME NEW o \in Orgs,
               NEW m \in {"samba", "vpn"}, NEW n \in {"samba", "vpn"},
               NoBuild \notin {authorized[o][m], authorized[o][n]}
        PROVE  authorized[o][m] = authorized[o][n]
    BY <2>1, <2>3 DEF HostShared, Nodes
  <2>4. \A b \in Builds : ~At(b, "port_taken")
    BY <2>1 DEF HostShared, Holds
  <2> QED
    BY <2>2, <2>3, <2>4 DEF NodesFit
<1>3. SubnetsAreFound
  <2>1. InUse \subseteq Octets
    BY <1>1 DEF HostTypeOK, InUse
  <2> QED
    BY <2>1 DEF HostInv, OctetsTaken, SubnetsAreFound
<1>4. NoVNCShowsOne
  BY DEF HostInv, NoVNCRunning, NoVNCShowsOne, Active, At, BuildEnds
<1>5. InstalledFromOwnScripts
  BY DEF HostInv, HostFiled, Filed, InstalledFromOwnScripts
<1>6. AllowlistIsKept
  <2> SUFFICES ASSUME deployment.workers = 1, deployment.booting = 1,
                      deployment.faults \cap {"copy"} = {},
                      NEW o \in Orgs, ~Registering(o)
               PROVE  /\ tdlist[o] = allow[o]
                      /\ \A b \in Builds :
                            At(b, "done") /\ OrgOf(b) = o => Admits(o, b)
                      /\ (\E v \in Boots :
                             boot[v].org = o /\ boot[v].pc \in {"wait", "up"})
                            => \E v \in Boots :
                                  [id |-> "*", ip |-> v] \in tdlist[o]
    BY DEF AllowlistIsKept
  <2>1. Registered /\ HostFiled /\ "copy" \notin deployment.faults
    BY DEF HostInv, Careful
  <2>2. tdlist[o] = allow[o] /\ ~Writing(o)
    BY <2>1 DEF Registered, CopyCurrent, Registering, Writing
  <2>3. ASSUME NEW b \in Builds, At(b, "done"), OrgOf(b) = o PROVE Admits(o, b)
    <3>1. OwnEntry(b) \in tdlist[o] /\ oem[b].scripts = b
      BY <2>1, <2>2, <2>3 DEF Registered, EntryKept, Allowed, HostFiled, Filed,
         At
    <3>2. OwnEntry(b).ip = b
      BY DEF OwnEntry
    <3> QED
      BY <3>1, <3>2 DEF Admits
  <2>4. ASSUME NEW v \in Boots, boot[v].org = o, boot[v].pc \in {"wait", "up"}
        PROVE  \E w \in Boots : [id |-> "*", ip |-> w] \in tdlist[o]
    BY <2>1, <2>2, <2>4 DEF Registered, ListKept
  <2> QED
    BY <2>2, <2>3, <2>4
<1> QED
  BY <1>1, <1>2, <1>3, <1>4, <1>5, <1>6 DEF HostIsShared

\* Every variable keeps its type: no build uses an octet, a port or an entry that
\* does not exist.
THEOREM HostTypeCorrect == HostSpec => []HostTypeOK
BY InitHost, NextHost, HostInvImplies, PTL DEF HostSpec

\* When builds of one organisation take turns, however they overlap with those of
\* others, its VPN routes its own network, its nodes come from one build and accept
\* one key, and no port is lost to another build; and in any deployment no build
\* gives up while a subnet is free, and noVNC shows one of the workstations when
\* all builds are through.
THEOREM HostStaysShared == HostSpec => []HostIsShared
BY InitHost, NextHost, HostInvImplies, PTL DEF HostSpec

\* With one worker, a workstation is installed from the scripts of its own build,
\* and not before they are there.
THEOREM OwnScriptsInstalled == HostSpec => []InstalledFromOwnScripts
BY InitHost, NextHost, HostInvImplies, PTL DEF HostSpec

\* With one worker on each queue and no failed copy, the threat-detection server
\* admits the workstation of every build that is done, and a VM once one is up.
THEOREM AllowlistKept == HostSpec => []AllowlistIsKept
BY InitHost, NextHost, HostInvImplies, PTL DEF HostSpec
=============================================================================
