------------------------- MODULE ProvisioningProofs --------------------------
(***************************************************************************)
(* Proofs about Provisioning, for any number of handlers and workers, in   *)
(* both modes and under every choice of faults the theorems name.          *)
(***************************************************************************)
EXTENDS Provisioning, TLAPS

-----------------------------------------------------------------------------
(***************************************************************************)
(* Types                                                                   *)
(***************************************************************************)

\* A thread that serves a request knows its kind, and only a request to
\* provision the network is checked and marked.
ThreadKinds ==
    \A h \in Handlers :
        /\ thread[h].pc # "idle" => thread[h].kind \in JobKinds
        /\ thread[h].pc \in {"check", "mark"} => thread[h].kind = "network"

Typed == TypeOK /\ ThreadKinds

\* A step of a job leaves well-typed records in worker.
LEMMA GotoTyped ==
    ASSUME TypeOK, NEW w \in Workers, NEW pc \in WorkerSteps
    PROVE  /\ Goto(w, pc) => worker' \in [Workers -> TaskRecord(WorkerSteps)]
           /\ Ends(w) => worker' \in [Workers -> TaskRecord(WorkerSteps)]
<1> DEFINE Tasks == TaskRecord(WorkerSteps)
<1>1. worker \in [Workers -> Tasks]
  BY DEF TypeOK
<1>2. [worker[w] EXCEPT !.pc = pc] \in Tasks
  BY <1>1 DEF TaskRecord
<1>3. IdleWorker \in Tasks
  BY DEF IdleWorker, TaskRecord, WorkerSteps
<1> HIDE DEF Tasks
<1>4. Goto(w, pc) => worker' = [worker EXCEPT ![w] = [worker[w] EXCEPT !.pc = pc]]
  BY <1>1 DEF Goto
<1>5. \A r \in Tasks : [worker EXCEPT ![w] = r] \in [Workers -> Tasks]
  BY <1>1
<1>6. Goto(w, pc) => worker' \in [Workers -> Tasks]
  BY <1>2, <1>4, <1>5
<1>7. Ends(w) => worker' \in [Workers -> Tasks]
  BY <1>3, <1>5 DEF Ends
<1> QED
  BY <1>6, <1>7 DEF Tasks

\* Where the workers are after a step of w's job.
LEMMA NextPc ==
    ASSUME worker \in [Workers -> TaskRecord(WorkerSteps)], NEW w \in Workers
    PROVE  /\ \A pc : Goto(w, pc) =>
                 \A v \in Workers : worker'[v].pc = IF v = w THEN pc ELSE worker[v].pc
           /\ Ends(w) =>
                 \A v \in Workers : worker'[v].pc = IF v = w THEN "idle" ELSE worker[v].pc
<1>1. ASSUME NEW pc, Goto(w, pc), NEW v \in Workers
      PROVE  worker'[v].pc = IF v = w THEN pc ELSE worker[v].pc
  BY <1>1 DEF Goto, TaskRecord
<1>2. ASSUME Ends(w), NEW v \in Workers
      PROVE  worker'[v].pc = IF v = w THEN "idle" ELSE worker[v].pc
  BY <1>2 DEF Ends, IdleWorker
<1> QED
  BY <1>1, <1>2

\* The steps of signup and the billing webhook keep the types.
LEMMA SignupTyped ==
    ASSUME Typed,
           Signup \/ SignupFails \/ SignupLost \/ LimitChanges
    PROVE  Typed'
<1> USE DEF Typed, ThreadKinds
<1>1. CASE SignupOrg
  BY <1>1 DEF TypeOK, SignupOrg, OrgRecord, jobVars, docVars, countVars, workCounts
<1>2. CASE SignupUser
  BY <1>2 DEF TypeOK, SignupUser, jobVars, docVars, countVars, workCounts
<1>3. CASE SignupEnqueue
  BY <1>3 DEF TypeOK, SignupEnqueue, Job, JobKinds, jobVars, docVars, countVars, workCounts
<1>4. CASE SignupStatus \/ SignupFails
  BY <1>4 DEF TypeOK, SignupStatus, SignupFails, OrgRecord, Finals,
              jobVars, docVars, countVars, workCounts
<1>5. CASE SignupLost
  BY <1>5 DEF TypeOK, SignupLost, jobVars, docVars, countVars, workCounts
<1>6. CASE LimitChanges
  BY <1>6 DEF TypeOK, LimitChanges, OrgRecord, jobVars, docVars, countVars, workCounts
<1> QED
  BY <1>1, <1>2, <1>3, <1>4, <1>5, <1>6 DEF Signup

\* Counting one up keeps a counter per handler a natural number.
LEMMA CountUp ==
    ASSUME NEW f \in [Handlers -> Nat], NEW h \in Handlers
    PROVE  [f EXCEPT ![h] = @ + 1] \in [Handlers -> Nat]
OBVIOUS

\* A thread that moves on to another step keeps a well-typed record.
LEMMA MoveTyped ==
    ASSUME thread \in [Handlers -> TaskRecord(ThreadSteps)],
           NEW h \in Handlers, NEW pc \in ThreadSteps
    PROVE  [thread EXCEPT ![h].pc = pc] \in [Handlers -> TaskRecord(ThreadSteps)]
<1> DEFINE Tasks == TaskRecord(ThreadSteps)
<1>1. [thread[h] EXCEPT !.pc = pc] \in Tasks
  BY DEF TaskRecord
<1>2. thread \in [Handlers -> Tasks]
  OBVIOUS
<1> HIDE DEF Tasks
<1>3. [thread EXCEPT ![h] = [thread[h] EXCEPT !.pc = pc]] \in [Handlers -> Tasks]
  BY <1>1, <1>2
<1> QED
  BY <1>3 DEF Tasks

\* The request threads keep the types.
LEMMA RequestTyped ==
    ASSUME Typed, NEW h \in Handlers,
           \/ PostProvision(h) \/ PostWorkstations(h) \/ PostDestroy(h)
           \/ Serve(h) \/ RequestLost(h)
    PROVE  Typed'
<1> USE DEF Typed, ThreadKinds, TypeOK, TaskRecord, ThreadSteps, JobKinds, jobVars, docVars, countVars, workCounts
<1>1. ASSUME NEW pc \in {"check", "seed", "dispatch"}, NEW k \in JobKinds,
             NEW n \in Nat, Posted(h, pc, k, n),
             pc = "check" => k = "network"
      PROVE  /\ thread' \in [Handlers -> TaskRecord(ThreadSteps)]
             /\ ThreadKinds'
             /\ posts' \in 0 .. MaxPosts
  BY <1>1, BoundAssumption DEF Posted
<1>2. CASE PostProvision(h)
  <2>1. org.limit \in Nat /\ \A n \in Counts : SmallerOf(n, org.limit) \in Nat
    BY CountsAssumption DEF OrgRecord, SmallerOf
  <2> QED
    BY <1>1, <1>2, <2>1 DEF PostProvision
<1>3. CASE PostWorkstations(h)
  <2>1. Counts \subseteq Nat
    BY CountsAssumption
  <2> QED
    BY <1>1, <1>3, <2>1 DEF PostWorkstations
<1>4. CASE PostDestroy(h)
  BY <1>1, <1>4 DEF PostDestroy
<1>5. CASE CheckProvisioned(h)
  <2>0. accepted \in [Handlers -> Nat]
        /\ (accepted' = accepted \/ accepted' = [accepted EXCEPT ![h] = @ + 1])
    BY <1>5 DEF CheckProvisioned
  <2>1. accepted' \in [Handlers -> Nat]
    <3> HIDE DEF Typed
    <3>1. accepted \in [Handlers -> Nat]
      BY <2>0
    <3>2. [accepted EXCEPT ![h] = @ + 1] \in [Handlers -> Nat]
      BY <3>1, CountUp
    <3> QED
      BY <2>0, <3>2
  <2>2. \/ thread' = [thread EXCEPT ![h] = IdleThread]
        \/ thread' = [thread EXCEPT ![h].pc = "seed"] /\ thread[h].pc = "check"
    BY <1>5 DEF CheckProvisioned
  <2>3. thread' \in [Handlers -> TaskRecord(ThreadSteps)] /\ ThreadKinds'
    <3>1. CASE thread' = [thread EXCEPT ![h] = IdleThread]
      BY <3>1 DEF IdleThread
    <3>2. CASE thread' = [thread EXCEPT ![h].pc = "seed"] /\ thread[h].pc = "check"
      <4>1. thread' \in [Handlers -> TaskRecord(ThreadSteps)]
        <5> HIDE DEF Typed
        <5>1. thread \in [Handlers -> TaskRecord(ThreadSteps)] /\ "seed" \in ThreadSteps
          BY DEF Typed
        <5> HIDE DEF TaskRecord, ThreadSteps
        <5> QED
          BY <3>2, <5>1, MoveTyped
      <4>2. ThreadKinds'
        BY <3>2
      <4> QED
        BY <4>1, <4>2
    <3> QED
      BY <2>2, <3>1, <3>2
  <2>4. UNCHANGED <<mode, org, signup, admin, docVars, queue, worker, infra, itam,
                    workCounts, unmarked, posts>>
    BY <1>5 DEF CheckProvisioned
  <2> QED
    BY <2>1, <2>3, <2>4
<1>6. CASE SeedWorkstations(h)
  BY <1>6 DEF SeedWorkstations
<1>7. CASE MarkProvisioning(h)
  <2>1. /\ thread[h].pc = "mark"
        /\ thread' = [thread EXCEPT ![h].pc = "dispatch"]
        /\ org' = [org EXCEPT !.status = "provisioning"]
    BY <1>7 DEF MarkProvisioning
  <2>2. thread' \in [Handlers -> TaskRecord(ThreadSteps)]
    <3> HIDE DEF Typed
    <3>1. thread \in [Handlers -> TaskRecord(ThreadSteps)] /\ "dispatch" \in ThreadSteps
      BY DEF Typed
    <3> HIDE DEF TaskRecord, ThreadSteps
    <3> QED
      BY <2>1, <3>1, MoveTyped
  <2>3. ThreadKinds'
    BY <2>1
  <2>4. org' \in OrgRecord
    <3> HIDE DEF Typed
    <3>1. org \in OrgRecord
      BY DEF Typed
    <3> QED
      BY <2>1, <3>1 DEF OrgRecord
  <2>5. UNCHANGED <<mode, signup, admin, docVars, queue, worker, infra, itam,
                    emails, uncleared, unflagged, accepted, unmarked, posts>>
    BY <1>7 DEF MarkProvisioning
  <2> QED
    BY <2>2, <2>3, <2>4, <2>5
<1>8. CASE Dispatch(h)
  <2>1. thread[h].kind \in JobKinds
    BY <1>8 DEF Dispatch
  <2> QED
    BY <1>8, <2>1 DEF Dispatch, Job, IdleThread
<1>9. CASE RequestLost(h)
  BY <1>9 DEF RequestLost, IdleThread
<1> QED
  BY <1>2, <1>3, <1>4, <1>5, <1>6, <1>7, <1>8, <1>9 DEF Serve

\* The steps of a job keep the types.
LEMMA JobTyped ==
    ASSUME Typed, NEW w \in Workers, Run(w) \/ Raises(w) \/ Crashes(w)
    PROVE  Typed'
<1> DEFINE WorkerTyped == worker' \in [Workers -> TaskRecord(WorkerSteps)]
<1> USE DEF frontVars, docVars, workCounts
<1>0. ThreadKinds' /\ thread' = thread
  BY DEF Typed, ThreadKinds, Run, Network, Take, BeginNetwork, MarkInProgress,
         RunDomainController, RunOthers, ApplyTerraform, LinkContainer,
         ClearInventory, InsertInventory, MarkCompleted, WelcomeReady,
         EnqueueWelcome, FlagWelcomed, MarkFailed, BeginWorkstations, SetOnline,
         BeginDestroy, RemoveInfrastructure, DeleteInventory, MarkDestroyed,
         Raises, Crashes
<1>g. \A pc \in WorkerSteps : Goto(w, pc) => WorkerTyped
  BY GotoTyped DEF Typed
<1>e. Ends(w) => WorkerTyped
  BY GotoTyped DEF Typed, WorkerSteps
<1>f. Failed(w) => WorkerTyped
  BY <1>g, <1>e DEF Failed, WorkerSteps
<1>s. ASSUME NEW s \in {"in_progress"} \cup Finals, WriteStatus(s)
      PROVE  org' \in OrgRecord
  BY <1>s DEF Typed, TypeOK, WriteStatus, OrgRecord, Finals
<1> HIDE DEF WorkerTyped
<1>1. CASE Take(w)
  <2> DEFINE Jobs == [kind : JobKinds, count : Nat]
  <2>0. queue \in Seq(Jobs) /\ queue # <<>>
    BY <1>1 DEF Take, Typed, TypeOK
  <2>1. Head(queue) \in Jobs /\ Tail(queue) \in Seq(Jobs)
    <3> HIDE DEF Jobs
    <3> QED
      BY <2>0
  <2>2. WorkerTyped
    BY <1>1, <2>1 DEF WorkerTyped, Take, Typed, TypeOK, TaskRecord, WorkerSteps
  <2> QED
    BY <1>0, <1>1, <2>1, <2>2 DEF Take, Typed, TypeOK, WorkerTyped
<1>2. CASE BeginNetwork(w) \/ WelcomeReady(w) \/ BeginWorkstations(w)
           \/ BeginDestroy(w)
  BY <1>0, <1>2, <1>g, <1>e DEF BeginNetwork, WelcomeReady, BeginWorkstations,
     BeginDestroy, Typed, TypeOK, WorkerTyped, WorkerSteps
<1>3. CASE MarkInProgress(w) \/ MarkCompleted(w) \/ MarkFailed(w) \/ MarkDestroyed(w)
  <2>1. org' \in OrgRecord
    BY <1>3, <1>s DEF MarkInProgress, MarkCompleted, MarkFailed, MarkDestroyed, Finals
  <2>2. WorkerTyped
    BY <1>3, <1>g, <1>e DEF MarkInProgress, MarkCompleted, MarkFailed,
       MarkDestroyed, WorkerSteps
  <2> QED
    BY <1>0, <1>3, <2>1, <2>2 DEF MarkInProgress, MarkCompleted, MarkFailed,
       MarkDestroyed, Typed, TypeOK, WorkerTyped
<1>4. CASE RunDomainController(w) \/ RunOthers(w) \/ ApplyTerraform(w)
           \/ RemoveInfrastructure(w)
  <2>1. infra' \in SUBSET Containers
    BY <1>4 DEF RunDomainController, RunOthers, ApplyTerraform,
       RemoveInfrastructure, Typed, TypeOK, Containers
  <2>2. WorkerTyped
    BY <1>4, <1>g, <1>e, <1>f DEF RunDomainController, RunOthers, ApplyTerraform,
       RemoveInfrastructure, WorkerSteps
  <2> QED
    BY <1>0, <1>4, <2>1, <2>2 DEF RunDomainController, RunOthers, ApplyTerraform,
       RemoveInfrastructure, Typed, TypeOK, WorkerTyped
<1>5. CASE LinkContainer(w) \/ SetOnline(w)
  <2>1. WorkerTyped
    BY <1>5, <1>g, <1>e DEF LinkContainer, SetOnline, WorkerSteps
  <2>2. stubs' \in Nat /\ linked' \in Nat /\ online' \in Nat
    <3>1. stubs \in Nat /\ linked \in Nat /\ online \in Nat
      BY DEF Typed, TypeOK
    <3> QED
      BY <1>5, <3>1 DEF LinkContainer, SetOnline
  <2>3. UNCHANGED <<mode, org, signup, admin, queue, thread, infra, itam, emails,
                    uncleared, unflagged, accepted, unmarked, posts>>
    BY <1>5 DEF LinkContainer, SetOnline
  <2> QED
    BY <1>0, <2>1, <2>2, <2>3 DEF Typed, TypeOK, WorkerTyped
<1>6. CASE ClearInventory(w) \/ InsertInventory(w) \/ DeleteInventory(w)
  <2>1. WorkerTyped
    BY <1>6, <1>g DEF ClearInventory, InsertInventory, DeleteInventory, WorkerSteps
  <2>2. itam' \in [Workers -> Nat]
    <3>1. itam \in [Workers -> Nat]
      BY DEF Typed, TypeOK
    <3>2. CASE ClearInventory(w) \/ InsertInventory(w)
      BY <3>1, <3>2 DEF ClearInventory, InsertInventory
    <3>3. CASE DeleteInventory(w)
      BY <3>1, <3>3 DEF DeleteInventory
    <3> QED
      BY <1>6, <3>2, <3>3
  <2>3. uncleared' \in [Workers -> Nat]
    <3>1. uncleared \in [Workers -> Nat]
      BY DEF Typed, TypeOK
    <3> QED
      BY <1>6, <3>1 DEF ClearInventory, InsertInventory, DeleteInventory
  <2> QED
    BY <1>0, <1>6, <2>1, <2>2, <2>3 DEF ClearInventory, InsertInventory,
       DeleteInventory, Typed, TypeOK, WorkerTyped
<1>7. CASE EnqueueWelcome(w) \/ FlagWelcomed(w)
  <2>1. WorkerTyped
    BY <1>7, <1>g, <1>e DEF EnqueueWelcome, FlagWelcomed, WorkerSteps
  <2>2. org' \in OrgRecord /\ emails' \in [Workers -> Nat]
    <3>1. org \in OrgRecord /\ emails \in [Workers -> Nat]
      BY DEF Typed, TypeOK
    <3>2. CASE EnqueueWelcome(w)
      BY <3>1, <3>2 DEF EnqueueWelcome
    <3>3. CASE FlagWelcomed(w)
      BY <3>1, <3>3 DEF FlagWelcomed, OrgRecord
    <3> QED
      BY <1>7, <3>2, <3>3
  <2> QED
    BY <1>0, <1>7, <2>1, <2>2 DEF EnqueueWelcome, FlagWelcomed, Typed, TypeOK,
       WorkerTyped
<1>8. CASE Raises(w) \/ Crashes(w)
  <2>1. WorkerTyped
    BY <1>8, <1>g, <1>e, <1>f DEF Raises, Crashes, WorkerSteps
  <2>2. unflagged \in [Workers -> Nat]
    BY DEF Typed, TypeOK
  <2>3. LosesFlag(w)
    BY <1>8 DEF Raises, Crashes
  <2>4. unflagged' \in [Workers -> Nat]
    BY <2>2, <2>3 DEF LosesFlag
  <2> QED
    BY <1>0, <1>8, <2>1, <2>4 DEF Raises, Crashes, Typed, TypeOK, WorkerTyped
<1> QED
  BY <1>1, <1>2, <1>3, <1>4, <1>5, <1>6, <1>7, <1>8 DEF Run, Network

\* TypeOK holds initially.
LEMMA InitTyped == Init => Typed
<1> SUFFICES ASSUME Init PROVE Typed
  OBVIOUS
<1>1. org \in OrgRecord
  BY DEF Init, OrgRecord
<1>2. thread \in [Handlers -> TaskRecord(ThreadSteps)] /\ ThreadKinds
  BY DEF Init, ThreadKinds, TaskRecord, ThreadSteps, IdleThread
<1>3. worker \in [Workers -> TaskRecord(WorkerSteps)]
  BY DEF Init, TaskRecord, WorkerSteps, IdleWorker
<1>4. mode \in Modes /\ queue = <<>> /\ infra = {} /\ posts = 0 /\ signup = "start" /\ admin = FALSE
      /\ stubs = 0 /\ linked = 0 /\ online = 0
  BY DEF Init
<1>5. /\ itam = [w \in Workers |-> 0]
      /\ emails = [w \in Workers |-> 0]
      /\ uncleared = [w \in Workers |-> 0]
      /\ unflagged = [w \in Workers |-> 0]
      /\ accepted = [h \in Handlers |-> 0]
      /\ unmarked = [h \in Handlers |-> 0]
  BY DEF Init
<1>6. posts \in 0 .. MaxPosts /\ queue \in Seq([kind : JobKinds, count : Nat])
  BY <1>4, BoundAssumption
<1> QED
  BY <1>1, <1>2, <1>3, <1>4, <1>5, <1>6 DEF Typed, TypeOK

\* Every step keeps it.
LEMMA NextTyped == Typed /\ [Next]_vars => Typed'
<1> SUFFICES ASSUME Typed, [Next]_vars PROVE Typed'
  OBVIOUS
<1>1. CASE UNCHANGED vars
  BY <1>1 DEF vars, docVars, countVars, workCounts, Typed, TypeOK, ThreadKinds
<1>2. CASE Next
  BY <1>2, SignupTyped, RequestTyped, JobTyped DEF Next
<1> QED
  BY <1>1, <1>2

\* TypeOK: every variable keeps its type, whatever fails.
THEOREM TypeCorrect == Spec => []TypeOK
<1>1. Typed => TypeOK
  BY DEF Typed
<1> QED
  BY InitTyped, NextTyped, <1>1, PTL DEF Spec

-----------------------------------------------------------------------------
(***************************************************************************)
(* The inventory, whatever fails                                           *)
(***************************************************************************)

\* A worker about to insert has no more documents of its own in the inventory
\* than it failed to delete.
InventoryInv ==
    /\ OneInventoryPerWorker
    /\ \A w \in Workers : worker[w].pc = "insert" => itam[w] <= uncleared[w]

\* The invariant holds initially, and every step keeps it.
LEMMA InventoryStep ==
    /\ Init => InventoryInv
    /\ Typed /\ InventoryInv /\ [Next]_vars => InventoryInv'
<1>0. Init => InventoryInv
  BY DEF Init, InventoryInv, OneInventoryPerWorker, IdleWorker
<1> SUFFICES ASSUME Typed, InventoryInv, [Next]_vars PROVE InventoryInv'
  BY <1>0
<1>t. /\ itam \in [Workers -> Nat] /\ uncleared \in [Workers -> Nat]
      /\ worker \in [Workers -> TaskRecord(WorkerSteps)]
  BY DEF Typed, TypeOK
<1>1. CASE UNCHANGED <<worker, itam, uncleared>>
  BY <1>1 DEF InventoryInv, OneInventoryPerWorker
<1>2. ASSUME NEW w \in Workers, ClearInventory(w) PROVE InventoryInv'
  <2>1. /\ worker[w].pc = "clear"
        /\ \A v \in Workers : worker'[v].pc = IF v = w THEN "insert" ELSE worker[v].pc
    BY <1>2, <1>t, NextPc DEF ClearInventory
  <2>2. CASE itam' = [v \in Workers |-> 0] /\ UNCHANGED uncleared
    BY <2>2, <1>t DEF InventoryInv, OneInventoryPerWorker
  <2>3. CASE uncleared' = [uncleared EXCEPT ![w] = @ + 1] /\ UNCHANGED itam
    BY <2>1, <2>3, <1>t DEF InventoryInv, OneInventoryPerWorker
  <2> QED
    BY <1>2, <2>2, <2>3 DEF ClearInventory
<1>3. ASSUME NEW w \in Workers, InsertInventory(w) PROVE InventoryInv'
  <2>1. /\ worker[w].pc = "insert"
        /\ itam' = [itam EXCEPT ![w] = @ + 1]
        /\ worker' = [worker EXCEPT ![w].pc = "complete"]
        /\ uncleared' = uncleared
    BY <1>3 DEF InsertInventory, Goto, workCounts
  <2> QED
    BY <2>1, <1>t DEF InventoryInv, OneInventoryPerWorker, TaskRecord
<1>4. ASSUME NEW w \in Workers, DeleteInventory(w) PROVE InventoryInv'
  <2>1. worker' = [worker EXCEPT ![w].pc = "destroyed"] /\ uncleared' = uncleared
    BY <1>4 DEF DeleteInventory, Goto, workCounts
  <2>2. CASE itam' = itam
    BY <2>1, <2>2, <1>t DEF InventoryInv, OneInventoryPerWorker, TaskRecord
  <2>3. ASSUME NEW v \in Workers, itam[v] > 0, itam' = [itam EXCEPT ![v] = @ - 1]
        PROVE  InventoryInv'
    BY <2>1, <2>3, <1>t DEF InventoryInv, OneInventoryPerWorker, TaskRecord
  <2> QED
    BY <1>4, <2>2, <2>3 DEF DeleteInventory
<1>5. ASSUME NEW w \in Workers, UNCHANGED <<itam, uncleared>>,
             \/ Ends(w)
             \/ \E pc \in WorkerSteps \ {"insert"} : Goto(w, pc)
             \/ worker' = [worker EXCEPT ![w] = [pc |-> "begin",
                               kind |-> Head(queue).kind, count |-> Head(queue).count]]
      PROVE  InventoryInv'
  <2>1. worker'[w].pc # "insert" /\ \A v \in Workers \ {w} : worker'[v].pc = worker[v].pc
    BY <1>5, <1>t, NextPc
  <2> QED
    BY <1>5, <2>1, <1>t DEF InventoryInv, OneInventoryPerWorker
<1>6. ASSUME NEW w \in Workers, Run(w) \/ Raises(w) \/ Crashes(w) PROVE InventoryInv'
  <2>1. CASE ClearInventory(w) \/ InsertInventory(w) \/ DeleteInventory(w)
    BY <2>1, <1>2, <1>3, <1>4
  <2>2. CASE Take(w)
    BY <2>2, <1>5 DEF Take, workCounts
  <2>3. CASE BeginNetwork(w) \/ MarkInProgress(w) \/ LinkContainer(w)
             \/ MarkCompleted(w) \/ WelcomeReady(w) \/ EnqueueWelcome(w)
             \/ FlagWelcomed(w) \/ MarkFailed(w)
    BY <2>3, <1>5 DEF workCounts, BeginNetwork, MarkInProgress, LinkContainer,
       MarkCompleted, WelcomeReady, EnqueueWelcome, FlagWelcomed, MarkFailed, WorkerSteps
  <2>4. CASE RunDomainController(w) \/ RunOthers(w) \/ ApplyTerraform(w)
    BY <2>4, <1>5 DEF workCounts, RunDomainController, RunOthers, ApplyTerraform, Failed, WorkerSteps
  <2>5. CASE BeginWorkstations(w) \/ SetOnline(w) \/ BeginDestroy(w)
             \/ RemoveInfrastructure(w) \/ MarkDestroyed(w)
    BY <2>5, <1>5 DEF workCounts, BeginWorkstations, SetOnline, BeginDestroy,
       RemoveInfrastructure, MarkDestroyed, WorkerSteps
  <2>6. CASE Raises(w) \/ Crashes(w)
    BY <2>6, <1>5 DEF Raises, Crashes, Failed, WorkerSteps
  <2> QED
    BY <1>6, <2>1, <2>2, <2>3, <2>4, <2>5, <2>6 DEF Run, Network
<1>7. CASE Signup \/ SignupFails \/ SignupLost \/ LimitChanges
  BY <1>7, <1>1 DEF Signup, SignupOrg, SignupUser, SignupEnqueue, SignupStatus,
     SignupFails, SignupLost, LimitChanges, jobVars, countVars, workCounts
<1>8. ASSUME NEW h \in Handlers,
             \/ PostProvision(h) \/ PostWorkstations(h) \/ PostDestroy(h)
             \/ Serve(h) \/ RequestLost(h)
      PROVE  InventoryInv'
  BY <1>8, <1>1 DEF PostProvision, PostWorkstations, PostDestroy, Serve,
     CheckProvisioned, SeedWorkstations, MarkProvisioning, Dispatch, RequestLost, jobVars, countVars, workCounts
<1>9. CASE UNCHANGED vars
  BY <1>9, <1>1 DEF vars, countVars, workCounts
<1> QED
  BY <1>6, <1>7, <1>8, <1>9 DEF Next

\* OneInventoryPerWorker: a worker leaves at most one inventory document more
\* than its deletions failed, for any number of workers, requests and faults.
THEOREM OneInventoryAlways == Spec => []OneInventoryPerWorker
<1>1. InventoryInv => OneInventoryPerWorker
  BY DEF InventoryInv
<1> QED
  BY InitTyped, NextTyped, InventoryStep, <1>1, PTL DEF Spec

-----------------------------------------------------------------------------
(***************************************************************************)
(* The welcome email, whatever fails                                       *)
(***************************************************************************)

\* Beyond the emails whose flag was lost, a worker has sent one only if the
\* flag is set or it is about to set it, and is about to send one only if it
\* has sent none.
WelcomeInv ==
    /\ OneWelcomePerWorker
    /\ \A w \in Workers :
          /\ \/ emails[w] <= unflagged[w]
             \/ org.welcomed
             \/ worker[w].pc = "flag"
          /\ worker[w].pc = "email" => emails[w] <= unflagged[w]

\* The invariant holds initially, and every step keeps it.
LEMMA WelcomeStep ==
    /\ Init => WelcomeInv
    /\ Typed /\ WelcomeInv /\ [Next]_vars => WelcomeInv'
<1>0. Init => WelcomeInv
  BY DEF Init, WelcomeInv, OneWelcomePerWorker, IdleWorker
<1> SUFFICES ASSUME Typed, WelcomeInv, [Next]_vars PROVE WelcomeInv'
  BY <1>0
<1>t. /\ emails \in [Workers -> Nat] /\ unflagged \in [Workers -> Nat]
      /\ worker \in [Workers -> TaskRecord(WorkerSteps)]
      /\ org \in OrgRecord
  BY DEF Typed, TypeOK
<1>1. ASSUME UNCHANGED <<worker, emails, unflagged>>, org.welcomed => org'.welcomed
      PROVE  WelcomeInv'
  BY <1>1 DEF WelcomeInv, OneWelcomePerWorker
<1>2. ASSUME NEW w \in Workers, EnqueueWelcome(w) PROVE WelcomeInv'
  <2>1. /\ worker[w].pc = "email"
        /\ emails' = [emails EXCEPT ![w] = @ + 1]
        /\ worker' = [worker EXCEPT ![w].pc = "flag"]
        /\ unflagged' = unflagged /\ org' = org
    BY <1>2 DEF workCounts, EnqueueWelcome, Goto
  <2> QED
    BY <2>1, <1>t DEF WelcomeInv, OneWelcomePerWorker, TaskRecord
<1>3. ASSUME NEW w \in Workers, FlagWelcomed(w) PROVE WelcomeInv'
  <2>1. /\ org'.welcomed = TRUE
        /\ worker' = [worker EXCEPT ![w] = IdleWorker]
        /\ emails' = emails /\ unflagged' = unflagged
    BY <1>3, <1>t DEF workCounts, FlagWelcomed, Ends, OrgRecord
  <2> QED
    BY <2>1, <1>t DEF WelcomeInv, OneWelcomePerWorker, IdleWorker
<1>4. ASSUME NEW w \in Workers, WelcomeReady(w) PROVE WelcomeInv'
  BY <1>4, <1>t DEF workCounts, WelcomeReady, WelcomeInv, OneWelcomePerWorker, Goto, Ends, IdleWorker
<1>5. ASSUME NEW w \in Workers, Raises(w) \/ Crashes(w) PROVE WelcomeInv'
  <2>1. org' = org /\ emails' = emails /\ LosesFlag(w)
    BY <1>5 DEF Raises, Crashes
  <2>2. Ends(w) \/ (worker[w].pc # "flag" /\ \E pc \in WorkerSteps \ {"email", "flag"} :
                                                Goto(w, pc))
    BY <1>5 DEF Raises, Crashes, Failed, WorkerSteps
  <2>3. CASE worker[w].pc = "flag"
    <3>1. worker' = [worker EXCEPT ![w] = IdleWorker]
          /\ unflagged' = [unflagged EXCEPT ![w] = @ + 1]
      BY <2>1, <2>2, <2>3 DEF LosesFlag, Ends
    <3> QED
      BY <2>1, <3>1, <1>t DEF WelcomeInv, OneWelcomePerWorker, IdleWorker
  <2>4. CASE worker[w].pc # "flag"
    <3>1. unflagged' = unflagged
      BY <2>1, <2>4 DEF LosesFlag
    <3> QED
      <4>1. worker'[w].pc # "email"
            /\ \A v \in Workers \ {w} : worker'[v].pc = worker[v].pc
        BY <2>2, <1>t, NextPc
      <4> QED
        BY <2>1, <2>4, <3>1, <4>1, <1>t DEF WelcomeInv, OneWelcomePerWorker
  <2> QED
    BY <2>3, <2>4
<1>6. ASSUME NEW w \in Workers, UNCHANGED <<emails, unflagged>>,
             org'.welcomed = org.welcomed, worker[w].pc # "flag",
             \/ Ends(w)
             \/ \E pc \in WorkerSteps \ {"email", "flag"} : Goto(w, pc)
             \/ worker' = [worker EXCEPT ![w] = [pc |-> "begin",
                               kind |-> Head(queue).kind, count |-> Head(queue).count]]
      PROVE  WelcomeInv'
  <2>1. worker'[w].pc # "email" /\ \A v \in Workers \ {w} : worker'[v].pc = worker[v].pc
    BY <1>6, <1>t, NextPc
  <2> QED
    BY <1>6, <2>1, <1>t DEF WelcomeInv, OneWelcomePerWorker
<1>7. ASSUME NEW w \in Workers, Run(w) PROVE WelcomeInv'
  <2>1. CASE EnqueueWelcome(w) \/ FlagWelcomed(w) \/ WelcomeReady(w)
    BY <2>1, <1>2, <1>3, <1>4
  <2>2. CASE Take(w)
    BY <2>2, <1>6 DEF workCounts, Take
  <2>3. ASSUME NEW s \in {"in_progress"} \cup Finals, WriteStatus(s)
        PROVE  org'.welcomed = org.welcomed
    BY <2>3, <1>t DEF WriteStatus, OrgRecord
  <2>4. CASE MarkInProgress(w) \/ MarkCompleted(w) \/ MarkFailed(w) \/ MarkDestroyed(w)
    BY <2>4, <2>3, <1>6 DEF workCounts, MarkInProgress, MarkCompleted, MarkFailed, MarkDestroyed,
       Finals, WorkerSteps
  <2>5. CASE BeginNetwork(w) \/ LinkContainer(w) \/ ClearInventory(w)
             \/ InsertInventory(w) \/ DeleteInventory(w)
    BY <2>5, <1>6 DEF workCounts, BeginNetwork, LinkContainer, ClearInventory, InsertInventory,
       DeleteInventory, At, WorkerSteps
  <2>6. CASE RunDomainController(w) \/ RunOthers(w) \/ ApplyTerraform(w)
    BY <2>6, <1>6 DEF workCounts, RunDomainController, RunOthers, ApplyTerraform, Failed, WorkerSteps
  <2>7. CASE BeginWorkstations(w) \/ SetOnline(w) \/ BeginDestroy(w)
             \/ RemoveInfrastructure(w)
    BY <2>7, <1>6 DEF workCounts, BeginWorkstations, SetOnline, BeginDestroy, At,
       RemoveInfrastructure, WorkerSteps
  <2> QED
    BY <1>7, <2>1, <2>2, <2>4, <2>5, <2>6, <2>7 DEF Run, Network
<1>8. CASE Signup \/ SignupFails \/ SignupLost \/ LimitChanges
  BY <1>8, <1>1, <1>t DEF Signup, SignupOrg, SignupUser, SignupEnqueue, SignupStatus,
     SignupFails, SignupLost, LimitChanges, jobVars, countVars, workCounts, OrgRecord
<1>9. ASSUME NEW h \in Handlers,
             \/ PostProvision(h) \/ PostWorkstations(h) \/ PostDestroy(h)
             \/ Serve(h) \/ RequestLost(h)
      PROVE  WelcomeInv'
  BY <1>9, <1>1, <1>t DEF PostProvision, PostWorkstations, PostDestroy, Serve, OrgRecord,
     CheckProvisioned, SeedWorkstations, MarkProvisioning, Dispatch, RequestLost,
     jobVars, countVars, workCounts
<1>10. CASE UNCHANGED vars
  BY <1>10, <1>1 DEF workCounts, vars, countVars
<1> QED
  BY <1>5, <1>7, <1>8, <1>9, <1>10 DEF Next

\* OneWelcomePerWorker: a worker queues at most one welcome email more than it
\* lost flags, for any number of workers, requests and faults.
THEOREM OneWelcomeAlways == Spec => []OneWelcomePerWorker
<1>1. WelcomeInv => OneWelcomePerWorker
  BY DEF WelcomeInv
<1> QED
  BY InitTyped, NextTyped, WelcomeStep, <1>1, PTL DEF Spec

-----------------------------------------------------------------------------
(***************************************************************************)
(* The mark that refuses a second build, whatever fails                    *)
(***************************************************************************)

\* Beyond the requests it lost before the mark, a thread has accepted a build
\* only if the organisation is marked or it is on its way to the mark.
BuildInv ==
    /\ OneBuildPerThread
    /\ \A h \in Handlers :
          \/ accepted[h] <= unmarked[h]
          \/ org.status = "provisioning"
          \/ thread[h].pc \in {"seed", "mark"} /\ thread[h].kind = "network"

\* The invariant holds initially, and every step keeps it.
LEMMA BuildStep ==
    /\ Init => BuildInv
    /\ Typed /\ BuildInv /\ [Next]_vars => BuildInv'
<1>0. Init => BuildInv
  BY DEF Init, BuildInv, OneBuildPerThread
<1> SUFFICES ASSUME Typed, BuildInv, [Next]_vars PROVE BuildInv'
  BY <1>0
<1>t. /\ accepted \in [Handlers -> Nat] /\ unmarked \in [Handlers -> Nat]
      /\ thread \in [Handlers -> TaskRecord(ThreadSteps)]
      /\ org \in OrgRecord
      /\ ThreadKinds
  BY DEF Typed, TypeOK
<1>1. ASSUME UNCHANGED <<thread, accepted, unmarked>>, org'.status = org.status
      PROVE  BuildInv'
  BY <1>1 DEF BuildInv, OneBuildPerThread
<1>2. ASSUME NEW h \in Handlers, CheckProvisioned(h) PROVE BuildInv'
  <2>1. org' = org /\ unmarked' = unmarked /\ thread[h].pc = "check"
        /\ thread[h].kind = "network"
    BY <1>2, <1>t DEF CheckProvisioned, ThreadKinds
  <2>2. CASE accepted' = accepted /\ thread' = [thread EXCEPT ![h] = IdleThread]
    BY <2>1, <2>2, <1>t DEF BuildInv, OneBuildPerThread
  <2>3. CASE /\ accepted' = [accepted EXCEPT ![h] = @ + 1]
             /\ thread' = [thread EXCEPT ![h].pc = "seed"]
             /\ org.status # "provisioning"
    <3>1. accepted[h] <= unmarked[h]
      BY <2>1, <2>3 DEF BuildInv
    <3>2. \A g \in Handlers : accepted'[g] = IF g = h THEN accepted[h] + 1 ELSE accepted[g]
      BY <2>3, <1>t
    <3>3. thread'[h].pc = "seed" /\ thread'[h].kind = "network"
          /\ \A g \in Handlers \ {h} : thread'[g] = thread[g]
      BY <2>1, <2>3, <1>t DEF TaskRecord
    <3> QED
      BY <2>1, <3>1, <3>2, <3>3, <1>t DEF BuildInv, OneBuildPerThread
  <2> QED
    BY <1>2, <2>2, <2>3 DEF CheckProvisioned
<1>3. ASSUME NEW h \in Handlers, SeedWorkstations(h) PROVE BuildInv'
  <2>1. /\ org' = org /\ accepted' = accepted /\ unmarked' = unmarked
        /\ thread[h].pc = "seed"
        /\ thread' = [thread EXCEPT ![h].pc =
                        IF thread[h].kind = "network" THEN "mark" ELSE "dispatch"]
    BY <1>3 DEF SeedWorkstations, countVars
  <2> QED
    BY <2>1, <1>t DEF BuildInv, OneBuildPerThread, TaskRecord
<1>4. ASSUME NEW h \in Handlers, MarkProvisioning(h) PROVE BuildInv'
  BY <1>4, <1>t DEF MarkProvisioning, BuildInv, OneBuildPerThread, OrgRecord,
     jobVars, countVars, workCounts
<1>5. ASSUME NEW h \in Handlers, Dispatch(h) PROVE BuildInv'
  BY <1>5, <1>t DEF Dispatch, BuildInv, OneBuildPerThread, jobVars, countVars, workCounts
<1>6. ASSUME NEW h \in Handlers, RequestLost(h) PROVE BuildInv'
  <2>1. org' = org /\ accepted' = accepted
        /\ thread' = [thread EXCEPT ![h] = IdleThread]
    BY <1>6 DEF RequestLost
  <2>2. CASE thread[h].kind = "network" /\ thread[h].pc \in {"seed", "mark"}
    <3>1. unmarked' = [unmarked EXCEPT ![h] = @ + 1]
      BY <1>6, <2>2 DEF RequestLost
    <3> QED
      BY <2>1, <2>2, <3>1, <1>t DEF BuildInv, OneBuildPerThread
  <2>3. CASE ~ (thread[h].kind = "network" /\ thread[h].pc \in {"seed", "mark"})
    <3>1. unmarked' = unmarked
      BY <1>6, <2>3 DEF RequestLost
    <3> QED
      BY <2>1, <2>3, <3>1, <1>t DEF BuildInv, OneBuildPerThread
  <2> QED
    BY <2>2, <2>3
<1>7. ASSUME NEW h \in Handlers,
             PostProvision(h) \/ PostWorkstations(h) \/ PostDestroy(h)
      PROVE  BuildInv'
  <2>1. PICK pc, k, n : Posted(h, pc, k, n)
    BY <1>7 DEF PostProvision, PostWorkstations, PostDestroy
  <2>2. UNCHANGED <<org, accepted, unmarked>>
    BY <1>7 DEF PostProvision, PostWorkstations, PostDestroy, jobVars, countVars, workCounts
  <2>3. thread[h].pc = "idle"
        /\ \A g \in Handlers \ {h} : thread'[g] = thread[g]
    BY <2>1, <1>t DEF Posted
  <2> QED
    BY <2>2, <2>3, <1>t DEF BuildInv, OneBuildPerThread
<1>8. ASSUME NEW w \in Workers, Run(w) \/ Raises(w) \/ Crashes(w) PROVE BuildInv'
  <2>1. UNCHANGED <<thread, accepted, unmarked>>
    BY <1>8 DEF frontVars, Run, Network, Take, BeginNetwork, MarkInProgress,
       RunDomainController, RunOthers, ApplyTerraform, LinkContainer,
       ClearInventory, InsertInventory, MarkCompleted, WelcomeReady,
       EnqueueWelcome, FlagWelcomed, MarkFailed, BeginWorkstations, SetOnline,
       BeginDestroy, RemoveInfrastructure, DeleteInventory, MarkDestroyed,
       Raises, Crashes
  <2>2. org'.status = org.status
    BY <1>8, <1>t DEF OrgRecord, WriteStatus, Run, Network, Take, BeginNetwork,
       MarkInProgress, RunDomainController, RunOthers, ApplyTerraform, LinkContainer,
       ClearInventory, InsertInventory, MarkCompleted, WelcomeReady,
       EnqueueWelcome, FlagWelcomed, MarkFailed, BeginWorkstations, SetOnline,
       BeginDestroy, RemoveInfrastructure, DeleteInventory, MarkDestroyed,
       Raises, Crashes
  <2> QED
    BY <1>1, <2>1, <2>2
<1>9. CASE Signup \/ SignupFails \/ SignupLost \/ LimitChanges
  BY <1>9, <1>1, <1>t DEF Signup, SignupOrg, SignupUser, SignupEnqueue, SignupStatus,
     SignupFails, SignupLost, LimitChanges, jobVars, countVars, workCounts, OrgRecord
<1>10. CASE UNCHANGED vars
  BY <1>10, <1>1 DEF vars, countVars, workCounts
<1> QED
  BY <1>2, <1>3, <1>4, <1>5, <1>6, <1>7, <1>8, <1>9, <1>10 DEF Next, Serve

\* OneBuildPerThread: a thread lets at most one build more through than it
\* lost requests, for any number of threads, workers and faults.
THEOREM OneBuildAlways == Spec => []OneBuildPerThread
<1>1. BuildInv => OneBuildPerThread
  BY DEF BuildInv
<1> QED
  BY InitTyped, NextTyped, BuildStep, <1>1, PTL DEF Spec
=============================================================================
