------------------------- MODULE DesktopClientProofs -------------------------
(***************************************************************************)
(* Proofs about DesktopClient, for any number of users, workstations,      *)
(* sessions and attempts and in every deployment.                          *)
(***************************************************************************)
EXTENDS DesktopClient, Integers, FiniteSetTheorems, TLAPS

-----------------------------------------------------------------------------
(***************************************************************************)
(* Types                                                                   *)
(***************************************************************************)

\* An attempt that may still ask for a process leaves room for it.
Pending == IF attempt.pc \in {"state", "config"} THEN 1 ELSE 0
Budget == spawned + Pending <= tries

Typed == TypeOK /\ Budget

PC == {"none", "asked", "starting", "up", "closed"}
OS == {"none", "booting", "running", "tunnel", "gone"}

\* What the events and OpenVPN write into the record of a child.
LEMMA RecordTyped ==
    ASSUME NEW r \in ChildRecord, NEW pc \in PC, NEW os \in OS,
           NEW news \in {"none", "completed", "failed"}, NEW code \in {0, 1},
           NEW b \in BOOLEAN
    PROVE  /\ [r EXCEPT !.pc = pc] \in ChildRecord
           /\ [r EXCEPT !.pc = pc, !.os = os] \in ChildRecord
           /\ [r EXCEPT !.pc = pc, !.os = os, !.launchError = TRUE] \in ChildRecord
           /\ [r EXCEPT !.news = news] \in ChildRecord
           /\ [r EXCEPT !.news = news, !.fatal = TRUE, !.killed = b] \in ChildRecord
           /\ [r EXCEPT !.news = news, !.fatal = TRUE, !.launchError = TRUE]
                 \in ChildRecord
           /\ [r EXCEPT !.killed = TRUE] \in ChildRecord
           /\ [r EXCEPT !.os = os] \in ChildRecord
           /\ [r EXCEPT !.os = os, !.news = news] \in ChildRecord
           /\ [r EXCEPT !.os = os, !.code = code] \in ChildRecord
<1>1. [r EXCEPT !.pc = pc] \in ChildRecord
  BY DEF ChildRecord, PC
<1>6. [r EXCEPT !.pc = pc, !.os = os] \in ChildRecord
  BY DEF ChildRecord, PC, OS
<1>7. [r EXCEPT !.pc = pc, !.os = os, !.launchError = TRUE] \in ChildRecord
  BY DEF ChildRecord, PC, OS
<1>2. /\ [r EXCEPT !.news = news] \in ChildRecord
      /\ [r EXCEPT !.os = os, !.news = news] \in ChildRecord
  BY DEF ChildRecord, OS
<1>3. [r EXCEPT !.news = news, !.fatal = TRUE, !.killed = b] \in ChildRecord
  BY DEF ChildRecord
<1>4. [r EXCEPT !.news = news, !.fatal = TRUE, !.launchError = TRUE] \in ChildRecord
  BY DEF ChildRecord
<1>5. /\ [r EXCEPT !.killed = TRUE] \in ChildRecord
      /\ [r EXCEPT !.os = os] \in ChildRecord
      /\ [r EXCEPT !.os = os, !.code = code] \in ChildRecord
  BY DEF ChildRecord, OS
<1> QED
  BY <1>1, <1>2, <1>3, <1>4, <1>5, <1>6, <1>7

LEMMA NoProcessTyped ==
    ASSUME NEW u \in Users \cup {NoUser}, NEW pc \in PC, NEW os \in OS
    PROVE  /\ NoProcess \in ChildRecord
           /\ [NoProcess EXCEPT !.pc = pc, !.os = os, !.profile = u] \in ChildRecord
BY DEF NoProcess, ChildRecord, PC, OS

\* A step of the main process or of OpenVPN keeps the types when what it
\* writes has its type.
LEMMA MainStep ==
    ASSUME Typed,
           UNCHANGED <<deployment, auth, page, leaving, busy, tries, session,
                       holder, running, spawned>>,
           attempt' = attempt \/ attempt' = Idle,
           child' \in [Children -> ChildRecord],
           vpn' \in [status : Statuses, pid : Children \cup {NoChild}],
           mail' \in BOOLEAN,
           active' \in Children \cup {NoChild},
           pidFile' \in [path : BOOLEAN, pid : Children \cup {NoChild}]
    PROVE  Typed'
<1>1. Idle \in AttemptRecord /\ Idle.pc = "idle"
  BY DEF Idle, AttemptRecord, Statuses
<1>2. attempt' \in AttemptRecord
  BY <1>1 DEF Typed, TypeOK
<1>3. Budget'
  BY <1>1 DEF Typed, TypeOK, Budget, Pending
<1> QED
  BY <1>2, <1>3 DEF Typed, TypeOK

LEMMA UpdateTyped ==
    ASSUME NEW status \in Statuses, NEW pid \in Children \cup {NoChild},
           Update(status, pid)
    PROVE  /\ vpn' \in [status : Statuses, pid : Children \cup {NoChild}]
           /\ mail' \in BOOLEAN
BY DEF Update

LEMMA ProcessTyped ==
    ASSUME Typed, NEW c \in Children, Process(c)
    PROVE  Typed'
<1>0. /\ child \in [Children -> ChildRecord]
      /\ vpn \in [status : Statuses, pid : Children \cup {NoChild}]
      /\ mail \in BOOLEAN /\ active \in Children \cup {NoChild}
      /\ pidFile \in [path : BOOLEAN, pid : Children \cup {NoChild}]
      /\ child[c] \in ChildRecord
  BY DEF Typed, TypeOK
<1>1. CASE Boot(c)
  <2>1. child' = [child EXCEPT ![c] = [child[c] EXCEPT !.os = "running"]]
    BY <1>0, <1>1 DEF Boot
  <2>2. [child[c] EXCEPT !.os = "running"] \in ChildRecord
    BY <1>0, RecordTyped DEF PC, OS
  <2>3. child' \in [Children -> ChildRecord]
    BY <1>0, <2>1, <2>2
  <2>4. pidFile' \in [path : BOOLEAN, pid : Children \cup {NoChild}]
    BY <1>0, <1>1 DEF Boot
  <2> QED
    BY <1>0, <1>1, <2>3, <2>4, MainStep DEF Boot, pageVars, sessionVars
<1>2. CASE Initialize(c)
  <2> DEFINE r == [child[c] EXCEPT !.os = "tunnel", !.news = "completed"]
  <2>1. child' = [child EXCEPT ![c] = r]
    BY <1>0, <1>2 DEF Initialize
  <2>2. r \in ChildRecord
    BY <1>0, RecordTyped DEF PC, OS
  <2> HIDE DEF r
  <2>3. child' \in [Children -> ChildRecord]
    BY <1>0, <2>1, <2>2
  <2> QED
    BY <1>0, <1>2, <2>3, MainStep DEF Initialize, pageVars, mainVars,
       sessionVars
<1>3. CASE LosePeer(c)
  <2> DEFINE r == [child[c] EXCEPT !.os = "running", !.news = "failed"]
  <2>1. child' = [child EXCEPT ![c] = r]
    BY <1>0, <1>3 DEF LosePeer
  <2>2. r \in ChildRecord
    BY <1>0, RecordTyped DEF PC, OS
  <2> HIDE DEF r
  <2>3. child' \in [Children -> ChildRecord]
    BY <1>0, <2>1, <2>2
  <2> QED
    BY <1>0, <1>3, <2>3, MainStep DEF LosePeer, pageVars, mainVars, sessionVars
<1>4. CASE Exit(c)
  <2>1. PICK code \in {0, 1} :
           child' = [child EXCEPT ![c].os = "gone", ![c].code = code]
    BY <1>4 DEF Exit
  <2> DEFINE r == [child[c] EXCEPT !.os = "gone", !.code = code]
  <2>2. child' = [child EXCEPT ![c] = r]
    BY <1>0, <2>1
  <2>3. r \in ChildRecord
    BY <1>0, RecordTyped DEF PC, OS
  <2> HIDE DEF r
  <2>4. child' \in [Children -> ChildRecord]
    BY <1>0, <2>2, <2>3
  <2> QED
    BY <1>0, <1>4, <2>4, MainStep DEF Exit, pageVars, mainVars, sessionVars
<1> QED
  BY <1>1, <1>2, <1>3, <1>4 DEF Process

LEMMA EventTyped ==
    ASSUME Typed, NEW c \in Children, Event(c)
    PROVE  Typed'
<1>0. /\ child \in [Children -> ChildRecord]
      /\ vpn \in [status : Statuses, pid : Children \cup {NoChild}]
      /\ mail \in BOOLEAN /\ active \in Children \cup {NoChild}
      /\ pidFile \in [path : BOOLEAN, pid : Children \cup {NoChild}]
      /\ child[c] \in ChildRecord
  BY DEF Typed, TypeOK
<1>1. {"disconnected", "connecting", "connected", "error"} \subseteq Statuses
  BY DEF Statuses
<1>2. ASSUME NEW r \in ChildRecord, child' = [child EXCEPT ![c] = r]
      PROVE  child' \in [Children -> ChildRecord]
  BY <1>0, <1>2
<1>3. CASE Spawned(c)
  <2> DEFINE r == [child[c] EXCEPT !.pc = "up"]
  <2>1. child' = [child EXCEPT ![c] = r]
    BY <1>0, <1>3 DEF Spawned
  <2>2. r \in ChildRecord
    BY <1>0, RecordTyped DEF PC, OS
  <2> HIDE DEF r
  <2>3. Update("connecting", c)
    BY <1>3 DEF Spawned
  <2> QED
    BY <1>0, <1>1, <1>2, <1>3, <2>1, <2>2, <2>3, UpdateTyped, MainStep
       DEF Spawned, pageVars, sessionVars
<1>4. CASE SpawnFails(c)
  <2> DEFINE r == [child[c] EXCEPT !.pc = "closed", !.os = "gone",
                                   !.launchError = TRUE]
  <2>1. child' = [child EXCEPT ![c] = r]
    BY <1>0, <1>4 DEF SpawnFails
  <2>2. r \in ChildRecord
    BY <1>0, RecordTyped DEF PC, OS
  <2> HIDE DEF r
  <2>3. Update("error", NoChild) /\ active' \in Children \cup {NoChild}
    BY <1>0, <1>4 DEF SpawnFails
  <2> QED
    BY <1>0, <1>1, <1>2, <1>4, <2>1, <2>2, <2>3, UpdateTyped, MainStep
       DEF SpawnFails, pageVars, sessionVars
<1>5. CASE ReadCompleted(c)
  <2> DEFINE r == [child[c] EXCEPT !.news = "none"]
  <2>1. child' = [child EXCEPT ![c] = r]
    BY <1>0, <1>5 DEF ReadCompleted
  <2>2. r \in ChildRecord
    BY <1>0, RecordTyped DEF PC, OS
  <2> HIDE DEF r
  <2>3. Update("connected", c)
    BY <1>5 DEF ReadCompleted
  <2> QED
    BY <1>0, <1>1, <1>2, <1>5, <2>1, <2>2, <2>3, UpdateTyped, MainStep
       DEF ReadCompleted, pageVars, sessionVars
<1>6. CASE ReadFailed(c)
  <2> DEFINE b == child[c].killed \/ ~child[c].fatal
             r == [child[c] EXCEPT !.news = "none", !.fatal = TRUE, !.killed = b]
  <2>1. child' = [child EXCEPT ![c] = r]
    BY <1>0, <1>6 DEF ReadFailed
  <2>2. b \in BOOLEAN
    OBVIOUS
  <2> HIDE DEF b
  <2>3. r \in ChildRecord
    BY <1>0, <2>2, RecordTyped DEF PC, OS
  <2> HIDE DEF r
  <2> QED
    BY <1>0, <1>2, <1>6, <2>1, <2>3, MainStep DEF ReadFailed, pageVars,
       mainVars, sessionVars
<1>7. CASE KillDenied(c)
  <2> DEFINE r == [child[c] EXCEPT !.news = "none", !.fatal = TRUE,
                                   !.launchError = TRUE]
  <2>1. child' = [child EXCEPT ![c] = r]
    BY <1>0, <1>7 DEF KillDenied
  <2>2. r \in ChildRecord
    BY <1>0, RecordTyped DEF PC, OS
  <2> HIDE DEF r
  <2>3. Update("error", NoChild) /\ active' \in Children \cup {NoChild}
    BY <1>0, <1>7 DEF KillDenied
  <2> QED
    BY <1>0, <1>1, <1>2, <1>7, <2>1, <2>2, <2>3, UpdateTyped, MainStep
       DEF KillDenied, pageVars, sessionVars
<1>8. CASE Closed(c)
  <2> DEFINE r == [child[c] EXCEPT !.pc = "closed"]
  <2>1. child' = [child EXCEPT ![c] = r]
    BY <1>0, <1>8 DEF Closed
  <2>2. r \in ChildRecord
    BY <1>0, RecordTyped DEF PC, OS
  <2> HIDE DEF r
  <2>3. active' \in Children \cup {NoChild}
    BY <1>0, <1>8 DEF Closed
  <2>4. /\ vpn' \in [status : Statuses, pid : Children \cup {NoChild}]
        /\ mail' \in BOOLEAN
    <3>1. \/ UNCHANGED <<vpn, mail>>
          \/ Update("disconnected", NoChild)
          \/ Update("error", NoChild)
      BY <1>8 DEF Closed
    <3> QED
      BY <1>0, <1>1, <3>1, UpdateTyped
  <2> QED
    BY <1>0, <1>2, <1>8, <2>1, <2>2, <2>3, <2>4, MainStep DEF Closed, pageVars,
       sessionVars
<1>9. CASE Located(c)
  <2> DEFINE r == [child[c] EXCEPT !.pc = "starting", !.os = "booting"]
             q == [child[c] EXCEPT !.pc = "closed"]
  <2>1. child' = [child EXCEPT ![c] = r] \/ child' = [child EXCEPT ![c] = q]
    BY <1>0, <1>9 DEF Located
  <2>2. r \in ChildRecord /\ q \in ChildRecord
    BY <1>0, RecordTyped DEF PC, OS
  <2> HIDE DEF r, q
  <2>3. child' \in [Children -> ChildRecord]
    BY <1>2, <2>1, <2>2
  <2>4. /\ vpn' \in [status : Statuses, pid : Children \cup {NoChild}]
        /\ mail' \in BOOLEAN /\ active' \in Children \cup {NoChild}
    <3>1. UNCHANGED <<vpn, mail>> \/ Update("error", NoChild)
      BY <1>9 DEF Located
    <3>2. active' = c \/ active' = active
      BY <1>9 DEF Located
    <3> QED
      BY <1>0, <1>1, <3>1, <3>2, UpdateTyped
  <2> QED
    BY <1>0, <1>9, <2>3, <2>4, MainStep DEF Located, sessionVars
<1> QED
  BY <1>3, <1>4, <1>5, <1>6, <1>7, <1>8, <1>9 DEF Event

\* What the page does: the attempt keeps room for a process.
LEMMA PageStep ==
    ASSUME Typed, UNCHANGED <<deployment, session, holder>>,
           auth' \in Users \cup {NoUser},
           page' \in [login : BOOLEAN, view : Statuses],
           attempt' \in AttemptRecord, leaving' \in BOOLEAN,
           running' \in BOOLEAN, mail' \in BOOLEAN,
           vpn' \in [status : Statuses, pid : Children \cup {NoChild}],
           active' \in Children \cup {NoChild},
           pidFile' \in [path : BOOLEAN, pid : Children \cup {NoChild}],
           child' \in [Children -> ChildRecord],
           busy' \in Sessions \cup {NoSession},
           spawned' \in 0 .. MaxTries, tries' \in 0 .. MaxTries,
           Budget'
    PROVE  Typed'
BY DEF Typed, TypeOK

LEMMA ShowTyped ==
    ASSUME Typed, NEW login \in BOOLEAN, NEW view \in Statuses, Show(login, view)
    PROVE  /\ page' \in [login : BOOLEAN, view : Statuses]
           /\ busy' \in Sessions \cup {NoSession}
BY DEF Show, Typed, TypeOK

LEMMA TryConnectTyped ==
    ASSUME Typed, TryConnect, spawned' = spawned
    PROVE  /\ tries' \in 0 .. MaxTries /\ attempt' \in AttemptRecord
           /\ Budget'
<1>1. /\ tries \in 0 .. MaxTries /\ spawned \in 0 .. MaxTries
      /\ attempt \in AttemptRecord /\ vpn.status \in Statuses
      /\ deployment.tries \in 0 .. MaxTries /\ spawned + Pending <= tries
  BY DesktopAssumption DEF Typed, TypeOK, DeploymentType, Budget
<1>2. tries' \in 0 .. MaxTries /\ tries' = tries + 1
  BY <1>1, DesktopAssumption DEF TryConnect
<1>3. [Idle EXCEPT !.pc = "state", !.seen = vpn.status] \in AttemptRecord
  BY <1>1 DEF Idle, AttemptRecord
<1>4. attempt' \in AttemptRecord
  BY <1>1, <1>3 DEF TryConnect
<1>5. Budget'
  <2>1. CASE attempt' = attempt
    BY <1>1, <1>2, <2>1 DEF Budget, Pending
  <2>2. CASE attempt' # attempt
    <3>1. attempt.pc = "idle" /\ attempt'.pc = "state"
      BY <2>2 DEF TryConnect, Idle
    <3>2. Pending = 0
      BY <3>1 DEF Pending
    <3>3. spawned + 1 <= tries'
      BY <1>1, <1>2, <3>2
    <3> QED
      BY <1>1, <3>1, <3>3 DEF Budget, Pending
  <2> QED
    BY <2>1, <2>2
<1> QED
  BY <1>2, <1>4, <1>5

LEMMA DisconnectTyped ==
    ASSUME Typed, DisconnectVPN
    PROVE  /\ vpn' \in [status : Statuses, pid : Children \cup {NoChild}]
           /\ mail' \in BOOLEAN /\ active' \in Children \cup {NoChild}
           /\ pidFile' \in [path : BOOLEAN, pid : Children \cup {NoChild}]
           /\ child' \in [Children -> ChildRecord]
<1>0. /\ child \in [Children -> ChildRecord]
      /\ vpn \in [status : Statuses, pid : Children \cup {NoChild}]
      /\ mail \in BOOLEAN /\ active \in Children \cup {NoChild}
      /\ pidFile \in [path : BOOLEAN, pid : Children \cup {NoChild}]
  BY DEF Typed, TypeOK
<1>1. CASE UNCHANGED <<vpn, mail, active, pidFile, child>>
  BY <1>0, <1>1
<1>2. CASE ~UNCHANGED <<vpn, mail, active, pidFile, child>>
  <2>1. /\ pidFile' = [pidFile EXCEPT !.pid = NoChild] /\ active' = NoChild
        /\ Update("disconnected", NoChild)
    BY <1>2 DEF DisconnectVPN
  <2>2. PICK hit \in SUBSET Known :
           child' = [c \in Children |-> IF c \in hit /\ Alive(c)
                                       THEN [child[c] EXCEPT !.killed = TRUE]
                                       ELSE child[c]]
    BY <1>2 DEF DisconnectVPN
  <2>3. ASSUME NEW c \in Children
        PROVE  child'[c] \in ChildRecord
    <3>1. [child[c] EXCEPT !.killed = TRUE] \in ChildRecord
      BY <1>0, RecordTyped DEF PC, OS
    <3>2. child'[c] = child[c] \/ child'[c] = [child[c] EXCEPT !.killed = TRUE]
      BY <2>2
    <3> QED
      BY <1>0, <3>1, <3>2
  <2>4. child' \in [Children -> ChildRecord]
    BY <2>2, <2>3
  <2>5. "disconnected" \in Statuses
    BY DEF Statuses
  <2> QED
    BY <1>0, <2>1, <2>4, <2>5, UpdateTyped
<1> QED
  BY <1>1, <1>2

LEMMA ConnectTyped ==
    ASSUME Typed, attempt.pc = "config", NEW u \in Users \cup {NoUser}, Connect(u),
           attempt' = Idle \/ attempt' = [attempt EXCEPT !.pc = "connect"],
           tries' = tries
    PROVE  /\ active' \in Children \cup {NoChild}
           /\ pidFile' \in [path : BOOLEAN, pid : Children \cup {NoChild}]
           /\ child' \in [Children -> ChildRecord]
           /\ spawned' \in 0 .. MaxTries
           /\ attempt' \in AttemptRecord
           /\ Budget'
<1>0. /\ child \in [Children -> ChildRecord]
      /\ active \in Children \cup {NoChild}
      /\ pidFile \in [path : BOOLEAN, pid : Children \cup {NoChild}]
      /\ spawned \in 0 .. MaxTries /\ tries \in 0 .. MaxTries
      /\ attempt \in AttemptRecord
      /\ spawned + 1 <= tries
  BY DEF Typed, TypeOK, Budget, Pending
<1>1. spawned + 1 \in Children /\ spawned + 1 \in 0 .. MaxTries
  BY <1>0, DesktopAssumption DEF Children
<1>2. attempt' \in AttemptRecord /\ Pending' = 0
  <2>1. Idle \in AttemptRecord /\ Idle.pc = "idle"
    BY DEF Idle, AttemptRecord, Statuses
  <2>2. \A r \in AttemptRecord : /\ [r EXCEPT !.pc = "connect"] \in AttemptRecord
                                 /\ [r EXCEPT !.pc = "connect"].pc = "connect"
    BY DEF AttemptRecord
  <2>3. /\ attempt' \in AttemptRecord
        /\ attempt'.pc = "idle" \/ attempt'.pc = "connect"
    BY <1>0, <2>1, <2>2
  <2> QED
    BY <2>3 DEF Pending
<1>3. spawned' = spawned \/ spawned' = spawned + 1
  BY DEF Connect
<1>4. Budget' /\ spawned' \in 0 .. MaxTries
  BY <1>0, <1>1, <1>2, <1>3 DEF Budget
<1>5. CASE vpn.status \in {"connected", "connecting"}
  BY <1>0, <1>2, <1>4, <1>5 DEF Connect
<1>6. CASE vpn.status \notin {"connected", "connecting"}
  <2>1. \E pc \in PC, os \in OS :
           child' = [child EXCEPT ![spawned + 1] =
                        [NoProcess EXCEPT !.pc = pc, !.os = os, !.profile = u]]
    <3>1. CASE deployment.windows
      <4>1. child' = [child EXCEPT ![spawned + 1] =
                         [NoProcess EXCEPT !.pc = "asked", !.os = "none",
                                           !.profile = u]]
        BY <1>6, <3>1 DEF Connect
      <4> QED
        BY <4>1 DEF PC, OS
    <3>2. CASE ~deployment.windows
      <4>1. child' = [child EXCEPT ![spawned + 1] =
                         [NoProcess EXCEPT !.pc = "starting", !.os = "booting",
                                           !.profile = u]]
        BY <1>6, <3>2 DEF Connect
      <4> QED
        BY <4>1 DEF PC, OS
    <3> QED
      BY <3>1, <3>2
  <2>2. child' \in [Children -> ChildRecord]
    <3>1. PICK pc \in PC, os \in OS :
             child' = [child EXCEPT ![spawned + 1] =
                          [NoProcess EXCEPT !.pc = pc, !.os = os, !.profile = u]]
      BY <2>1
    <3> DEFINE r == [NoProcess EXCEPT !.pc = pc, !.os = os, !.profile = u]
    <3>2. r \in ChildRecord
      BY NoProcessTyped
    <3>3. child' = [child EXCEPT ![spawned + 1] = r]
      BY <3>1
    <3> HIDE DEF r
    <3> QED
      BY <1>0, <3>2, <3>3
  <2>3. pidFile' = [path |-> TRUE, pid |-> NoChild]
        /\ (active' = active \/ active' = spawned + 1)
    BY <1>6 DEF Connect
  <2> QED
    BY <1>0, <1>1, <1>2, <1>4, <2>2, <2>3
<1> QED
  BY <1>5, <1>6

LEMMA PageTyped ==
    ASSUME Typed, Page \/ User
    PROVE  Typed'
<1>0. /\ auth \in Users \cup {NoUser}
      /\ page \in [login : BOOLEAN, view : Statuses]
      /\ page.login \in BOOLEAN /\ page.view \in Statuses
      /\ attempt \in AttemptRecord /\ leaving \in BOOLEAN
      /\ running \in BOOLEAN /\ mail \in BOOLEAN
      /\ vpn \in [status : Statuses, pid : Children \cup {NoChild}]
      /\ vpn.status \in Statuses
      /\ active \in Children \cup {NoChild}
      /\ pidFile \in [path : BOOLEAN, pid : Children \cup {NoChild}]
      /\ child \in [Children -> ChildRecord]
      /\ busy \in Sessions \cup {NoSession}
      /\ spawned \in 0 .. MaxTries /\ tries \in 0 .. MaxTries
      /\ attempt.user \in Users \cup {NoUser} /\ attempt.seen \in Statuses
  BY DEF Typed, TypeOK, AttemptRecord
<1>1. /\ Idle \in AttemptRecord /\ Idle.pc = "idle"
      /\ "disconnected" \in Statuses /\ "error" \in Statuses
  BY DEF Idle, AttemptRecord, Statuses
<1>2. ASSUME spawned' = spawned, tries' = tries,
             \/ attempt' = attempt \/ attempt' = Idle
             \/ attempt.pc = "state"
      PROVE  Budget'
  BY <1>0, <1>1, <1>2 DEF Typed, Budget, Pending
<1>3. ASSUME NEW u \in Users, Login(u)
      PROVE  Typed'
  <2>1. auth' \in Users \cup {NoUser} /\ Show(TRUE, page.view) /\ TryConnect
        /\ UNCHANGED <<deployment, leaving, mainVars, child, sessionVars, running>>
    BY <1>3 DEF Login
  <2> QED
    BY <1>0, <2>1, ShowTyped, TryConnectTyped, PageStep DEF mainVars,
       sessionVars
<1>4. CASE Retry
  <2>1. TryConnect
        /\ UNCHANGED <<deployment, auth, page, leaving, busy, mainVars, child,
                       sessionVars, running>>
    BY <1>4 DEF Retry
  <2> QED
    BY <1>0, <2>1, TryConnectTyped, PageStep DEF mainVars, sessionVars
<1>5. CASE AskConfig
  <2>1. /\ attempt.pc = "state" /\ Show(page.login, attempt.seen)
        /\ attempt' = Idle \/ attempt' = [attempt EXCEPT !.pc = "config", !.user = auth]
        /\ UNCHANGED <<deployment, auth, leaving, tries, mainVars, child,
                       sessionVars, running>>
    BY <1>5 DEF AskConfig
  <2>2. \A r \in AttemptRecord, u \in Users \cup {NoUser} :
           [r EXCEPT !.pc = "config", !.user = u] \in AttemptRecord
    BY DEF AttemptRecord
  <2>3. attempt' \in AttemptRecord
    <3>1. [attempt EXCEPT !.pc = "config", !.user = auth] \in AttemptRecord
      BY <1>0, <2>2
    <3> HIDE DEF AttemptRecord, Idle
    <3> QED
      BY <1>1, <2>1, <3>1
  <2>4. Budget'
    BY <1>2, <2>1 DEF mainVars
  <2> QED
    BY <1>0, <2>1, <2>3, <2>4, ShowTyped, PageStep DEF mainVars, sessionVars
<1>6. CASE GotConfig
  <2>1. /\ attempt.pc = "config" /\ Connect(attempt.user)
        /\ attempt' = Idle \/ attempt' = [attempt EXCEPT !.pc = "connect"]
        /\ UNCHANGED <<deployment, auth, page, leaving, busy, tries, mail, vpn,
                       sessionVars, running>>
    BY <1>6 DEF GotConfig
  <2> QED
    BY <1>0, <2>1, ConnectTyped, PageStep DEF sessionVars
<1>7. CASE NoConfig
  <2>1. /\ attempt' = Idle /\ Show(page.login, "error") /\ Update("error", NoChild)
        /\ UNCHANGED <<deployment, auth, leaving, tries, active, pidFile, spawned,
                       child, sessionVars, running>>
    BY <1>7 DEF NoConfig
  <2>2. Budget'
    BY <1>2, <2>1
  <2> QED
    BY <1>0, <1>1, <2>1, <2>2, ShowTyped, UpdateTyped, PageStep DEF sessionVars
<1>8. CASE Deliver
  <2>1. /\ mail' = FALSE /\ Show(page.login, vpn.status)
        /\ UNCHANGED <<deployment, auth, attempt, leaving, tries, vpn, active,
                       pidFile, spawned, child, sessionVars, running>>
    BY <1>8 DEF Deliver
  <2>2. Budget'
    BY <1>2, <2>1
  <2> QED
    BY <1>0, <2>1, <2>2, ShowTyped, PageStep DEF sessionVars
<1>9. CASE Logout
  <2>1. /\ auth' = NoUser /\ leaving' = TRUE /\ DisconnectVPN
        /\ UNCHANGED <<deployment, page, attempt, busy, tries, spawned,
                       sessionVars, running>>
    BY <1>9 DEF Logout
  <2>2. Budget'
    BY <1>2, <2>1
  <2> QED
    BY <1>0, <2>1, <2>2, DisconnectTyped, PageStep DEF sessionVars
<1>10. CASE LoggedOut
  <2>1. /\ leaving' = FALSE /\ Show(FALSE, "disconnected")
        /\ UNCHANGED <<deployment, auth, attempt, tries, mainVars, child,
                       sessionVars, running>>
    BY <1>10 DEF LoggedOut
  <2>2. Budget'
    BY <1>2, <2>1 DEF mainVars
  <2> QED
    BY <1>0, <1>1, <2>1, <2>2, ShowTyped, PageStep DEF mainVars, sessionVars
<1>11. CASE Quit
  <2>1. /\ running' = FALSE /\ DisconnectVPN
        /\ UNCHANGED <<deployment, pageVars, spawned, sessionVars>>
    BY <1>11 DEF Quit
  <2>2. Budget'
    BY <1>2, <2>1 DEF pageVars
  <2> QED
    BY <1>0, <2>1, <2>2, DisconnectTyped, PageStep DEF pageVars, sessionVars
<1> QED
  BY <1>3, <1>4, <1>5, <1>6, <1>7, <1>8, <1>9, <1>10, <1>11 DEF Page, User

LEMMA SessionTyped ==
    ASSUME Typed, NEW s \in Sessions, Session(s)
    PROVE  Typed'
<1>0. /\ session \in [Sessions -> SessionRecord]
      /\ holder \in [VMs -> Users \cup {NoUser}]
      /\ auth \in Users \cup {NoUser} /\ busy \in Sessions \cup {NoSession}
      /\ session[s] \in SessionRecord /\ session[s].user \in Users \cup {NoUser}
  BY DEF Typed, TypeOK, SessionRecord
<1>1. ASSUME UNCHANGED <<deployment, auth, page, attempt, leaving, tries, mainVars,
                         child, running>>,
             session' \in [Sessions -> SessionRecord],
             holder' \in [VMs -> Users \cup {NoUser}],
             busy' \in Sessions \cup {NoSession}
      PROVE  Typed'
  <2>1. Budget'
    BY <1>1 DEF Typed, Budget, Pending, mainVars
  <2> QED
    BY <1>1, <2>1 DEF Typed, TypeOK, mainVars
<1>2. ASSUME NEW r \in SessionRecord, session' = [session EXCEPT ![s] = r]
      PROVE  session' \in [Sessions -> SessionRecord]
  BY <1>0, <1>2
<1>3. ASSUME NEW pc \in {"rdp", "release", "done"}
      PROVE  /\ [session[s] EXCEPT !.pc = pc] \in SessionRecord
             /\ \A v \in VMs : [session[s] EXCEPT !.pc = pc, !.vm = v]
                              \in SessionRecord
  BY <1>0 DEF SessionRecord
<1>4. CASE Open(s)
  <2> DEFINE r == [pc |-> "assign", user |-> auth, vm |-> NoVM]
  <2>1. r \in SessionRecord
    BY <1>0 DEF SessionRecord
  <2>2. session' = [session EXCEPT ![s] = r]
    BY <1>4 DEF Open
  <2> HIDE DEF r
  <2> QED
    BY <1>0, <1>1, <1>2, <1>4, <2>1, <2>2 DEF Open
<1>5. CASE Assign(s)
  <2>1. holder' \in [VMs -> Users \cup {NoUser}]
    BY <1>0, <1>5 DEF Assign
  <2>2. \E r \in SessionRecord : session' = [session EXCEPT ![s] = r]
    <3>1. CASE \E v \in VMs : session' = [session EXCEPT ![s].pc = "rdp", ![s].vm = v]
      <4>1. PICK v \in VMs : session' = [session EXCEPT ![s].pc = "rdp", ![s].vm = v]
        BY <3>1
      <4>2. session' = [session EXCEPT ![s] = [session[s] EXCEPT !.pc = "rdp", !.vm = v]]
        BY <1>0, <4>1
      <4> QED
        BY <1>3, <4>2
    <3>2. CASE session' = [session EXCEPT ![s].pc = "release"]
      <4>1. session' = [session EXCEPT ![s] = [session[s] EXCEPT !.pc = "release"]]
        BY <1>0, <3>2
      <4> QED
        BY <1>3, <4>1
    <3> QED
      BY <1>5, <3>1, <3>2 DEF Assign
  <2> QED
    BY <1>0, <1>1, <1>2, <1>5, <2>1, <2>2 DEF Assign, pageVars
<1>6. CASE AssignFails(s)
  <2>1. holder' \in [VMs -> Users \cup {NoUser}]
    BY <1>0, <1>6 DEF AssignFails
  <2>2. session' = [session EXCEPT ![s] = [session[s] EXCEPT !.pc = "done"]]
    BY <1>0, <1>6 DEF AssignFails
  <2>3. busy' \in Sessions \cup {NoSession}
    BY <1>0, <1>6 DEF AssignFails
  <2> QED
    BY <1>1, <1>2, <1>3, <1>6, <2>1, <2>2, <2>3 DEF AssignFails
<1>7. CASE CloseRdp(s)
  <2>1. session' = [session EXCEPT ![s] = [session[s] EXCEPT !.pc = "release"]]
    BY <1>0, <1>7 DEF CloseRdp
  <2> QED
    BY <1>0, <1>1, <1>2, <1>3, <1>7, <2>1 DEF CloseRdp, pageVars
<1>8. CASE Release(s)
  <2>1. holder' \in [VMs -> Users \cup {NoUser}]
    BY <1>0, <1>8 DEF Release
  <2>2. session' = [session EXCEPT ![s] = [session[s] EXCEPT !.pc = "done"]]
    BY <1>0, <1>8 DEF Release
  <2>3. busy' \in Sessions \cup {NoSession}
    BY <1>0, <1>8 DEF Release
  <2> QED
    BY <1>1, <1>2, <1>3, <1>8, <2>1, <2>2, <2>3 DEF Release
<1> QED
  BY <1>4, <1>5, <1>6, <1>7, <1>8 DEF Session

LEMMA InitTyped == Init => Typed
<1> SUFFICES ASSUME Init PROVE Typed
  OBVIOUS
<1>1. child \in [Children -> ChildRecord]
  <2>1. NoProcess \in ChildRecord
    BY DEF NoProcess, ChildRecord
  <2> QED
    BY <2>1 DEF Init
<1>2. session \in [Sessions -> SessionRecord]
  BY DEF Init, NoRdp, SessionRecord
<1>3. attempt \in AttemptRecord /\ attempt.pc = "idle"
  BY DEF Init, Idle, AttemptRecord, Statuses
<1>4. page \in [login : BOOLEAN, view : Statuses]
      /\ vpn \in [status : Statuses, pid : Children \cup {NoChild}]
  BY DEF Init, Statuses
<1>5. Budget
  BY <1>3 DEF Init, Budget, Pending
<1>6. /\ deployment \in Deployments /\ auth \in Users \cup {NoUser}
      /\ leaving \in BOOLEAN /\ mail \in BOOLEAN /\ running \in BOOLEAN
      /\ active \in Children \cup {NoChild}
      /\ pidFile \in [path : BOOLEAN, pid : Children \cup {NoChild}]
      /\ busy \in Sessions \cup {NoSession}
  BY DEF Init
<1>7. spawned \in 0 .. MaxTries /\ tries \in 0 .. MaxTries
      /\ holder \in [VMs -> Users \cup {NoUser}]
  BY DesktopAssumption DEF Init
<1> QED
  BY <1>1, <1>2, <1>3, <1>4, <1>5, <1>6, <1>7 DEF Typed, TypeOK

LEMMA NextTyped == Typed /\ [Next]_vars => Typed'
<1> SUFFICES ASSUME Typed, [Next]_vars PROVE Typed'
  OBVIOUS
<1>1. CASE Next
  BY <1>1, ProcessTyped, EventTyped, PageTyped, SessionTyped DEF Next
<1>2. CASE UNCHANGED vars
  BY <1>2 DEF vars, Typed, TypeOK, Budget, Pending
<1> QED
  BY <1>1, <1>2

\* Every variable of DesktopClient keeps its type: no attempt asks for a process
\* beyond its bound, and no status is one the page does not know.
THEOREM TypeCorrect == Spec => []TypeOK
<1>1. Typed => TypeOK
  BY DEF Typed
<1> QED
  BY <1>1, InitTyped, NextTyped, PTL DEF Spec

-----------------------------------------------------------------------------
(***************************************************************************)
(* The state the client shows                                              *)
(***************************************************************************)

Busy == {"connecting", "connected"}

\* Without pkexec no child that main still hears of has a launch error, hence
\* its 'close' is never passed over.
Heard == {"asked", "starting", "up"}

NoErrorWhileUp ==
    ~deployment.elevated =>
        \A c \in Children : child[c].pc \in Heard => ~child[c].launchError

Real == ConnectedIsReal /\ NoErrorWhileUp

\* What a step may do to the children without harm.
NoNewError ==
    \A c \in Children : child'[c].pc \in Heard /\ child'[c].launchError
                          => child[c].pc \in Heard /\ child[c].launchError

NoneEnds == \A c \in Children : child[c].pc = "up" => child'[c].pc = "up"

\* A step that leaves the shown state alone, or makes it an idle one, keeps Real
\* when it gives no running child an error.
LEMMA RealStep ==
    ASSUME Real, deployment' = deployment, NoNewError,
           \/ vpn' = vpn /\ NoneEnds
           \/ vpn' = vpn /\ vpn.status \notin Busy
           \/ vpn'.status \notin Busy
    PROVE  Real'
<1>1. NoErrorWhileUp'
  BY DEF Real, NoErrorWhileUp, NoNewError
<1>2. ConnectedIsReal'
  BY DEF Real, ConnectedIsReal, NoneEnds, Busy
<1> QED
  BY <1>1, <1>2 DEF Real

\* The children as one record after another is replaced.
LEMMA OneChild ==
    ASSUME Typed, NEW c \in Children, NEW r, child' = [child EXCEPT ![c] = r]
    PROVE  child'[c] = r /\ \A d \in Children \ {c} : child'[d] = child[d]
BY DEF Typed, TypeOK

\* Only the record of c changes: what RealStep asks of it.
LEMMA OneRecord ==
    ASSUME Typed, NEW c \in Children, NEW r, child' = [child EXCEPT ![c] = r],
           r.pc \in Heard /\ r.launchError
              => child[c].pc \in Heard /\ child[c].launchError
    PROVE  /\ NoNewError
           /\ (child[c].pc = "up" => r.pc = "up") => NoneEnds
<1>1. child'[c] = r /\ \A d \in Children \ {c} : child'[d] = child[d]
  BY OneChild
<1>2. NoNewError
  BY <1>1 DEF NoNewError
<1>3. ASSUME child[c].pc = "up" => r.pc = "up"
      PROVE  NoneEnds
  BY <1>1, <1>3 DEF NoneEnds
<1> QED
  BY <1>2, <1>3

LEMMA ProcessReal ==
    ASSUME Typed, Real, NEW c \in Children, Process(c)
    PROVE  Real'
<1>0. child \in [Children -> ChildRecord] /\ child[c] \in ChildRecord
  BY DEF Typed, TypeOK
<1>1. vpn' = vpn /\ deployment' = deployment
  BY DEF Process, Boot, Initialize, LosePeer, Exit, mainVars
<1>2. \E r : /\ child' = [child EXCEPT ![c] = r]
             /\ r.pc = child[c].pc /\ r.launchError = child[c].launchError
  <2>1. CASE Boot(c)
    <3> DEFINE r == [child[c] EXCEPT !.os = "running"]
    <3>1. child' = [child EXCEPT ![c] = r]
      BY <1>0, <2>1 DEF Boot
    <3>2. r.pc = child[c].pc /\ r.launchError = child[c].launchError
      BY <1>0 DEF ChildRecord
    <3> HIDE DEF r
    <3> QED
      BY <3>1, <3>2
  <2>2. CASE Initialize(c)
    <3> DEFINE r == [child[c] EXCEPT !.os = "tunnel", !.news = "completed"]
    <3>1. child' = [child EXCEPT ![c] = r]
      BY <1>0, <2>2 DEF Initialize
    <3>2. r.pc = child[c].pc /\ r.launchError = child[c].launchError
      BY <1>0 DEF ChildRecord
    <3> HIDE DEF r
    <3> QED
      BY <3>1, <3>2
  <2>3. CASE LosePeer(c)
    <3> DEFINE r == [child[c] EXCEPT !.os = "running", !.news = "failed"]
    <3>1. child' = [child EXCEPT ![c] = r]
      BY <1>0, <2>3 DEF LosePeer
    <3>2. r.pc = child[c].pc /\ r.launchError = child[c].launchError
      BY <1>0 DEF ChildRecord
    <3> HIDE DEF r
    <3> QED
      BY <3>1, <3>2
  <2>4. CASE Exit(c)
    <3>1. PICK code \in {0, 1} :
             child' = [child EXCEPT ![c].os = "gone", ![c].code = code]
      BY <2>4 DEF Exit
    <3> DEFINE r == [child[c] EXCEPT !.os = "gone", !.code = code]
    <3>2. child' = [child EXCEPT ![c] = r]
      BY <1>0, <3>1
    <3>3. r.pc = child[c].pc /\ r.launchError = child[c].launchError
      BY <1>0 DEF ChildRecord
    <3> HIDE DEF r
    <3> QED
      BY <3>2, <3>3
  <2> QED
    BY <2>1, <2>2, <2>3, <2>4 DEF Process
<1>3. NoNewError /\ NoneEnds
  BY <1>2, OneRecord
<1> QED
  BY <1>1, <1>3, RealStep

LEMMA EventReal ==
    ASSUME Typed, Real, NEW c \in Children, Event(c)
    PROVE  Real'
<1>0. /\ child \in [Children -> ChildRecord] /\ child[c] \in ChildRecord
      /\ deployment' = deployment
      /\ vpn \in [status : Statuses, pid : Children \cup {NoChild}]
  BY DEF Typed, TypeOK, Event, Spawned, SpawnFails, ReadCompleted, ReadFailed,
     KillDenied, Closed, Located
<1>1. "up" \in Heard /\ "starting" \in Heard /\ "asked" \in Heard
      /\ "closed" \notin Heard
  BY DEF Heard
<1>2. ASSUME NEW r, child' = [child EXCEPT ![c] = r], r.pc = "up",
             child[c].pc \in Heard, r.launchError = child[c].launchError,
             vpn' = [status |-> "connecting", pid |-> c]
               \/ vpn' = [status |-> "connected", pid |-> c]
      PROVE  Real'
  <2>1. NoNewError
    BY <1>1, <1>2, OneRecord
  <2>2. child'[c].pc = "up"
    BY <1>2, OneChild
  <2>3. NoErrorWhileUp'
    BY <1>0, <2>1 DEF Real, NoErrorWhileUp, NoNewError
  <2>4. vpn'.pid = c
    BY <1>2
  <2>5. ConnectedIsReal'
    BY <2>2, <2>4 DEF ConnectedIsReal
  <2> QED
    BY <2>3, <2>5 DEF Real
<1>3. ASSUME NEW r, child' = [child EXCEPT ![c] = r], r.pc \notin Heard,
             vpn' = [status |-> "error", pid |-> NoChild]
               \/ vpn' = [status |-> "disconnected", pid |-> NoChild]
      PROVE  Real'
  <2>1. NoNewError
    BY <1>3, OneRecord
  <2>2. vpn'.status \notin Busy
    BY <1>3 DEF Busy
  <2> QED
    BY <1>0, <2>1, <2>2, RealStep
<1>4. CASE Spawned(c)
  <2> DEFINE r == [child[c] EXCEPT !.pc = "up"]
  <2>1. child' = [child EXCEPT ![c] = r]
    BY <1>0, <1>4 DEF Spawned
  <2>2. r.pc = "up" /\ r.launchError = child[c].launchError
    BY <1>0 DEF ChildRecord
  <2> HIDE DEF r
  <2> QED
    BY <1>1, <1>2, <1>4, <2>1, <2>2 DEF Spawned, Update
<1>5. CASE SpawnFails(c)
  <2> DEFINE r == [child[c] EXCEPT !.pc = "closed", !.os = "gone",
                                   !.launchError = TRUE]
  <2>1. child' = [child EXCEPT ![c] = r]
    BY <1>0, <1>5 DEF SpawnFails
  <2>2. r.pc = "closed"
    BY <1>0 DEF ChildRecord
  <2> HIDE DEF r
  <2> QED
    BY <1>1, <1>3, <1>5, <2>1, <2>2 DEF SpawnFails, Update
<1>6. CASE ReadCompleted(c)
  <2> DEFINE r == [child[c] EXCEPT !.news = "none"]
  <2>1. child' = [child EXCEPT ![c] = r]
    BY <1>0, <1>6 DEF ReadCompleted
  <2>2. r.pc = child[c].pc /\ r.launchError = child[c].launchError
    BY <1>0 DEF ChildRecord
  <2> HIDE DEF r
  <2> QED
    BY <1>1, <1>2, <1>6, <2>1, <2>2 DEF ReadCompleted, Update
<1>7. CASE ReadFailed(c)
  <2> DEFINE r == [child[c] EXCEPT !.news = "none", !.fatal = TRUE,
                                   !.killed = child[c].killed \/ ~child[c].fatal]
  <2>1. child' = [child EXCEPT ![c] = r]
    BY <1>0, <1>7 DEF ReadFailed
  <2>2. r.pc = child[c].pc /\ r.launchError = child[c].launchError
    BY <1>0 DEF ChildRecord
  <2> HIDE DEF r
  <2>3. NoNewError /\ NoneEnds
    BY <2>1, <2>2, OneRecord
  <2> QED
    BY <1>0, <1>7, <2>3, RealStep DEF ReadFailed, mainVars
<1>8. CASE KillDenied(c)
  <2>1. deployment.elevated
    BY <1>8 DEF KillDenied
  <2> QED
    BY <1>0, <2>1 DEF Real, ConnectedIsReal, NoErrorWhileUp
<1>9. CASE Closed(c)
  <2> DEFINE r == [child[c] EXCEPT !.pc = "closed"]
  <2>1. child' = [child EXCEPT ![c] = r]
    BY <1>0, <1>9 DEF Closed
  <2>2. r.pc = "closed"
    BY <1>0 DEF ChildRecord
  <2> HIDE DEF r
  <2>3. CASE deployment.elevated
    BY <1>0, <2>3 DEF Real, ConnectedIsReal, NoErrorWhileUp
  <2>4. CASE ~deployment.elevated
    <3>1. ~child[c].launchError
      BY <1>1, <1>9, <2>4 DEF Closed, Real, NoErrorWhileUp
    <3> QED
      BY <1>1, <1>3, <1>9, <2>1, <2>2, <3>1 DEF Closed, Update
  <2> QED
    BY <2>3, <2>4
<1>10. CASE Located(c)
  <2>1. CASE vpn' = vpn /\ child' = [child EXCEPT ![c].pc = "starting", ![c].os = "booting"]
    <3> DEFINE r == [child[c] EXCEPT !.pc = "starting", !.os = "booting"]
    <3>1. child' = [child EXCEPT ![c] = r]
      BY <1>0, <2>1
    <3>2. r.pc = "starting" /\ r.launchError = child[c].launchError
      BY <1>0 DEF ChildRecord
    <3> HIDE DEF r
    <3>3. child[c].pc = "asked"
      BY <1>10 DEF Located
    <3>4. NoNewError /\ NoneEnds
      BY <1>1, <3>1, <3>2, <3>3, OneRecord
    <3> QED
      BY <1>0, <2>1, <3>4, RealStep
  <2>2. CASE Update("error", NoChild) /\ child' = [child EXCEPT ![c].pc = "closed"]
    <3> DEFINE r == [child[c] EXCEPT !.pc = "closed"]
    <3>1. child' = [child EXCEPT ![c] = r]
      BY <1>0, <2>2
    <3>2. r.pc = "closed"
      BY <1>0 DEF ChildRecord
    <3> HIDE DEF r
    <3> QED
      BY <1>1, <1>3, <2>2, <3>1, <3>2 DEF Update
  <2> QED
    BY <1>10, <2>1, <2>2 DEF Located
<1> QED
  BY <1>4, <1>5, <1>6, <1>7, <1>8, <1>9, <1>10 DEF Event

\* disconnectVPN sends signals and nothing else to the children.
LEMMA DisconnectReal ==
    ASSUME Typed, Real, DisconnectVPN, deployment' = deployment
    PROVE  Real'
<1>0. child \in [Children -> ChildRecord] /\ \A d \in Children : child[d] \in ChildRecord
  BY DEF Typed, TypeOK
<1>1. CASE UNCHANGED <<vpn, child>>
  BY <1>1, RealStep DEF NoNewError, NoneEnds
<1>2. CASE vpn' = [status |-> "disconnected", pid |-> NoChild]
           /\ \E hit \in SUBSET Known :
                 child' = [c \in Children |->
                              IF c \in hit /\ Alive(c)
                              THEN [child[c] EXCEPT !.killed = TRUE]
                              ELSE child[c]]
  <2>1. ASSUME NEW d \in Children
        PROVE  /\ [child[d] EXCEPT !.killed = TRUE].pc = child[d].pc
               /\ [child[d] EXCEPT !.killed = TRUE].launchError
                     = child[d].launchError
    BY <1>0 DEF ChildRecord
  <2>2. ASSUME NEW d \in Children
        PROVE  child'[d] = child[d] \/ child'[d] = [child[d] EXCEPT !.killed = TRUE]
    BY <1>2
  <2>3. NoNewError
    BY <2>1, <2>2 DEF NoNewError
  <2>4. vpn'.status \notin Busy
    BY <1>2 DEF Busy
  <2> QED
    BY <2>3, <2>4, RealStep
<1> QED
  BY <1>1, <1>2 DEF DisconnectVPN, Update

\* vpn:connect starts a process only while the shown state is an idle one.
LEMMA ConnectReal ==
    ASSUME Typed, Real, NEW u, Connect(u), vpn' = vpn, deployment' = deployment
    PROVE  Real'
<1>1. CASE child' = child
  BY <1>1, RealStep DEF NoNewError, NoneEnds
<1>2. CASE vpn.status \notin Busy
  <2> DEFINE r == [NoProcess EXCEPT
                     !.pc = IF deployment.windows THEN "asked" ELSE "starting",
                     !.os = IF deployment.windows THEN "none" ELSE "booting",
                     !.profile = u]
  <2>1. CASE child' = [child EXCEPT ![spawned + 1] = r]
    <3>1. ~r.launchError
      BY DEF NoProcess
    <3> HIDE DEF r
    <3>2. \A c \in Children : child'[c] = child[c] \/ child'[c] = r
      BY <2>1 DEF Typed, TypeOK
    <3>3. NoNewError
      BY <3>1, <3>2 DEF NoNewError
    <3> QED
      BY <1>2, <3>3, RealStep
  <2> QED
    BY <1>1, <2>1 DEF Connect
<1> QED
  BY <1>1, <1>2 DEF Connect, Busy

LEMMA PageReal ==
    ASSUME Typed, Real, Page \/ User
    PROVE  Real'
<1>1. ASSUME UNCHANGED <<deployment, vpn, child>>
      PROVE  Real'
  BY <1>1, RealStep DEF NoNewError, NoneEnds
<1>2. CASE (\E u \in Users : Login(u)) \/ Retry \/ AskConfig \/ LoggedOut
  BY <1>1, <1>2 DEF Login, Retry, AskConfig, LoggedOut, mainVars
<1>3. CASE Deliver
  BY <1>1, <1>3 DEF Deliver
<1>4. CASE GotConfig
  BY <1>4, ConnectReal DEF GotConfig
<1>5. CASE NoConfig
  <2>1. deployment' = deployment /\ NoNewError /\ vpn'.status \notin Busy
    BY <1>5 DEF NoConfig, NoNewError, Update, Busy
  <2> QED
    BY <2>1, RealStep
<1>6. CASE Logout \/ Quit
  BY <1>6, DisconnectReal DEF Logout, Quit
<1> QED
  BY <1>2, <1>3, <1>4, <1>5, <1>6 DEF Page, User

LEMMA SessionReal ==
    ASSUME Real, NEW s \in Sessions, Session(s)
    PROVE  Real'
<1>1. UNCHANGED <<deployment, vpn, child>>
  BY DEF Session, Open, Assign, AssignFails, CloseRdp, Release, mainVars
<1> QED
  BY <1>1, RealStep DEF NoNewError, NoneEnds

\* Without pkexec the client never says "connecting" or "connected" of a process
\* it has seen end, whatever logins, retries, logouts and late events overlap.
THEOREM TunnelIsReal == Spec => []ConnectedIsReal
<1>1. Init => Typed /\ Real
  <2> SUFFICES ASSUME Init PROVE Real
    BY InitTyped
  <2>1. vpn.status = "disconnected"
    BY DEF Init
  <2>2. \A c \in Children : ~child[c].launchError
    BY DEF Init, NoProcess
  <2> QED
    BY <2>1, <2>2 DEF Real, ConnectedIsReal, NoErrorWhileUp
<1>2. Typed /\ Real /\ [Next]_vars => (Typed /\ Real)'
  <2> SUFFICES ASSUME Typed, Real, [Next]_vars PROVE Real'
    BY NextTyped
  <2>1. CASE Next
    BY <2>1, ProcessReal, EventReal, PageReal, SessionReal DEF Next
  <2>2. CASE UNCHANGED vars
    BY <2>2, RealStep DEF vars, NoNewError, NoneEnds
  <2> QED
    BY <2>1, <2>2
<1>3. Typed /\ Real => ConnectedIsReal
  BY DEF Real
<1> QED
  BY <1>1, <1>2, <1>3, PTL DEF Spec

-----------------------------------------------------------------------------
(***************************************************************************)
(* The workstations a user holds                                           *)
(***************************************************************************)

HeldBy(u) == {v \in VMs : holder[v] = u}

\* The sessions of u that will yet release a workstation.
DueOf(u) == {s \in Sessions : session[s].pc \in {"rdp", "release"}
                               /\ session[s].user = u}

\* Nobody signs in beside an open session, or out of it.
OwnSessions ==
    ~deployment.leaves =>
        \A s \in OpenSessions : session[s].user = auth /\ auth # NoUser

SeatsCovered ==
    ~deployment.faults /\ ~deployment.leaves =>
        \A u \in Users : Cardinality(HeldBy(u)) <= Cardinality(DueOf(u))

Seats == OwnSessions /\ SeatsCovered

LEMMA FiniteSeats ==
    ASSUME NEW u
    PROVE  /\ IsFiniteSet(HeldBy(u)) /\ Cardinality(HeldBy(u)) \in Nat
           /\ IsFiniteSet(DueOf(u)) /\ Cardinality(DueOf(u)) \in Nat
<1>1. HeldBy(u) \subseteq VMs /\ DueOf(u) \subseteq Sessions
  BY DEF HeldBy, DueOf
<1>2. IsFiniteSet(HeldBy(u)) /\ IsFiniteSet(DueOf(u))
  BY <1>1, DesktopAssumption, FS_Subset
<1> QED
  BY <1>2, FS_CardinalityType

LEMMA OneMore ==
    ASSUME NEW S, NEW x, IsFiniteSet(S), x \notin S
    PROVE  Cardinality(S \cup {x}) = Cardinality(S) + 1
BY FS_AddElement, Zenon

LEMMA OneLess ==
    ASSUME NEW S, NEW x, IsFiniteSet(S), x \in S
    PROVE  Cardinality(S \ {x}) = Cardinality(S) - 1
BY FS_RemoveElement, Zenon

\* One more on the larger side, whatever comes to the smaller.
LEMMA BothGrow ==
    ASSUME NEW A, NEW B, NEW x, NEW y, IsFiniteSet(A), IsFiniteSet(B),
           x \notin A, y \notin B, Cardinality(A) <= Cardinality(B)
    PROVE  /\ Cardinality(A) <= Cardinality(B \cup {y})
           /\ Cardinality(A \cup {x}) <= Cardinality(B \cup {y})
<1>1. Cardinality(A) \in Nat /\ Cardinality(B) \in Nat
  BY FS_CardinalityType
<1>2. Cardinality(A \cup {x}) = Cardinality(A) + 1
  BY OneMore, Zenon
<1>3. Cardinality(B \cup {y}) = Cardinality(B) + 1
  BY OneMore, Zenon
<1> QED
  BY <1>1, <1>2, <1>3

LEMMA BothShrink ==
    ASSUME NEW A, NEW B, NEW x, NEW y, IsFiniteSet(A), IsFiniteSet(B),
           x \in A, y \in B, Cardinality(A) <= Cardinality(B)
    PROVE  Cardinality(A \ {x}) <= Cardinality(B \ {y})
<1>1. Cardinality(A) \in Nat /\ Cardinality(B) \in Nat
  BY FS_CardinalityType
<1>2. Cardinality(A \ {x}) = Cardinality(A) - 1
  BY OneLess, Zenon
<1>3. Cardinality(B \ {y}) = Cardinality(B) - 1
  BY OneLess, Zenon
<1> QED
  BY <1>1, <1>2, <1>3

\* What a step of one session does.
Taken(s) == \E v \in VMs : /\ holder[v] = NoUser
                           /\ holder' = [holder EXCEPT ![v] = session[s].user]
Freed == \E v \in VMs : /\ holder[v] = auth
                        /\ holder' = [holder EXCEPT ![v] = NoUser]

Quiet(s) == /\ holder' = holder
            /\ \/ session[s].pc = "idle" /\ session'[s].pc = "assign" /\ auth # NoUser
               \/ session[s].pc = "rdp" /\ session'[s].pc = "release"
Takes(s) == /\ session[s].pc = "assign"
            /\ \/ session'[s].pc \in {"rdp", "release"}
               \/ session'[s].pc = "done" /\ deployment.faults
            /\ holder' = holder \/ Taken(s)
Frees(s) == /\ session[s].pc = "release" /\ session'[s].pc = "done"
            /\ \/ Freed
               \/ /\ holder' = holder
                  /\ \/ deployment.faults \/ auth = NoUser
                     \/ \A v \in VMs : holder[v] # auth

LEMMA SessionFields ==
    ASSUME Typed, NEW s \in Sessions, Session(s)
    PROVE  /\ UNCHANGED <<deployment, auth>>
           /\ \A t \in Sessions \ {s} : session'[t] = session[t]
           /\ session'[s].user = IF session[s].pc = "idle" THEN auth
                                                          ELSE session[s].user
           /\ Quiet(s) \/ Takes(s) \/ Frees(s)
<1>0. session \in [Sessions -> SessionRecord] /\ session[s] \in SessionRecord
  BY DEF Typed, TypeOK
<1> USE DEF SessionRecord, Quiet, Takes, Taken, Frees, Freed
<1>1. CASE Open(s)
  BY <1>0, <1>1 DEF Open, mainVars
<1>2. CASE Assign(s)
  BY <1>0, <1>2 DEF Assign, pageVars
<1>3. CASE AssignFails(s)
  BY <1>0, <1>3 DEF AssignFails
<1>4. CASE CloseRdp(s)
  BY <1>0, <1>4 DEF CloseRdp, pageVars
<1>5. CASE Release(s)
  BY <1>0, <1>5 DEF Release
<1> QED
  BY <1>1, <1>2, <1>3, <1>4, <1>5 DEF Session

LEMMA SessionSeats ==
    ASSUME Typed, Seats, NEW s \in Sessions, Session(s)
    PROVE  Seats'
<1>0. /\ UNCHANGED <<deployment, auth>>
      /\ \A t \in Sessions \ {s} : session'[t] = session[t]
      /\ session'[s].user = IF session[s].pc = "idle" THEN auth ELSE session[s].user
  BY SessionFields
<1>h. holder \in [VMs -> Users \cup {NoUser}] /\ NoUser \notin Users
  BY DesktopAssumption DEF Typed, TypeOK
<1>1. OwnSessions'
  <2>1. session'[s].pc \in {"assign", "rdp", "release"} =>
           \/ session[s].pc = "idle" /\ auth # NoUser
           \/ session[s].pc \in {"assign", "rdp", "release"}
    BY SessionFields DEF Quiet, Takes, Frees
  <2>2. ASSUME NEW t \in OpenSessions', ~deployment.leaves
        PROVE  session'[t].user = auth /\ auth # NoUser
    <3>1. CASE t = s
      <4>1. CASE session[s].pc = "idle"
        BY <1>0, <2>1, <2>2, <3>1, <4>1 DEF OpenSessions
      <4>2. CASE session[s].pc # "idle"
        <5>1. s \in OpenSessions
          BY <2>1, <2>2, <3>1, <4>2 DEF OpenSessions
        <5> QED
          BY <1>0, <2>2, <3>1, <4>2, <5>1 DEF Seats, OwnSessions
      <4> QED
        BY <4>1, <4>2
    <3>2. CASE t # s
      <4>1. t \in OpenSessions
        BY <1>0, <2>2, <3>2 DEF OpenSessions
      <4> QED
        BY <1>0, <2>2, <3>2, <4>1 DEF Seats, OwnSessions, OpenSessions
    <3> QED
      BY <3>1, <3>2
  <2> QED
    BY <1>0, <2>2 DEF OwnSessions
<1>2. ASSUME ~deployment.faults, ~deployment.leaves, NEW u \in Users
      PROVE  Cardinality(HeldBy(u)') <= Cardinality(DueOf(u)')
  <2>0. /\ IsFiniteSet(HeldBy(u)) /\ IsFiniteSet(DueOf(u))
        /\ Cardinality(HeldBy(u)) <= Cardinality(DueOf(u))
        /\ HeldBy(u) \subseteq VMs /\ NoVM \notin VMs
    BY <1>2, FiniteSeats, DesktopAssumption DEF Seats, SeatsCovered, HeldBy
  <2>1. CASE Quiet(s)
    <3>1. HeldBy(u)' = HeldBy(u)
      BY <2>1 DEF HeldBy, Quiet
    <3>2. DueOf(u)' = DueOf(u)
      BY <1>0, <2>1 DEF DueOf, Quiet
    <3> QED
      BY <2>0, <3>1, <3>2
  <2>2. CASE Takes(s)
    <3>1. CASE session[s].user = u
      <4>1. DueOf(u)' = DueOf(u) \cup {s} /\ s \notin DueOf(u)
        BY <1>0, <1>2, <2>2, <3>1 DEF DueOf, Takes
      <4>2. CASE holder' = holder
        <5>1. HeldBy(u)' = HeldBy(u)
          BY <4>2 DEF HeldBy
        <5> QED
          BY <2>0, <4>1, <5>1, BothGrow
      <4>3. CASE Taken(s)
        <5>1. PICK v \in VMs : /\ holder[v] = NoUser
                               /\ holder' = [holder EXCEPT ![v] = session[s].user]
          BY <4>3 DEF Taken
        <5>2. HeldBy(u)' = HeldBy(u) \cup {v} /\ v \notin HeldBy(u)
          BY <1>h, <3>1, <5>1 DEF HeldBy
        <5> QED
          BY <2>0, <4>1, <5>2, BothGrow
      <4> QED
        BY <2>2, <4>2, <4>3 DEF Takes
    <3>2. CASE session[s].user # u
      <4>1. DueOf(u)' = DueOf(u)
        BY <1>0, <1>2, <2>2, <3>2 DEF DueOf, Takes
      <4>2. HeldBy(u)' = HeldBy(u)
        BY <1>h, <2>2, <3>2 DEF HeldBy, Takes, Taken
      <4> QED
        BY <2>0, <4>1, <4>2
    <3> QED
      BY <3>1, <3>2
  <2>3. CASE Frees(s)
    <3>0. session[s].user = auth /\ auth # NoUser
      BY <1>2, <2>3 DEF Seats, OwnSessions, OpenSessions, Frees
    <3>1. CASE auth = u
      <4>1. DueOf(u)' = DueOf(u) \ {s} /\ s \in DueOf(u)
        BY <1>0, <2>3, <3>0, <3>1 DEF DueOf, Frees
      <4>2. CASE holder' = holder /\ \A v \in VMs : holder[v] # auth
        <5>1. HeldBy(u)' = {}
          BY <3>1, <4>2 DEF HeldBy
        <5>2. Cardinality({}) = 0
          BY FS_EmptySet
        <5>3. IsFiniteSet(DueOf(u) \ {s})
          BY <2>0, FS_Difference
        <5>4. Cardinality(DueOf(u) \ {s}) \in Nat
          BY <5>3, FS_CardinalityType
        <5> QED
          BY <4>1, <5>1, <5>2, <5>4
      <4>3. CASE Freed
        <5>1. PICK v \in VMs : /\ holder[v] = auth
                               /\ holder' = [holder EXCEPT ![v] = NoUser]
          BY <4>3 DEF Freed
        <5>2. HeldBy(u)' = HeldBy(u) \ {v} /\ v \in HeldBy(u)
          BY <1>h, <3>1, <5>1 DEF HeldBy
        <5> QED
          BY <2>0, <4>1, <5>2, BothShrink
      <4> QED
        BY <1>2, <2>3, <3>0, <4>2, <4>3 DEF Frees
    <3>2. CASE auth # u
      <4>1. DueOf(u)' = DueOf(u)
        BY <1>0, <2>3, <3>0, <3>2 DEF DueOf, Frees
      <4>2. HeldBy(u)' = HeldBy(u)
        BY <1>h, <2>3, <3>2 DEF HeldBy, Frees, Freed
      <4> QED
        BY <2>0, <4>1, <4>2
    <3> QED
      BY <3>1, <3>2
  <2> QED
    BY <2>1, <2>2, <2>3, SessionFields
<1>3. SeatsCovered'
  BY <1>0, <1>2 DEF SeatsCovered
<1> QED
  BY <1>1, <1>3 DEF Seats

\* The other steps leave the sessions alone, and the token too while one is open.
LEMMA NextSeats == Typed /\ Seats /\ [Next]_vars => Seats'
<1> SUFFICES ASSUME Typed, Seats, [Next]_vars PROVE Seats'
  OBVIOUS
<1>1. ASSUME UNCHANGED <<deployment, session, holder>>,
             auth' = auth \/ auth = NoUser \/ deployment.leaves \/ OpenSessions = {}
      PROVE  Seats'
  <2>1. OpenSessions' = OpenSessions
    BY <1>1 DEF OpenSessions
  <2>2. OwnSessions'
    BY <1>1, <2>1 DEF Seats, OwnSessions
  <2>3. \A u : HeldBy(u)' = HeldBy(u) /\ DueOf(u)' = DueOf(u)
    BY <1>1 DEF HeldBy, DueOf
  <2>4. SeatsCovered'
    BY <1>1, <2>3 DEF Seats, SeatsCovered
  <2> QED
    BY <2>2, <2>4 DEF Seats
<1>2. ASSUME NEW c \in Children, Process(c) PROVE Seats'
  BY <1>1, <1>2 DEF Process, Boot, Initialize, LosePeer, Exit, pageVars,
     sessionVars
<1>3. ASSUME NEW c \in Children, Event(c) PROVE Seats'
  BY <1>1, <1>3 DEF Event, Spawned, SpawnFails, ReadCompleted, ReadFailed,
     KillDenied, Closed, Located, pageVars, sessionVars
<1>4. CASE Page
  BY <1>1, <1>4 DEF Page, AskConfig, GotConfig, NoConfig, Deliver, LoggedOut,
     sessionVars
<1>5. CASE User
  <2>1. CASE (\E u \in Users : Login(u)) \/ Retry
    BY <1>1, <2>1 DEF Login, Retry, sessionVars
  <2>2. CASE Logout
    BY <1>1, <2>2 DEF Logout, MayLeave, sessionVars
  <2>3. CASE Quit
    BY <1>1, <2>3 DEF Quit, pageVars, sessionVars
  <2> QED
    BY <1>5, <2>1, <2>2, <2>3 DEF User
<1>6. CASE UNCHANGED vars
  BY <1>1, <1>6 DEF vars
<1> QED
  BY <1>2, <1>3, <1>4, <1>5, <1>6, SessionSeats DEF Next

\* For any number of users, workstations and sessions: when no request fails and
\* nobody leaves an open session, every workstation a user holds has a session
\* of his that will release one.
THEOREM SeatsKept == Spec => []NoSeatLeft
<1>1. Init => Seats
  <2> SUFFICES ASSUME Init PROVE Seats
    OBVIOUS
  <2>1. OpenSessions = {}
    BY DEF Init, OpenSessions, NoRdp
  <2>2. ASSUME NEW u \in Users PROVE Cardinality(HeldBy(u)) <= Cardinality(DueOf(u))
    <3>1. HeldBy(u) = {} /\ DueOf(u) = {}
      BY DesktopAssumption DEF Init, HeldBy, DueOf, NoRdp
    <3>2. Cardinality({}) = 0
      BY FS_EmptySet
    <3> QED
      BY <3>1, <3>2
  <2> QED
    BY <2>1, <2>2 DEF Seats, OwnSessions, SeatsCovered
<1>2. Seats => NoSeatLeft
  <2> SUFFICES ASSUME Seats, ~deployment.faults, ~deployment.leaves, NEW u \in Users
               PROVE  Cardinality({v \in VMs : holder[v] = u})
                         <= Cardinality({s \in OpenSessions : session[s].user = u})
    BY DEF NoSeatLeft
  <2> DEFINE open == {s \in OpenSessions : session[s].user = u}
  <2>1. DueOf(u) \subseteq open /\ open \subseteq Sessions
    BY DEF DueOf, OpenSessions
  <2>2. IsFiniteSet(open)
    BY <2>1, DesktopAssumption, FS_Subset
  <2> HIDE DEF open
  <2>3. Cardinality(DueOf(u)) <= Cardinality(open) /\ Cardinality(open) \in Nat
    BY <2>1, <2>2, FS_Subset, FS_CardinalityType
  <2>4. Cardinality(HeldBy(u)) <= Cardinality(DueOf(u))
    BY DEF Seats, SeatsCovered
  <2>5. Cardinality(HeldBy(u)) <= Cardinality(open)
    BY <2>3, <2>4, FiniteSeats
  <2> QED
    BY <2>5 DEF HeldBy, open
<1> QED
  BY <1>1, <1>2, InitTyped, NextTyped, NextSeats, PTL DEF Spec

-----------------------------------------------------------------------------
(***************************************************************************)
(* One tunnel, and the user's own, for one who waits for what he asked for.*)
(***************************************************************************)

\* The children main still hears of.
Live(c) == child[c].pc \in Heard

\* At most one child is heard of, no other runs, and the state says that it is
\* up until it is killed.
OneTunnel ==
    /\ \A c, d \in Children : Live(c) /\ Live(d) => c = d
    /\ \A c \in Children : Alive(c) => child[c].pc \in {"starting", "up"}
    /\ \A c \in Children :
          child[c].pc = "up" /\ ~child[c].killed =>
              vpn.pid = c /\ vpn.status \in Busy

\* An attempt that may still ask for a child has seen that there is none, and
\* is of the user who is signed in.
AttemptAlone ==
    /\ attempt.pc = "config" => \A c \in Children : ~Live(c)
    /\ attempt.pc = "state" /\ attempt.seen \notin Busy
          => \A c \in Children : ~Live(c)
    /\ attempt.pc = "config" => attempt.user = auth
    /\ attempt.pc # "idle" => auth # NoUser

\* A child is of the user who is signed in.  When nobody is, it has been killed,
\* and the page shows the login or is about to.
OwnProfile ==
    /\ auth # NoUser => \A c \in Children : Live(c) => child[c].profile = auth
    /\ auth = NoUser => \A c \in Children : Live(c) => child[c].killed
    /\ auth = NoUser => leaving \/ ~page.login

Tunnel == OneTunnel /\ AttemptAlone /\ OwnProfile
TunnelInv == Serial => Tunnel

\* A step that writes the record of a child that is heard of.
LEMMA ChildTunnel ==
    ASSUME Typed, Tunnel, NEW c \in Children, Live(c), NEW r,
           child' = [child EXCEPT ![c] = r],
           r.profile = child[c].profile, child[c].killed => r.killed,
           r.os \in {"booting", "running", "tunnel"} => r.pc \in {"starting", "up"},
           r.pc = "up" /\ ~r.killed => vpn'.pid = c /\ vpn'.status \in Busy,
           attempt' = attempt \/ attempt' = Idle,
           UNCHANGED <<auth, page, leaving>>
    PROVE  Tunnel'
<1>1. child'[c] = r /\ \A d \in Children \ {c} : child'[d] = child[d]
  BY OneChild
<1>2. \A d \in Children \ {c} : ~Live(d) /\ ~Live(d)'
  BY <1>1 DEF Tunnel, OneTunnel, Live
<1>3. OneTunnel'
  <2>1. \A d \in Children : Live(d)' => d = c
    BY <1>2
  <2>2. ASSUME NEW d \in Children, Alive(d)'
        PROVE  child'[d].pc \in {"starting", "up"}
    BY <1>1, <1>2, <2>2 DEF Alive, Live, Tunnel, OneTunnel
  <2>3. ASSUME NEW d \in Children, child'[d].pc = "up", ~child'[d].killed
        PROVE  vpn'.pid = d /\ vpn'.status \in Busy
    <3>1. d = c
      BY <2>1, <2>3 DEF Live, Heard
    <3> QED
      BY <1>1, <2>3, <3>1
  <2> QED
    BY <2>1, <2>2, <2>3 DEF OneTunnel
<1>4. AttemptAlone'
  <2>1. attempt.pc # "config" /\ (attempt.pc = "state" => attempt.seen \in Busy)
    BY DEF Tunnel, AttemptAlone
  <2>2. Idle.pc = "idle"
    BY DEF Idle
  <2> QED
    BY <1>1, <1>2, <2>1, <2>2 DEF Tunnel, AttemptAlone
<1>5. OwnProfile'
  <2>1. ASSUME NEW d \in Children, Live(d)'
        PROVE  /\ child'[d].profile = child[c].profile
               /\ child[c].killed => child'[d].killed
    BY <1>1, <1>2, <2>1
  <2> QED
    BY <2>1 DEF Tunnel, OwnProfile
<1> QED
  BY <1>3, <1>4, <1>5 DEF Tunnel

\* A step that leaves the children and the state of the tunnel alone.
LEMMA ElsewhereTunnel ==
    ASSUME Tunnel, child' = child,
           vpn' = vpn \/ (\A c \in Children : ~Live(c)),
           AttemptAlone', OwnProfile'
    PROVE  Tunnel'
<1>1. OneTunnel'
  BY DEF Tunnel, OneTunnel, Live, Alive, Heard
<1> QED
  BY <1>1 DEF Tunnel

LEMMA ProcessTunnel ==
    ASSUME Typed, Tunnel, NEW c \in Children, Process(c)
    PROVE  Tunnel'
<1>0. child \in [Children -> ChildRecord] /\ child[c] \in ChildRecord
  BY DEF Typed, TypeOK
<1>1. /\ Alive(c) /\ UNCHANGED <<vpn, attempt, auth, page, leaving>>
      /\ \E os \in OS, news \in {"none", "completed", "failed"}, code \in {0, 1} :
            child' = [child EXCEPT ![c] = [child[c] EXCEPT !.os = os, !.news = news,
                                                           !.code = code]]
  <2>1. CASE Boot(c)
    <3>1. child' = [child EXCEPT ![c] = [child[c] EXCEPT !.os = "running",
                        !.news = child[c].news, !.code = child[c].code]]
      BY <1>0, <2>1 DEF Boot, ChildRecord
    <3> QED
      BY <1>0, <2>1, <3>1 DEF Boot, Alive, pageVars, ChildRecord, OS
  <2>2. CASE Initialize(c)
    <3>1. child' = [child EXCEPT ![c] = [child[c] EXCEPT !.os = "tunnel",
                        !.news = "completed", !.code = child[c].code]]
      BY <1>0, <2>2 DEF Initialize, ChildRecord
    <3> QED
      BY <1>0, <2>2, <3>1 DEF Initialize, Alive, pageVars, mainVars,
         ChildRecord, OS
  <2>3. CASE LosePeer(c)
    <3>1. child' = [child EXCEPT ![c] = [child[c] EXCEPT !.os = "running",
                        !.news = "failed", !.code = child[c].code]]
      BY <1>0, <2>3 DEF LosePeer, ChildRecord
    <3> QED
      BY <1>0, <2>3, <3>1 DEF LosePeer, Alive, pageVars, mainVars, ChildRecord,
         OS
  <2>4. CASE Exit(c)
    <3>1. PICK code \in {0, 1} :
             child' = [child EXCEPT ![c].os = "gone", ![c].code = code]
      BY <2>4 DEF Exit
    <3>2. child' = [child EXCEPT ![c] = [child[c] EXCEPT !.os = "gone",
                        !.news = child[c].news, !.code = code]]
      BY <1>0, <3>1 DEF ChildRecord
    <3> QED
      BY <1>0, <2>4, <3>2 DEF Exit, pageVars, mainVars, ChildRecord, OS
  <2> QED
    BY <2>1, <2>2, <2>3, <2>4 DEF Process
<1>2. PICK os \in OS, news \in {"none", "completed", "failed"}, code \in {0, 1} :
          child' = [child EXCEPT ![c] = [child[c] EXCEPT !.os = os, !.news = news,
                                                         !.code = code]]
  BY <1>1
<1> DEFINE r == [child[c] EXCEPT !.os = os, !.news = news, !.code = code]
<1>3. r.pc = child[c].pc /\ r.profile = child[c].profile /\ r.killed = child[c].killed
  BY <1>0 DEF ChildRecord
<1>4. child' = [child EXCEPT ![c] = r]
  BY <1>2
<1> HIDE DEF r
<1>5. Live(c)
  BY <1>1 DEF Tunnel, OneTunnel, Live, Heard
<1>6. r.pc = "up" /\ ~r.killed => vpn'.pid = c /\ vpn'.status \in Busy
  BY <1>1, <1>3 DEF Tunnel, OneTunnel
<1>7. r.pc \in {"starting", "up"}
  BY <1>1, <1>3 DEF Tunnel, OneTunnel
<1> QED
  BY <1>1, <1>3, <1>4, <1>5, <1>6, <1>7, ChildTunnel

LEMMA EventTunnel ==
    ASSUME Typed, Serial, Tunnel, NEW c \in Children, Event(c)
    PROVE  Tunnel'
<1>0. /\ child \in [Children -> ChildRecord] /\ child[c] \in ChildRecord
      /\ ~deployment.elevated
  BY DEF Typed, TypeOK, Serial
<1>1. /\ Live(c) /\ UNCHANGED <<auth, page, leaving>>
      /\ attempt' = attempt \/ attempt' = Idle
  BY DEF Event, Spawned, SpawnFails, ReadCompleted, ReadFailed, KillDenied,
     Closed, Located, Live, Heard, pageVars
<1>2. ASSUME NEW r, child' = [child EXCEPT ![c] = r],
             r.profile = child[c].profile, child[c].killed => r.killed,
             r.os \in {"booting", "running", "tunnel"} => r.pc \in {"starting", "up"},
             r.pc = "up" /\ ~r.killed => vpn'.pid = c /\ vpn'.status \in Busy
      PROVE  Tunnel'
  BY <1>1, <1>2, ChildTunnel
<1>3. CASE Spawned(c)
  <2> DEFINE r == [child[c] EXCEPT !.pc = "up"]
  <2>1. child' = [child EXCEPT ![c] = r]
    BY <1>0, <1>3 DEF Spawned
  <2>2. /\ r.pc = "up" /\ r.profile = child[c].profile /\ r.killed = child[c].killed
    BY <1>0 DEF ChildRecord
  <2>3. vpn'.pid = c /\ vpn'.status \in Busy
    BY <1>3 DEF Spawned, Update, Busy
  <2> HIDE DEF r
  <2> QED
    BY <1>2, <2>1, <2>2, <2>3 DEF Heard
<1>4. CASE SpawnFails(c)
  <2> DEFINE r == [child[c] EXCEPT !.pc = "closed", !.os = "gone", !.launchError = TRUE]
  <2>1. child' = [child EXCEPT ![c] = r]
    BY <1>0, <1>4 DEF SpawnFails
  <2>2. /\ r.pc = "closed" /\ r.os = "gone"
        /\ r.profile = child[c].profile /\ r.killed = child[c].killed
    BY <1>0 DEF ChildRecord
  <2> HIDE DEF r
  <2> QED
    BY <1>2, <2>1, <2>2
<1>5. CASE ReadCompleted(c)
  <2> DEFINE r == [child[c] EXCEPT !.news = "none"]
  <2>1. child' = [child EXCEPT ![c] = r]
    BY <1>0, <1>5 DEF ReadCompleted
  <2>2. /\ r.pc = "up" /\ r.profile = child[c].profile /\ r.killed = child[c].killed
    BY <1>0, <1>5 DEF ReadCompleted, ChildRecord
  <2>3. vpn'.pid = c /\ vpn'.status \in Busy
    BY <1>5 DEF ReadCompleted, Update, Busy
  <2> HIDE DEF r
  <2> QED
    BY <1>2, <2>1, <2>2, <2>3 DEF Heard
<1>6. CASE ReadFailed(c)
  <2> DEFINE r == [child[c] EXCEPT !.news = "none", !.fatal = TRUE,
                                   !.killed = @ \/ ~child[c].fatal]
  <2>1. child' = [child EXCEPT ![c] = r]
    BY <1>0, <1>6 DEF ReadFailed
  <2>2. /\ r.pc = "up" /\ r.profile = child[c].profile /\ (child[c].killed => r.killed)
    <3>1. child[c].killed \in BOOLEAN /\ child[c].fatal \in BOOLEAN
      BY <1>0 DEF ChildRecord
    <3> QED
      BY <1>0, <1>6, <3>1 DEF ReadFailed, ChildRecord
  <2>3. vpn' = vpn /\ child[c].pc = "up"
    BY <1>6 DEF ReadFailed, mainVars
  <2> HIDE DEF r
  <2> QED
    BY <1>2, <2>1, <2>2, <2>3 DEF Heard, Tunnel, OneTunnel
<1>7. CASE KillDenied(c)
  BY <1>0, <1>7 DEF KillDenied
<1>8. CASE Closed(c)
  <2> DEFINE r == [child[c] EXCEPT !.pc = "closed"]
  <2>1. child' = [child EXCEPT ![c] = r]
    BY <1>0, <1>8 DEF Closed
  <2>2. /\ r.pc = "closed" /\ r.os = "gone"
        /\ r.profile = child[c].profile /\ r.killed = child[c].killed
    BY <1>0, <1>8 DEF Closed, ChildRecord
  <2> HIDE DEF r
  <2> QED
    BY <1>2, <2>1, <2>2
<1>9. CASE Located(c)
  <2>1. CASE child' = [child EXCEPT ![c].pc = "starting", ![c].os = "booting"]
    <3> DEFINE r == [child[c] EXCEPT !.pc = "starting", !.os = "booting"]
    <3>1. child' = [child EXCEPT ![c] = r]
      BY <1>0, <2>1
    <3>2. /\ r.pc = "starting"
          /\ r.profile = child[c].profile /\ r.killed = child[c].killed
      BY <1>0 DEF ChildRecord
    <3> HIDE DEF r
    <3> QED
      BY <1>2, <3>1, <3>2 DEF Heard
  <2>2. CASE child' = [child EXCEPT ![c].pc = "closed"] /\ ~Alive(c)
    <3> DEFINE r == [child[c] EXCEPT !.pc = "closed"]
    <3>1. child' = [child EXCEPT ![c] = r]
      BY <1>0, <2>2
    <3>2. /\ r.pc = "closed" /\ r.os = child[c].os
          /\ r.profile = child[c].profile /\ r.killed = child[c].killed
      BY <1>0 DEF ChildRecord
    <3> HIDE DEF r
    <3> QED
      BY <1>2, <2>2, <3>1, <3>2 DEF Alive
  <2> QED
    BY <1>9, <2>1, <2>2 DEF Located, Tunnel, OneTunnel
<1> QED
  BY <1>3, <1>4, <1>5, <1>6, <1>7, <1>8, <1>9 DEF Event

-----------------------------------------------------------------------------
(***************************************************************************)
(* The tunnel: what the page and the user do.                              *)
(***************************************************************************)

\* Who may act again is waiting for nothing: the child there is is up.
LEMMA SettledTunnel ==
    ASSUME Tunnel, Settled, NEW c \in Children, Live(c)
    PROVE  /\ child[c].pc = "up" /\ ~child[c].killed /\ Alive(c)
           /\ vpn.pid = c /\ vpn.status \in Busy
           /\ auth # NoUser
BY DEF Settled, Tunnel, OneTunnel, OwnProfile, Live, Heard

\* The disconnect that the user asks for reaches the child there is.
LEMMA DisconnectKills ==
    ASSUME Typed, Serial, Tunnel, Settled, DisconnectVPN
    PROVE  /\ OneTunnel'
           /\ \A c \in Children :
                 Live(c)' => Live(c) /\ child'[c].killed
                                /\ child'[c].profile = child[c].profile
<1>0. child \in [Children -> ChildRecord] /\ NoChild \notin Children
  BY DEF Typed, TypeOK, NoChild, Children
<1>1. CASE \A c \in Children : ~Live(c)
  <2>1. \A c \in Children : ~Alive(c)
    BY <1>1 DEF Tunnel, OneTunnel, Live, Heard
  <2>2. child' = child
    <3>1. CASE UNCHANGED child
      BY <3>1
    <3>2. CASE child' = [c \in Children |-> child[c]]
      BY <1>0, <3>2
    <3>3. CASE \E hit \in SUBSET Known :
                  child' = [c \in Children |-> IF c \in hit /\ Alive(c)
                               THEN [child[c] EXCEPT !.killed = TRUE]
                               ELSE child[c]]
      BY <1>0, <2>1, <3>3
    <3> QED
      BY <3>1, <3>3 DEF DisconnectVPN
  <2> QED
    BY <1>1, <2>1, <2>2 DEF OneTunnel, Live, Alive, Heard
<1>2. ASSUME NEW c \in Children, Live(c)
      PROVE  child' = [child EXCEPT ![c] = [child[c] EXCEPT !.killed = TRUE]]
  <2>1. /\ vpn.pid = c /\ Alive(c) /\ \A d \in Children \ {c} : ~Alive(d)
    BY <1>2, SettledTunnel DEF Tunnel, OneTunnel, Live, Heard
  <2>2. c \in Known /\ ~deployment.elevated
    BY <1>0, <2>1 DEF Known, Serial
  <2>3. child' = [d \in Children |-> IF d \in Known /\ Alive(d)
                     THEN [child[d] EXCEPT !.killed = TRUE] ELSE child[d]]
    BY <2>2 DEF DisconnectVPN
  <2> QED
    BY <1>0, <2>1, <2>2, <2>3
<1>3. ASSUME NEW c \in Children, Live(c)
      PROVE  /\ \A d \in Children \ {c} : child'[d] = child[d]
             /\ child'[c].killed /\ child'[c].pc = child[c].pc
             /\ child'[c].os = child[c].os /\ child'[c].profile = child[c].profile
  BY <1>0, <1>2, <1>3 DEF ChildRecord
<1>4. ASSUME NEW c \in Children, Live(c)
      PROVE  /\ \A d \in Children : Live(d)' => d = c
             /\ \A d \in Children : Alive(d)' => child'[d].pc \in {"starting", "up"}
  BY <1>3, <1>4 DEF Tunnel, OneTunnel, Live, Alive
<1>5. ASSUME NEW c \in Children, Live(c)
      PROVE  OneTunnel'
  <2>1. \A d \in Children \ {c} : ~Live(d)'
    BY <1>4, <1>5
  <2>2. child'[c].killed
    BY <1>3, <1>5
  <2>3. \A d \in Children : ~(child'[d].pc = "up" /\ ~child'[d].killed)
    BY <2>1, <2>2 DEF Live, Heard
  <2> QED
    BY <1>4, <1>5, <2>3 DEF OneTunnel
<1>6. ASSUME NEW c \in Children, Live(c)
      PROVE  \A d \in Children :
                Live(d)' => Live(d) /\ child'[d].killed
                               /\ child'[d].profile = child[d].profile
  BY <1>3, <1>4, <1>6
<1> QED
  BY <1>1, <1>5, <1>6

\* A new child is the only one, and has the profile of the user who is signed in.
LEMMA ConnectTunnel ==
    ASSUME Typed, Serial, Tunnel, GotConfig
    PROVE  Tunnel'
<1>0. /\ child \in [Children -> ChildRecord]
      /\ attempt.pc = "config" /\ Connect(attempt.user) /\ attempt.user = auth
      /\ \A c \in Children : ~Live(c)
      /\ UNCHANGED <<auth, page, leaving, vpn>>
      /\ auth # NoUser
  BY DEF GotConfig, Typed, TypeOK, Tunnel, AttemptAlone
<1>1. attempt'.pc \in {"idle", "connect"}
  <2>1. attempt \in AttemptRecord
    BY DEF Typed, TypeOK
  <2> QED
    BY <2>1 DEF GotConfig, Idle, AttemptRecord
<1>2. AttemptAlone'
  BY <1>0, <1>1 DEF AttemptAlone
<1>3. CASE child' = child
  BY <1>0, <1>2, <1>3, ElsewhereTunnel DEF OwnProfile, Tunnel, Live
<1>4. CASE child' # child
  <2>1. PICK c \in Children, r \in ChildRecord :
           /\ child' = [child EXCEPT ![c] = r]
           /\ r.pc \in {"asked", "starting"} /\ r.profile = auth
           /\ r.pc = "asked" => r.os = "none"
    <3>1. spawned + 1 \in Children
      BY <1>0, DesktopAssumption DEF Typed, TypeOK, Budget, Pending, Children
    <3> DEFINE r == [NoProcess EXCEPT
                        !.pc = IF deployment.windows THEN "asked" ELSE "starting",
                        !.os = IF deployment.windows THEN "none" ELSE "booting",
                        !.profile = auth]
    <3>2. child' = [child EXCEPT ![spawned + 1] = r]
      BY <1>0, <1>4 DEF Connect
    <3>3. auth \in Users \cup {NoUser}
      BY DEF Typed, TypeOK
    <3>4. /\ r.pc \in {"asked", "starting"} /\ r.profile = auth
          /\ r.pc = "asked" => r.os = "none"
      BY DEF NoProcess
    <3>5. r \in ChildRecord
      BY <3>3 DEF NoProcess, ChildRecord
    <3> HIDE DEF r
    <3> QED
      BY <3>1, <3>2, <3>4, <3>5
  <2>2. child'[c] = r /\ \A d \in Children \ {c} : child'[d] = child[d]
    BY <1>0, <2>1
  <2>3. \A d \in Children \ {c} : ~Live(d)' /\ ~Alive(d)'
    BY <1>0, <2>2 DEF Live, Alive, Tunnel, OneTunnel, Heard
  <2>4. OneTunnel'
    <3>1. \A d \in Children : Alive(d)' => child'[d].pc \in {"starting", "up"}
      BY <2>1, <2>2, <2>3 DEF Alive
    <3>2. \A d \in Children : child'[d].pc # "up"
      BY <2>1, <2>2, <2>3 DEF Live, Heard
    <3> QED
      BY <2>3, <3>1, <3>2 DEF OneTunnel
  <2>5. OwnProfile'
    BY <1>0, <2>1, <2>2, <2>3 DEF OwnProfile
  <2> QED
    BY <1>2, <2>4, <2>5 DEF Tunnel
<1> QED
  BY <1>3, <1>4

LEMMA PageTunnel ==
    ASSUME Typed, Serial, Tunnel, Page
    PROVE  Tunnel'
<1>0. attempt \in AttemptRecord /\ Idle.pc = "idle"
  BY DEF Typed, TypeOK, Idle
<1>1. CASE AskConfig
  <2>1. /\ UNCHANGED <<auth, leaving, child, vpn>> /\ page'.login = page.login
        /\ attempt.pc = "state"
    BY <1>1 DEF AskConfig, Show, mainVars
  <2>2. auth # NoUser
    BY <2>1 DEF Tunnel, AttemptAlone
  <2>3. AttemptAlone'
    <3>1. CASE attempt' = Idle
      BY <1>0, <3>1 DEF AttemptAlone
    <3>2. CASE /\ attempt' = [attempt EXCEPT !.pc = "config", !.user = auth]
               /\ attempt.seen \notin Busy
      <4>1. attempt'.pc = "config" /\ attempt'.user = auth
        BY <1>0, <3>2 DEF AttemptRecord
      <4> QED
        BY <2>1, <2>2, <3>2, <4>1 DEF Tunnel, AttemptAlone, Live
    <3> QED
      BY <1>1, <3>1, <3>2 DEF AskConfig, Busy
  <2>4. OwnProfile'
    BY <2>1 DEF Tunnel, OwnProfile, Live
  <2> QED
    BY <2>1, <2>3, <2>4, ElsewhereTunnel
<1>2. CASE NoConfig
  <2>1. /\ UNCHANGED <<auth, leaving, child>> /\ page'.login = page.login
        /\ attempt.pc = "config" /\ attempt' = Idle
    BY <1>2 DEF NoConfig, Show
  <2>2. \A c \in Children : ~Live(c)
    BY <2>1 DEF Tunnel, AttemptAlone
  <2>3. AttemptAlone' /\ OwnProfile'
    BY <1>0, <2>1 DEF Tunnel, AttemptAlone, OwnProfile, Live
  <2> QED
    BY <2>1, <2>2, <2>3, ElsewhereTunnel
<1>3. CASE Deliver
  <2>1. UNCHANGED <<auth, leaving, child, vpn, attempt>> /\ page'.login = page.login
    BY <1>3 DEF Deliver, Show
  <2>2. AttemptAlone' /\ OwnProfile'
    BY <2>1 DEF Tunnel, AttemptAlone, OwnProfile, Live
  <2> QED
    BY <2>1, <2>2, ElsewhereTunnel
<1>4. CASE LoggedOut
  <2>1. UNCHANGED <<auth, child, vpn, attempt>> /\ page'.login = FALSE
    BY <1>4 DEF LoggedOut, Show, mainVars
  <2>2. AttemptAlone' /\ OwnProfile'
    BY <2>1 DEF Tunnel, AttemptAlone, OwnProfile, Live
  <2> QED
    BY <2>1, <2>2, ElsewhereTunnel
<1> QED
  BY <1>1, <1>2, <1>3, <1>4, ConnectTunnel DEF Page

LEMMA UserTunnel ==
    ASSUME Typed, Serial, Tunnel, User
    PROVE  Tunnel'
<1>0. attempt \in AttemptRecord /\ Idle.pc = "idle"
  BY DEF Typed, TypeOK, Idle
<1>1. Settled /\ attempt.pc = "idle"
  BY DEF User, Login, Retry, Logout, Quit, UserMayAct, Serial, Settled
<1>2. ASSUME TryConnect, UNCHANGED <<child, vpn>>, auth' # NoUser
      PROVE  AttemptAlone'
  <2>1. attempt'.pc = "state" /\ attempt'.seen = vpn.status
    BY <1>1, <1>2 DEF TryConnect, Idle
  <2>2. vpn.status \notin Busy => \A c \in Children : ~Live(c)
    BY <1>1, SettledTunnel
  <2> QED
    BY <1>2, <2>1, <2>2 DEF AttemptAlone, Live
<1>3. ASSUME NEW u \in Users, Login(u) PROVE Tunnel'
  <2>1. /\ auth = NoUser /\ auth' # NoUser /\ TryConnect
        /\ UNCHANGED <<child, vpn>>
    BY <1>3, DesktopAssumption DEF Login, mainVars
  <2>2. \A c \in Children : ~Live(c)
    BY <1>1, <2>1, SettledTunnel
  <2>3. OwnProfile'
    BY <2>1, <2>2 DEF OwnProfile, Live
  <2> QED
    BY <1>2, <2>1, <2>3, ElsewhereTunnel
<1>4. CASE Retry
  <2>1. /\ auth # NoUser /\ TryConnect
        /\ UNCHANGED <<child, vpn, auth, page, leaving>>
    BY <1>4 DEF Retry, mainVars
  <2>2. OwnProfile'
    BY <2>1 DEF Tunnel, OwnProfile, Live
  <2> QED
    BY <1>2, <2>1, <2>2, ElsewhereTunnel
<1>5. CASE Logout
  <2>1. auth' = NoUser /\ leaving' = TRUE /\ attempt' = attempt /\ DisconnectVPN
    BY <1>5 DEF Logout
  <2>2. AttemptAlone'
    BY <1>1, <2>1 DEF AttemptAlone
  <2>3. OneTunnel' /\ OwnProfile'
    BY <1>1, <2>1, DisconnectKills DEF OwnProfile
  <2> QED
    BY <2>2, <2>3 DEF Tunnel
<1>6. CASE Quit
  <2>1. UNCHANGED <<auth, leaving, page, attempt>> /\ DisconnectVPN
    BY <1>6 DEF Quit, pageVars
  <2>2. AttemptAlone'
    BY <1>1, <2>1 DEF AttemptAlone, Tunnel
  <2>3. OneTunnel' /\ OwnProfile'
    BY <1>1, <2>1, DisconnectKills DEF OwnProfile, Tunnel
  <2> QED
    BY <2>2, <2>3 DEF Tunnel
<1> QED
  BY <1>3, <1>4, <1>5, <1>6 DEF User

LEMMA NextTunnel == Typed /\ TunnelInv /\ [Next]_vars => TunnelInv'
<1> SUFFICES ASSUME Typed, TunnelInv, [Next]_vars, Serial' PROVE Tunnel'
  BY DEF TunnelInv
<1>1. deployment' = deployment
  <2>1. CASE UNCHANGED vars
    BY <2>1 DEF vars
  <2>2. ASSUME NEW c \in Children, Process(c) PROVE deployment' = deployment
    BY <2>2 DEF Process, Boot, Initialize, LosePeer, Exit
  <2>3. ASSUME NEW c \in Children, Event(c) PROVE deployment' = deployment
    BY <2>3 DEF Event, Spawned, SpawnFails, ReadCompleted, ReadFailed,
       KillDenied, Closed, Located
  <2>4. CASE Page
    BY <2>4 DEF Page, AskConfig, GotConfig, NoConfig, Deliver, LoggedOut
  <2>5. CASE User
    BY <2>5 DEF User, Login, Retry, Logout, Quit
  <2>6. ASSUME NEW s \in Sessions, Session(s) PROVE deployment' = deployment
    BY <2>6 DEF Session, Open, Assign, AssignFails, CloseRdp, Release
  <2> QED
    BY <2>1, <2>2, <2>3, <2>4, <2>5, <2>6 DEF Next
<1>2. Serial /\ Tunnel
  BY <1>1 DEF TunnelInv, Serial
<1>3. ASSUME UNCHANGED <<child, vpn, attempt, auth, page, leaving>> PROVE Tunnel'
  BY <1>2, <1>3 DEF Tunnel, OneTunnel, AttemptAlone, OwnProfile, Live, Alive
<1>4. ASSUME NEW s \in Sessions, Session(s) PROVE Tunnel'
  BY <1>3, <1>4 DEF Session, Open, Assign, AssignFails, CloseRdp, Release,
     mainVars, pageVars
<1>5. CASE UNCHANGED vars
  BY <1>3, <1>5 DEF vars
<1> QED
  BY <1>2, <1>4, <1>5, ProcessTunnel, EventTunnel, PageTunnel, UserTunnel
     DEF Next

\* A user who waits for what he asked for has one OpenVPN process at the most,
\* and the workstations he is shown are reached through his own profile, for any
\* number of users and attempts, however OpenVPN, the Server and the network fail.
THEOREM OneOwnTunnel == Spec => []TunnelIsUsers
<1>1. Init => Typed /\ TunnelInv
  <2> SUFFICES ASSUME Init PROVE Tunnel
    BY InitTyped DEF TunnelInv
  <2>1. \A c \in Children : child[c].pc = "none" /\ child[c].os = "none"
    BY DEF Init, NoProcess
  <2> QED
    BY <2>1 DEF Init, Tunnel, OneTunnel, AttemptAlone, OwnProfile, Live, Alive,
       Heard, Idle
<1>2. TunnelInv => TunnelIsUsers
  <2> SUFFICES ASSUME TunnelInv, Serial
               PROVE  /\ Cardinality({c \in Children : Alive(c)}) <= 1
                      /\ Shown /\ ~leaving =>
                            \A c \in Children : Alive(c) => child[c].profile = auth
    BY DEF TunnelIsUsers
  <2>1. \A c \in Children : Alive(c) => Live(c)
    BY DEF TunnelInv, Tunnel, OneTunnel, Live, Heard
  <2>2. Cardinality({c \in Children : Alive(c)}) <= 1
    <3>1. CASE \A c \in Children : ~Alive(c)
      <4>1. {c \in Children : Alive(c)} = {}
        BY <3>1
      <4> QED
        BY <4>1, FS_EmptySet
    <3>2. ASSUME NEW c \in Children, Alive(c)
          PROVE  Cardinality({d \in Children : Alive(d)}) <= 1
      <4>1. {d \in Children : Alive(d)} = {c}
        BY <2>1, <3>2 DEF TunnelInv, Tunnel, OneTunnel
      <4>2. Cardinality({c}) = 1
        BY FS_Singleton
      <4> QED
        BY <4>1, <4>2
    <3> QED
      BY <3>1, <3>2
  <2>3. ASSUME Shown, ~leaving, NEW c \in Children, Alive(c)
        PROVE  child[c].profile = auth
    BY <2>1, <2>3 DEF TunnelInv, Tunnel, OwnProfile, Shown
  <2> QED
    BY <2>2, <2>3
<1>3. Typed /\ TunnelInv /\ [Next]_vars => (Typed /\ TunnelInv)'
  BY NextTyped, NextTunnel
<1> QED
  BY <1>1, <1>2, <1>3, PTL DEF Spec
=============================================================================
