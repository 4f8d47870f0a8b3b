---------------------------- MODULE DesktopClient ----------------------------
(***************************************************************************)
(* The desktop client: the Electron main process that runs OpenVPN, the    *)
(* page that signs in, asks for the tunnel and shows the workstations once *)
(* it is told the tunnel is up, and the remote sessions it opens on them.  *)
(*                                                                         *)
(* The main process learns what its OpenVPN child does by events, each     *)
(* after the fact; the page learns the state by pushes and by what it      *)
(* asked for earlier.  A handler runs to its next await without a break.   *)
(***************************************************************************)
EXTENDS Naturals, FiniteSets

CONSTANTS
    Users,
    VMs,          \* workstations the users may be given
    Sessions,     \* remote sessions, one per click on a template (a bound)
    MaxTries,     \* how often the page tries to connect (a bound)
    Deployments,  \* where the client runs, see DeploymentType
    NoUser, NoVM, NoSession

Children == 1 .. MaxTries   \* OpenVPN processes, in the order they are spawned
NoChild == 0

DeploymentType ==
    [users : SUBSET Users, profiles : SUBSET Users,
     overlap : BOOLEAN,   \* does the user act before an earlier act settled
     elevated : BOOLEAN,  \* Linux without root: OpenVPN runs under pkexec
     windows : BOOLEAN,   \* the registry is read before OpenVPN is spawned
     fails : BOOLEAN,     \* may OpenVPN fail or exit of itself
     codeZero : BOOLEAN,  \* ... and exit with code 0 then
     faults : BOOLEAN,    \* may a request to the Server fail
     leaves : BOOLEAN,    \* does the user leave while a session is open
     sessions : SUBSET Sessions, tries : 0 .. MaxTries]   \* its load

ASSUME DesktopAssumption ==
    /\ MaxTries \in Nat
    /\ IsFiniteSet(VMs) /\ IsFiniteSet(Sessions)
    /\ NoUser \notin Users /\ NoVM \notin VMs /\ NoSession \notin Sessions
    /\ Deployments \subseteq DeploymentType

VARIABLES
    deployment,
    auth,       \* whose token authStore keeps
    page,       \* App: isAuthenticated and the vpnState it shows
    attempt,    \* tryConnectVPN, while vpnConnectInFlight
    leaving,    \* handleAuthChanged after a logout, at its await
    mail,       \* a vpn:stateChanged is on its way to the page
    vpn,        \* vpnState of the main process
    active,     \* activeVPNProcess
    pidFile,    \* activeVPNPidFile: is the path set, and the pid in the file
    spawned,    \* how many children were asked for
    child,      \* the children
    session,    \* handleTemplateConnect, one per session
    busy,       \* activeRdpTemplateId of the page
    holder,     \* holder[v]: cur_user_id of workstation v
    tries,      \* attempts so far
    running     \* FALSE once the application has quit

vars == <<deployment, auth, page, attempt, leaving, mail, vpn, active, pidFile,
          spawned, child, session, busy, holder, tries, running>>
pageVars == <<auth, page, attempt, leaving, busy, tries>>
mainVars == <<mail, vpn, active, pidFile, spawned>>
sessionVars == <<session, holder>>

Statuses == {"disconnected", "connecting", "connected", "error"}

Idle == [pc |-> "idle", seen |-> "disconnected", user |-> NoUser]
AttemptRecord == [pc : {"idle", "state", "config", "connect"}, seen : Statuses,
                  user : Users \cup {NoUser}]

NoProcess == [pc |-> "none", os |-> "none", killed |-> FALSE, news |-> "none",
              fatal |-> FALSE, launchError |-> FALSE, code |-> 0,
              profile |-> NoUser]
ChildRecord ==
    [pc : {"none", "asked", "starting", "up", "closed"},  \* what main knows
     os : {"none", "booting", "running", "tunnel", "gone"},
     killed : BOOLEAN,
     news : {"none", "completed", "failed"},  \* output main has not read yet
     fatal : BOOLEAN, launchError : BOOLEAN, code : {0, 1},
     profile : Users \cup {NoUser}]

NoRdp == [pc |-> "idle", user |-> NoUser, vm |-> NoVM]
SessionRecord == [pc : {"idle", "assign", "rdp", "release", "done"},
                  user : Users \cup {NoUser}, vm : VMs \cup {NoVM}]

Init ==
    /\ deployment \in Deployments
    /\ auth = NoUser
    /\ page = [login |-> FALSE, view |-> "disconnected"]
    /\ attempt = Idle /\ leaving = FALSE /\ mail = FALSE
    /\ vpn = [status |-> "disconnected", pid |-> NoChild]
    /\ active = NoChild
    /\ pidFile = [path |-> FALSE, pid |-> NoChild]
    /\ spawned = 0
    /\ child = [c \in Children |-> NoProcess]
    /\ session = [s \in Sessions |-> NoRdp]
    /\ busy = NoSession
    /\ holder = [v \in VMs |-> NoUser]
    /\ tries = 0 /\ running = TRUE

-----------------------------------------------------------------------------
(***************************************************************************)
(* The main process.                                                       *)
(***************************************************************************)

Alive(c) == child[c].os \in {"booting", "running", "tunnel"}

\* updateVPNState
Update(status, pid) ==
    /\ vpn' = [status |-> status, pid |-> pid]
    /\ mail' = TRUE

\* The 'spawn' event.
Spawned(c) ==
    /\ child[c].pc = "starting"
    /\ child' = [child EXCEPT ![c].pc = "up"]
    /\ Update("connecting", c)
    /\ UNCHANGED <<deployment, pageVars, active, pidFile, spawned, sessionVars,
                   running>>

\* The 'error' event of a program that could not be started; its 'close' does
\* nothing more.
SpawnFails(c) ==
    /\ deployment.fails
    /\ child[c].pc = "starting" /\ child[c].os = "booting"
    /\ child' = [child EXCEPT ![c].pc = "closed", ![c].os = "gone",
                              ![c].launchError = TRUE]
    /\ active' = IF active = c THEN NoChild ELSE active
    /\ Update("error", NoChild)
    /\ UNCHANGED <<deployment, pageVars, pidFile, spawned, sessionVars, running>>

\* handleOpenVPNOutput, "Initialization Sequence Completed".
ReadCompleted(c) ==
    /\ child[c].pc = "up" /\ child[c].news = "completed"
    /\ child' = [child EXCEPT ![c].news = "none"]
    /\ Update("connected", c)
    /\ UNCHANGED <<deployment, pageVars, active, pidFile, spawned, sessionVars,
                   running>>

\* ... or a failed handshake or authentication: the child is killed, once.
ReadFailed(c) ==
    /\ child[c].pc = "up" /\ child[c].news = "failed"
    /\ child[c].fatal \/ ~deployment.elevated
    /\ child' = [child EXCEPT ![c].news = "none", ![c].fatal = TRUE,
                              ![c].killed = @ \/ ~child[c].fatal]
    /\ UNCHANGED <<deployment, pageVars, mainVars, sessionVars, running>>

\* child.kill() of a process of root emits 'error' and leaves it running.
KillDenied(c) ==
    /\ child[c].pc = "up" /\ child[c].news = "failed"
    /\ ~child[c].fatal /\ deployment.elevated
    /\ child' = [child EXCEPT ![c].news = "none", ![c].fatal = TRUE,
                              ![c].launchError = TRUE]
    /\ active' = IF active = c THEN NoChild ELSE active
    /\ Update("error", NoChild)
    /\ UNCHANGED <<deployment, pageVars, pidFile, spawned, sessionVars, running>>

\* Mutant of Closed: an exit after the tunnel was up goes unnoticed.
Closed_OnlyErrors(c) ==
    /\ child[c].pc = "up" /\ child[c].os = "gone" /\ child[c].news = "none"
    /\ child' = [child EXCEPT ![c].pc = "closed"]
    /\ active' = IF active = c THEN NoChild ELSE active
    /\ IF child[c].launchError \/ child[c].code = 0
       THEN UNCHANGED <<vpn, mail>>
       ELSE Update("error", NoChild)
    /\ UNCHANGED <<deployment, pageVars, pidFile, spawned, sessionVars, running>>

\* The 'close' event, whatever was started since.
Closed(c) ==
    /\ child[c].pc = "up" /\ child[c].os = "gone" /\ child[c].news = "none"
    /\ child' = [child EXCEPT ![c].pc = "closed"]
    /\ active' = IF active = c THEN NoChild ELSE active
    /\ IF child[c].launchError
       THEN UNCHANGED <<vpn, mail>>
       ELSE Update(IF child[c].code = 0 THEN "disconnected" ELSE "error", NoChild)
    /\ UNCHANGED <<deployment, pageVars, pidFile, spawned, sessionVars, running>>

\* vpn:connect with the profile of u; the state says "connecting" only from
\* the 'spawn' event on.
Connect(u) ==
    IF vpn.status \in {"connected", "connecting"}
    THEN UNCHANGED <<active, pidFile, spawned, child>>
    ELSE /\ spawned' = spawned + 1
         /\ pidFile' = [path |-> TRUE, pid |-> NoChild]
         /\ child' = [child EXCEPT ![spawned + 1] =
                         [NoProcess EXCEPT
                             !.pc = IF deployment.windows THEN "asked"
                                                          ELSE "starting",
                             !.os = IF deployment.windows THEN "none"
                                                          ELSE "booting",
                             !.profile = u]]
         /\ active' = IF deployment.windows THEN active ELSE spawned + 1

\* vpn:connect after its await of getWinOVPNPath: nothing is checked again.
Located(c) ==
    /\ child[c].pc = "asked"
    /\ \/ /\ child' = [child EXCEPT ![c].pc = "starting", ![c].os = "booting"]
          /\ active' = c
          /\ UNCHANGED <<vpn, mail>>
       \/ /\ deployment.fails
          /\ child' = [child EXCEPT ![c].pc = "closed"]
          /\ Update("error", NoChild)
          /\ UNCHANGED active
    /\ attempt' = IF attempt.pc = "connect" THEN Idle ELSE attempt
    /\ UNCHANGED <<deployment, auth, page, leaving, busy, tries, pidFile, spawned,
                   sessionVars, running>>

Known == {vpn.pid, active, pidFile.pid} \ {NoChild}

\* Mutant of DisconnectVPN: only the process of the pid file is killed.
DisconnectVPN_FileOnly ==
    /\ child' = [c \in Children |->
                    IF c = pidFile.pid /\ Alive(c)
                    THEN [child[c] EXCEPT !.killed = TRUE]
                    ELSE child[c]]
    /\ pidFile' = [pidFile EXCEPT !.pid = NoChild]
    /\ active' = NoChild
    /\ Update("disconnected", NoChild)

\* disconnectVPN: every process it knows of is sent a signal.  Under pkexec the
\* user may refuse.
DisconnectVPN ==
    IF vpn.status = "disconnected" /\ Known = {} /\ ~pidFile.path
    THEN UNCHANGED <<vpn, mail, active, pidFile, child>>
    ELSE /\ \E hit \in SUBSET Known :
               /\ deployment.elevated \/ hit = Known
               /\ child' = [c \in Children |->
                               IF c \in hit /\ Alive(c)
                               THEN [child[c] EXCEPT !.killed = TRUE]
                               ELSE child[c]]
         /\ pidFile' = [pidFile EXCEPT !.pid = NoChild]
         /\ active' = NoChild
         /\ Update("disconnected", NoChild)

(***************************************************************************)
(* OpenVPN.                                                                *)
(***************************************************************************)

\* --writepid
Boot(c) ==
    /\ child[c].os = "booting"
    /\ child' = [child EXCEPT ![c].os = "running"]
    /\ pidFile' = [pidFile EXCEPT !.pid = c]
    /\ UNCHANGED <<deployment, pageVars, mail, vpn, active, spawned, sessionVars,
                   running>>

Initialize(c) ==
    /\ child[c].os = "running" /\ child[c].news = "none"
    /\ child' = [child EXCEPT ![c].os = "tunnel", ![c].news = "completed"]
    /\ UNCHANGED <<deployment, pageVars, mainVars, sessionVars, running>>

\* The peer is not reached; OpenVPN tries again.
LosePeer(c) ==
    /\ deployment.fails
    /\ child[c].os \in {"running", "tunnel"} /\ child[c].news = "none"
    /\ child' = [child EXCEPT ![c].os = "running", ![c].news = "failed"]
    /\ UNCHANGED <<deployment, pageVars, mainVars, sessionVars, running>>

Exit(c) ==
    /\ Alive(c)
    /\ child[c].killed \/ deployment.fails
    /\ \E code \in {0, 1} :
          /\ code = 0 => \/ deployment.codeZero
                         \/ child[c].killed /\ ~child[c].fatal
          /\ child' = [child EXCEPT ![c].os = "gone", ![c].code = code]
    /\ UNCHANGED <<deployment, pageVars, mainVars, sessionVars, running>>

(***************************************************************************)
(* The page.                                                               *)
(***************************************************************************)

\* canAccessWorkstations
Shown == page.login /\ page.view = "connected"

\* WorkstationsPage keeps activeRdpTemplateId for as long as it is mounted.
Show(login, view) ==
    /\ page' = [login |-> login, view |-> view]
    /\ busy' = IF login /\ view = "connected" THEN busy ELSE NoSession

Settled ==
    /\ attempt.pc = "idle" /\ ~leaving /\ ~mail
    /\ \A c \in Children :
          child[c].pc \in {"none", "closed"}
             \/ /\ child[c].pc = "up" /\ ~child[c].killed
                /\ Alive(c) /\ child[c].news = "none"
UserMayAct == deployment.overlap \/ Settled

OpenSessions == {s \in Sessions : session[s].pc \in {"assign", "rdp", "release"}}
MayLeave == deployment.leaves \/ OpenSessions = {}

\* tryConnectVPN up to its first await; the state is read there and then.
TryConnect ==
    /\ tries < deployment.tries
    /\ tries' = tries + 1
    /\ attempt' = IF attempt.pc = "idle"
                  THEN [Idle EXCEPT !.pc = "state", !.seen = vpn.status]
                  ELSE attempt

\* handleLogin, and handleAuthChanged.
Login(u) ==
    /\ ~page.login /\ ~leaving /\ auth = NoUser
    /\ UserMayAct
    /\ u \in deployment.users
    /\ auth' = u
    /\ Show(TRUE, page.view)
    /\ TryConnect
    /\ UNCHANGED <<deployment, leaving, mainVars, child, sessionVars, running>>

\* The button of VPNLoadingScreen.
Retry ==
    /\ page.login /\ page.view = "error" /\ auth # NoUser
    /\ UserMayAct
    /\ TryConnect
    /\ UNCHANGED <<deployment, auth, page, leaving, busy, mainVars, child,
                   sessionVars, running>>

\* getState has answered: the profile is asked for, with the token of now.
AskConfig ==
    /\ attempt.pc = "state"
    /\ Show(page.login, attempt.seen)
    /\ attempt' = IF attempt.seen \in {"connected", "connecting"} \/ auth = NoUser
                  THEN Idle
                  ELSE [attempt EXCEPT !.pc = "config", !.user = auth]
    /\ UNCHANGED <<deployment, auth, leaving, tries, mainVars, child, sessionVars,
                   running>>

\* Mutant of GotConfig: the profile is looked up by the organisation alone.
GotConfig_ByOrg ==
    /\ attempt.pc = "config" /\ attempt.user \in deployment.profiles
    /\ \E u \in deployment.profiles : Connect(u)
    /\ attempt' = IF deployment.windows /\ spawned' # spawned
                  THEN [attempt EXCEPT !.pc = "connect"] ELSE Idle
    /\ UNCHANGED <<deployment, auth, page, leaving, busy, tries, mail, vpn,
                   sessionVars, running>>

\* GET /vpn/config has answered: whoever is signed in by now, it is used.
GotConfig ==
    /\ attempt.pc = "config" /\ attempt.user \in deployment.profiles
    /\ Connect(attempt.user)
    /\ attempt' = IF deployment.windows /\ spawned' # spawned
                  THEN [attempt EXCEPT !.pc = "connect"] ELSE Idle
    /\ UNCHANGED <<deployment, auth, page, leaving, busy, tries, mail, vpn,
                   sessionVars, running>>

\* Mutant of NoConfig: the failure is only logged.
NoConfig_Silent ==
    /\ attempt.pc = "config"
    /\ attempt.user \notin deployment.profiles \/ deployment.faults
    /\ attempt' = Idle
    /\ UNCHANGED <<deployment, auth, page, leaving, busy, tries, mainVars, child,
                   sessionVars, running>>

\* ... or has not: vpn:receiveError replaces the state, whatever it was.
NoConfig ==
    /\ attempt.pc = "config"
    /\ attempt.user \notin deployment.profiles \/ deployment.faults
    /\ attempt' = Idle
    /\ Show(page.login, "error")
    /\ Update("error", NoChild)
    /\ UNCHANGED <<deployment, auth, leaving, tries, active, pidFile, spawned,
                   child, sessionVars, running>>

\* onStateChanged; a push does not overtake the answer to an earlier call.
Deliver ==
    /\ mail /\ attempt.pc # "state" /\ ~leaving
    /\ mail' = FALSE
    /\ Show(page.login, vpn.status)
    /\ UNCHANGED <<deployment, auth, attempt, leaving, tries, vpn, active, pidFile,
                   spawned, child, sessionVars, running>>

\* handleLogout, and handleAuthChanged up to its await of vpn:disconnect.
Logout ==
    /\ Shown /\ auth # NoUser /\ ~leaving
    /\ UserMayAct /\ MayLeave
    /\ auth' = NoUser
    /\ leaving' = TRUE
    /\ DisconnectVPN
    /\ UNCHANGED <<deployment, page, attempt, busy, tries, spawned, sessionVars,
                   running>>

LoggedOut ==
    /\ leaving
    /\ leaving' = FALSE
    /\ Show(FALSE, "disconnected")
    /\ UNCHANGED <<deployment, auth, attempt, tries, mainVars, child, sessionVars,
                   running>>

\* before-quit
Quit ==
    /\ UserMayAct /\ MayLeave
    /\ running' = FALSE
    /\ DisconnectVPN
    /\ UNCHANGED <<deployment, pageVars, spawned, sessionVars>>

(***************************************************************************)
(* The sessions: handleTemplateConnect and the Server's two routes.        *)
(***************************************************************************)

Open(s) ==
    /\ s \in deployment.sessions /\ session[s].pc = "idle"
    /\ Shown /\ busy = NoSession /\ auth # NoUser
    /\ UserMayAct
    /\ deployment.overlap \/ OpenSessions = {}
    /\ session' = [session EXCEPT ![s] = [pc |-> "assign", user |-> auth,
                                          vm |-> NoVM]]
    /\ busy' = s
    /\ UNCHANGED <<deployment, auth, page, attempt, leaving, tries, mainVars, child,
                   holder, running>>

\* The Server gives a free workstation, or null, which the client takes for a
\* workstation without an address: it goes on to release it.
Assign(s) ==
    /\ session[s].pc = "assign"
    /\ \/ \E v \in VMs :
             /\ holder[v] = NoUser
             /\ holder' = [holder EXCEPT ![v] = session[s].user]
             /\ session' = [session EXCEPT ![s].pc = "rdp", ![s].vm = v]
       \/ /\ \A v \in VMs : holder[v] # NoUser
          /\ session' = [session EXCEPT ![s].pc = "release"]
          /\ UNCHANGED holder
    /\ UNCHANGED <<deployment, pageVars, mainVars, child, running>>

\* No answer comes: the workstation may be held, and is not released.
AssignFails(s) ==
    /\ deployment.faults
    /\ session[s].pc = "assign"
    /\ \/ \E v \in VMs : /\ holder[v] = NoUser
                         /\ holder' = [holder EXCEPT ![v] = session[s].user]
       \/ UNCHANGED holder
    /\ session' = [session EXCEPT ![s].pc = "done"]
    /\ busy' = IF busy = s THEN NoSession ELSE busy
    /\ UNCHANGED <<deployment, auth, page, attempt, leaving, tries, mainVars, child,
                   running>>

\* Mutant of CloseRdp: a client that fails ends the handler.
CloseRdp_NoFinally(s) ==
    /\ session[s].pc = "rdp"
    /\ \E pc \in {"release", "done"} : session' = [session EXCEPT ![s].pc = pc]
    /\ UNCHANGED <<deployment, pageVars, mainVars, child, holder, running>>

\* The RDP client has ended, or the names it needs could not be fetched.
CloseRdp(s) ==
    /\ session[s].pc = "rdp"
    /\ session' = [session EXCEPT ![s].pc = "release"]
    /\ UNCHANGED <<deployment, pageVars, mainVars, child, holder, running>>

\* finally: a workstation of whoever is signed in now is freed; nobody's when
\* nobody is (401).
Release(s) ==
    /\ session[s].pc = "release"
    /\ \/ \E v \in VMs : /\ auth # NoUser /\ holder[v] = auth
                         /\ holder' = [holder EXCEPT ![v] = NoUser]
       \/ /\ deployment.faults \/ auth = NoUser \/ \A v \in VMs : holder[v] # auth
          /\ UNCHANGED holder
    /\ session' = [session EXCEPT ![s].pc = "done"]
    /\ busy' = IF busy = s THEN NoSession ELSE busy
    /\ UNCHANGED <<deployment, auth, page, attempt, leaving, tries, mainVars, child,
                   running>>

-----------------------------------------------------------------------------

Process(c) == Boot(c) \/ Initialize(c) \/ LosePeer(c) \/ Exit(c)
Event(c) == Spawned(c) \/ SpawnFails(c) \/ ReadCompleted(c) \/ ReadFailed(c)
               \/ KillDenied(c) \/ Closed(c) \/ Located(c)
Page == AskConfig \/ GotConfig \/ NoConfig \/ Deliver \/ LoggedOut
User == (\E u \in Users : Login(u)) \/ Retry \/ Logout \/ Quit
Session(s) == Open(s) \/ Assign(s) \/ AssignFails(s) \/ CloseRdp(s) \/ Release(s)

Next ==
    \/ \E c \in Children : Process(c)
    \/ /\ running
       /\ \/ \E c \in Children : Event(c)
          \/ Page \/ User
          \/ \E s \in Sessions : Session(s)

\* Programs and event loops run on; a process that is killed ends.  Nothing is
\* promised of the user or of the network.
Fairness ==
    /\ \A c \in Children :
          /\ WF_vars(Boot(c) \/ Initialize(c))
          /\ WF_vars(child[c].killed /\ Exit(c))
          /\ WF_vars(running /\ Event(c))
    /\ WF_vars(running /\ Page)

Spec == Init /\ [][Next]_vars /\ Fairness

-----------------------------------------------------------------------------
(***************************************************************************)
(* Properties.                                                             *)
(***************************************************************************)

\* Every variable keeps the shape the code gives it.
TypeOK ==
    /\ deployment \in Deployments
    /\ auth \in Users \cup {NoUser}
    /\ page \in [login : BOOLEAN, view : Statuses]
    /\ attempt \in AttemptRecord
    /\ leaving \in BOOLEAN /\ mail \in BOOLEAN /\ running \in BOOLEAN
    /\ vpn \in [status : Statuses, pid : Children \cup {NoChild}]
    /\ active \in Children \cup {NoChild}
    /\ pidFile \in [path : BOOLEAN, pid : Children \cup {NoChild}]
    /\ spawned \in 0 .. MaxTries /\ tries \in 0 .. MaxTries
    /\ child \in [Children -> ChildRecord]
    /\ session \in [Sessions -> SessionRecord]
    /\ busy \in Sessions \cup {NoSession}
    /\ holder \in [VMs -> Users \cup {NoUser}]

\* Without pkexec the client says "connecting" or "connected" only of a process
\* it has not seen end, whatever overlaps: the late event of an older process
\* may hide a tunnel, never feign one.
ConnectedIsReal ==
    ~deployment.elevated /\ vpn.status \in {"connecting", "connected"} =>
        vpn.pid \in Children /\ child[vpn.pid].pc = "up"

Serial == ~deployment.overlap /\ ~deployment.elevated

\* A user who waits for what he asked for never has two OpenVPN processes, and
\* the one that gives him the workstations was started with his own profile.
TunnelIsUsers ==
    Serial =>
        /\ Cardinality({c \in Children : Alive(c)}) <= 1
        /\ Shown /\ ~leaving =>
              \A c \in Children : Alive(c) => child[c].profile = auth

\* However sessions overlap, no user holds more workstations than he has
\* sessions that will release one, when no request fails and nobody signs out
\* of an open session.
NoSeatLeft ==
    ~deployment.faults /\ ~deployment.leaves =>
        \A u \in Users :
            Cardinality({v \in VMs : holder[v] = u})
               <= Cardinality({s \in OpenSessions : session[s].user = u})

\* Who signs in is shown the workstations or an error he can retry from.
LoginSettles ==
    (Serial /\ ~deployment.codeZero /\ page.login)
        ~> (page.view \in {"connected", "error"} \/ ~page.login \/ ~running)

\* After a logout, or when the application has quit, no OpenVPN process stays.
LeavingEndsTunnel ==
    (Serial /\ (auth = NoUser \/ ~running))
        ~> ((auth # NoUser /\ running) \/ \A c \in Children : ~Alive(c))

=============================================================================
