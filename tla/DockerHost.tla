----------------------------- MODULE DockerHost ------------------------------
(***************************************************************************)
(* The Docker host on which the environments of all organisations are      *)
(* built: provision_network_docker (Cloud/docker_provisioner/provision.py) *)
(* run by the workers of the "api" queue, provision_workstation_vm         *)
(* (workstations.py) run by those of the "workstations" queue, and the     *)
(* allowlist by which an organisation's threat-detection server admits     *)
(* agents (ThreatDetection/utils.py).                                      *)
(*                                                                         *)
(* The jobs share the host's networks, container names and ports, one      *)
(* folder of substituted scripts, one noVNC container, and one agents.json *)
(* per organisation.  Nothing locks any of them.                           *)
(***************************************************************************)
EXTENDS Naturals, FiniteSets

CONSTANTS
    Orgs,           \* organisations
    Builds,         \* runs of provision_network_docker
    Boots,          \* runs of provision_workstation_vm
    Octets,         \* third octets of the /24 networks (2..254 in the code)
    Ports,          \* host ports, counted from WORKSTATION_PORT_BASE
    Deployments,    \* what a behaviour may be about, see Deployment
    NoOrg, NoBuild, NoOctet, NoPort, Dev

Machines == Builds \cup Boots

\* An entry of agents.json: the agent_id it admits, its machine's own or any,
\* and the machine whose address it admits.
Entry == [id : {"own", "*"}, ip : Machines]

\* A deployment: the organisation each build is for, how many workers serve
\* each of the two queues, which commands may fail, the jobs there are, and
\* whether builds are followed past the start of their workstation (a bound).
Deployment ==
    [org : [Builds -> Orgs], workers : Nat, booting : Nat,
     faults : SUBSET {"raise", "copy"}, jobs : SUBSET Machines,
     whole : BOOLEAN]

ASSUME HostAssumption ==
    /\ IsFiniteSet(Builds) /\ IsFiniteSet(Boots) /\ IsFiniteSet(Octets)
    /\ Octets \subseteq Nat \ {0}
    /\ Ports \subseteq Nat /\ Octets \subseteq Ports
    /\ Builds \cap Boots = {}
    /\ NoBuild \notin Builds \cup {Dev} /\ Dev \notin Builds
    /\ NoOrg \notin Orgs /\ NoOctet \notin Octets /\ NoPort \notin Ports
    /\ Deployments \subseteq Deployment

VARIABLES
    deployment,     \* chosen once
    build,          \* each build: where it is and what it has read
    boot,           \* each boot: likewise
    net,            \* the subnet of each organisation's network
    node,           \* the build whose container has each of the fixed names
    keyfile,        \* the build that generated the key pair on disk
    authorized,     \* the key each container was given
    published,      \* the host port of each build's workstation
    scripts,        \* the build whose values the shared folder holds
    oem,            \* what was copied into each workstation's /oem
    allow,          \* agents.json of each organisation
    tdlist,         \* the copy its threat-detection server reads
    novnc           \* the workstation the noVNC container shows

hostVars == <<deployment, build, boot, net, node, keyfile, authorized,
              published, scripts, oem, allow, tdlist, novnc>>

Names == {"samba", "vpn", "td"}

\* The steps of a build, in the order of the code; the last four are ends.
BuildEnds == {"done", "failed", "no_subnet", "port_taken"}
BuildSteps ==
    {"queued", "look", "create", "keys", "samba", "vpn", "setup",
     "key_samba", "key_vpn", "td", "pick", "run", "allow", "sync", "stage",
     "scripts", "copy_scripts", "copy_agent", "bat", "copy_bat", "ready",
     "list_novnc", "clear_novnc", "run_novnc"} \cup BuildEnds

BootEnds == {"up", "failed"}
BootSteps ==
    {"queued", "copy", "check", "load", "truncate", "write", "sync", "wait"}
    \cup BootEnds

BuildRecord ==
    [pc : BuildSteps, octet : Octets \cup {NoOctet}, used : SUBSET Octets,
     port : Ports \cup {NoPort}, seen : Builds \cup {Dev, NoBuild}]

BootRecord == [pc : BootSteps, org : Orgs \cup {NoOrg}, list : SUBSET Entry]

OemRecord == [scripts : Builds \cup {NoBuild}, bat : Builds \cup {NoBuild},
              agent : BOOLEAN, ready : BOOLEAN]

------------------------------------------------------------------------------
OrgOf(b) == deployment.org[b]

Active(b) == build[b].pc \notin BuildEnds \cup {"queued"}
Booting(v) == boot[v].pc \notin BootEnds \cup {"queued"}

InUse == {net[o] : o \in Orgs} \ {NoOctet}
PortsInUse == {published[b] : b \in Builds} \ {NoPort}

At(b, step) == build[b].pc = step

GoTo(b, step) == build' = [build EXCEPT ![b].pc = step]

\* A command that raises, or a step that returns None, ends the build.  What
\* it has made so far stays: no step is undone.
Raises(b) ==
    /\ "raise" \in deployment.faults
    /\ build[b].pc \in {"look", "samba", "vpn", "setup", "key_samba", "key_vpn",
                        "td", "run"}
    /\ GoTo(b, "failed")
    /\ UNCHANGED <<deployment, boot, net, node, keyfile, authorized, published,
                   scripts, oem, allow, tdlist, novnc>>

------------------------------------------------------------------------------
(***************************************************************************)
(* A build: provision_network_docker                                       *)
(***************************************************************************)

\* A worker takes a build from the queue.
Take(b) ==
    /\ At(b, "queued")
    /\ b \in deployment.jobs
    /\ Cardinality({c \in Builds : Active(c)}) < deployment.workers
    /\ GoTo(b, "look")
    /\ UNCHANGED <<deployment, boot, net, node, keyfile, authorized, published,
                   scripts, oem, allow, tdlist, novnc>>

\* The network exists and its subnet is taken over, or the subnets in use are
\* listed.
LookForNetwork(b) ==
    /\ At(b, "look")
    /\ IF net[OrgOf(b)] # NoOctet
       THEN build' = [build EXCEPT ![b].pc = "keys", ![b].octet = net[OrgOf(b)]]
       ELSE build' = [build EXCEPT ![b].pc = "create", ![b].used = InUse]
    /\ UNCHANGED <<deployment, boot, net, node, keyfile, authorized, published,
                   scripts, oem, allow, tdlist, novnc>>

\* The octets the loop has not passed.
Untried(b) == Octets \ build[b].used

NextOctet(b) == CHOOSE x \in Untried(b) : \A y \in Untried(b) : x <= y

\* Docker refuses a network whose name is taken: the build goes on with the
\* subnet it asked for.
NameExists(b) ==
    /\ At(b, "create")
    /\ Untried(b) # {}
    /\ net[OrgOf(b)] # NoOctet
    /\ build' = [build EXCEPT ![b].pc = "keys", ![b].octet = NextOctet(b)]
    /\ UNCHANGED <<deployment, boot, net, node, keyfile, authorized, published,
                   scripts, oem, allow, tdlist, novnc>>

\* A mutant: an overlap counts as success, as the taken name does.
Overlaps_Taken(b) ==
    /\ At(b, "create")
    /\ Untried(b) # {}
    /\ net[OrgOf(b)] = NoOctet
    /\ NextOctet(b) \in InUse
    /\ build' = [build EXCEPT ![b].pc = "keys", ![b].octet = NextOctet(b)]
    /\ UNCHANGED <<deployment, boot, net, node, keyfile, authorized, published,
                   scripts, oem, allow, tdlist, novnc>>

\* Docker refuses a subnet that overlaps another: the loop goes on.
Overlaps(b) ==
    /\ At(b, "create")
    /\ Untried(b) # {}
    /\ net[OrgOf(b)] = NoOctet
    /\ NextOctet(b) \in InUse
    /\ build' = [build EXCEPT ![b].used = @ \cup {NextOctet(b)}]
    /\ UNCHANGED <<deployment, boot, net, node, keyfile, authorized, published,
                   scripts, oem, allow, tdlist, novnc>>

CreateNetwork(b) ==
    /\ At(b, "create")
    /\ Untried(b) # {}
    /\ net[OrgOf(b)] = NoOctet
    /\ NextOctet(b) \notin InUse
    /\ net' = [net EXCEPT ![OrgOf(b)] = NextOctet(b)]
    /\ build' = [build EXCEPT ![b].pc = "keys", ![b].octet = NextOctet(b)]
    /\ UNCHANGED <<deployment, boot, node, keyfile, authorized, published,
                   scripts, oem, allow, tdlist, novnc>>

\* A mutant: the loop goes one past the last octet.
NoSubnetLeft_OneMore(b) ==
    /\ At(b, "create")
    /\ Untried(b) = {}
    /\ build' = [build EXCEPT ![b].pc = "keys",
                    ![b].octet = 1 + (CHOOSE x \in Octets : \A y \in Octets : y <= x)]
    /\ UNCHANGED <<deployment, boot, net, node, keyfile, authorized, published,
                   scripts, oem, allow, tdlist, novnc>>

\* Every octet was passed over.
NoSubnetLeft(b) ==
    /\ At(b, "create")
    /\ Untried(b) = {}
    /\ GoTo(b, "no_subnet")
    /\ UNCHANGED <<deployment, boot, net, node, keyfile, authorized, published,
                   scripts, oem, allow, tdlist, novnc>>

\* The key pair of the organisation is generated, over an older one.
GenerateKeys(b) ==
    /\ At(b, "keys")
    /\ keyfile' = [keyfile EXCEPT ![OrgOf(b)] = b]
    /\ GoTo(b, "samba")
    /\ UNCHANGED <<deployment, boot, net, node, authorized, published, scripts,
                   oem, allow, tdlist, novnc>>

AfterNode == [samba |-> "vpn", vpn |-> "setup", td |-> "pick"]

\* A container with a fixed name is run: samba-test-, openvpn-test- and
\* threat-detection-<org_id>.
RunNode(b) ==
    /\ build[b].pc \in Names
    /\ node[OrgOf(b)][build[b].pc] = NoBuild
    /\ node' = [node EXCEPT ![OrgOf(b)][build[b].pc] = b]
    /\ GoTo(b, AfterNode[build[b].pc])
    /\ UNCHANGED <<deployment, boot, net, keyfile, authorized, published,
                   scripts, oem, allow, tdlist, novnc>>

\* Docker refuses a name in use, and the build fails.
NodeExists(b) ==
    /\ build[b].pc \in Names
    /\ node[OrgOf(b)][build[b].pc] # NoBuild
    /\ GoTo(b, "failed")
    /\ UNCHANGED <<deployment, boot, net, node, keyfile, authorized, published,
                   scripts, oem, allow, tdlist, novnc>>

\* Both setup scripts ended, or failed in containers that still run.
SetUp(b) ==
    /\ At(b, "setup")
    /\ \E step \in {"key_samba", "key_vpn"} : GoTo(b, step)
    /\ UNCHANGED <<deployment, boot, net, node, keyfile, authorized, published,
                   scripts, oem, allow, tdlist, novnc>>

\* The public key on disk is copied into one of the two containers, then into
\* the other, in the order of the two threads.
CopyKey(b) ==
    LET o == OrgOf(b)
        name == IF At(b, "key_samba") THEN "samba" ELSE "vpn"
        other == IF name = "samba" THEN "vpn" ELSE "samba"
    IN  /\ build[b].pc \in {"key_samba", "key_vpn"}
        /\ authorized' = [authorized EXCEPT ![o][name] = keyfile[o]]
        /\ GoTo(b, IF authorized[o][other] # NoBuild THEN "td"
                   ELSE IF name = "samba" THEN "key_vpn" ELSE "key_samba")
        /\ UNCHANGED <<deployment, boot, net, node, keyfile, published,
                       scripts, oem, allow, tdlist, novnc>>

\* The first port from base + octet that no container publishes.
PickPort(b) ==
    LET free == {p \in Ports : p >= build[b].octet /\ p \notin PortsInUse}
    IN  /\ At(b, "pick")
        /\ free # {}
        /\ build' = [build EXCEPT ![b].pc = "run",
                         ![b].port = CHOOSE p \in free :
                                         \A q \in free : p <= q]
        /\ UNCHANGED <<deployment, boot, net, node, keyfile, authorized,
                       published, scripts, oem, allow, tdlist, novnc>>

\* The workstation is run with that port, which may be taken by now.
RunWorkstation(b) ==
    /\ At(b, "run")
    /\ IF build[b].port \in PortsInUse
       THEN GoTo(b, "port_taken") /\ UNCHANGED published
       ELSE /\ published' = [published EXCEPT ![b] = build[b].port]
            /\ GoTo(b, "allow")
    /\ UNCHANGED <<deployment, boot, net, node, keyfile, authorized, scripts,
                   oem, allow, tdlist, novnc>>

\* The workstation's agent is added to agents.json.  No boot of the
\* organisation runs before a build of it is done, so that nobody else has the
\* file open.
AllowAgent(b) ==
    /\ At(b, "allow")
    /\ deployment.whole
    /\ allow' = [allow EXCEPT ![OrgOf(b)] = @ \cup {[id |-> "own", ip |-> b]}]
    /\ GoTo(b, "sync")
    /\ UNCHANGED <<deployment, boot, net, node, keyfile, authorized, published,
                   scripts, oem, tdlist, novnc>>

\* docker cp of agents.json as it now is; a failure is logged.
SyncAgents(o) ==
    \/ tdlist' = [tdlist EXCEPT ![o] = allow[o]]
    \/ "copy" \in deployment.faults /\ UNCHANGED tdlist

SyncBuild(b) ==
    /\ At(b, "sync")
    /\ SyncAgents(OrgOf(b))
    /\ GoTo(b, "stage")
    /\ UNCHANGED <<deployment, boot, net, node, keyfile, authorized, published,
                   scripts, oem, allow, novnc>>

\* The agent's binary is found, built or downloaded.  Without it the build is
\* done, and its workstation is left without the files.
StageAgent(b) ==
    /\ At(b, "stage")
    /\ \/ GoTo(b, "scripts")
       \/ "copy" \in deployment.faults /\ GoTo(b, "done")
    /\ UNCHANGED <<deployment, boot, net, node, keyfile, authorized, published,
                   scripts, oem, allow, tdlist, novnc>>

\* A mutant: scripts that are in the folder already are not written again.
WriteScripts_Cached(b) ==
    /\ At(b, "scripts")
    /\ scripts' = [scripts EXCEPT !.ps1 = IF @ = NoBuild THEN b ELSE @]
    /\ GoTo(b, "copy_scripts")
    /\ UNCHANGED <<deployment, boot, net, node, keyfile, authorized, published,
                   oem, allow, tdlist, novnc>>

\* The build's values are written into the folder oem/scripts of the host, one
\* folder for all organisations.
WriteScripts(b) ==
    /\ At(b, "scripts")
    /\ scripts' = [scripts EXCEPT !.ps1 = b]
    /\ GoTo(b, "copy_scripts")
    /\ UNCHANGED <<deployment, boot, net, node, keyfile, authorized, published,
                   oem, allow, tdlist, novnc>>

WriteBat(b) ==
    /\ At(b, "bat")
    /\ scripts' = [scripts EXCEPT !.bat = b]
    /\ GoTo(b, "copy_bat")
    /\ UNCHANGED <<deployment, boot, net, node, keyfile, authorized, published,
                   oem, allow, tdlist, novnc>>

AfterCopy == [copy_scripts |-> "copy_agent", copy_agent |-> "bat",
              copy_bat |-> "ready", ready |-> "list_novnc"]

\* What is in the folder is copied into the workstation; the last copy is the
\* sentinel that lets the installation start.
CopyFile(b) ==
    /\ build[b].pc \in DOMAIN AfterCopy
    /\ oem' = CASE At(b, "copy_scripts") ->
                      [oem EXCEPT ![b].scripts = scripts.ps1]
                [] At(b, "copy_agent") -> [oem EXCEPT ![b].agent = TRUE]
                [] At(b, "copy_bat") -> [oem EXCEPT ![b].bat = scripts.bat]
                [] OTHER -> [oem EXCEPT ![b].ready = TRUE]
    /\ GoTo(b, AfterCopy[build[b].pc])
    /\ UNCHANGED <<deployment, boot, net, node, keyfile, authorized, published,
                   scripts, allow, tdlist, novnc>>

\* A copy that fails ends the work on the workstation, except among the
\* scripts: create_auto_configure_scripts returns, and nobody looks at what it
\* returned.
CopyFails(b) ==
    /\ "copy" \in deployment.faults
    /\ build[b].pc \in DOMAIN AfterCopy
    /\ GoTo(b, IF At(b, "copy_scripts") THEN "copy_agent" ELSE "done")
    /\ UNCHANGED <<deployment, boot, net, node, keyfile, authorized, published,
                   scripts, oem, allow, tdlist, novnc>>

\* The noVNC container is found, stopped and removed, and run again for the new
\* workstation.  A container that is gone, or a name in use, is only logged.
ListNoVNC(b) ==
    /\ At(b, "list_novnc")
    /\ build' = [build EXCEPT ![b].pc = "clear_novnc", ![b].seen = novnc]
    /\ UNCHANGED <<deployment, boot, net, node, keyfile, authorized, published,
                   scripts, oem, allow, tdlist, novnc>>

ClearNoVNC(b) ==
    /\ At(b, "clear_novnc")
    /\ novnc' = IF novnc = build[b].seen THEN NoBuild ELSE novnc
    /\ GoTo(b, "run_novnc")
    /\ UNCHANGED <<deployment, boot, net, node, keyfile, authorized, published,
                   scripts, oem, allow, tdlist>>

RunNoVNC(b) ==
    /\ At(b, "run_novnc")
    /\ novnc' = IF novnc = NoBuild THEN b ELSE novnc
    /\ GoTo(b, "done")
    /\ UNCHANGED <<deployment, boot, net, node, keyfile, authorized, published,
                   scripts, oem, allow, tdlist>>

------------------------------------------------------------------------------
(***************************************************************************)
(* A boot: provision_workstation_vm                                        *)
(***************************************************************************)
BootTo(v, step) == boot' = [boot EXCEPT ![v].pc = step]

\* A worker takes a boot.  A template is ready only after the organisation's
\* inventory has a domain controller, which a build that is done has stored.
TakeBoot(v) ==
    /\ boot[v].pc = "queued"
    /\ v \in deployment.jobs
    /\ Cardinality({w \in Boots : Booting(w)}) < deployment.booting
    /\ \E b \in Builds :
          /\ At(b, "done")
          /\ boot' = [boot EXCEPT ![v].pc = "copy", ![v].org = OrgOf(b)]
    /\ UNCHANGED <<deployment, build, net, node, keyfile, authorized,
                   published, scripts, oem, allow, tdlist, novnc>>

\* The template's disk is copied, the organisation's network looked up, and the
\* container ws-<vm_id> run on it.
CopyImage(v) ==
    /\ boot[v].pc = "copy"
    /\ \/ BootTo(v, "check")
       \/ "copy" \in deployment.faults /\ BootTo(v, "failed")
    /\ UNCHANGED <<deployment, build, net, node, keyfile, authorized,
                   published, scripts, oem, allow, tdlist, novnc>>

RunVM(v) ==
    /\ boot[v].pc = "check"
    /\ BootTo(v, IF net[boot[v].org] = NoOctet THEN "failed" ELSE "load")
    /\ UNCHANGED <<deployment, build, net, node, keyfile, authorized,
                   published, scripts, oem, allow, tdlist, novnc>>

\* A file that another boot has just emptied cannot be parsed, and counts as an
\* empty list.
LoadAgents(v) ==
    /\ boot[v].pc = "load"
    /\ boot' = [boot EXCEPT ![v].pc = "truncate", ![v].list = allow[boot[v].org]]
    /\ UNCHANGED <<deployment, build, net, node, keyfile, authorized,
                   published, scripts, oem, allow, tdlist, novnc>>

\* write_text opens the file, which empties it, and then writes.
TruncateAgents(v) ==
    /\ boot[v].pc = "truncate"
    /\ allow' = [allow EXCEPT ![boot[v].org] = {}]
    /\ BootTo(v, "write")
    /\ UNCHANGED <<deployment, build, net, node, keyfile, authorized,
                   published, scripts, oem, tdlist, novnc>>

\* A mutant: the list is begun anew.
Upserted_Anew(list, v) == {[id |-> "*", ip |-> v]}

\* The entry of any agent or of this address is replaced; there is at most one.
Upserted(list, v) ==
    {e \in list : e.id # "*" /\ e.ip # v} \cup {[id |-> "*", ip |-> v]}

WriteAgents(v) ==
    /\ boot[v].pc = "write"
    /\ allow' = [allow EXCEPT ![boot[v].org] = Upserted(boot[v].list, v)]
    /\ BootTo(v, "sync")
    /\ UNCHANGED <<deployment, build, net, node, keyfile, authorized,
                   published, scripts, oem, tdlist, novnc>>

SyncBoot(v) ==
    /\ boot[v].pc = "sync"
    /\ SyncAgents(boot[v].org)
    /\ BootTo(v, "wait")
    /\ UNCHANGED <<deployment, build, net, node, keyfile, authorized,
                   published, scripts, oem, allow, novnc>>

\* The VM answers on its port, or the wait runs out: either way it is up.
WaitForRDP(v) ==
    /\ boot[v].pc = "wait"
    /\ BootTo(v, "up")
    /\ UNCHANGED <<deployment, build, net, node, keyfile, authorized,
                   published, scripts, oem, allow, tdlist, novnc>>

------------------------------------------------------------------------------
HostInit ==
    /\ deployment \in Deployments
    /\ build = [b \in Builds |->
                   [pc |-> "queued", octet |-> NoOctet, used |-> {},
                    port |-> NoPort, seen |-> NoBuild]]
    /\ boot = [v \in Boots |->
                  [pc |-> "queued", org |-> NoOrg, list |-> {}]]
    /\ net = [o \in Orgs |-> NoOctet]
    /\ node = [o \in Orgs |-> [n \in Names |-> NoBuild]]
    /\ keyfile = [o \in Orgs |-> NoBuild]
    /\ authorized = [o \in Orgs |-> [n \in {"samba", "vpn"} |-> NoBuild]]
    /\ published = [b \in Builds |-> NoPort]
    /\ scripts = [ps1 |-> NoBuild, bat |-> NoBuild]
    /\ oem = [b \in Builds |-> [scripts |-> NoBuild, bat |-> NoBuild,
                                agent |-> FALSE, ready |-> FALSE]]
    /\ allow = [o \in Orgs |-> {}]
    /\ tdlist = [o \in Orgs |-> {}]
    /\ novnc \in {NoBuild, Dev}

BuildStep(b) ==
    \/ Take(b) \/ Raises(b)
    \/ LookForNetwork(b) \/ NameExists(b) \/ Overlaps(b) \/ CreateNetwork(b)
    \/ NoSubnetLeft(b) \/ GenerateKeys(b) \/ RunNode(b) \/ NodeExists(b)
    \/ SetUp(b) \/ CopyKey(b) \/ PickPort(b) \/ RunWorkstation(b)
    \/ AllowAgent(b) \/ SyncBuild(b) \/ StageAgent(b)
    \/ WriteScripts(b) \/ WriteBat(b) \/ CopyFile(b) \/ CopyFails(b)
    \/ ListNoVNC(b) \/ ClearNoVNC(b) \/ RunNoVNC(b)

BootStep(v) ==
    \/ TakeBoot(v) \/ CopyImage(v) \/ RunVM(v) \/ LoadAgents(v)
    \/ TruncateAgents(v) \/ WriteAgents(v) \/ SyncBoot(v) \/ WaitForRDP(v)

HostNext ==
    \/ \E b \in Builds : BuildStep(b)
    \/ \E v \in Boots : BootStep(v)

HostSpec == HostInit /\ [][HostNext]_hostVars

------------------------------------------------------------------------------
(***************************************************************************)
(* Properties                                                              *)
(***************************************************************************)

\* Every variable keeps its type.
HostTypeOK ==
    /\ deployment \in Deployments
    /\ build \in [Builds -> BuildRecord]
    /\ boot \in [Boots -> BootRecord]
    /\ net \in [Orgs -> Octets \cup {NoOctet}]
    /\ node \in [Orgs -> [Names -> Builds \cup {NoBuild}]]
    /\ keyfile \in [Orgs -> Builds \cup {NoBuild}]
    /\ authorized \in [Orgs -> [{"samba", "vpn"} -> Builds \cup {NoBuild}]]
    /\ published \in [Builds -> Ports \cup {NoPort}]
    /\ scripts \in [ps1 : Builds \cup {NoBuild}, bat : Builds \cup {NoBuild}]
    /\ oem \in [Builds -> OemRecord]
    /\ allow \in [Orgs -> SUBSET Entry]
    /\ tdlist \in [Orgs -> SUBSET Entry]
    /\ novnc \in Builds \cup {Dev, NoBuild}

\* No two builds of one organisation run at the same time.
OneAtATime ==
    \/ deployment.workers = 1
    \/ \A b, c \in Builds \cap deployment.jobs : OrgOf(b) = OrgOf(c) => b = c

\* An organisation's VPN routes the subnet its network has, its two nodes come
\* from one build and accept the same key, and no workstation is lost because its
\* port was taken between the choice and the run.
NodesFit ==
    /\ \A o \in Orgs :
          LET vpn == node[o]["vpn"]
          IN  /\ vpn # NoBuild =>
                    /\ build[vpn].octet = net[o]
                    /\ node[o]["samba"] = vpn
              /\ \A m, n \in {"samba", "vpn"} :
                    NoBuild \notin {authorized[o][m], authorized[o][n]}
                        => authorized[o][m] = authorized[o][n]
    /\ \A b \in Builds : ~At(b, "port_taken")

\* The list of subnets is read once and is old when a subnet is chosen.  A
\* build still fails for want of a subnet only when all of them are taken.
SubnetsAreFound ==
    \A b \in Builds : At(b, "no_subnet") => InUse = Octets

\* Two builds may stop, remove and run the noVNC container at the same time.
\* When they are through, it runs and shows the workstation of one of them.
NoVNCShowsOne ==
    (/\ \A b \in Builds : ~Active(b)
     /\ \E b \in Builds : oem[b].ready)
        => novnc \in Builds

\* Builds share the host's subnets, names, ports and its noVNC container, and
\* look at them before they use them.  However builds of different organisations
\* overlap, none takes what is another's; builds of one organisation may find a
\* wrong subnet or two keys, but no build gives up while a subnet is free.
HostIsShared ==
    /\ OneAtATime => NodesFit
    /\ SubnetsAreFound
    /\ NoVNCShowsOne

\* With one worker on the queue, a workstation is installed from scripts that
\* hold its own organisation's values and no other's, and the sentinel is
\* written only once the files are there, unless a copy of the scripts failed.
InstalledFromOwnScripts ==
    deployment.workers = 1 =>
        \A b \in Builds :
            /\ {oem[b].scripts, oem[b].bat} \subseteq {b, NoBuild}
            /\ oem[b].ready =>
                  /\ oem[b].agent
                  /\ oem[b].bat = b
                  /\ oem[b].scripts = b \/ "copy" \in deployment.faults

\* The server admits a build's workstation by its address and the id that its
\* scripts gave its agent.
Admits(o, b) ==
    \E e \in tdlist[o] :
        e.ip = b /\ (e.id = "*" \/ oem[b].scripts = b)

Registering(o) ==
    \/ \E b \in Builds : OrgOf(b) = o /\ build[b].pc \in {"allow", "sync"}
    \/ \E v \in Boots :
          boot[v].org = o /\ boot[v].pc \in {"load", "truncate", "write", "sync"}

\* With one worker on each queue and no failed copy, between registrations the
\* threat-detection server reads what the file says, admits the workstation of
\* every build that is done, and admits one VM once VMs were registered.
AllowlistIsKept ==
    /\ deployment.workers = 1
    /\ deployment.booting = 1
    /\ deployment.faults \cap {"copy"} = {}
    => \A o \in Orgs : ~Registering(o) =>
          /\ tdlist[o] = allow[o]
          /\ \A b \in Builds : At(b, "done") /\ OrgOf(b) = o => Admits(o, b)
          /\ (\E v \in Boots : boot[v].org = o /\ boot[v].pc \in {"wait", "up"})
                => \E v \in Boots : [id |-> "*", ip |-> v] \in tdlist[o]

==============================================================================
