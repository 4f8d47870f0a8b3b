------------------------------ MODULE AgentLink ------------------------------
(***************************************************************************)
(* The link of one workstation's agent to the threat-detection server.     *)
(*                                                                         *)
(* The agent is one thread: a scheduler that runs the tasks, the jobs that *)
(* try to connect and the job that resends what was cached.  A task that   *)
(* cannot reach the server writes its message to a file and asks for a new *)
(* channel; the files are resent once there is a channel.  The server may  *)
(* go away between any two steps, also between receiving a call and        *)
(* answering it, and the agent may stop at any step: killed, or ended by   *)
(* an exception (of the file system, say) that the scheduler lets through. *)
(* What it had in memory is then lost; the files stay.                     *)
(***************************************************************************)
EXTENDS Naturals

CONSTANTS
    Tasks,       \* the registered tasks that send messages
    Messages,    \* the messages the tasks may produce
    Invalid,     \* those of them the server always refuses
    NoTask, NoMessage,
    MaxOutages,  \* bound on how often the server goes away
    MaxStops     \* bound on how often the agent stops

ASSUME MessagesAssumption == Invalid \subseteq Messages
ASSUME NullAssumption == NoTask \notin Tasks /\ NoMessage \notin Messages
ASSUME BoundsAssumption == MaxOutages \in Nat /\ MaxStops \in Nat

VARIABLES
    up,          \* whether the server can be reached
    pc,          \* what the agent's thread is doing
    channel,     \* whether the agent has a channel (and with it a stub)
    link,        \* link[t]: whether the task has a channel
    connJob,     \* whether conn_attempt_job is scheduled
    retryJobs,   \* create_grpc_channel jobs scheduled by the callback
    task,        \* the task that is running
    msg,         \* the message being sent or written
    entries,     \* the files this round of resending has still to go through
    disk,        \* disk[m]: the cache file of m
    made,        \* the messages produced so far
    got,         \* got[m]: how often the server received m
    unanswered,  \* unanswered[m]: receipts that did not take m out of the agent
    interrupted, \* the messages in the agent's hands when it stopped
    outages, stops

memVars  == <<pc, channel, link, connJob, retryJobs, task, msg, entries>>
bookVars == <<got, unanswered>>
vars == <<up, memVars, disk, made, bookVars, interrupted, outages, stops>>

PCs   == {"down", "idle", "call", "store", "save", "reconnect", "resend", "remove"}
Files == {"none", "whole", "cut"}

Cached == {m \in Messages : disk[m] = "whole"}

Init ==
    /\ up \in BOOLEAN
    /\ pc = "down"
    /\ channel = FALSE
    /\ link = [t \in Tasks |-> FALSE]
    /\ connJob = FALSE
    /\ retryJobs = 0
    /\ task = NoTask
    /\ msg = NoMessage
    /\ entries = {}
    /\ disk = [m \in Messages |-> "none"]
    /\ made = {}
    /\ got = [m \in Messages |-> 0]
    /\ unanswered = [m \in Messages |-> 0]
    /\ interrupted = {}
    /\ outages = 0 /\ stops = 0

-----------------------------------------------------------------------------
(***************************************************************************)
(* The server, as the agent sees it                                        *)
(***************************************************************************)

GoesAway ==
    /\ outages < MaxOutages
    /\ up' = FALSE
    /\ outages' = outages + 1

ServerGoes ==
    /\ up /\ GoesAway
    /\ UNCHANGED <<memVars, disk, made, bookVars, interrupted, stops>>

ServerReturns ==
    /\ ~ up
    /\ up' = TRUE
    /\ UNCHANGED <<memVars, disk, made, bookVars, interrupted, outages, stops>>

\* The call is received and answered.
Answered(m) ==
    /\ up /\ m \notin Invalid
    /\ got' = [got EXCEPT ![m] = @ + 1]
    /\ UNCHANGED <<up, unanswered, outages>>

\* The call is received and the server gone before its answer arrives.
Unanswered(m) ==
    /\ up /\ m \notin Invalid
    /\ GoesAway
    /\ got' = [got EXCEPT ![m] = @ + 1]
    /\ unanswered' = [unanswered EXCEPT ![m] = @ + 1]

\* The call is not received, or refused.
NotReceived(m) ==
    /\ ~ up \/ m \in Invalid
    /\ UNCHANGED <<up, bookVars, outages>>

(***************************************************************************)
(* Connecting                                                              *)
(***************************************************************************)

\* Agent.__init__ and register_task: the retry job is scheduled only when the
\* first attempt fails.
Start ==
    /\ pc = "down"
    /\ pc' = "idle"
    /\ channel' = up
    /\ connJob' = ~ up
    /\ retryJobs' = 0
    /\ link' = [t \in Tasks |-> up]
    /\ UNCHANGED <<up, task, msg, entries, disk, made, bookVars, interrupted,
                   outages, stops>>

\* create_grpc_channel: cancel_job takes conn_attempt_job off the schedule and
\* no other.
Connected ==
    /\ up
    /\ connJob' = FALSE
    /\ link' = [t \in Tasks |-> TRUE]
    /\ channel' = TRUE

\* A create_grpc_channel job.  When the server is not reachable it changes
\* nothing, and stays scheduled.
ConnectJob ==
    /\ pc = "idle"
    /\ connJob \/ retryJobs > 0
    /\ Connected
    /\ UNCHANGED <<up, pc, retryJobs, task, msg, entries, disk, made, bookVars,
                   interrupted, outages, stops>>

\* Mutant of Reconnect: no new attempt is scheduled.
Reconnect_Once ==
    /\ pc = "reconnect"
    /\ \/ Connected
       \/ /\ ~ up
          /\ channel' = FALSE
          /\ link' = [link EXCEPT ![task] = FALSE]
          /\ UNCHANGED connJob
    /\ pc' = "idle" /\ task' = NoTask
    /\ UNCHANGED <<up, retryJobs, msg, entries, disk, made, bookVars, interrupted,
                   outages, stops>>

\* create_grpc_channel_cb, after the task dropped its channel: one attempt, and
\* whatever comes of it one more recurring job.
Reconnect ==
    /\ pc = "reconnect"
    /\ \/ Connected
       \/ /\ ~ up
          /\ channel' = FALSE
          /\ link' = [link EXCEPT ![task] = FALSE]
          /\ UNCHANGED connJob
    /\ retryJobs' = retryJobs + 1
    /\ pc' = "idle" /\ task' = NoTask
    /\ UNCHANGED <<up, msg, entries, disk, made, bookVars, interrupted, outages,
                   stops>>

(***************************************************************************)
(* A task sends its message                                                *)
(***************************************************************************)

\* SendProcessList's answer never asks for more (servicer.py), so that every
\* run of a task sends one message.
RunTask(t) ==
    /\ pc = "idle"
    /\ \E m \in Messages \ made :
          /\ made' = made \cup {m}
          /\ msg' = m
    /\ task' = t
    /\ pc' = IF link[t] THEN "call" ELSE "store"
    /\ UNCHANGED <<up, channel, link, connJob, retryJobs, entries, disk, bookVars,
                   interrupted, outages, stops>>

\* Mutant of Call: a refused message is dropped.
Call_Dropped ==
    /\ pc = "call"
    /\ \/ Answered(msg) /\ pc' = "idle" /\ task' = NoTask /\ msg' = NoMessage
       \/ Unanswered(msg) /\ pc' = "save" /\ UNCHANGED <<task, msg>>
       \/ NotReceived(msg) /\ pc' = "reconnect" /\ msg' = NoMessage /\ UNCHANGED task
    /\ UNCHANGED <<channel, link, connJob, retryJobs, entries, disk, made,
                   interrupted, stops>>

\* send: any RpcError has the message cached.
Call ==
    /\ pc = "call"
    /\ \/ Answered(msg) /\ pc' = "idle" /\ task' = NoTask /\ msg' = NoMessage
       \/ Unanswered(msg) /\ pc' = "save" /\ UNCHANGED <<task, msg>>
       \/ NotReceived(msg) /\ pc' = "save" /\ UNCHANGED <<task, msg>>
    /\ UNCHANGED <<channel, link, connJob, retryJobs, entries, disk, made,
                   interrupted, stops>>

\* cache_message.  Files are named by second and call; a task runs every five
\* seconds, so that no two of its messages get the same name.
CacheMessage ==
    /\ pc \in {"store", "save"}
    /\ disk' = [disk EXCEPT ![msg] = "whole"]
    /\ msg' = NoMessage
    /\ \/ pc = "store" /\ pc' = "idle" /\ task' = NoTask
       \/ pc = "save" /\ pc' = "reconnect" /\ UNCHANGED task
    /\ UNCHANGED <<up, channel, link, connJob, retryJobs, entries, made, bookVars,
                   interrupted, outages, stops>>

(***************************************************************************)
(* send_pending_messages                                                   *)
(***************************************************************************)

\* Without a channel it does nothing; cut files are skipped and stay.
StartResending ==
    /\ pc = "idle"
    /\ channel
    /\ Cached # {}
    /\ entries' = Cached
    /\ pc' = "resend"
    /\ UNCHANGED <<up, channel, link, connJob, retryJobs, task, msg, disk, made,
                   bookVars, interrupted, outages, stops>>

GoOn(rest) ==
    /\ entries' = rest
    /\ pc' = IF rest = {} THEN "idle" ELSE "resend"

\* Mutant of Resend: the first message that fails ends the round.
Resend_Break(m) ==
    /\ pc = "resend"
    /\ m \in entries
    /\ \/ Answered(m) /\ pc' = "remove" /\ msg' = m /\ UNCHANGED entries
       \/ (Unanswered(m) \/ NotReceived(m)) /\ GoOn({}) /\ UNCHANGED msg
    /\ UNCHANGED <<channel, link, connJob, retryJobs, task, disk, made, interrupted,
                   stops>>

\* Mutant of Resend: the file is removed whatever became of the call.
Resend_RemovesAnyway(m) ==
    /\ pc = "resend"
    /\ m \in entries
    /\ Answered(m) \/ Unanswered(m) \/ NotReceived(m)
    /\ pc' = "remove" /\ msg' = m
    /\ UNCHANGED <<entries, channel, link, connJob, retryJobs, task, disk, made,
                   interrupted, stops>>

\* _send_cached_message.  The files are gone through by name; nothing depends
\* on the order, which is left open.
Resend(m) ==
    /\ pc = "resend"
    /\ m \in entries
    /\ \/ Answered(m) /\ pc' = "remove" /\ msg' = m /\ UNCHANGED entries
       \/ (Unanswered(m) \/ NotReceived(m)) /\ GoOn(entries \ {m}) /\ UNCHANGED msg
    /\ UNCHANGED <<channel, link, connJob, retryJobs, task, disk, made, interrupted,
                   stops>>

\* Mutant of RemoveFile: the file stays.
RemoveFile_Kept ==
    /\ pc = "remove"
    /\ msg' = NoMessage
    /\ GoOn(entries \ {msg})
    /\ UNCHANGED <<up, channel, link, connJob, retryJobs, task, disk, made, bookVars,
                   interrupted, outages, stops>>

\* os.remove, once the call was answered.
RemoveFile ==
    /\ pc = "remove"
    /\ disk' = [disk EXCEPT ![msg] = "none"]
    /\ msg' = NoMessage
    /\ GoOn(entries \ {msg})
    /\ UNCHANGED <<up, channel, link, connJob, retryJobs, task, made, bookVars,
                   interrupted, outages, stops>>

(***************************************************************************)
(* The agent stops                                                         *)
(***************************************************************************)

\* What the server and the disk keep of the message in the agent's hands: a
\* call may have been received, a file may have been cut short, a file may have
\* stayed though its message was answered.
Stop ==
    /\ stops < MaxStops
    /\ pc # "down"
    /\ stops' = stops + 1
    /\ interrupted' = IF msg = NoMessage THEN interrupted ELSE interrupted \cup {msg}
    /\ \/ /\ pc = "call" /\ up /\ msg \notin Invalid
          /\ got' = [got EXCEPT ![msg] = @ + 1]
          /\ UNCHANGED <<disk, unanswered>>
       \/ /\ pc \in {"store", "save"}
          /\ disk' = [disk EXCEPT ![msg] = "cut"]
          /\ UNCHANGED bookVars
       \/ /\ pc = "remove"
          /\ unanswered' = [unanswered EXCEPT ![msg] = @ + 1]
          /\ UNCHANGED <<disk, got>>
       \/ /\ pc # "remove"
          /\ UNCHANGED <<disk, bookVars>>
    /\ pc' = "down"
    /\ channel' = FALSE
    /\ link' = [t \in Tasks |-> FALSE]
    /\ connJob' = FALSE
    /\ retryJobs' = 0
    /\ task' = NoTask /\ msg' = NoMessage /\ entries' = {}
    /\ UNCHANGED <<up, made, outages>>

-----------------------------------------------------------------------------

\* What the thread does once a job has begun.
Step ==
    \/ Call \/ CacheMessage \/ Reconnect
    \/ \E m \in Messages : Resend(m)
    \/ RemoveFile

Next ==
    \/ ServerGoes \/ ServerReturns
    \/ Start \/ Stop
    \/ ConnectJob \/ StartResending
    \/ \E t \in Tasks : RunTask(t)
    \/ Step

Spec == Init /\ [][Next]_vars

\* The service manager starts the agent again, the thread goes on with what it
\* has begun, and run_pending runs every job that is due before it sleeps, so
\* that no job is passed over for ever.
Fairness ==
    /\ WF_vars(Start)
    /\ WF_vars(Step)
    /\ SF_vars(ConnectJob)
    /\ SF_vars(StartResending)

FairSpec == Spec /\ Fairness

-----------------------------------------------------------------------------
(***************************************************************************)
(* Properties                                                              *)
(***************************************************************************)

\* Every variable keeps its type.
TypeOK ==
    /\ up \in BOOLEAN
    /\ pc \in PCs
    /\ channel \in BOOLEAN
    /\ link \in [Tasks -> BOOLEAN]
    /\ connJob \in BOOLEAN
    /\ retryJobs \in Nat
    /\ task \in Tasks \cup {NoTask}
    /\ msg \in Messages \cup {NoMessage}
    /\ entries \subseteq Messages
    /\ disk \in [Messages -> Files]
    /\ made \subseteq Messages
    /\ got \in [Messages -> Nat]
    /\ unanswered \in [Messages -> Nat]
    /\ interrupted \subseteq Messages
    /\ outages \in 0 .. MaxOutages
    /\ stops \in 0 .. MaxStops

\* A message a task has produced is never lost while the agent runs: the server
\* has it, or its file does, or the agent is busy with it, unless the agent was
\* stopped with the message in its hands.
NothingLost ==
    \A m \in made :
        \/ got[m] > 0
        \/ disk[m] = "whole"
        \/ m = msg
        \/ m \in interrupted

\* The server gets a message a second time only after a receipt the agent did
\* not learn of, or could not act on before it stopped.
RepeatsExplained == \A m \in Messages : got[m] <= 1 + unanswered[m]

\* Between two jobs, an agent or a task without a channel is never forgotten:
\* some job that will try to connect is on the schedule.
ReconnectScheduled ==
    pc = "idle" /\ (~ channel \/ \E t \in Tasks : ~ link[t]) =>
        connJob \/ retryJobs > 0

\* Once the server stays reachable, every whole cache file of a message it
\* accepts is sent and removed, whatever invalid messages lie beside it.
CacheIsDrained ==
    <>[]up =>
        \A m \in Messages \ Invalid : disk[m] = "whole" ~> disk[m] = "none"

\* The messages the agent answers for: in a file or in its hands.
Pending == Cached \cup ({msg} \ {NoMessage})

Promise == INSTANCE StoreAndForward
               WITH accepted <- made, pending <- Pending, delivered <- got,
                    crashes <- stops

\* Every step of the agent, of the server and of the network between them is a
\* step StoreAndForward allows: a file is removed only after a receipt, and a
\* stop costs at most the one message in hand.
KeepsItsPromise == Promise!Spec

=============================================================================
