---------------------------- MODULE TemplatesPage ----------------------------
(***************************************************************************)
(* The workstation templates page of the admin console (WebUI/src/pages/   *)
(* WorkstationsPage.jsx).  A template is built by a job of the server.  The *)
(* page remembers what it has asked for in the browser's session storage   *)
(* and polls each job by a chain: a timer, a request for the job's status, *)
(* when the job has finished a request for the rows, and the timer again.  *)
(*                                                                         *)
(* Leaving the page clears the timers of its visit and nothing else: a     *)
(* chain that waits for an answer goes on after the visit, beside the      *)
(* chain the next visit starts from what is tracked.                       *)
(***************************************************************************)
EXTENDS Naturals, Sequences, FiniteSets

CONSTANTS
    Templates,      \* templates that may be created
    MaxVisits,      \* visits of the page, a bound
    MaxTplCalls,    \* requests in flight, a bound
    TplNets,        \* networks a behaviour may have
    NoTemplate

ASSUME TemplatesAssumption ==
    /\ MaxVisits \in Nat \ {0} /\ MaxTplCalls \in Nat \ {0}
    /\ TplNets \subseteq [inorder : BOOLEAN, faults : BOOLEAN]
    /\ NoTemplate \notin Templates

VARIABLES
    tplNet,         \* chosen once
    made,           \* the server's templates, with is_ready
    tplJob,         \* the job of each template, gone when its result expired
    visit,          \* which visit it is
    mounted,        \* the page is shown
    rows,           \* the status in each row of the page
    tracked,        \* the entries of the session storage
    chain,          \* the polling of each template by each visit
    tplCalls,       \* the requests in flight
    blanked,        \* the last rows this visit fetched were an error (history)
    stray           \* deleted on the page only, created by a visit that was left
                    \* before it learned of it, or ready when its job failed
                    \* (history)

tplVars == <<tplNet, made, tplJob, visit, mounted, rows, tracked, chain,
             tplCalls, blanked, stray>>

Visits == 1..MaxVisits
MadeStates == {"none", "building", "ready"}
JobStates == {"none", "queued", "done", "failed", "gone"}
RowStates == {"absent", "building", "failed", "connected", "disconnected"}

\* "rows" is asked for by the page, "load" by a chain whose job has finished.
TplCall == [kind : {"create", "rows", "status", "load"},
            tpl : Templates \cup {NoTemplate}, visit : Visits,
            at : {"sent", "ok", "failed"},
            saw : [Templates -> MadeStates], said : JobStates]

Ask(kind, t, v) ==
    [kind |-> kind, tpl |-> t, visit |-> v, at |-> "sent",
     saw |-> [x \in Templates |-> "none"], said |-> "none"]

TplRoom == Len(tplCalls) < MaxTplCalls

Others(i) ==
    [j \in 1..(Len(tplCalls) - 1) |->
        IF j < i THEN tplCalls[j] ELSE tplCalls[j + 1]]

\* The answer to request i arrives, in this way.
Arrives(i, kinds, how) ==
    /\ tplCalls[i].kind \in kinds
    /\ tplCalls[i].at = how
    /\ tplNet.inorder => i = 1

\* A change of the rows by visit v is seen only while that visit lasts.
Shown(v) == mounted /\ v = visit

------------------------------------------------------------------------------
\* A visit begins: the rows are asked for, and what is tracked as being built is
\* polled.
OpenTemplates ==
    /\ ~mounted
    /\ visit < MaxVisits
    /\ TplRoom
    /\ visit' = visit + 1
    /\ mounted' = TRUE
    /\ rows' = [t \in Templates |-> "absent"]
    /\ blanked' = FALSE
    /\ chain' = [chain EXCEPT ![visit + 1] =
                    [t \in Templates |->
                        IF tracked[t] = "building" THEN "timer" ELSE "off"]]
    /\ tplCalls' = Append(tplCalls, Ask("rows", NoTemplate, visit + 1))
    /\ UNCHANGED <<tplNet, made, tplJob, tracked, stray>>

\* The visit ends; its timers are cleared, its requests are not.
LeaveTemplates ==
    /\ mounted
    /\ mounted' = FALSE
    /\ chain' = [chain EXCEPT ![visit] =
                    [t \in Templates |-> IF @[t] = "timer" THEN "off" ELSE @[t]]]
    /\ UNCHANGED <<tplNet, made, tplJob, visit, rows, tracked, tplCalls,
                   blanked, stray>>

RefreshTemplates ==
    /\ mounted
    /\ TplRoom
    /\ tplCalls' = Append(tplCalls, Ask("rows", NoTemplate, visit))
    /\ UNCHANGED <<tplNet, made, tplJob, visit, mounted, rows, tracked, chain,
                   blanked, stray>>

CreateTemplate(t) ==
    /\ mounted
    /\ TplRoom
    /\ made[t] = "none"
    /\ \A i \in 1..Len(tplCalls) : tplCalls[i].tpl # t
    /\ t \notin stray
    /\ tplCalls' = Append(tplCalls, Ask("create", t, visit))
    /\ UNCHANGED <<tplNet, made, tplJob, visit, mounted, rows, tracked, chain,
                   blanked, stray>>

\* Delete takes the row and the entry away and asks nothing of the server; the
\* chain goes on.
DropTemplate(t) ==
    /\ mounted
    /\ rows[t] # "absent"
    /\ rows' = [rows EXCEPT ![t] = "absent"]
    /\ tracked' = [tracked EXCEPT ![t] = "none"]
    /\ stray' = stray \cup {t}
    /\ UNCHANGED <<tplNet, made, tplJob, visit, mounted, chain, tplCalls, blanked>>

------------------------------------------------------------------------------
\* The server serves request i.  A template is inserted before its job is
\* queued.  A job whose result expired is not found.
ServeTemplate(i) ==
    LET c == tplCalls[i]
    IN  /\ c.at = "sent"
        /\ tplNet.inorder => \A j \in 1..(i - 1) : tplCalls[j].at # "sent"
        /\ made' = IF c.kind = "create" THEN [made EXCEPT ![c.tpl] = "building"]
                                        ELSE made
        /\ tplJob' = IF c.kind = "create" THEN [tplJob EXCEPT ![c.tpl] = "queued"]
                                          ELSE tplJob
        /\ tplCalls' = [tplCalls EXCEPT
               ![i] = [c EXCEPT
                   !.at = IF c.kind = "status" /\ tplJob[c.tpl] = "gone"
                          THEN "failed" ELSE "ok",
                   !.saw = IF c.kind \in {"rows", "load"} THEN made ELSE c.saw,
                   !.said = IF c.kind = "status" THEN tplJob[c.tpl] ELSE c.said]]
        /\ UNCHANGED <<tplNet, visit, mounted, rows, tracked, chain, blanked, stray>>

\* A request, or its answer, is lost.
LoseTemplateCall(i) ==
    /\ tplNet.faults
    /\ tplCalls[i].at # "failed"
    /\ tplCalls' = [tplCalls EXCEPT
                       ![i] = [Ask(@.kind, @.tpl, @.visit) EXCEPT !.at = "failed"]]
    /\ UNCHANGED <<tplNet, made, tplJob, visit, mounted, rows, tracked, chain,
                   blanked, stray>>

\* The job marks the template ready, starts its workstations, and is finished;
\* it may fail before that mark or after it.
MarkTemplateReady(t) ==
    /\ tplJob[t] = "queued"
    /\ made[t] = "building"
    /\ made' = [made EXCEPT ![t] = "ready"]
    /\ UNCHANGED <<tplNet, tplJob, visit, mounted, rows, tracked, chain, tplCalls,
                   blanked, stray>>

EndTemplateJob(t) ==
    /\ tplJob[t] = "queued"
    /\ \/ /\ made[t] = "ready"
          /\ tplJob' = [tplJob EXCEPT ![t] = "done"]
          /\ UNCHANGED stray
       \/ /\ tplJob' = [tplJob EXCEPT ![t] = "failed"]
          /\ stray' = IF made[t] = "ready" THEN stray \cup {t} ELSE stray
    /\ UNCHANGED <<tplNet, made, visit, mounted, rows, tracked, chain, tplCalls,
                   blanked>>

ExpireTemplateJob(t) ==
    /\ tplJob[t] \in {"done", "failed"}
    /\ tplJob' = [tplJob EXCEPT ![t] = "gone"]
    /\ UNCHANGED <<tplNet, made, visit, mounted, rows, tracked, chain, tplCalls,
                   blanked, stray>>

------------------------------------------------------------------------------
\* fetchWorkstations returns no rows when its request failed.
Listed(i) ==
    IF tplCalls[i].at = "ok" THEN tplCalls[i].saw
                             ELSE [t \in Templates |-> "none"]

\* Entries of templates that are ready are forgotten; the others are laid over
\* the rows.
StillTracked(list) ==
    [t \in Templates |-> IF list[t] = "ready" THEN "none" ELSE tracked[t]]

Merged(list) ==
    [t \in Templates |->
        CASE list[t] = "ready" -> "connected"
          [] list[t] # "ready" /\ tracked[t] # "none" -> tracked[t]
          [] list[t] = "building" /\ tracked[t] = "none" -> "disconnected"
          [] OTHER -> "absent"]

\* loadRows, when its answer has arrived.
LoadRows(i) ==
    LET v == tplCalls[i].visit
    IN  /\ tracked' = StillTracked(Listed(i))
        /\ rows' = IF Shown(v) THEN Merged(Listed(i)) ELSE rows
        /\ blanked' = IF Shown(v) THEN tplCalls[i].at = "failed" ELSE blanked

RowsAnswered(i) ==
    /\ \E how \in {"ok", "failed"} : Arrives(i, {"rows"}, how)
    /\ LoadRows(i)
    /\ tplCalls' = Others(i)
    /\ UNCHANGED <<tplNet, made, tplJob, visit, mounted, chain, stray>>

\* The template and its job are known: a row, an entry, and a timer.  A failed
\* request leaves nothing behind and the dialog closes all the same.
CreateAnswered(i) ==
    LET t == tplCalls[i].tpl
        v == tplCalls[i].visit
    IN  /\ tplCalls' = Others(i)
        /\ \/ /\ Arrives(i, {"create"}, "ok")
              /\ tracked' = [tracked EXCEPT ![t] = "building"]
              /\ chain' = [chain EXCEPT ![v][t] = "timer"]
              /\ rows' = IF Shown(v) THEN [rows EXCEPT ![t] = "building"] ELSE rows
              /\ stray' = IF Shown(v) THEN stray ELSE stray \cup {t}
           \/ /\ Arrives(i, {"create"}, "failed")
              /\ stray' = stray \cup {t}
              /\ UNCHANGED <<tracked, chain, rows>>
        /\ UNCHANGED <<tplNet, made, tplJob, visit, mounted, blanked>>

PollTemplate(v, t) ==
    /\ chain[v][t] = "timer"
    /\ TplRoom
    /\ chain' = [chain EXCEPT ![v][t] = "busy"]
    /\ tplCalls' = Append(tplCalls, Ask("status", t, v))
    /\ UNCHANGED <<tplNet, made, tplJob, visit, mounted, rows, tracked, blanked,
                   stray>>

\* The entry of a template, if there is one, takes the state its chain saw.
Noted(t, state) ==
    [tracked EXCEPT ![t] = IF @ = "none" THEN @ ELSE state]

\* The status of a job arrives at the chain that asked: a failure ends the
\* chain, an end asks for the rows, anything else sets the timer again.
StatusAnswered(i) ==
    LET t == tplCalls[i].tpl
        v == tplCalls[i].visit
        said == tplCalls[i].said
        Chain(to) == chain' = [chain EXCEPT ![v][t] = to]
    IN  /\ \/ /\ Arrives(i, {"status"}, "ok")
              /\ said = "failed"
              /\ rows' = IF Shown(v) /\ rows[t] # "absent"
                         THEN [rows EXCEPT ![t] = "failed"] ELSE rows
              /\ tracked' = Noted(t, "failed")
              /\ Chain("off")
              /\ tplCalls' = Others(i)
           \/ /\ Arrives(i, {"status"}, "ok")
              /\ said = "done"
              /\ tplCalls' = Append(Others(i), Ask("load", t, v))
              /\ UNCHANGED <<rows, tracked, chain>>
           \/ /\ Arrives(i, {"status"}, "ok")
              /\ said = "queued"
              /\ tracked' = Noted(t, "building")
              /\ Chain("timer")
              /\ tplCalls' = Others(i)
              /\ UNCHANGED rows
           \/ /\ Arrives(i, {"status"}, "failed")
              /\ Chain("timer")
              /\ tplCalls' = Others(i)
              /\ UNCHANGED <<rows, tracked>>
        /\ UNCHANGED <<tplNet, made, tplJob, visit, mounted, blanked, stray>>

\* A mutant: a finished job ends the chain whatever the rows are.
LoadAnswered_Ends(i) ==
    LET t == tplCalls[i].tpl
        v == tplCalls[i].visit
    IN  /\ \E how \in {"ok", "failed"} : Arrives(i, {"load"}, how)
        /\ LoadRows(i)
        /\ chain' = [chain EXCEPT ![v][t] = "off"]
        /\ tplCalls' = Others(i)
        /\ UNCHANGED <<tplNet, made, tplJob, visit, mounted, stray>>

\* The rows arrive at a chain: it ends when its template is among those that are
\* ready.
LoadAnswered(i) ==
    LET t == tplCalls[i].tpl
        v == tplCalls[i].visit
    IN  /\ \E how \in {"ok", "failed"} : Arrives(i, {"load"}, how)
        /\ LoadRows(i)
        /\ chain' = [chain EXCEPT ![v][t] =
                        IF Listed(i)[t] = "ready" THEN "off" ELSE "timer"]
        /\ tplCalls' = Others(i)
        /\ UNCHANGED <<tplNet, made, tplJob, visit, mounted, stray>>

------------------------------------------------------------------------------
TemplatesInit ==
    /\ tplNet \in TplNets
    /\ made = [t \in Templates |-> "none"]
    /\ tplJob = [t \in Templates |-> "none"]
    /\ visit = 1
    /\ mounted = TRUE
    /\ rows = [t \in Templates |-> "absent"]
    /\ tracked = [t \in Templates |-> "none"]
    /\ chain = [v \in Visits |-> [t \in Templates |-> "off"]]
    /\ tplCalls = <<Ask("rows", NoTemplate, 1)>>
    /\ blanked = FALSE
    /\ stray = {}

TemplatesNext ==
    \/ OpenTemplates \/ LeaveTemplates \/ RefreshTemplates
    \/ \E t \in Templates :
          \/ CreateTemplate(t) \/ DropTemplate(t)
          \/ MarkTemplateReady(t) \/ EndTemplateJob(t) \/ ExpireTemplateJob(t)
          \/ \E v \in Visits : PollTemplate(v, t)
    \/ \E i \in 1..Len(tplCalls) :
          \/ ServeTemplate(i) \/ LoseTemplateCall(i) \/ RowsAnswered(i)
          \/ CreateAnswered(i) \/ StatusAnswered(i) \/ LoadAnswered(i)

------------------------------------------------------------------------------
(***************************************************************************)
(* Properties                                                              *)
(***************************************************************************)

\* Every variable of the page keeps its type.
TemplatesTypeOK ==
    /\ tplNet \in TplNets
    /\ made \in [Templates -> MadeStates]
    /\ tplJob \in [Templates -> JobStates]
    /\ visit \in Visits /\ mounted \in BOOLEAN /\ blanked \in BOOLEAN
    /\ rows \in [Templates -> RowStates]
    /\ tracked \in [Templates -> {"none", "building", "failed"}]
    /\ chain \in [Visits -> [Templates -> {"off", "timer", "busy"}]]
    /\ tplCalls \in Seq(TplCall)
    /\ stray \subseteq Templates

\* However the page is left and opened again, and whatever is lost or overtaken,
\* a template the session storage has as being built is polled by some visit
\* as long as the page is shown.
BuildingIsPolled ==
    mounted => \A t \in Templates :
        tracked[t] = "building" => \E v \in Visits : chain[v][t] # "off"

\* Once answers arrive in order and nothing is left to happen, the page shows
\* what became of each template: connected when it is ready, failed when its
\* job failed.  Not of those it deleted, or created in a visit that was left, or
\* whose job failed when they were ready, and not when its last rows were an
\* error.
TemplatesSettle ==
    /\ tplNet.inorder
    /\ mounted /\ tplCalls = <<>> /\ ~blanked
    /\ \A t \in Templates : tplJob[t] # "queued"
    /\ \A t \in Templates : chain[visit][t] = "off"
    => \A t \in Templates \ stray :
          /\ made[t] = "none" => rows[t] = "absent"
          /\ made[t] = "ready" => rows[t] = "connected"
          /\ made[t] = "building" => rows[t] = "failed"

==============================================================================
