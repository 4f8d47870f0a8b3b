----------------------------- MODULE PeoplePage ------------------------------
(***************************************************************************)
(* The users page of the admin console (WebUI/src/pages/EmployeesPage.jsx) *)
(* with the hook that follows the job of a new user (hooks/useAsyncTask.js) *)
(* and the groups page beside it (pages/GroupsPage.jsx).                   *)
(*                                                                         *)
(* A new user's groups are chosen in the dialog and kept in a reference of *)
(* the page: the server is told of them only when the page has seen the    *)
(* job succeed.  A user's membership is changed by rewriting the member    *)
(* list of each group that differs, from one copy of all the groups read   *)
(* before.  The hook's interval is one reference that several jobs share.  *)
(***************************************************************************)
EXTENDS Naturals, Sequences, FiniteSets

CONSTANTS
    People,         \* users that may be created, each with its job
    Teams,          \* access groups
    MaxPolls,       \* requests of the hook in flight, a bound
    MaxEdits,       \* edits by administrators, a bound
    NoPerson

ASSUME PeopleAssumption ==
    /\ MaxPolls \in Nat \ {0} /\ MaxEdits \in Nat
    /\ NoPerson \notin People

VARIABLES
    lossy,          \* requests may fail; chosen once
    userJob,        \* the server's users and the jobs that set them up
    members,        \* the server's groups
    dialogOpen,     \* the dialog for a new user
    status,         \* the hook: what the dialog is told
    jobId,          \* the hook: the job it was started for
    intervals,      \* the jobs an interval polls
    timerRef,       \* the interval the hook can clear
    polls,          \* the hook's requests in flight
    pending,        \* pendingCreateGroupSyncRef: the user and its groups
    updates,        \* updateUserGroupMemberships in progress
    draft,          \* the group dialog of the groups page
    edits,          \* edits so far
    asked,          \* the groups each user should have (history)
    crossed,        \* the hook was reset with a request in flight, or got an
                    \* answer about a job it had ended (history)
    overlapped,     \* two changes of groups overlapped, or one failed (history)
    unfollowed      \* users whose job the page did not see succeed (history)

serverVars == <<lossy, userJob, members>>
hookVars == <<status, jobId, intervals, timerRef, polls>>
peopleVars == <<lossy, userJob, members, dialogOpen, status, jobId, intervals,
                timerRef, polls, pending, updates, draft, edits, asked, crossed,
                overlapped, unfollowed>>

HookStates == {"idle", "starting", "running", "succeeded", "failed"}
UserJobs == {"none", "queued", "done", "failed"}

\* "create" is the POST, "first" the poll made at once, "next" one of the
\* interval.
HookCall == [kind : {"create", "first", "next"}, job : People,
             at : {"sent", "ok", "failed"}, said : UserJobs]

\* A change of a user's groups: the copy of the groups, and those to patch.
Update == [user : People, want : SUBSET Teams, pc : {"read", "patch"},
           copy : [Teams -> SUBSET People], todo : SUBSET Teams]

Nothing == [user |-> NoPerson, want |-> {}]
NoDraft == [team |-> "none", list |-> {}]

Send(kind, u) == [kind |-> kind, job |-> u, at |-> "sent", said |-> "none"]

Change(u, W) == [user |-> u, want |-> W, pc |-> "read",
                 copy |-> [g \in Teams |-> {}], todo |-> {}]

Drop(seq, i) ==
    [j \in 1..(Len(seq) - 1) |-> IF j < i THEN seq[j] ELSE seq[j + 1]]

Quiet == updates = <<>> /\ draft = NoDraft

TeamsOf(u, m) == {g \in Teams : u \in m[g]}

------------------------------------------------------------------------------
\* The hook clears the interval it refers to, whichever job that polls.
Cleared == intervals \ {timerRef}

\* reset: idle, no job, no interval.  Requests in flight stay.
Reset ==
    /\ status' = "idle"
    /\ jobId' = NoPerson
    /\ intervals' = Cleared
    /\ timerRef' = NoPerson

OpenDialog ==
    /\ ~dialogOpen
    /\ dialogOpen' = TRUE
    /\ UNCHANGED <<serverVars, hookVars, pending, updates, draft, edits, asked,
                   crossed, overlapped, unfollowed>>

\* The cross in the corner of the dialog works at any time; the reference to the
\* user's groups stays.
CloseDialog ==
    /\ dialogOpen
    /\ dialogOpen' = FALSE
    /\ Reset
    /\ crossed' = (crossed \/ polls # <<>>)
    /\ unfollowed' = IF jobId # NoPerson THEN unfollowed \cup {jobId} ELSE unfollowed
    /\ UNCHANGED <<serverVars, polls, pending, updates, draft, edits, asked,
                   overlapped>>

\* handleModalSubmit for a new user, up to the POST.
SubmitUser(u, W) ==
    /\ dialogOpen
    /\ status \notin {"starting", "running"}
    /\ userJob[u] = "none" /\ u \notin unfollowed
    /\ \A i \in 1..Len(polls) : ~(polls[i].kind = "create" /\ polls[i].job = u)
    /\ Len(polls) < MaxPolls
    /\ pending' = [user |-> u, want |-> W]
    /\ asked' = [asked EXCEPT ![u] = W]
    /\ status' = "starting"
    /\ jobId' = NoPerson
    /\ polls' = Append(polls, Send("create", u))
    /\ UNCHANGED <<serverVars, dialogOpen, intervals, timerRef, updates, draft,
                   edits, crossed, overlapped, unfollowed>>

------------------------------------------------------------------------------
\* The server: the user is stored and its job queued by the POST; the status of
\* the job is told.
ServeHook(i) ==
    LET c == polls[i]
    IN  /\ c.at = "sent"
        /\ userJob' = IF c.kind = "create" THEN [userJob EXCEPT ![c.job] = "queued"]
                                           ELSE userJob
        /\ polls' = [polls EXCEPT ![i].at = "ok",
                                  ![i].said = IF c.kind = "create" THEN "none"
                                                                   ELSE userJob[c.job]]
        /\ UNCHANGED <<lossy, members, dialogOpen, status, jobId, intervals,
                       timerRef, pending, updates, draft, edits, asked, crossed,
                       overlapped, unfollowed>>

LoseHookCall(i) ==
    /\ lossy
    /\ polls[i].at # "failed"
    /\ polls' = [polls EXCEPT ![i].at = "failed", ![i].said = "none"]
    /\ UNCHANGED <<serverVars, dialogOpen, status, jobId, intervals, timerRef,
                   pending, updates, draft, edits, asked, crossed, overlapped,
                   unfollowed>>

EndUserJob(u) ==
    /\ userJob[u] = "queued"
    /\ \E to \in {"done", "failed"} : userJob' = [userJob EXCEPT ![u] = to]
    /\ UNCHANGED <<lossy, members, dialogOpen, hookVars, pending, updates, draft,
                   edits, asked, crossed, overlapped, unfollowed>>

------------------------------------------------------------------------------
\* The effect on "failed": the groups are forgotten, the dialog stays.
SawFailure(u) ==
    /\ status' = "failed"
    /\ pending' = Nothing
    /\ unfollowed' = unfollowed \cup {u}
    /\ UNCHANGED <<dialogOpen, updates, overlapped>>

\* The effect on "succeeded": the change of the groups the reference holds is
\* begun and not waited for, the hook is reset, the dialog closed.
SawSuccess ==
    LET begins == pending.want # {}
    IN  /\ updates' = IF begins THEN Append(updates, Change(pending.user, pending.want))
                                ELSE updates
        /\ overlapped' = (overlapped \/ (begins /\ ~Quiet))
        /\ pending' = Nothing
        /\ dialogOpen' = FALSE
        /\ status' = "idle"
        /\ UNCHANGED unfollowed

\* The POST is answered: the job is known, the interval of the one before is
\* cleared, and the first poll is sent.
CreateUserAnswered(i) ==
    LET u == polls[i].job
    IN  /\ polls[i].kind = "create"
        /\ \/ /\ polls[i].at = "ok"
              /\ status' = "running"
              /\ jobId' = u
              /\ intervals' = Cleared
              /\ polls' = Append(Drop(polls, i), Send("first", u))
              /\ UNCHANGED <<timerRef, pending, dialogOpen, updates, overlapped,
                             unfollowed>>
           \/ /\ polls[i].at = "failed"
              /\ SawFailure(u)
              /\ polls' = Drop(polls, i)
              /\ UNCHANGED <<jobId, intervals, timerRef>>
        /\ UNCHANGED <<serverVars, draft, edits, asked, crossed>>

\* A poll is answered.  An end of the job clears the interval; anything else
\* sets it, when this was the first poll.
PollAnswered(i) ==
    LET c == polls[i]
        u == c.job
    IN  /\ c.kind # "create"
        /\ c.at # "sent"
        /\ polls' = Drop(polls, i)
        /\ crossed' = (crossed \/ u # jobId \/ status # "running")
        /\ \/ /\ c.said = "done"
              /\ SawSuccess
              /\ intervals' = Cleared
              /\ timerRef' = NoPerson
              /\ jobId' = NoPerson
           \/ /\ c.said = "failed"
              /\ SawFailure(u)
              /\ intervals' = Cleared
              /\ timerRef' = NoPerson
              /\ UNCHANGED jobId
           \/ /\ c.said \in {"queued", "none"}
              /\ status' = IF c.at = "ok" THEN "running" ELSE status
              /\ IF c.kind = "first"
                 THEN intervals' = intervals \cup {u} /\ timerRef' = u
                 ELSE UNCHANGED <<intervals, timerRef>>
              /\ UNCHANGED <<jobId, pending, dialogOpen, updates, overlapped,
                             unfollowed>>
        /\ UNCHANGED <<serverVars, draft, edits, asked>>

\* An interval fires, whether or not its last poll was answered.
PollUser(u) ==
    /\ u \in intervals
    /\ Len(polls) < MaxPolls
    /\ polls' = Append(polls, Send("next", u))
    /\ UNCHANGED <<serverVars, dialogOpen, status, jobId, intervals, timerRef,
                   pending, updates, draft, edits, asked, crossed, overlapped,
                   unfollowed>>

------------------------------------------------------------------------------
\* updateUserGroupMemberships.  The groups are read once; a failure of that is
\* taken for no groups, and nothing is patched.
ReadTeams(k) ==
    LET x == updates[k]
    IN  /\ x.pc = "read"
        /\ \/ /\ updates' = [updates EXCEPT
                   ![k] = [@ EXCEPT
                       !.pc = "patch", !.copy = members,
                       !.todo = {g \in Teams : (g \in x.want) # (x.user \in members[g])}]]
              /\ UNCHANGED overlapped
           \/ /\ lossy
              /\ updates' = Drop(updates, k)
              /\ overlapped' = TRUE
        /\ UNCHANGED <<serverVars, dialogOpen, hookVars, pending, draft, edits,
                       asked, crossed, unfollowed>>

\* A mutant: the group is patched with the new member alone.
Rewritten_OnlyUser(x, g) ==
    IF g \in x.want THEN {x.user} ELSE x.copy[g] \ {x.user}

\* The list that is written: the copy's, with the user or without.
Rewritten(x, g) ==
    IF g \in x.want THEN x.copy[g] \cup {x.user} ELSE x.copy[g] \ {x.user}

\* One group is patched with a whole list; those the user joins come first.
PatchTeam(k, g) ==
    LET x == updates[k]
    IN  /\ x.pc = "patch"
        /\ g \in x.todo
        /\ g \notin x.want => x.todo \cap x.want = {}
        /\ \/ /\ members' = [members EXCEPT ![g] = Rewritten(x, g)]
              /\ updates' = [updates EXCEPT ![k].todo = @ \ {g}]
              /\ UNCHANGED overlapped
           \/ /\ lossy
              /\ updates' = Drop(updates, k)
              /\ overlapped' = TRUE
              /\ UNCHANGED members
        /\ UNCHANGED <<lossy, userJob, dialogOpen, hookVars, pending, draft, edits,
                       asked, crossed, unfollowed>>

EndUpdate(k) ==
    /\ updates[k].pc = "patch"
    /\ updates[k].todo = {}
    /\ updates' = Drop(updates, k)
    /\ UNCHANGED <<serverVars, dialogOpen, hookVars, pending, draft, edits, asked,
                   crossed, overlapped, unfollowed>>

\* Save in the dialog of a user that exists.
EditUser(u, W) ==
    /\ ~dialogOpen
    /\ edits < MaxEdits
    /\ userJob[u] # "none"
    /\ edits' = edits + 1
    /\ updates' = Append(updates, Change(u, W))
    /\ asked' = [asked EXCEPT ![u] = W]
    /\ overlapped' = (overlapped \/ ~Quiet \/ jobId = u)
    /\ UNCHANGED <<serverVars, dialogOpen, hookVars, pending, draft, crossed,
                   unfollowed>>

\* The groups page of some administrator: a group's dialog is opened with the
\* members its list showed, and saves them all.
OpenTeam(g) ==
    /\ draft = NoDraft
    /\ edits < MaxEdits
    /\ edits' = edits + 1
    /\ draft' = [team |-> g, list |-> members[g]]
    /\ overlapped' = (overlapped \/ updates # <<>>)
    /\ UNCHANGED <<serverVars, dialogOpen, hookVars, pending, updates, asked,
                   crossed, unfollowed>>

SaveTeam(M) ==
    LET g == draft.team
    IN  /\ draft # NoDraft
        /\ M \subseteq {u \in People : userJob[u] # "none"}
        /\ members' = [members EXCEPT ![g] = M]
        /\ draft' = NoDraft
        /\ asked' = [u \in People |->
                        CASE u \in M \ draft.list -> asked[u] \cup {g}
                          [] u \in draft.list \ M -> asked[u] \ {g}
                          [] OTHER -> asked[u]]
        /\ overlapped' = (overlapped \/ \E u \in M \cup draft.list :
                             u \in {jobId, pending.user})
        /\ UNCHANGED <<lossy, userJob, dialogOpen, hookVars, pending, updates,
                       edits, crossed, unfollowed>>

------------------------------------------------------------------------------
PeopleInit ==
    /\ lossy \in BOOLEAN
    /\ userJob = [u \in People |-> "none"]
    /\ members = [g \in Teams |-> {}]
    /\ dialogOpen = FALSE
    /\ status = "idle"
    /\ jobId = NoPerson
    /\ intervals = {}
    /\ timerRef = NoPerson
    /\ polls = <<>>
    /\ pending = Nothing
    /\ updates = <<>>
    /\ draft = NoDraft
    /\ edits = 0
    /\ asked = [u \in People |-> {}]
    /\ crossed = FALSE
    /\ overlapped = FALSE
    /\ unfollowed = {}

PeopleNext ==
    \/ OpenDialog \/ CloseDialog
    \/ \E u \in People :
          \/ EndUserJob(u) \/ PollUser(u)
          \/ \E W \in SUBSET Teams : SubmitUser(u, W) \/ EditUser(u, W)
    \/ \E i \in 1..Len(polls) :
          \/ ServeHook(i) \/ LoseHookCall(i) \/ CreateUserAnswered(i)
          \/ PollAnswered(i)
    \/ \E k \in 1..Len(updates) :
          \/ ReadTeams(k) \/ EndUpdate(k)
          \/ \E g \in Teams : PatchTeam(k, g)
    \/ \E g \in Teams : OpenTeam(g)
    \/ \E M \in SUBSET People : SaveTeam(M)

------------------------------------------------------------------------------
(***************************************************************************)
(* Properties                                                              *)
(***************************************************************************)

\* Every variable of the page keeps its type.
PeopleTypeOK ==
    /\ lossy \in BOOLEAN /\ dialogOpen \in BOOLEAN
    /\ crossed \in BOOLEAN /\ overlapped \in BOOLEAN
    /\ userJob \in [People -> UserJobs]
    /\ members \in [Teams -> SUBSET People]
    /\ status \in HookStates
    /\ jobId \in People \cup {NoPerson} /\ timerRef \in People \cup {NoPerson}
    /\ intervals \subseteq People /\ unfollowed \subseteq People
    /\ polls \in Seq(HookCall)
    /\ pending \in [user : People \cup {NoPerson}, want : SUBSET Teams]
    /\ updates \in Seq(Update)
    /\ draft = NoDraft \/ draft \in [team : Teams, list : SUBSET People]
    /\ edits \in 0..MaxEdits
    /\ asked \in [People -> SUBSET Teams]

\* A dialog that says it is creating a user is one the hook still works for, so
\* it will say something else, however polls fail; unless the dialog was closed
\* with a request in flight or polls of one job overlapped at its end.
RunningIsPolled ==
    status \in {"starting", "running"} /\ ~crossed
    => polls # <<>> \/ (timerRef # NoPerson /\ timerRef \in intervals)

\* The groups chosen for a new user reach the server although only the page
\* knows them: when nothing is left to do, each user whose job the page saw
\* succeed is in the groups last asked for it and in no other, and so nobody
\* else's membership was rewritten; when no two changes of groups overlapped, none
\* failed, and the hook was not crossed.
GroupsFollowCreation ==
    /\ polls = <<>> /\ intervals = {} /\ Quiet
    /\ ~crossed /\ ~overlapped
    => \A u \in People \ unfollowed : TeamsOf(u, members) = asked[u]

==============================================================================
