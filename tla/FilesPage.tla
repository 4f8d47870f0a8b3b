----------------------------- MODULE FilesPage -------------------------------
(***************************************************************************)
(* The file shares page of the admin console (WebUI/src/pages/             *)
(* FilesPage.jsx).  A share is created and deleted by a job the server     *)
(* queues; the page polls the list of shares every two seconds until it    *)
(* sees the share appear or vanish, shows a banner meanwhile, and then     *)
(* fetches the list again.  Requests overlap: each is sent, served and     *)
(* answered in three steps, and the answers may arrive in any order.       *)
(*                                                                         *)
(* The jobs and the PATCH of the server are DomainDirectory's; here they   *)
(* are what the page can see of them.                                      *)
(***************************************************************************)
EXTENDS Naturals, Sequences, FiniteSets

CONSTANTS
    Shares,         \* names of shares
    MaxAttempts,    \* polls before the page gives up: 15 in the code
    MaxShareOps,    \* operations of the administrator, a bound
    MaxFileCalls,   \* requests in flight, a bound
    FileNets,       \* networks a behaviour may have, see FileNet
    NoShare

\* Whether answers arrive in the order of the requests, and whether requests
\* and jobs may fail.
FileNet == [inorder : BOOLEAN, faults : BOOLEAN]

ASSUME FilesAssumption ==
    /\ MaxAttempts \in Nat \ {0}
    /\ MaxShareOps \in Nat /\ MaxFileCalls \in Nat
    /\ FileNets \subseteq FileNet
    /\ NoShare \notin Shares

VARIABLES
    fileNet,        \* chosen once
    stored,         \* the server's shares: absent, new or edited
    shareJobs,      \* the jobs it has queued
    tree,           \* the shares the page shows
    creating,       \* the names of the banner
    deleting,       \* the rows shown as being deleted
    uploading,      \* the wizard is submitting
    fileCalls,      \* the requests in flight
    filePolls,      \* the polls that were ever started
    shareOps,       \* operations so far
    fileTold,       \* the page has shown an error (history)
    muddled         \* shares with two operations at once, or deleted from the
                    \* dialog, which does not poll (history)

filesVars == <<fileNet, stored, shareJobs, tree, creating, deleting, uploading,
               fileCalls, filePolls, shareOps, fileTold, muddled>>

Forms == {"absent", "new", "edited"}
Listing == [Shares -> Forms]
JobOps == {"create", "delete"}
FileCallKinds == JobOps \cup {"tree", "poll", "edit", "dialog"}

FileCall == [kind : FileCallKinds, share : Shares \cup {NoShare},
             poll : Nat, at : {"sent", "ok", "failed"}, list : Listing]

NoList == [s \in Shares |-> "absent"]

\* The request of a poll's interval carries the poll; the others carry none.
Request(kind, s, p) ==
    [kind |-> kind, share |-> s, poll |-> p, at |-> "sent", list |-> NoList]

Fetch == Request("tree", NoShare, 0)

Without(seq, i) ==
    [j \in 1..(Len(seq) - 1) |-> IF j < i THEN seq[j] ELSE seq[j + 1]]

\* The calls that may be served, and those whose answer may arrive.
Servable(i) ==
    /\ fileCalls[i].at = "sent"
    /\ fileNet.inorder => \A j \in 1..(i - 1) : fileCalls[j].at # "sent"

Answered(i, how) ==
    /\ fileCalls[i].at = how
    /\ fileNet.inorder => i = 1

RoomFor(n) == Len(fileCalls) + n <= MaxFileCalls

------------------------------------------------------------------------------
\* The operations of the administrator.
Open(s) ==
    \/ s \in creating \cup deleting
    \/ \E k \in 1..Len(shareJobs) : shareJobs[k].share = s
    \/ \E i \in 1..Len(fileCalls) : fileCalls[i].share = s

Operate(kind, s) ==
    /\ shareOps < MaxShareOps
    /\ RoomFor(1)
    /\ shareOps' = shareOps + 1
    /\ fileCalls' = Append(fileCalls, Request(kind, s, 0))
    /\ muddled' = IF Open(s) \/ kind = "dialog" THEN muddled \cup {s} ELSE muddled

\* The wizard takes any name, also one that is shown, and no second one while it
\* submits.
SubmitShare(s) ==
    /\ ~uploading
    /\ Operate("create", s)
    /\ uploading' = TRUE
    /\ creating' = creating \cup {s}
    /\ UNCHANGED <<fileNet, stored, shareJobs, tree, deleting, filePolls,
                   fileTold>>

\* Delete in the menu of a row or a tile.  A row that is being deleted takes no
\* clicks, but its tile in the other layout does.
DeleteRow(s) ==
    /\ tree[s] # "absent"
    /\ Operate("delete", s)
    /\ deleting' = deleting \cup {s}
    /\ UNCHANGED <<fileNet, stored, shareJobs, tree, creating, uploading,
                   filePolls, fileTold>>

\* Save and Delete in the edit dialog.
UseDialog(s, kind) ==
    /\ kind \in {"edit", "dialog"}
    /\ tree[s] # "absent"
    /\ Operate(kind, s)
    /\ UNCHANGED <<fileNet, stored, shareJobs, tree, creating, deleting,
                   uploading, filePolls, fileTold>>

\* The page is opened, or Refresh is pressed.
RefreshTree ==
    /\ shareOps < MaxShareOps
    /\ RoomFor(1)
    /\ shareOps' = shareOps + 1
    /\ fileCalls' = Append(fileCalls, Fetch)
    /\ UNCHANGED <<fileNet, stored, shareJobs, tree, creating, deleting,
                   uploading, filePolls, fileTold, muddled>>

------------------------------------------------------------------------------
\* The server answers request i: a list of what it has, a job queued, an edit
\* made at once.
ServeShares(i) ==
    LET c == fileCalls[i]
        refused == c.kind = "edit" /\ stored[c.share] = "absent"
    IN  /\ Servable(i)
        /\ fileCalls' = [fileCalls EXCEPT ![i].at = IF refused THEN "failed" ELSE "ok",
                                          ![i].list =
                                              IF c.kind \in {"tree", "poll"}
                                              THEN stored ELSE NoList]
        /\ stored' = IF c.kind = "edit" /\ ~refused
                     THEN [stored EXCEPT ![c.share] = "edited"] ELSE stored
        /\ shareJobs' = CASE c.kind = "create" ->
                                 Append(shareJobs, [op |-> "create", share |-> c.share])
                          [] c.kind \in {"delete", "dialog"} ->
                                 Append(shareJobs, [op |-> "delete", share |-> c.share])
                          [] OTHER -> shareJobs
        /\ UNCHANGED <<fileNet, tree, creating, deleting, uploading, filePolls,
                       shareOps, fileTold, muddled>>

\* A request, or the answer to one, is lost.
LoseFileCall(i) ==
    /\ fileNet.faults
    /\ fileCalls[i].at # "failed"
    /\ fileCalls' = [fileCalls EXCEPT ![i].at = "failed", ![i].list = NoList]
    /\ UNCHANGED <<fileNet, stored, shareJobs, tree, creating, deleting,
                   uploading, filePolls, shareOps, fileTold, muddled>>

\* One of the workers ends one of the jobs; a share that exists is not created
\* again.
EndShareJob(k) ==
    LET j == shareJobs[k]
    IN  /\ shareJobs' = Without(shareJobs, k)
        /\ \/ stored' = CASE j.op = "delete" -> [stored EXCEPT ![j.share] = "absent"]
                          [] j.op = "create" /\ stored[j.share] = "absent" ->
                                 [stored EXCEPT ![j.share] = "new"]
                          [] OTHER -> stored
           \/ fileNet.faults /\ UNCHANGED stored
        /\ UNCHANGED <<fileNet, tree, creating, deleting, uploading, fileCalls,
                       filePolls, shareOps, fileTold, muddled>>

------------------------------------------------------------------------------
\* The list arrives and is shown, whatever arrived before.
ShowTree(i) ==
    /\ fileCalls[i].kind = "tree"
    /\ Answered(i, "ok")
    /\ tree' = fileCalls[i].list
    /\ fileCalls' = Without(fileCalls, i)
    /\ UNCHANGED <<fileNet, stored, shareJobs, creating, deleting, uploading,
                   filePolls, shareOps, fileTold, muddled>>

\* A job was queued: the interval that waits for its effect is set.
StartPolling(i) ==
    LET c == fileCalls[i]
    IN  /\ c.kind \in JobOps
        /\ Answered(i, "ok")
        /\ filePolls' = Append(filePolls, [op |-> c.kind, share |-> c.share,
                                           attempts |-> 0, live |-> TRUE])
        /\ uploading' = (c.kind # "create" /\ uploading)
        /\ fileCalls' = Without(fileCalls, i)
        /\ UNCHANGED <<fileNet, stored, shareJobs, tree, creating, deleting,
                       shareOps, fileTold, muddled>>

\* The dialog is done: the list is fetched at once, although the job of a
\* deletion may still be queued.
DialogDone(i) ==
    /\ fileCalls[i].kind \in {"edit", "dialog"}
    /\ Answered(i, "ok")
    /\ fileCalls' = Append(Without(fileCalls, i), Fetch)
    /\ UNCHANGED <<fileNet, stored, shareJobs, tree, creating, deleting,
                   uploading, filePolls, shareOps, fileTold, muddled>>

\* A request failed and the page says so.  A poll whose request failed says
\* nothing and looks at nothing.
CallFailed(i) ==
    LET c == fileCalls[i]
    IN  /\ Answered(i, "failed")
        /\ creating' = IF c.kind = "create" THEN creating \ {c.share} ELSE creating
        /\ deleting' = IF c.kind = "delete" THEN deleting \ {c.share} ELSE deleting
        /\ uploading' = (c.kind # "create" /\ uploading)
        /\ fileTold' = (fileTold \/ c.kind # "poll")
        /\ fileCalls' = Without(fileCalls, i)
        /\ UNCHANGED <<fileNet, stored, shareJobs, tree, filePolls, shareOps,
                       muddled>>

\* The interval of poll p fires, whether or not its last request was answered.
Tick(p) ==
    /\ filePolls[p].live
    /\ RoomFor(1)
    /\ fileCalls' = Append(fileCalls, Request("poll", NoShare, p))
    /\ filePolls' = [filePolls EXCEPT ![p].attempts =
                        IF @ < MaxAttempts THEN @ + 1 ELSE @]
    /\ UNCHANGED <<fileNet, stored, shareJobs, tree, creating, deleting,
                   uploading, shareOps, fileTold, muddled>>

Seen(p, list) ==
    (list[filePolls[p].share] # "absent") <=> (filePolls[p].op = "create")

\* A poll's list arrives, possibly after the poll has ended.  When the effect is
\* there, or the attempts are used up, the interval is cleared, the banner is
\* taken down, and the list is fetched.
LookAtPoll(i) ==
    LET p == fileCalls[i].poll
        s == filePolls[p].share
        seen == Seen(p, fileCalls[i].list)
    IN  /\ fileCalls[i].kind = "poll"
        /\ Answered(i, "ok")
        /\ IF seen \/ filePolls[p].attempts >= MaxAttempts
           THEN /\ filePolls' = [filePolls EXCEPT ![p].live = FALSE]
                /\ creating' = IF filePolls[p].op = "create"
                               THEN creating \ {s} ELSE creating
                /\ deleting' = IF filePolls[p].op = "delete"
                               THEN deleting \ {s} ELSE deleting
                /\ fileTold' = (fileTold \/ ~seen)
                /\ fileCalls' = Append(Without(fileCalls, i), Fetch)
           ELSE /\ fileCalls' = Without(fileCalls, i)
                /\ UNCHANGED <<filePolls, creating, deleting, fileTold>>
        /\ UNCHANGED <<fileNet, stored, shareJobs, tree, uploading, shareOps,
                       muddled>>

------------------------------------------------------------------------------
FilesInit ==
    /\ fileNet \in FileNets
    /\ \E S \in SUBSET Shares :
          stored = [s \in Shares |-> IF s \in S THEN "new" ELSE "absent"]
    /\ shareJobs = <<>>
    /\ tree = NoList
    /\ creating = {}
    /\ deleting = {}
    /\ uploading = FALSE
    /\ fileCalls = <<Fetch>>
    /\ filePolls = <<>>
    /\ shareOps = 0
    /\ fileTold = FALSE
    /\ muddled = {}

FilesNext ==
    \/ \E s \in Shares :
          \/ SubmitShare(s) \/ DeleteRow(s)
          \/ \E kind \in {"edit", "dialog"} : UseDialog(s, kind)
    \/ RefreshTree
    \/ \E k \in 1..Len(shareJobs) : EndShareJob(k)
    \/ \E p \in 1..Len(filePolls) : Tick(p)
    \/ \E i \in 1..Len(fileCalls) :
          \/ ServeShares(i) \/ LoseFileCall(i) \/ ShowTree(i) \/ StartPolling(i)
          \/ DialogDone(i) \/ CallFailed(i) \/ LookAtPoll(i)

------------------------------------------------------------------------------
(***************************************************************************)
(* Properties                                                              *)
(***************************************************************************)

\* Every variable of the page keeps its type.
FilesTypeOK ==
    /\ fileNet \in FileNets
    /\ stored \in Listing /\ tree \in Listing
    /\ shareJobs \in Seq([op : JobOps, share : Shares])
    /\ creating \subseteq Shares /\ deleting \subseteq Shares
    /\ uploading \in BOOLEAN /\ fileTold \in BOOLEAN
    /\ fileCalls \in Seq(FileCall)
    /\ filePolls \in Seq([op : JobOps, share : Shares,
                          attempts : 0..MaxAttempts, live : BOOLEAN])
    /\ shareOps \in 0..MaxShareOps
    /\ muddled \subseteq Shares

\* The list is right although nobody fetches it when a job ends.  When answers
\* arrive in order, and no request, job or poll is left, the page shows every
\* share as the server has it, unless it has shown an error, two operations on
\* the share overlapped, or it was deleted from the dialog.
TreeIsStored ==
    /\ fileNet.inorder
    /\ fileCalls = <<>> /\ shareJobs = <<>>
    /\ \A p \in 1..Len(filePolls) : ~filePolls[p].live
    => fileTold \/ \A s \in Shares \ muddled : tree[s] = stored[s]

\* Whatever is lost or overtaken, a name stays in the banner, and a row greyed,
\* only as long as a request or a poll is there that will take it away.
BannerIsTakenDown ==
    \A s \in creating \cup deleting :
        \/ \E i \in 1..Len(fileCalls) :
              fileCalls[i].share = s /\ fileCalls[i].kind \in JobOps
        \/ \E p \in 1..Len(filePolls) :
              filePolls[p].live /\ filePolls[p].share = s

==============================================================================
