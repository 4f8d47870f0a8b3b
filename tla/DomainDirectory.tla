--------------------------- MODULE DomainDirectory ---------------------------
(***************************************************************************)
(* The file shares and the access groups of one organisation.  Each has a  *)
(* document in MongoDB and a counterpart on the domain controller: a       *)
(* section of smb.conf, a group of the directory.                          *)
(*                                                                         *)
(* The two sides are changed in opposite orders.  A share is made on the   *)
(* domain controller by a job, which then inserts the document; a group's  *)
(* document is inserted by the request, which then queues a job.           *)
(***************************************************************************)
EXTENDS Naturals, FiniteSets, Sequences

CONSTANTS
    Shares,       \* share names, unique in the organisation
    GroupDocs,    \* the documents access_groups may get (their ObjectIds)
    GroupNames,
    Groups, Users,\* whom a share may be opened to
    DomainUsers,  \* the built-in group every new share is opened to
    Letters,      \* drive letters (25 in the code: A to Z without C)
    Handlers,     \* request threads
    Workers,      \* rq workers of the api queue
    Deployments,  \* what may be deployed, see DeploymentType
    Requests,     \* how many requests are posted (a bound)
    NoLetter, NoName, NoDoc

Routes == {"create", "delete", "patch", "patchOne", "groups", "rename"}

DeploymentType ==
    [handlers : SUBSET Handlers, workers : SUBSET Workers, faults : BOOLEAN,
     routes : SUBSET Routes,      \* what the clients use
     letters : SUBSET Letters]    \* the letters there are

ASSUME DirectoryAssumption ==
    /\ DomainUsers \in Groups
    /\ NoLetter \notin Letters /\ NoName \notin GroupNames
    /\ NoDoc \notin GroupDocs
    /\ Shares \cap GroupNames = {}

ASSUME DeploymentAssumption ==
    /\ Deployments \subseteq DeploymentType /\ Requests \in Nat
    /\ \A S \in {Shares, Letters, Handlers, Workers} : IsFiniteSet(S)

VARIABLES
    deployment, \* what the operator runs
    share,      \* share[n]: the document of the share, NoLetter when absent
    conf,       \* conf[n]: the sections of smb.conf with the share's name
    images,     \* the shares whose .img file was made
    group,      \* group[d]: the document of the access group
    directory,  \* the groups of the domain controller
    thread, queue, worker, posts

vars == <<deployment, share, conf, images, group, directory, thread, queue,
          worker, posts>>
dcVars == <<conf, images, directory>>
dbVars == <<share, group>>

Acl == [groups : SUBSET Groups, users : SUBSET Users]
NoAcl == [groups |-> {}, users |-> {}]

\* What _add_share_conf writes, whatever the request asked for.
DefaultAcl == [groups |-> {DomainUsers}, users |-> {}]

\* A PATCH carries the lists of the groups, of the users, or both.
FullPatches == Acl
OnePatches  == [groups : SUBSET Groups] \cup [users : SUBSET Users]
NoShare == [drive |-> NoLetter, acl |-> NoAcl, updated |-> FALSE]
ShareRecord == [drive : Letters \cup {NoLetter}, acl : Acl, updated : BOOLEAN]
ConfRecord == [sections : Nat, acl : Acl]
GroupRecord == [phase : {"unborn", "live", "deleted"},
                name : GroupNames \cup {NoName}]

ShareJob == [kind : {"createShare", "deleteShare", "updateShare"},
             name : Shares, acl : Acl]
GroupJob == [kind : {"addGroup", "removeGroup"}, name : GroupNames, acl : Acl]
Job == ShareJob \cup GroupJob
IdleWorker == [pc |-> "idle"]
WorkerTask == [pc : {"call"}, job : Job, letter : {NoLetter}]
                \cup [pc : {"letter", "erase"}, job : ShareJob,
                      letter : {NoLetter}]
                \cup [pc : {"insert"}, job : ShareJob, letter : Letters]

IdleThread == [pc |-> "idle"]
PatchTask == [pc : {"touch", "enqueue"}, kind : {"patch"}, doc : {NoDoc},
              name : Shares, patch : FullPatches \cup OnePatches]
DocTask == [pc : {"find", "insert", "load", "write", "delete", "enqueue"},
            kind : {"create", "rename", "delete"}, doc : GroupDocs,
            name : GroupNames \cup {NoName}, patch : {NoAcl}]
MembersTask == [pc : {"touch", "enqueue"}, kind : {"members"}, doc : {NoDoc},
                name : GroupNames, patch : {NoAcl}]
Task == PatchTask \cup DocTask \cup MembersTask

SharesInDb == {n \in Shares : share[n].drive # NoLetter}
SharesInConf == {n \in Shares : conf[n].sections > 0}
LiveGroups == {d \in GroupDocs : group[d].phase = "live"}
GroupNamesInDb == {group[d].name : d \in LiveGroups}

Fresh == {d \in GroupDocs :
            /\ group[d].phase = "unborn"
            /\ \A h \in Handlers : thread[h].pc # "idle" => thread[h].doc # d}

-----------------------------------------------------------------------------

Init ==
    /\ deployment \in Deployments
    /\ share = [n \in Shares |-> NoShare]
    /\ conf = [n \in Shares |-> [sections |-> 0, acl |-> NoAcl]]
    /\ images = {}
    /\ group = [d \in GroupDocs |-> [phase |-> "unborn", name |-> NoName]]
    /\ directory = {}
    /\ thread = [h \in Handlers |-> IdleThread]
    /\ queue = <<>>
    /\ worker = [w \in Workers |-> IdleWorker]
    /\ posts = 0

At(h, pc) == thread[h].pc = pc
Goto(h, pc) == thread' = [thread EXCEPT ![h].pc = pc]
Answer(h) == thread' = [thread EXCEPT ![h] = IdleThread]

Counted == posts < Requests /\ posts' = posts + 1

Queued(kind, name, acl) ==
    queue' = Append(queue, [kind |-> kind, name |-> name, acl |-> acl])

(***************************************************************************)
(* Requests about shares.                                                  *)
(***************************************************************************)

\* POST /task/dc/create_file_share and /delete_file_share only queue a job.
PostCreateShare(n, acl) ==
    /\ "create" \in deployment.routes
    /\ Counted
    /\ Queued("createShare", n, acl)
    /\ UNCHANGED <<deployment, dcVars, dbVars, thread, worker>>

PostDeleteShare(n) ==
    /\ "delete" \in deployment.routes
    /\ Counted
    /\ Queued("deleteShare", n, NoAcl)
    /\ UNCHANGED <<deployment, dcVars, dbVars, thread, worker>>

Post(h, task) ==
    /\ h \in deployment.handlers
    /\ At(h, "idle")
    /\ Counted
    /\ thread' = [thread EXCEPT ![h] = task]
    /\ UNCHANGED <<deployment, dcVars, dbVars, queue, worker>>

\* PATCH /file_shares/<org>/<share>
PostPatch(h, n, p) ==
    /\ \/ "patch" \in deployment.routes /\ p \in FullPatches
       \/ "patchOne" \in deployment.routes /\ p \in OnePatches
    /\ Post(h, [pc |-> "touch", kind |-> "patch", doc |-> NoDoc, name |-> n,
                patch |-> p])

\* The lists a patch carries, over the ones given.
Patched(acl, p) ==
    [f \in {"groups", "users"} |-> IF f \in DOMAIN p THEN p[f] ELSE acl[f]]

\* update_share: one update_one by name; 404 when it matches nothing.
Touch(h) ==
    /\ At(h, "touch") /\ thread[h].kind = "patch"
    /\ LET n == thread[h].name
       IN  \/ n \notin SharesInDb /\ Answer(h) /\ UNCHANGED share
           \/ /\ n \in SharesInDb
              /\ share' = [share EXCEPT
                             ![n].acl = Patched(share[n].acl, thread[h].patch),
                             ![n].updated = TRUE]
              /\ Goto(h, "enqueue")
    /\ UNCHANGED <<deployment, dcVars, group, queue, worker, posts>>

(***************************************************************************)
(* Requests about access groups.                                           *)
(***************************************************************************)

AboutGroup(pc, kind, d, n) ==
    [pc |-> pc, kind |-> kind, doc |-> d, name |-> n, patch |-> NoAcl]

\* POST /access-groups and one row of POST /access-groups/import-csv; PATCH,
\* DELETE /access-groups/<id>; POST /access-groups/add-members.
PostGroup(h, d, n) ==
    \/ /\ "groups" \in deployment.routes
       /\ \/ d \in Fresh /\ d = (CHOOSE e \in Fresh : TRUE)
             /\ Post(h, AboutGroup("find", "create", d, n))
          \/ Post(h, AboutGroup("load", "delete", d, NoName))
          \/ Post(h, AboutGroup("touch", "members", NoDoc, n))
    \/ /\ "rename" \in deployment.routes
       /\ Post(h, AboutGroup("load", "rename", d, n))

\* The name is looked up before the insert, and before the update of a PATCH.
FindGroup(h) ==
    /\ At(h, "find")
    /\ IF \E d \in LiveGroups \ {thread[h].doc} : group[d].name = thread[h].name
       THEN Answer(h)
       ELSE Goto(h, IF thread[h].kind = "create" THEN "insert" ELSE "write")
    /\ UNCHANGED <<deployment, dcVars, dbVars, queue, worker, posts>>

\* The unique index on (org_id, name) decides between two requests.
NameFree(h) ==
    \A d \in LiveGroups \ {thread[h].doc} : group[d].name # thread[h].name

\* Mutant of InsertGroup: the index is not there, nor a job queued.
InsertGroup_NoJob(h) ==
    /\ At(h, "insert")
    /\ group' = [group EXCEPT ![thread[h].doc] =
                    [phase |-> "live", name |-> thread[h].name]]
    /\ Answer(h)
    /\ UNCHANGED <<deployment, dcVars, share, queue, worker, posts>>

InsertGroup(h) ==
    /\ At(h, "insert")
    /\ \/ ~NameFree(h) /\ Answer(h) /\ UNCHANGED group
       \/ /\ NameFree(h)
          /\ group' = [group EXCEPT ![thread[h].doc] =
                          [phase |-> "live", name |-> thread[h].name]]
          /\ Goto(h, "enqueue")
    /\ UNCHANGED <<deployment, dcVars, share, queue, worker, posts>>

\* The document a PATCH or a DELETE is about; a DELETE keeps its name.
LoadGroup(h) ==
    /\ At(h, "load")
    /\ LET d == thread[h].doc
       IN  \/ d \notin LiveGroups /\ Answer(h)
           \/ /\ d \in LiveGroups /\ thread[h].kind = "rename"
              /\ Goto(h, "find")
           \/ /\ d \in LiveGroups /\ thread[h].kind = "delete"
              /\ thread' = [thread EXCEPT ![h].pc = "delete",
                                          ![h].name = group[d].name]
    /\ UNCHANGED <<deployment, dcVars, dbVars, queue, worker, posts>>

\* update_one; dc_add_group is queued for the new name whether or not the
\* document was still there, and the group of the old name stays.
WriteGroup(h) ==
    /\ At(h, "write")
    /\ LET d == thread[h].doc
       IN  \/ ~NameFree(h) /\ d \in LiveGroups /\ Answer(h) /\ UNCHANGED group
           \/ /\ NameFree(h) /\ d \in LiveGroups
              /\ group' = [group EXCEPT ![d].name = thread[h].name]
              /\ Goto(h, "enqueue")
           \/ d \notin LiveGroups /\ Goto(h, "enqueue") /\ UNCHANGED group
    /\ UNCHANGED <<deployment, dcVars, share, queue, worker, posts>>

DeleteGroup(h) ==
    /\ At(h, "delete")
    /\ LET d == thread[h].doc
       IN  \/ d \notin LiveGroups /\ Answer(h) /\ UNCHANGED group
           \/ /\ d \in LiveGroups
              /\ group' = [group EXCEPT ![d].phase = "deleted"]
              /\ Goto(h, "enqueue")
    /\ UNCHANGED <<deployment, dcVars, share, queue, worker, posts>>

\* add-members: one update_one by name.
TouchGroup(h) ==
    /\ At(h, "touch") /\ thread[h].kind = "members"
    /\ IF thread[h].name \in GroupNamesInDb THEN Goto(h, "enqueue") ELSE Answer(h)
    /\ UNCHANGED <<deployment, dcVars, dbVars, queue, worker, posts>>

\* Mutant of Enqueue: the job gets no lists.
Enqueue_NoLists(h) ==
    /\ At(h, "enqueue") /\ thread[h].kind = "patch"
    /\ Queued("updateShare", thread[h].name, NoAcl)
    /\ Answer(h)
    /\ UNCHANGED <<deployment, dcVars, dbVars, worker, posts>>

\* The job that is to bring the domain controller in step.  A list the PATCH
\* does not carry is sent as an empty one.
Enqueue(h) ==
    /\ At(h, "enqueue")
    /\ CASE thread[h].kind = "patch" ->
              Queued("updateShare", thread[h].name,
                     Patched(NoAcl, thread[h].patch))
         [] thread[h].kind = "delete" ->
              Queued("removeGroup", thread[h].name, NoAcl)
         [] OTHER -> Queued("addGroup", thread[h].name, NoAcl)
    /\ Answer(h)
    /\ UNCHANGED <<deployment, dcVars, dbVars, worker, posts>>

\* The database or the queue fails, or the server is stopped.
RequestLost(h) ==
    /\ deployment.faults
    /\ ~At(h, "idle")
    /\ Answer(h)
    /\ UNCHANGED <<deployment, dcVars, dbVars, queue, worker, posts>>

(***************************************************************************)
(* The jobs.                                                               *)
(***************************************************************************)

Ended(w) == worker' = [worker EXCEPT ![w] = IdleWorker]
GoesOn(w, pc) == worker' = [worker EXCEPT ![w].pc = pc]
Calling(w, kind) == worker[w].pc = "call" /\ worker[w].job.kind = kind

Take(w) ==
    /\ w \in deployment.workers
    /\ worker[w].pc = "idle"
    /\ queue # <<>>
    /\ worker' = [worker EXCEPT ![w] = [pc |-> "call", job |-> Head(queue),
                                        letter |-> NoLetter]]
    /\ queue' = Tail(queue)
    /\ UNCHANGED <<deployment, dcVars, dbVars, thread, posts>>

\* CreateSambaFileShare: the image, then a section at the end of smb.conf,
\* also when there is one of that name; the last one counts.
CallCreateShare(w) ==
    /\ Calling(w, "createShare")
    /\ LET n == worker[w].job.name
       IN  /\ conf' = [conf EXCEPT ![n] = [sections |-> @.sections + 1,
                                           acl |-> DefaultAcl]]
           /\ images' = images \cup {n}
    /\ GoesOn(w, "letter")
    /\ UNCHANGED <<deployment, directory, dbVars, thread, queue, posts>>

\* Mutant of CallDeleteShare: the document is kept.
CallDeleteShare_NoErase(w) ==
    /\ Calling(w, "deleteShare")
    /\ conf' = [conf EXCEPT ![worker[w].job.name] =
                   [sections |-> 0, acl |-> NoAcl]]
    /\ Ended(w)
    /\ UNCHANGED <<deployment, images, directory, dbVars, thread, queue, posts>>

\* DeleteSambaFileShare drops every section of the name and leaves the image.
\* SHARE_NOT_FOUND ends the job: the document, if there is one, stays.
CallDeleteShare(w) ==
    /\ Calling(w, "deleteShare")
    /\ LET n == worker[w].job.name
       IN  \/ n \notin SharesInConf /\ Ended(w) /\ UNCHANGED conf
           \/ /\ n \in SharesInConf
              /\ conf' = [conf EXCEPT ![n] = [sections |-> 0, acl |-> NoAcl]]
              /\ GoesOn(w, "erase")
    /\ UNCHANGED <<deployment, images, directory, dbVars, thread, queue, posts>>

\* UpdateSambaFileShareACL rewrites the "valid users" line of every section
\* of the name.
CallUpdateShare(w) ==
    /\ Calling(w, "updateShare")
    /\ LET n == worker[w].job.name
       IN  conf' = IF n \in SharesInConf
                   THEN [conf EXCEPT ![n].acl = worker[w].job.acl]
                   ELSE conf
    /\ Ended(w)
    /\ UNCHANGED <<deployment, images, directory, dbVars, thread, queue, posts>>

\* AddDomainGroup and RemoveDomainGroup; DUPLICATE and GROUP_NOT_FOUND change
\* nothing.
CallGroup(w) ==
    /\ \/ /\ Calling(w, "addGroup")
          /\ directory' = directory \cup {worker[w].job.name}
       \/ /\ Calling(w, "removeGroup")
          /\ directory' = directory \ {worker[w].job.name}
    /\ Ended(w)
    /\ UNCHANGED <<deployment, conf, images, dbVars, thread, queue, posts>>

\* The gateway is not reached or does not answer, or the domain controller
\* fails half-way: the job ends, whatever was done.
CallFails(w) ==
    /\ deployment.faults
    /\ worker[w].pc = "call"
    /\ LET j == worker[w].job
       IN  \/ UNCHANGED dcVars
           \/ /\ j.kind = "createShare"
              /\ images' = images \cup {j.name}
              /\ \/ UNCHANGED conf
                 \/ conf' = [conf EXCEPT ![j.name] =
                                [sections |-> @.sections + 1, acl |-> DefaultAcl]]
              /\ UNCHANGED directory
           \/ /\ j.kind = "deleteShare"
              /\ conf' = [conf EXCEPT ![j.name] =
                             [sections |-> 0, acl |-> NoAcl]]
              /\ UNCHANGED <<images, directory>>
           \/ /\ j.kind \in {"addGroup", "removeGroup"}
              /\ directory' = IF j.kind = "addGroup"
                              THEN directory \cup {j.name}
                              ELSE directory \ {j.name}
              /\ UNCHANGED <<conf, images>>
    /\ Ended(w)
    /\ UNCHANGED <<deployment, dbVars, thread, queue, posts>>

LettersInUse == {share[n].drive : n \in SharesInDb}

\* Mutant of AllocateLetter: the letters in use are offered too.
AllocateLetter_Any(w) ==
    /\ worker[w].pc = "letter"
    /\ worker' = [worker EXCEPT
                     ![w].letter = CHOOSE l \in deployment.letters : TRUE,
                     ![w].pc = "insert"]
    /\ UNCHANGED <<deployment, dcVars, dbVars, thread, queue, posts>>

\* allocate_drive_letter reads the letters in use and picks the first free one.
AllocateLetter(w) ==
    /\ worker[w].pc = "letter"
    /\ LET free == deployment.letters \ LettersInUse
       IN  IF free = {}
           THEN Ended(w)
           ELSE worker' = [worker EXCEPT ![w].letter = CHOOSE l \in free : TRUE,
                                         ![w].pc = "insert"]
    /\ UNCHANGED <<deployment, dcVars, dbVars, thread, queue, posts>>

\* Mutant of InsertShare: there is no unique index on the letter.
InsertShare_NoIndex(w) ==
    /\ worker[w].pc = "insert"
    /\ share' = [share EXCEPT ![worker[w].job.name] =
                    [drive |-> worker[w].letter, acl |-> worker[w].job.acl,
                     updated |-> FALSE]]
    /\ Ended(w)
    /\ UNCHANGED <<deployment, dcVars, group, thread, queue, posts>>

\* insert_one under two unique indexes, the name and the letter.  A duplicate
\* ends the job; the section it made stays.
InsertShare(w) ==
    /\ worker[w].pc = "insert"
    /\ LET n == worker[w].job.name
           l == worker[w].letter
       IN  share' = IF n \in SharesInDb \/ l \in LettersInUse
                    THEN share
                    ELSE [share EXCEPT ![n] = [drive |-> l,
                                               acl |-> worker[w].job.acl,
                                               updated |-> FALSE]]
    /\ Ended(w)
    /\ UNCHANGED <<deployment, dcVars, group, thread, queue, posts>>

\* delete_share: the letter is free again.
EraseShare(w) ==
    /\ worker[w].pc = "erase"
    /\ share' = [share EXCEPT ![worker[w].job.name] = NoShare]
    /\ Ended(w)
    /\ UNCHANGED <<deployment, dcVars, group, thread, queue, posts>>

\* A database call fails, or the worker is lost with its job.
JobLost(w) ==
    /\ deployment.faults
    /\ worker[w].pc # "idle"
    /\ Ended(w)
    /\ UNCHANGED <<deployment, dcVars, dbVars, thread, queue, posts>>

-----------------------------------------------------------------------------

Request(h) ==
    \/ Touch(h) \/ FindGroup(h) \/ InsertGroup(h) \/ LoadGroup(h)
    \/ WriteGroup(h) \/ DeleteGroup(h) \/ TouchGroup(h) \/ Enqueue(h)

Work(w) ==
    \/ CallCreateShare(w) \/ CallDeleteShare(w) \/ CallUpdateShare(w)
    \/ CallGroup(w) \/ AllocateLetter(w) \/ InsertShare(w) \/ EraseShare(w)

Next ==
    \/ \E n \in Shares :
          \/ \E acl \in Acl : PostCreateShare(n, acl)
          \/ PostDeleteShare(n)
          \/ \E h \in Handlers, p \in FullPatches \cup OnePatches :
                PostPatch(h, n, p)
    \/ \E h \in Handlers, d \in GroupDocs, n \in GroupNames : PostGroup(h, d, n)
    \/ \E h \in Handlers : Request(h) \/ RequestLost(h)
    \/ \E w \in Workers : Take(w) \/ Work(w) \/ CallFails(w) \/ JobLost(w)

\* A request that is being served is served on, and so is a job; a worker
\* keeps taking jobs.
Fairness ==
    /\ \A h \in Handlers : WF_vars(Request(h))
    /\ \A w \in Workers : WF_vars(Take(w)) /\ WF_vars(Work(w))

Spec == Init /\ [][Next]_vars /\ Fairness

-----------------------------------------------------------------------------
(***************************************************************************)
(* Properties.                                                             *)
(***************************************************************************)

\* Every variable keeps the shape the code gives it.
TypeOK ==
    /\ deployment \in Deployments
    /\ share \in [Shares -> ShareRecord]
    /\ conf \in [Shares -> ConfRecord]
    /\ images \subseteq Shares
    /\ group \in [GroupDocs -> GroupRecord]
    /\ directory \subseteq GroupNames
    /\ thread \in [Handlers -> Task \cup {IdleThread}]
    /\ queue \in Seq(Job)
    /\ worker \in [Workers -> WorkerTask \cup {IdleWorker}]
    /\ posts \in 0..Requests

Serial == /\ Cardinality(deployment.handlers) = 1
          /\ Cardinality(deployment.workers) = 1
          /\ ~deployment.faults

Quiet == /\ \A h \in Handlers : At(h, "idle")
         /\ queue = <<>>
         /\ \A w \in Workers : worker[w].pc = "idle"

\* Two shares never get one drive letter, however many workers allocate at
\* once and whatever fails, and a share only gets a letter that exists.
LettersUnique ==
    \A m, n \in SharesInDb :
        /\ share[n].drive \in deployment.letters
        /\ share[m].drive = share[n].drive => m = n

\* One request thread and one worker that does not fail bring the two sides of
\* the shares together: every document has its section, and as long as there
\* are letters for all shares every section has its document.
SharesMatch ==
    Serial /\ Quiet =>
        /\ SharesInDb \subseteq SharesInConf
        /\ Cardinality(deployment.letters) >= Cardinality(Shares)
              => SharesInConf \subseteq SharesInDb

\* When shares are made and patched, each patch with both lists, smb.conf opens
\* a share to exactly those its document names once it was patched, and to the
\* domain users until then.
AclFollowsPatch ==
    Serial /\ Quiet /\ deployment.routes \cap {"delete", "patchOne"} = {} =>
        \A n \in SharesInDb :
            conf[n].sections = 1 =>
                conf[n].acl = IF share[n].updated THEN share[n].acl
                                                  ELSE DefaultAcl

\* In the same deployment every access group has its group on the domain
\* controller, and nothing else is there unless groups were renamed.
GroupsMatch ==
    Serial /\ Quiet =>
        /\ GroupNamesInDb \subseteq directory
        /\ "rename" \notin deployment.routes => directory = GroupNamesInDb

\* With one worker and enough letters a share the domain controller has made
\* gets its document.
ShareGetsDocument ==
    \A n \in Shares :
        (/\ Serial
         /\ Cardinality(deployment.letters) >= Cardinality(Shares)
         /\ \E w \in Workers : worker[w].pc = "letter" /\ worker[w].job.name = n)
        ~> n \in SharesInDb
=============================================================================
