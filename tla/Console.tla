------------------------------- MODULE Console -------------------------------
(***************************************************************************)
(* The admin console (WebUI) as far as it keeps state of its own: four of  *)
(* its pages, each with the requests it has in flight and what it knows of *)
(* the jobs it has started.  The router shows one page at a time and the   *)
(* pages share no state, so a behaviour is the story of one of them: the   *)
(* product of the four would add states and no behaviour.                  *)
(***************************************************************************)
EXTENDS FilesPage, TemplatesPage, PeoplePage, BillingPage

VARIABLE page       \* the page this behaviour is about; chosen once

vars == <<page, filesVars, tplVars, peopleVars, billVars>>

Pages == {"files", "templates", "people", "billing"}

\* What is chosen at the start for a page this behaviour is not about.
Untouched ==
    /\ page # "files" => /\ fileNet = CHOOSE n \in FileNets : TRUE
                         /\ stored = NoList
    /\ page # "templates" => tplNet = CHOOSE n \in TplNets : TRUE
    /\ page # "people" => ~lossy
    /\ page # "billing" => /\ billNet = CHOOSE n \in BillNets : TRUE
                           /\ org.package = "basic"

Init ==
    /\ page \in Pages
    /\ FilesInit /\ TemplatesInit /\ PeopleInit /\ BillingInit
    /\ Untouched

OnFilesPage ==
    /\ page = "files" /\ FilesNext
    /\ UNCHANGED <<page, tplVars, peopleVars, billVars>>

OnTemplatesPage ==
    /\ page = "templates" /\ TemplatesNext
    /\ UNCHANGED <<page, filesVars, peopleVars, billVars>>

OnPeoplePages ==
    /\ page = "people" /\ PeopleNext
    /\ UNCHANGED <<page, filesVars, tplVars, billVars>>

OnBillingTab ==
    /\ page = "billing" /\ BillingNext
    /\ UNCHANGED <<page, filesVars, tplVars, peopleVars>>

Next == OnFilesPage \/ OnTemplatesPage \/ OnPeoplePages \/ OnBillingTab

Spec == Init /\ [][Next]_vars

------------------------------------------------------------------------------
(***************************************************************************)
(* Properties                                                              *)
(***************************************************************************)

\* Every variable of every page keeps its type.
TypeOK ==
    /\ page \in Pages
    /\ FilesTypeOK /\ TemplatesTypeOK /\ PeopleTypeOK /\ BillingTypeOK

\* No page waits for what will never come.  What a page shows as under way (a
\* banner, a greyed row, a template being built, a dialog that says "Creating")
\* is followed by a request or a timer that will end it, however requests fail,
\* answers overtake one another, and pages are left and opened again.
NothingWaitsForEver == BannerIsTakenDown /\ BuildingIsPolled /\ RunningIsPolled

\* When nothing is left to happen on a page, what it shows, or has written for
\* its user, is what the server has: the shares, the templates and the groups of
\* new users.  Each part names the overlaps and failures it is not promised for.
PagesSettle == TreeIsStored /\ TemplatesSettle /\ GroupsFollowCreation

\* The subscription shown and stored is Stripe's after one undisturbed load of
\* the tab, and the package follows the webhooks when they arrive in order.
BillingHeals == StatusHeals /\ PackageFollows

==============================================================================
