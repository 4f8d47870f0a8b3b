--------------------------- MODULE MCDesktopClient ---------------------------
(***************************************************************************)
(* DesktopClient with two users, two workstations and two sessions.        *)
(***************************************************************************)
EXTENDS DesktopClient

CONSTANTS u1, u2, v1, v2, s1, s2

MCUsers == {u1, u2}
MCVMs == {v1, v2}
MCSessions == {s1, s2}

Base == [users |-> {u1, u2}, profiles |-> {u1, u2}, overlap |-> FALSE,
         elevated |-> FALSE, windows |-> FALSE, fails |-> FALSE,
         codeZero |-> FALSE, faults |-> FALSE, leaves |-> FALSE,
         sessions |-> {s1}, tries |-> 3]

\* Linux without root: a user who waits for what he asked for.
UnderPkexec == [Base EXCEPT !.elevated = TRUE, !.fails = TRUE, !.codeZero = TRUE,
                            !.sessions = {}, !.users = {u1}, !.tries = 2]

\* One act at a time, OpenVPN failing; on Windows, with a Server that fails and
\* sessions left open; two sessions and two processes at once; logins and
\* logouts that overtake what they started; under pkexec.
MCDeployments ==
    {[Base EXCEPT !.fails = TRUE, !.sessions = {}],
     [Base EXCEPT !.fails = TRUE, !.windows = TRUE, !.profiles = {u1},
                  !.faults = TRUE, !.leaves = TRUE, !.tries = 2],
     [Base EXCEPT !.fails = TRUE, !.overlap = TRUE, !.sessions = {s1, s2},
                  !.users = {u1}, !.tries = 2],
     [Base EXCEPT !.overlap = TRUE, !.faults = TRUE, !.windows = TRUE,
                  !.sessions = {}],
     UnderPkexec}
=============================================================================
