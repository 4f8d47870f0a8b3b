--------------------------- MODULE AgentLinkProofs ---------------------------
(***************************************************************************)
(* Proofs about AgentLink, for any tasks and messages, any number of       *)
(* outages and any number of stops.                                        *)
(***************************************************************************)
EXTENDS AgentLink, FiniteSetTheorems, TLAPS

-----------------------------------------------------------------------------
(***************************************************************************)
(* Types                                                                   *)
(***************************************************************************)

\* What the thread holds at each of its steps: a message it has produced while
\* it sends or writes it, a message with a file while it removes the file, and
\* a task while it reconnects.
HandsInv ==
    /\ pc \in {"call", "store", "save"} => msg \in made /\ task \in Tasks
    /\ pc = "remove" => msg \in Messages
    /\ pc = "reconnect" => task \in Tasks
    /\ pc \in {"down", "idle", "reconnect", "resend"} => msg = NoMessage

Typed == TypeOK /\ HandsInv

\* The agent is down at first and holds nothing.
LEMMA InitTyped == Init => Typed
<1> SUFFICES ASSUME Init PROVE Typed
  OBVIOUS
<1>1. 0 \in 0 .. MaxOutages /\ 0 \in 0 .. MaxStops
  BY BoundsAssumption
<1>2. /\ link \in [Tasks -> BOOLEAN]
      /\ disk \in [Messages -> Files]
      /\ got \in [Messages -> Nat]
      /\ unanswered \in [Messages -> Nat]
  BY DEF Init, Files
<1>3. HandsInv
  BY DEF Init, HandsInv
<1> QED
  BY <1>1, <1>2, <1>3 DEF Init, Typed, TypeOK, PCs

\* Going away counts up to the bound.
LEMMA OutageCounted ==
    ASSUME TypeOK, GoesAway PROVE outages' \in 0 .. MaxOutages
<1>1. outages \in 0 .. MaxOutages
  BY DEF TypeOK
<1> QED
  BY <1>1, BoundsAssumption DEF GoesAway

\* Whatever becomes of a call, the server's variables keep their types.
LEMMA OutcomeTyped ==
    ASSUME TypeOK, NEW m \in Messages,
           Answered(m) \/ Unanswered(m) \/ NotReceived(m)
    PROVE  /\ up' \in BOOLEAN
           /\ got' \in [Messages -> Nat]
           /\ unanswered' \in [Messages -> Nat]
           /\ outages' \in 0 .. MaxOutages
<1>1. CASE Answered(m)
  BY <1>1 DEF Answered, TypeOK
<1>2. CASE Unanswered(m)
  <2>1. outages' \in 0 .. MaxOutages
    BY <1>2, OutageCounted DEF Unanswered
  <2>2. up' \in BOOLEAN
    BY <1>2 DEF Unanswered, GoesAway
  <2>3. /\ got' \in [Messages -> Nat]
        /\ unanswered' \in [Messages -> Nat]
    BY <1>2 DEF Unanswered, TypeOK
  <2> QED
    BY <2>1, <2>2, <2>3
<1>3. CASE NotReceived(m)
  BY <1>3 DEF NotReceived, TypeOK, bookVars
<1> QED
  BY <1>1, <1>2, <1>3

\* Every step of the agent and of the server keeps the types.
LEMMA NextTyped == Typed /\ [Next]_vars => Typed'
<1> SUFFICES ASSUME Typed, [Next]_vars PROVE Typed'
  OBVIOUS
<1>t. TypeOK /\ HandsInv
  BY DEF Typed
<1> USE <1>t
<1>1. CASE ServerGoes \/ ServerReturns
  <2>1. outages' \in 0 .. MaxOutages
    BY <1>1, OutageCounted DEF ServerGoes, ServerReturns, TypeOK
  <2> QED
    BY <1>1, <2>1 DEF ServerGoes, ServerReturns, GoesAway, memVars, bookVars, Typed,
       TypeOK, HandsInv
<1>2. CASE Start
  BY <1>2 DEF Start, bookVars, Typed, TypeOK, HandsInv, PCs
<1>3. CASE ConnectJob
  BY <1>3 DEF ConnectJob, Connected, bookVars, Typed, TypeOK, HandsInv, PCs
<1>4. CASE Reconnect
  <2>1. /\ link' \in [Tasks -> BOOLEAN]
        /\ channel' \in BOOLEAN
        /\ connJob' \in BOOLEAN
    <3>1. CASE Connected
      BY <3>1 DEF Connected
    <3>2. CASE /\ channel' = FALSE
               /\ link' = [link EXCEPT ![task] = FALSE]
               /\ UNCHANGED connJob
      BY <3>2 DEF TypeOK
    <3> QED
      BY <1>4, <3>1, <3>2 DEF Reconnect
  <2> QED
    BY <1>4, <2>1 DEF Reconnect, bookVars, Typed, TypeOK, HandsInv, PCs
<1>5. ASSUME NEW t \in Tasks, RunTask(t) PROVE Typed'
  BY <1>5 DEF RunTask, bookVars, Typed, TypeOK, HandsInv, PCs
<1>6. CASE Call
  <2>1. msg \in Messages
    BY <1>6 DEF Call, HandsInv, TypeOK
  <2>2. Answered(msg) \/ Unanswered(msg) \/ NotReceived(msg)
    BY <1>6 DEF Call
  <2> QED
    BY <1>6, <2>1, <2>2, OutcomeTyped DEF Call, Typed, TypeOK, HandsInv, PCs
<1>7. CASE CacheMessage
  <2>1. disk' \in [Messages -> Files]
    BY <1>7 DEF CacheMessage, TypeOK, HandsInv, Files
  <2> QED
    BY <1>7, <2>1 DEF CacheMessage, bookVars, Typed, TypeOK, HandsInv, PCs
<1>8. CASE StartResending
  BY <1>8 DEF StartResending, Cached, bookVars, Typed, TypeOK, HandsInv, PCs
<1>9. ASSUME NEW m \in Messages, Resend(m) PROVE Typed'
  <2>1. Answered(m) \/ Unanswered(m) \/ NotReceived(m)
    BY <1>9 DEF Resend
  <2> QED
    BY <1>9, <2>1, OutcomeTyped DEF Resend, GoOn, Typed, TypeOK, HandsInv, PCs
<1>10. CASE RemoveFile
  <2>1. disk' \in [Messages -> Files]
    BY <1>10 DEF RemoveFile, TypeOK, HandsInv, Files
  <2> QED
    BY <1>10, <2>1 DEF RemoveFile, GoOn, bookVars, Typed, TypeOK, HandsInv, PCs
<1>11. CASE Stop
  <2>1. /\ disk' \in [Messages -> Files]
        /\ got' \in [Messages -> Nat]
        /\ unanswered' \in [Messages -> Nat]
    BY <1>11 DEF Stop, bookVars, TypeOK, HandsInv, Files
  <2>2. interrupted' \subseteq Messages
    BY <1>11 DEF Stop, TypeOK
  <2>3. stops' \in 0 .. MaxStops
    <3>1. stops \in 0 .. MaxStops
      BY DEF TypeOK
    <3> QED
      BY <1>11, <3>1, BoundsAssumption DEF Stop
  <2>4. link' \in [Tasks -> BOOLEAN]
    BY <1>11 DEF Stop
  <2> QED
    BY <1>11, <2>1, <2>2, <2>3, <2>4 DEF Stop, Typed, TypeOK, HandsInv, PCs
<1>12. CASE UNCHANGED vars
  BY <1>12 DEF vars, memVars, bookVars, Typed, TypeOK, HandsInv
<1> QED
  BY <1>1, <1>2, <1>3, <1>4, <1>5, <1>6, <1>7, <1>8, <1>9, <1>10, <1>11, <1>12
     DEF Next, Step

\* Every variable keeps its type, whatever the server does and wherever the
\* agent stops.
THEOREM TypeCorrect == Spec => []TypeOK
<1>1. Typed => TypeOK
  BY DEF Typed
<1> QED
  BY InitTyped, NextTyped, <1>1, PTL DEF Spec

-----------------------------------------------------------------------------
(***************************************************************************)
(* No message is lost                                                      *)
(***************************************************************************)

\* A file is removed only when the server has its message.
DeliveryInv ==
    /\ NothingLost
    /\ pc = "remove" => got[msg] > 0

\* The server never has fewer copies of a message after a step.
LEMMA GotGrows ==
    ASSUME Typed, [Next]_vars, NEW m \in Messages
    PROVE  got'[m] >= got[m]
<1>t. TypeOK /\ HandsInv
  BY DEF Typed
<1>1. ASSUME NEW n \in Messages, Answered(n) \/ Unanswered(n) \/ NotReceived(n)
      PROVE  got'[m] >= got[m]
  BY <1>t, <1>1 DEF Answered, Unanswered, NotReceived, bookVars, TypeOK
<1>2. CASE Call
  <2>1. msg \in Messages
    BY <1>t, <1>2 DEF Call, HandsInv, TypeOK
  <2> QED
    BY <1>1, <1>2, <2>1 DEF Call
<1>3. ASSUME NEW n \in Messages, Resend(n) PROVE got'[m] >= got[m]
  BY <1>1, <1>3 DEF Resend
<1>4. CASE Stop
  BY <1>t, <1>4 DEF Stop, bookVars, TypeOK
<1>5. ASSUME got' = got PROVE got'[m] >= got[m]
  BY <1>t, <1>5 DEF TypeOK
<1> QED
  BY <1>2, <1>3, <1>4, <1>5 DEF Next, Step, vars, bookVars, memVars, ServerGoes,
     ServerReturns, Start, ConnectJob, Reconnect, RunTask, CacheMessage,
     StartResending, RemoveFile

\* Nothing has been produced at first.
LEMMA InitDelivery == Init => DeliveryInv
BY DEF Init, DeliveryInv, NothingLost

\* Every step keeps every message somewhere, or marks it as interrupted.
LEMMA NextDelivery == Typed /\ DeliveryInv /\ [Next]_vars => DeliveryInv'
<1> SUFFICES ASSUME Typed, DeliveryInv, [Next]_vars PROVE DeliveryInv'
  OBVIOUS
<1>t. TypeOK /\ HandsInv
  BY DEF Typed
<1>g. \A m \in Messages : got[m] \in Nat /\ got'[m] \in Nat /\ got'[m] >= got[m]
  <2>1. Typed'
    BY NextTyped
  <2> QED
    BY <1>t, <2>1, GotGrows DEF Typed, TypeOK
<1>1. ASSUME made' = made, disk' = disk, interrupted' = interrupted, msg' = msg,
             pc' # "remove"
      PROVE  DeliveryInv'
  BY <1>t, <1>g, <1>1 DEF DeliveryInv, NothingLost, TypeOK
<1>2. CASE ServerGoes \/ ServerReturns
  BY <1>2, <1>t, <1>g DEF ServerGoes, ServerReturns, memVars, bookVars, DeliveryInv,
     NothingLost, TypeOK
<1>3. CASE Start \/ ConnectJob \/ Reconnect \/ StartResending
  BY <1>1, <1>3 DEF Start, ConnectJob, Reconnect, StartResending
<1>4. ASSUME NEW t \in Tasks, RunTask(t) PROVE DeliveryInv'
  <2>1. msg = NoMessage /\ NoMessage \notin made
    BY <1>4, <1>t, NullAssumption DEF RunTask, HandsInv, TypeOK
  <2>2. PICK n \in Messages \ made : made' = made \cup {n} /\ msg' = n
    BY <1>4 DEF RunTask
  <2>3. /\ UNCHANGED <<disk, got, interrupted>>
        /\ pc' # "remove"
    BY <1>4 DEF RunTask, bookVars
  <2>4. NothingLost'
    <3> SUFFICES ASSUME NEW m \in made'
                 PROVE  got'[m] > 0 \/ disk'[m] = "whole" \/ m = msg'
                        \/ m \in interrupted'
      BY DEF NothingLost
    <3>1. CASE m = n
      BY <3>1, <2>2
    <3>2. CASE m \in made
      BY <3>2, <2>1, <2>3 DEF DeliveryInv, NothingLost
    <3> QED
      BY <3>1, <3>2, <2>2
  <2> QED
    BY <2>3, <2>4 DEF DeliveryInv
<1>5. CASE Call
  <2>1. msg \in Messages
    BY <1>5, <1>t DEF Call, HandsInv, TypeOK
  <2>2. CASE Answered(msg) /\ pc' = "idle"
    <3>1. got'[msg] > 0
      BY <2>1, <2>2, <1>t DEF Answered, TypeOK
    <3> QED
      BY <1>5, <2>1, <2>2, <3>1, <1>t, <1>g DEF Call, DeliveryInv, NothingLost, TypeOK
  <2>3. CASE pc' = "save" /\ msg' = msg
    BY <1>1, <1>5, <2>3 DEF Call
  <2> QED
    BY <1>5, <2>2, <2>3 DEF Call
<1>6. CASE CacheMessage
  <2>1. /\ msg \in Messages
        /\ disk' = [disk EXCEPT ![msg] = "whole"]
    BY <1>6, <1>t DEF CacheMessage, HandsInv, TypeOK
  <2> QED
    BY <1>6, <2>1, <1>t, <1>g DEF CacheMessage, DeliveryInv, NothingLost, TypeOK
<1>7. ASSUME NEW m \in Messages, Resend(m) PROVE DeliveryInv'
  <2>1. CASE Answered(m) /\ pc' = "remove" /\ msg' = m
    <3>1. got'[m] > 0
      BY <2>1, <1>t DEF Answered, TypeOK
    <3>2. msg = NoMessage
      BY <1>7, <1>t DEF Resend, HandsInv
    <3> QED
      BY <1>7, <2>1, <3>1, <3>2, <1>t, <1>g, NullAssumption
         DEF Resend, DeliveryInv, NothingLost, TypeOK
  <2>2. CASE msg' = msg /\ pc' # "remove"
    BY <1>1, <1>7, <2>2 DEF Resend
  <2> QED
    BY <1>7, <2>1, <2>2 DEF Resend, GoOn
<1>8. CASE RemoveFile
  <2>1. /\ msg \in Messages /\ got[msg] > 0
        /\ disk' = [disk EXCEPT ![msg] = "none"]
    BY <1>8, <1>t DEF RemoveFile, HandsInv, DeliveryInv
  <2>2. pc' # "remove"
    BY <1>8 DEF RemoveFile, GoOn
  <2> QED
    BY <1>8, <2>1, <2>2, <1>t, <1>g DEF RemoveFile, DeliveryInv, NothingLost, TypeOK
<1>9. CASE Stop
  <2>1. msg = NoMessage \/ msg \in interrupted'
    BY <1>9 DEF Stop
  <2>2. \A m \in Messages : m # msg => disk'[m] = disk[m]
    BY <1>9, <1>t DEF Stop, TypeOK
  <2>3. pc' = "down" /\ made' = made /\ interrupted \subseteq interrupted'
    BY <1>9 DEF Stop
  <2> QED
    BY <2>1, <2>2, <2>3, <1>t, <1>g, NullAssumption DEF DeliveryInv, NothingLost, TypeOK
<1>10. CASE UNCHANGED vars
  BY <1>10 DEF vars, memVars, bookVars, DeliveryInv, NothingLost
<1> QED
  BY <1>2, <1>3, <1>4, <1>5, <1>6, <1>7, <1>8, <1>9, <1>10 DEF Next, Step

\* However the server comes and goes, a message that was produced is with the
\* server, in its file or in the agent's hands, unless the agent was stopped
\* with the message in its hands.
THEOREM NothingLostAlways == Spec => []NothingLost
<1>1. DeliveryInv => NothingLost
  BY DEF DeliveryInv
<1> QED
  BY InitTyped, NextTyped, InitDelivery, NextDelivery, <1>1, PTL DEF Spec

-----------------------------------------------------------------------------
(***************************************************************************)
(* Repeated messages                                                       *)
(***************************************************************************)

\* While a message has a file, and while the agent has it in hand, the server
\* has no copy of it but those the agent did not learn of.  Only between the
\* answer and the removal of the file is there one more.
RepeatsInvOf(m) ==
    /\ got[m] <= 1 + unanswered[m]
    /\ m \notin made => got[m] = 0 /\ disk[m] = "none"
    /\ disk[m] = "whole" /\ ~ (pc = "remove" /\ msg = m) => got[m] <= unanswered[m]
    /\ pc \in {"call", "store", "save"} /\ msg = m =>
          disk[m] # "whole" /\ got[m] <= unanswered[m]
    /\ m \in entries => disk[m] = "whole"

RepeatsInv == \A m \in Messages : RepeatsInvOf(m)

\* Nothing has been sent at first.
LEMMA InitRepeats == Init => RepeatsInv
BY DEF Init, RepeatsInv, RepeatsInvOf

\* No step gives the server a copy that the bound does not allow.
LEMMA NextRepeats == Typed /\ RepeatsInv /\ [Next]_vars => RepeatsInv'
<1> SUFFICES ASSUME Typed, RepeatsInv, [Next]_vars, NEW m \in Messages
             PROVE  RepeatsInvOf(m)'
  BY DEF RepeatsInv
<1>t. /\ HandsInv /\ made \subseteq Messages /\ entries \subseteq Messages
      /\ got \in [Messages -> Nat] /\ unanswered \in [Messages -> Nat]
      /\ disk \in [Messages -> Files] /\ got[m] \in Nat /\ unanswered[m] \in Nat
  BY DEF Typed, TypeOK
<1>i. RepeatsInvOf(m)
  BY DEF RepeatsInv
<1>1. ASSUME UNCHANGED <<disk, made, bookVars>>,
             pc # "remove", pc' \notin {"call", "store", "save", "remove"},
             entries' \subseteq entries \cup Cached
      PROVE  RepeatsInvOf(m)'
  BY <1>1, <1>i DEF RepeatsInvOf, Cached, bookVars
<1>2. CASE ServerGoes \/ ServerReturns \/ UNCHANGED vars
  BY <1>2, <1>i DEF ServerGoes, ServerReturns, vars, memVars, bookVars, RepeatsInvOf
<1>3. CASE Start \/ ConnectJob \/ Reconnect \/ StartResending
  BY <1>1, <1>3 DEF Start, ConnectJob, Reconnect, StartResending
<1>4. ASSUME NEW t \in Tasks, RunTask(t) PROVE RepeatsInvOf(m)'
  BY <1>4, <1>i, <1>t DEF RunTask, RepeatsInvOf, bookVars
<1>5. CASE Call
  <2>1. msg \in made /\ msg \in Messages
    BY <1>5, <1>t DEF Call, HandsInv
  <2>2. CASE m # msg
    <3>1. got'[m] = got[m] /\ unanswered'[m] = unanswered[m]
      BY <1>5, <2>1, <2>2, <1>t
         DEF Call, Answered, Unanswered, NotReceived, bookVars
    <3> QED
      BY <1>5, <2>1, <2>2, <3>1, <1>i DEF Call, RepeatsInvOf
  <2>3. CASE m = msg
    <3>1. disk[m] # "whole" /\ got[m] <= unanswered[m]
      BY <1>5, <2>3, <1>i DEF Call, RepeatsInvOf
    <3>2. CASE Answered(m) /\ pc' = "idle"
      <4>1. got'[m] = got[m] + 1 /\ unanswered'[m] = unanswered[m]
        BY <3>2, <1>t DEF Answered
      <4> QED
        BY <1>5, <2>1, <2>3, <3>1, <3>2, <4>1, <1>i, <1>t DEF Call, RepeatsInvOf
    <3>3. CASE Unanswered(m)
      <4>1. got'[m] = got[m] + 1 /\ unanswered'[m] = unanswered[m] + 1
        BY <3>3, <1>t DEF Unanswered
      <4> QED
        BY <1>5, <2>1, <2>3, <3>1, <3>3, <4>1, <1>i, <1>t DEF Call, RepeatsInvOf
    <3>4. CASE NotReceived(m)
      BY <1>5, <2>1, <2>3, <3>1, <3>4, <1>i
         DEF Call, NotReceived, bookVars, RepeatsInvOf
    <3> QED
      BY <1>5, <2>3, <3>2, <3>3, <3>4 DEF Call
  <2> QED
    BY <2>2, <2>3
<1>6. CASE CacheMessage
  <2>1. msg \in made /\ pc' \in {"idle", "reconnect"} /\ pc \in {"store", "save"}
    BY <1>6, <1>t DEF CacheMessage, HandsInv
  <2>2. UNCHANGED <<got, unanswered, made, entries>>
    BY <1>6 DEF CacheMessage, bookVars
  <2>3. disk'[m] = IF m = msg THEN "whole" ELSE disk[m]
    BY <1>6, <1>t DEF CacheMessage
  <2> QED
    BY <2>1, <2>2, <2>3, <1>i DEF RepeatsInvOf
<1>7. ASSUME NEW n \in Messages, Resend(n) PROVE RepeatsInvOf(m)'
  <2>1. UNCHANGED <<disk, made>> /\ pc = "resend" /\ n \in entries
    BY <1>7 DEF Resend
  <2>2. entries' \subseteq entries /\ pc' \in {"idle", "resend", "remove"}
    BY <1>7 DEF Resend, GoOn
  <2>3. CASE m # n
    <3>1. got'[m] = got[m] /\ unanswered'[m] = unanswered[m]
      BY <1>7, <2>3, <1>t
         DEF Resend, Answered, Unanswered, NotReceived, bookVars
    <3> QED
      BY <2>1, <2>2, <2>3, <3>1, <1>i DEF RepeatsInvOf
  <2>4. CASE m = n
    <3>1. disk[m] = "whole" /\ m \in made /\ got[m] <= unanswered[m]
      BY <2>1, <2>4, <1>i DEF RepeatsInvOf
    <3>2. CASE Answered(m) /\ pc' = "remove" /\ msg' = m
      <4>1. got'[m] = got[m] + 1 /\ unanswered'[m] = unanswered[m]
        BY <3>2, <1>t DEF Answered
      <4> QED
        BY <2>1, <2>2, <3>1, <3>2, <4>1, <1>t DEF RepeatsInvOf
    <3>3. CASE Unanswered(m)
      <4>1. got'[m] = got[m] + 1 /\ unanswered'[m] = unanswered[m] + 1
        BY <3>3, <1>t DEF Unanswered
      <4> QED
        BY <2>1, <2>2, <3>1, <4>1, <1>t DEF RepeatsInvOf
    <3>4. CASE NotReceived(m)
      BY <2>1, <2>2, <3>1, <3>4, <1>t DEF NotReceived, bookVars, RepeatsInvOf
    <3> QED
      BY <1>7, <2>4, <3>2, <3>3, <3>4 DEF Resend
  <2> QED
    BY <2>3, <2>4
<1>8. CASE RemoveFile
  <2>1. /\ msg \in Messages /\ pc = "remove" /\ pc' \in {"idle", "resend"}
        /\ entries' = entries \ {msg}
        /\ UNCHANGED <<got, unanswered, made>>
    BY <1>8, <1>t DEF RemoveFile, GoOn, HandsInv, bookVars
  <2>2. disk'[m] = IF m = msg THEN "none" ELSE disk[m]
    BY <1>8, <1>t DEF RemoveFile
  <2> QED
    BY <2>1, <2>2, <1>i DEF RepeatsInvOf
<1>9. CASE Stop
  <2>1. pc' = "down" /\ entries' = {} /\ made' = made
    BY <1>9 DEF Stop
  <2>2. CASE pc \in {"call", "store", "save"} /\ msg = m
    <3>1. disk[m] # "whole" /\ got[m] <= unanswered[m] /\ m \in made
      BY <2>2, <1>i, <1>t DEF RepeatsInvOf, HandsInv
    <3>2. /\ disk'[m] # "whole"
          /\ got'[m] <= got[m] + 1 /\ got'[m] \in Nat
          /\ unanswered'[m] = unanswered[m]
      BY <1>9, <2>2, <3>1, <1>t DEF Stop, bookVars
    <3> QED
      BY <2>1, <3>1, <3>2, <1>t DEF RepeatsInvOf
  <2>3. CASE pc = "remove" /\ msg = m
    <3>1. /\ disk' = disk /\ got' = got
          /\ unanswered'[m] = unanswered[m] + 1
      BY <1>9, <2>3, <1>t DEF Stop
    <3> QED
      BY <2>1, <3>1, <1>i, <1>t DEF RepeatsInvOf
  <2>4. CASE msg # m \/ pc \notin {"call", "store", "save", "remove"}
    <3>1. disk'[m] = disk[m] /\ got'[m] = got[m] /\ unanswered'[m] = unanswered[m]
      BY <1>9, <2>4, <1>t DEF Stop, bookVars
    <3> QED
      BY <2>1, <2>4, <3>1, <1>i DEF RepeatsInvOf
  <2> QED
    BY <2>2, <2>3, <2>4
<1> QED
  BY <1>2, <1>3, <1>4, <1>5, <1>6, <1>7, <1>8, <1>9 DEF Next, Step

\* The server has at most one copy of a message more than receipts the agent
\* did not learn of or could not act on, for any number of outages and stops.
THEOREM RepeatsExplainedAlways == Spec => []RepeatsExplained
<1>1. RepeatsInv => RepeatsExplained
  BY DEF RepeatsInv, RepeatsInvOf, RepeatsExplained
<1> QED
  BY InitTyped, NextTyped, InitRepeats, NextRepeats, <1>1, PTL DEF Spec

-----------------------------------------------------------------------------
(***************************************************************************)
(* Reconnecting                                                            *)
(***************************************************************************)

\* What ReconnectScheduled says between two jobs holds at every step of one.
ReconnectInv ==
    pc # "down" /\ (~ channel \/ \E t \in Tasks : ~ link[t]) =>
        connJob \/ retryJobs > 0

\* The agent is down at first.
LEMMA InitReconnect == Init => ReconnectInv
BY DEF Init, ReconnectInv

\* The job that drops a channel schedules another attempt in the same step.
LEMMA NextReconnect == Typed /\ ReconnectInv /\ [Next]_vars => ReconnectInv'
<1> SUFFICES ASSUME Typed, ReconnectInv, [Next]_vars PROVE ReconnectInv'
  OBVIOUS
<1>t. retryJobs \in Nat
  BY DEF Typed, TypeOK
<1>1. ASSUME UNCHANGED <<channel, link, connJob, retryJobs>>, pc # "down"
      PROVE  ReconnectInv'
  BY <1>1 DEF ReconnectInv
<1>2. CASE ServerGoes \/ ServerReturns \/ UNCHANGED vars
  BY <1>2 DEF ServerGoes, ServerReturns, vars, memVars, ReconnectInv
<1>3. CASE Start
  BY <1>3 DEF Start, ReconnectInv
<1>4. CASE Stop
  BY <1>4 DEF Stop, ReconnectInv
<1>5. CASE ConnectJob
  BY <1>5 DEF ConnectJob, Connected, ReconnectInv
<1>6. CASE Reconnect
  BY <1>6, <1>t DEF Reconnect, ReconnectInv
<1>7. ASSUME NEW t \in Tasks, RunTask(t) PROVE ReconnectInv'
  BY <1>1, <1>7 DEF RunTask
<1>8. ASSUME NEW m \in Messages, Resend(m) PROVE ReconnectInv'
  BY <1>1, <1>8 DEF Resend
<1>9. CASE StartResending \/ Call \/ CacheMessage \/ RemoveFile
  BY <1>1, <1>9 DEF StartResending, Call, CacheMessage, RemoveFile
<1> QED
  BY <1>2, <1>3, <1>4, <1>5, <1>6, <1>7, <1>8, <1>9 DEF Next, Step

\* An agent or a task that lost its channel always has a job that will try
\* again, whenever the server went and however many jobs were scheduled.
THEOREM ReconnectScheduledAlways == Spec => []ReconnectScheduled
<1>1. ReconnectInv => ReconnectScheduled
  BY DEF ReconnectInv, ReconnectScheduled
<1> QED
  BY InitTyped, NextTyped, InitReconnect, NextReconnect, <1>1, PTL DEF Spec

-----------------------------------------------------------------------------
(***************************************************************************)
(* The agent implements StoreAndForward                                    *)
(***************************************************************************)

\* The server's part of a call: a receipt of m or nothing.
LEMMA OutcomeOfCall ==
    ASSUME NEW m, Answered(m) \/ Unanswered(m) \/ NotReceived(m)
    PROVE  Promise!Arrives(m) \/ got' = got
<1>1. CASE Answered(m) \/ Unanswered(m)
  BY <1>1 DEF Answered, Unanswered, Promise!Arrives
<1>2. CASE NotReceived(m)
  BY <1>2 DEF NotReceived, bookVars
<1> QED
  BY <1>1, <1>2

\* What a round has still to go through has its file.
EntriesInv == entries \subseteq Cached

LEMMA InitEntries == Init => EntriesInv
BY DEF Init, EntriesInv

LEMMA NextEntries == Typed /\ EntriesInv /\ [Next]_vars => EntriesInv'
<1> SUFFICES ASSUME Typed, EntriesInv, [Next]_vars PROVE EntriesInv'
  OBVIOUS
<1>t. disk \in [Messages -> Files] /\ entries \subseteq Cached
  BY DEF Typed, TypeOK, EntriesInv
<1>1. ASSUME entries' \subseteq entries, disk' = disk
      PROVE  EntriesInv'
  BY <1>t, <1>1 DEF EntriesInv, Cached
<1>2. CASE ServerGoes \/ ServerReturns \/ UNCHANGED vars
  BY <1>1, <1>2 DEF ServerGoes, ServerReturns, vars, memVars
<1>3. CASE Start \/ ConnectJob \/ Reconnect \/ Call
  BY <1>1, <1>3 DEF Start, ConnectJob, Reconnect, Call
<1>4. ASSUME NEW t \in Tasks, RunTask(t) PROVE EntriesInv'
  BY <1>1, <1>4 DEF RunTask
<1>5. CASE StartResending
  BY <1>5 DEF StartResending, EntriesInv, Cached
<1>6. CASE CacheMessage
  BY <1>t, <1>6 DEF CacheMessage, EntriesInv, Cached
<1>7. ASSUME NEW m \in Messages, Resend(m) PROVE EntriesInv'
  BY <1>1, <1>7 DEF Resend, GoOn
<1>8. CASE RemoveFile
  BY <1>t, <1>8 DEF RemoveFile, GoOn, EntriesInv, Cached
<1>9. CASE Stop
  BY <1>9 DEF Stop, EntriesInv
<1> QED
  BY <1>2, <1>3, <1>4, <1>5, <1>6, <1>7, <1>8, <1>9 DEF Next, Step

LEMMA NextKeepsPromise ==
    Typed /\ DeliveryInv /\ EntriesInv /\ [Next]_vars
       => [Promise!Next]_Promise!vars
<1> SUFFICES ASSUME Typed, DeliveryInv, EntriesInv, [Next]_vars
             PROVE  Promise!Next \/ UNCHANGED Promise!vars
  OBVIOUS
<1>t. TypeOK /\ HandsInv
  BY DEF Typed
<1>1. ASSUME UNCHANGED <<made, disk, msg, got, stops>>
      PROVE  UNCHANGED Promise!vars
  BY <1>1 DEF Promise!vars, Pending, Cached
<1>2. CASE ServerGoes \/ ServerReturns \/ UNCHANGED vars
  BY <1>1, <1>2 DEF ServerGoes, ServerReturns, vars, memVars, bookVars
<1>3. CASE Start \/ ConnectJob \/ Reconnect \/ StartResending
  BY <1>1, <1>3 DEF Start, ConnectJob, Reconnect, StartResending, bookVars
<1>4. ASSUME NEW t \in Tasks, RunTask(t) PROVE Promise!Next
  <2>1. PICK n \in Messages \ made : made' = made \cup {n} /\ msg' = n
    BY <1>4 DEF RunTask
  <2>2. msg = NoMessage /\ n # NoMessage
    BY <1>4, <1>t, <2>1, NullAssumption DEF RunTask, HandsInv
  <2>3. UNCHANGED <<disk, got, stops>>
    BY <1>4 DEF RunTask, bookVars
  <2>4. Pending' = Pending \cup {n}
    BY <2>1, <2>2, <2>3 DEF Pending, Cached
  <2>5. Promise!Accept(n)
    BY <2>1, <2>3, <2>4 DEF Promise!Accept
  <2> QED
    BY <2>5 DEF Promise!Next
<1>5. CASE Call
  <2>1. msg \in Messages /\ msg # NoMessage /\ msg \in Pending
    BY <1>5, <1>t, NullAssumption DEF Call, HandsInv, TypeOK, Pending
  <2>2. UNCHANGED <<made, disk, stops>>
    BY <1>5 DEF Call
  <2>3. \/ Promise!Arrives(msg)
        \/ got' = got /\ msg' = msg
    BY <1>5, OutcomeOfCall DEF Call, Answered, Promise!Arrives, NotReceived, bookVars
  <2>4. msg' = msg \/ msg' = NoMessage
    BY <1>5 DEF Call
  <2>5. Pending' = Pending \/ Pending' = Pending \ {msg}
    BY <2>2, <2>4 DEF Pending, Cached
  <2>6. CASE Promise!Arrives(msg)
    <3>1. Promise!Deliver(msg)
      BY <2>1, <2>2, <2>5, <2>6 DEF Promise!Deliver
    <3> QED
      BY <2>1, <3>1 DEF Promise!Next
  <2>7. CASE got' = got /\ msg' = msg
    BY <1>1, <2>2, <2>7
  <2> QED
    BY <2>3, <2>6, <2>7
<1>6. CASE CacheMessage
  <2>1. /\ msg \in Messages /\ msg # NoMessage /\ msg' = NoMessage
        /\ disk' = [disk EXCEPT ![msg] = "whole"]
        /\ UNCHANGED <<made, got, stops>>
    BY <1>6, <1>t, NullAssumption DEF CacheMessage, HandsInv, TypeOK, bookVars
  <2>2. Cached' = Cached \cup {msg}
    BY <1>t, <2>1 DEF Cached, TypeOK
  <2>3. Pending' = Pending
    BY <2>1, <2>2 DEF Pending
  <2> QED
    BY <2>1, <2>3 DEF Promise!vars
<1>7. ASSUME NEW m \in Messages, Resend(m)
      PROVE  Promise!Next \/ UNCHANGED Promise!vars
  <2>1. msg = NoMessage /\ m # NoMessage /\ UNCHANGED <<made, disk, stops>>
    BY <1>7, <1>t, NullAssumption DEF Resend, HandsInv
  <2>2. m \in Cached
    BY <1>7 DEF Resend, EntriesInv
  <2>3. m \in Pending /\ Cached' = Cached
    BY <2>1, <2>2 DEF Pending, Cached
  <2>4. CASE Promise!Arrives(m) /\ (msg' = msg \/ msg' = m)
    <3>1. Pending' = Pending
      BY <2>1, <2>2, <2>3, <2>4 DEF Pending
    <3>2. Promise!Deliver(m)
      BY <2>1, <2>3, <2>4, <3>1 DEF Promise!Deliver
    <3> QED
      BY <3>2 DEF Promise!Next
  <2>5. CASE got' = got /\ msg' = msg
    BY <1>1, <2>1, <2>5
  <2> QED
    BY <1>7, <2>4, <2>5, OutcomeOfCall DEF Resend, Answered, Promise!Arrives
<1>8. CASE RemoveFile
  <2>1. /\ msg \in Messages /\ msg # NoMessage /\ got[msg] > 0
        /\ msg' = NoMessage /\ disk' = [disk EXCEPT ![msg] = "none"]
        /\ UNCHANGED <<made, got, stops>>
    BY <1>8, <1>t, NullAssumption DEF RemoveFile, HandsInv, DeliveryInv, bookVars
  <2>2. msg \in Pending
    BY <2>1 DEF Pending
  <2>3. Cached' = Cached \ {msg}
    BY <1>t, <2>1 DEF Cached, TypeOK
  <2>4. Pending' = Pending \ {msg}
    BY <2>1, <2>3 DEF Pending
  <2>5. Promise!Forget(msg)
    BY <2>1, <2>2, <2>4 DEF Promise!Forget
  <2> QED
    BY <2>1, <2>5 DEF Promise!Next
<1>9. CASE Stop
  <2>1. stops' = stops + 1 /\ made' = made /\ msg' = NoMessage
    BY <1>9 DEF Stop
  <2>2. CASE msg = NoMessage
    <3>1. pc \notin {"call", "store", "save", "remove"}
      BY <1>t, <2>2, NullAssumption DEF HandsInv, TypeOK
    <3>2. UNCHANGED <<disk, got>>
      BY <1>9, <3>1 DEF Stop, bookVars
    <3>3. Pending' = Pending
      BY <2>1, <2>2, <3>2 DEF Pending, Cached
    <3>4. Promise!Crash
      BY <2>1, <3>2, <3>3 DEF Promise!Crash
    <3> QED
      BY <3>4 DEF Promise!Next
  <2>3. CASE msg # NoMessage
    <3>1. msg \in Messages /\ msg \in Pending
      BY <1>t, <2>3 DEF TypeOK, Pending
    <3>2. Promise!Arrives(msg) \/ got' = got
      BY <1>9 DEF Stop, Promise!Arrives, bookVars
    <3>3. disk' = disk \/ disk' = [disk EXCEPT ![msg] = "cut"]
      BY <1>9 DEF Stop
    <3>4. Cached' = Cached \/ Cached' = Cached \ {msg}
      BY <1>t, <3>1, <3>3 DEF Cached, TypeOK
    <3>5. Pending' = Pending \/ Pending' = Pending \ {msg}
      BY <2>1, <3>4 DEF Pending
    <3>6. Promise!Crash
      BY <2>1, <3>1, <3>2, <3>5 DEF Promise!Crash
    <3> QED
      BY <3>6 DEF Promise!Next
  <2> QED
    BY <2>2, <2>3
<1> QED
  BY <1>2, <1>3, <1>4, <1>5, <1>6, <1>7, <1>8, <1>9 DEF Next, Step

\* For any messages, outages and stops every step of the agent is one that
\* StoreAndForward allows.
THEOREM AgentKeepsItsPromise == Spec => KeepsItsPromise
<1>1. Init => Promise!Init
  BY DEF Init, Promise!Init, Pending, Cached
<1> QED
  BY <1>1, InitTyped, NextTyped, InitDelivery, NextDelivery, InitEntries,
     NextEntries, NextKeepsPromise, PTL DEF Spec, KeepsItsPromise, Promise!Spec

------------------------------------------------------------------------------
\* What StoreAndForward alone implies, for the agent's accepted, pending and
\* delivered messages and its stops.
PromiseInv ==
    /\ made \subseteq Messages /\ Pending \subseteq made
    /\ got \in [Messages -> Nat]
    /\ stops \in Nat
    /\ Promise!LossBound

\* StoreAndForward's counting is the library's.
LEMMA SameCount ==
    \A S : /\ Promise!IsFiniteSet(S) <=> IsFiniteSet(S)
           /\ Promise!Cardinality(S) = Cardinality(S)
<1>1. \A S : Promise!IsFiniteSet(S) <=> IsFiniteSet(S)
  BY DEF Promise!IsFiniteSet, IsFiniteSet
<1>2. \A S : Promise!Cardinality(S) = Cardinality(S)
  BY DEF Promise!Cardinality, Cardinality
<1> QED
  BY <1>1, <1>2

\* A step that loses nothing and has no fewer stops keeps the bound.
LEMMA NothingMoreLost ==
    ASSUME Promise!LossBound, stops \in Nat, stops' \in Nat, stops' >= stops,
           Promise!Lost' \subseteq Promise!Lost
    PROVE  Promise!LossBound'
<1>1. /\ IsFiniteSet(Promise!Lost')
      /\ Cardinality(Promise!Lost') <= Cardinality(Promise!Lost)
  BY FS_Subset, SameCount DEF Promise!LossBound
<1>2. Cardinality(Promise!Lost) \in Nat /\ Cardinality(Promise!Lost') \in Nat
  BY <1>1, FS_CardinalityType, SameCount DEF Promise!LossBound
<1> QED
  BY <1>1, <1>2, SameCount DEF Promise!LossBound

LEMMA OneMore ==
    ASSUME NEW S, NEW x, IsFiniteSet(S)
    PROVE  IsFiniteSet(S \cup {x}) /\ Cardinality(S \cup {x}) <= Cardinality(S) + 1
<1>1. Cardinality(S) \in Nat
  BY FS_CardinalityType
<1>2. IsFiniteSet(S \cup {x})
  BY FS_AddElement
<1>3. CASE x \in S
  <2>1. S \cup {x} = S
    BY <1>3
  <2>2. Cardinality(S) <= Cardinality(S) + 1
    BY <1>1
  <2> QED
    BY <1>2, <2>1, <2>2
<1>4. CASE x \notin S
  <2>1. Cardinality(S \cup {x}) = Cardinality(S) + 1
    BY <1>4, FS_AddElement
  <2> QED
    BY <1>1, <1>2, <2>1
<1> QED
  BY <1>3, <1>4

LEMMA InitPromiseInv == Promise!Init => PromiseInv
<1> SUFFICES ASSUME Promise!Init PROVE PromiseInv
  OBVIOUS
<1>1. Promise!Lost = {}
  BY DEF Promise!Init, Promise!Lost
<1>2. Promise!LossBound
  BY <1>1, FS_EmptySet, SameCount DEF Promise!LossBound, Promise!Init
<1> QED
  BY <1>2 DEF Promise!Init, PromiseInv

LEMMA NextPromiseInv == PromiseInv /\ [Promise!Next]_Promise!vars => PromiseInv'
<1> SUFFICES ASSUME PromiseInv, [Promise!Next]_Promise!vars PROVE PromiseInv'
  OBVIOUS
<1>0. /\ made \subseteq Messages /\ Pending \subseteq made
      /\ got \in [Messages -> Nat] /\ stops \in Nat /\ Promise!LossBound
  BY DEF PromiseInv
<1>1. ASSUME NEW m \in Messages, Promise!Accept(m) PROVE PromiseInv'
  <2>1. Promise!Lost' \subseteq Promise!Lost
    BY <1>0, <1>1 DEF Promise!Accept, Promise!Lost
  <2>2. Promise!LossBound'
    BY <1>0, <1>1, <2>1, NothingMoreLost DEF Promise!Accept
  <2> QED
    BY <1>0, <1>1, <2>2 DEF Promise!Accept, PromiseInv
<1>2. ASSUME NEW m \in Messages, Promise!Deliver(m) PROVE PromiseInv'
  <2>1. got' \in [Messages -> Nat] /\ got'[m] # 0
        /\ \A n \in Messages \ {m} : got'[n] = got[n]
    BY <1>0, <1>2 DEF Promise!Deliver, Promise!Arrives
  <2>2. Promise!Lost' \subseteq Promise!Lost
    BY <1>0, <1>2, <2>1 DEF Promise!Deliver, Promise!Lost
  <2>3. Promise!LossBound'
    BY <1>0, <1>2, <2>2, NothingMoreLost DEF Promise!Deliver
  <2> QED
    BY <1>0, <1>2, <2>1, <2>3 DEF Promise!Deliver, PromiseInv
<1>3. ASSUME NEW m \in Messages, Promise!Forget(m) PROVE PromiseInv'
  <2>1. Promise!Lost' \subseteq Promise!Lost
    BY <1>0, <1>3 DEF Promise!Forget, Promise!Lost
  <2>2. Promise!LossBound'
    BY <1>0, <1>3, <2>1, NothingMoreLost DEF Promise!Forget
  <2> QED
    BY <1>0, <1>3, <2>2 DEF Promise!Forget, PromiseInv
<1>4. CASE Promise!Crash
  <2>1. CASE UNCHANGED <<Pending, got>>
    <3>1. Promise!Lost' \subseteq Promise!Lost
      BY <1>4, <2>1 DEF Promise!Crash, Promise!Lost
    <3>2. Promise!LossBound'
      BY <1>0, <1>4, <3>1, NothingMoreLost DEF Promise!Crash
    <3> QED
      BY <1>0, <1>4, <2>1, <3>2 DEF Promise!Crash, PromiseInv
  <2>2. ASSUME NEW m \in Pending,
               Promise!Arrives(m) \/ UNCHANGED got,
               Pending' = Pending \/ Pending' = Pending \ {m}
        PROVE  PromiseInv'
    <3>1. m \in Messages
      BY <1>0
    <3>2. got' \in [Messages -> Nat]
          /\ \A n \in Messages \ {m} : got'[n] = got[n]
      BY <1>0, <2>2, <3>1 DEF Promise!Arrives
    <3>3. made' = made /\ stops' = stops + 1
      BY <1>4 DEF Promise!Crash
    <3>4. Promise!Lost' \subseteq Promise!Lost \cup {m}
      BY <1>0, <2>2, <3>2, <3>3 DEF Promise!Lost
    <3>5. /\ IsFiniteSet(Promise!Lost \cup {m})
          /\ Cardinality(Promise!Lost \cup {m}) <= Cardinality(Promise!Lost) + 1
      BY <1>0, OneMore, SameCount DEF Promise!LossBound
    <3>6. /\ IsFiniteSet(Promise!Lost')
          /\ Cardinality(Promise!Lost') <= Cardinality(Promise!Lost \cup {m})
      BY <3>4, <3>5, FS_Subset
    <3>7. /\ Cardinality(Promise!Lost) \in Nat
          /\ Cardinality(Promise!Lost') \in Nat
          /\ Cardinality(Promise!Lost \cup {m}) \in Nat
      BY <1>0, <3>5, <3>6, FS_CardinalityType, SameCount DEF Promise!LossBound
    <3>8. Promise!LossBound'
      BY <1>0, <3>3, <3>5, <3>6, <3>7, SameCount DEF Promise!LossBound
    <3> QED
      BY <1>0, <2>2, <3>2, <3>3, <3>8 DEF PromiseInv
  <2> QED
    BY <1>4, <2>1, <2>2 DEF Promise!Crash
<1>5. CASE UNCHANGED Promise!vars
  <2>1. Promise!LossBound'
    BY <1>0, <1>5 DEF Promise!vars, Promise!LossBound, Promise!Lost
  <2> QED
    BY <1>0, <1>5, <2>1 DEF Promise!vars, PromiseInv
<1> QED
  BY <1>1, <1>2, <1>3, <1>4, <1>5 DEF Promise!Next

\* Whatever StoreAndForward allows the agent: however many messages there are,
\* no more of them are gone from both sides than there were crashes.
THEOREM LossBounded == Promise!Spec => []Promise!LossBound
<1>1. PromiseInv => Promise!LossBound
  BY DEF PromiseInv
<1> QED
  BY <1>1, InitPromiseInv, NextPromiseInv, PTL DEF Promise!Spec

\* Hence no more messages are gone, from the files, the agent's hands and the
\* server, than the agent was stopped: each stop costs one at most.
THEOREM StopsBoundLosses == Spec => []Promise!LossBound
  BY AgentKeepsItsPromise, LossBounded, PTL DEF KeepsItsPromise
=============================================================================
