------------------------ MODULE OpenCodeRunnerProofs ------------------------
(***************************************************************************)
(* What OpenCodeRunner promises for any agents, callers, deadlines and     *)
(* number of invocations.                                                  *)
(***************************************************************************)
EXTENDS OpenCodeRunner, FiniteSetTheorems, TLAPS

-----------------------------------------------------------------------------
(* Typing. *)

\* Confirming and forgetting keep `live` typed: an entry changes only to 0, and only for
\* an invocation of S that has returned.
LEMMA ConfirmFacts ==
    ASSUME live \in [Agents -> Made \cup {0}], NEW S, Confirm(S)
    PROVE  /\ remoteStopped' = remoteStopped \cup S
           /\ live' \in [Agents -> Made \cup {0}]
           /\ \A a \in Agents :
                live'[a] # live[a] => live'[a] = 0 /\ live[a] \in S \cap LocalReturned
BY DEF Confirm, Forget, LocalReturned, Made

\* Serial numbers: an invocation's number is how many were made before it, and one.
Serial == \E n \in Nat : Made = 1..n

LEMMA NextSerial ==
    ASSUME Serial, TypeOK
    PROVE  Cardinality(Made) + 1 \notin Made /\ Cardinality(Made) \in Nat /\ 0 \notin Made
<1>1. PICK n \in Nat : Made = 1..n
  BY DEF Serial
<1>2. Cardinality(Made) = n
  BY <1>1, FS_Interval, SMT
<1> QED
  BY <1>1, <1>2

LEMMA TypeStep == TypeOK /\ [Next]_vars => TypeOK'
<1> SUFFICES ASSUME TypeOK, [Next]_vars PROVE TypeOK'
  OBVIOUS
<1> USE DEF TypeOK, Made
<1>1. ASSUME NEW a \in Agents, Run(a) PROVE TypeOK'
  <2> DEFINE i == Cardinality(Made) + 1
  <2> HIDE DEF i
  <2>1. /\ agentOf' = With(agentOf, i, a) /\ at' = With(at, i, "creating")
        /\ live' = [live EXCEPT ![a] = i] /\ i \in Invocations
        /\ asks' = [c \in Callers |-> With(asks[c], i, "none")]
        /\ session' = With(session, i, "none") /\ transit' = With(transit, i, {})
        /\ response' = With(response, i, "none")
    BY <1>1 DEF Run, i
  <2>2. Made' = Made \cup {i} /\ agentOf' \in [Made' -> Agents]
    BY <2>1 DEF With
  <2>3. at' \in [Made' -> Places] /\ live' \in [Agents -> Made' \cup {0}]
    BY <2>1, <2>2 DEF With, Places
  <2>4. asks' \in [Callers -> [Made' -> {"none", "reconciling", "waiting"}]]
    BY <2>1, <2>2 DEF With
  <2>5. session' \in [Made' -> {"none", "idle", "busy", "gone"}]
    BY <2>1, <2>2 DEF With
  <2>6. transit' \in [Made' -> SUBSET Requests]
    BY <2>1, <2>2 DEF With
  <2>7. response' \in [Made' -> {"none", "owed", "sent", "over"}]
    BY <2>1, <2>2 DEF With
  <2>8. /\ UNCHANGED <<promptDispatched, stopRequested, abortRequested, remoteStopped, steered,
                        woken>>
        /\ admitted' = FALSE /\ told' = told \ {a}
    BY <1>1 DEF Run, flags
  <2> QED
    BY <2>1, <2>2, <2>3, <2>4, <2>5, <2>6, <2>7, <2>8
<1>2. ASSUME NEW a \in Agents, Quiesce(a) PROVE TypeOK'
  BY <1>2, ConfirmFacts, CallersAssumption DEF Quiesce, Ask, Retained, remote
<1>3. ASSUME NEW c \in Callers, AbortAll(c) PROVE TypeOK'
  BY <1>3, ConfirmFacts DEF AbortAll, Ask, remote
<1>4. ASSUME AssertReady PROVE TypeOK'
  BY <1>4, ConfirmFacts DEF AssertReady, Evidence, Dead, remote
<1>5. ASSUME NEW i \in Made, SessionCreated(i) PROVE TypeOK'
  BY <1>5 DEF SessionCreated, Places, Requests
<1>6. ASSUME NEW i \in Made, SessionFails(i) PROVE TypeOK'
  BY <1>6 DEF SessionFails, flags, remote, Places
<1>7. ASSUME NEW i \in Made, TimesOut(i) PROVE TypeOK'
  BY <1>7 DEF TimesOut, RequestAbort, Places, Requests
<1>8. ASSUME NEW i \in Made, Read(i) PROVE TypeOK'
  <2>1. /\ at' = [at EXCEPT ![i] = "returned"] \/ at' = [at EXCEPT ![i] = "diagnosing"]
        /\ live' = Forget(i) \/ UNCHANGED live
        /\ UNCHANGED <<agentOf, steered, asks, admitted, told, flags, remote>>
    BY <1>8 DEF Read
  <2> QED
    BY <2>1 DEF Forget, flags, remote, Places
<1>9. ASSUME NEW i \in Made, Diagnosed(i) PROVE TypeOK'
  BY <1>9 DEF Diagnosed, Forget, remote, Places
<1>10. ASSUME NEW i \in Made, Steer(i) PROVE TypeOK'
  BY <1>10 DEF Steer, flags, Requests
<1>11. ASSUME NEW i \in Made, Respond(i) PROVE TypeOK'
  BY <1>11, ConfirmFacts DEF Respond, Forget, Places
<1>12. ASSUME NEW i \in Made, PromptFails(i) PROVE TypeOK'
  BY <1>12 DEF PromptFails, RequestAbort, Places, Requests
<1>13. ASSUME NEW i \in Made, Watch(i) PROVE TypeOK'
  BY <1>13, ConfirmFacts DEF Watch, remote
<1>14. ASSUME NEW i \in Made, NEW c \in Callers, AskRuntime(c, i) PROVE TypeOK'
  BY <1>14, ConfirmFacts DEF AskRuntime, Evidence, Dead, RequestAbort, Tell, Requests
<1>15. ASSUME NEW i \in Made, NEW c \in Callers, GraceOver(c, i) PROVE TypeOK'
  BY <1>15, ConfirmFacts DEF GraceOver, Evidence, Dead, Tell, remote
<1>16. ASSUME NEW i \in Made, NEW r \in Requests, Deliver(i, r) PROVE TypeOK'
  BY <1>16 DEF Deliver, local, flags
<1>17. ASSUME NEW i \in Made, Finish(i) PROVE TypeOK'
  BY <1>17 DEF Finish, local, flags
<1>18. ASSUME NEW i \in Made, ContainerDies(i) PROVE TypeOK'
  BY <1>18 DEF ContainerDies, local, flags
<1>19. CASE UNCHANGED vars
  BY <1>19 DEF vars, local, flags, remote
<1> QED
  BY <1>1, <1>2, <1>3, <1>4, <1>5, <1>6, <1>7, <1>8, <1>9, <1>10, <1>11, <1>12, <1>13, <1>14,
     <1>15, <1>16, <1>17, <1>18, <1>19 DEF Next, Local, Answering

\* Every variable of the runner and of its servers stays within the values the code and
\* the protocol can give it.
THEOREM RunnerTyped == Spec => []TypeOK
<1>1. Init => TypeOK
  <2>1. DOMAIN <<>> = {} /\ \A R : <<>> \in [{} -> R]
    OBVIOUS
  <2> QED
    BY <2>1 DEF Init, TypeOK, Made
<1> QED
  BY <1>1, TypeStep, PTL DEF Spec

-----------------------------------------------------------------------------
(* The inductive invariant. *)

\* An invocation that is no longer retained has returned and is confirmed stopped; one
\* that is belongs to its agent.
Retention == \A i \in Made : live[agentOf[i]] # i => i \in LocalReturned \cap remoteStopped

Owners == \A a \in Agents : live[a] # 0 => agentOf[live[a]] = a

\* Before its session exists, nothing was sent, and only a stop can have confirmed it.
Unstarted ==
    \A i \in Made : at[i] = "creating" =>
        /\ session[i] = "none" /\ response[i] = "none" /\ i \notin promptDispatched
        /\ i \in remoteStopped => i \in stopRequested

\* Without a prompt a session is never at work, and never waited for.
Unprompted ==
    \A i \in Made \ promptDispatched :
        /\ session[i] # "busy" /\ response[i] = "none"
        /\ transit[i] \subseteq {"abort"} /\ at[i] \notin {"racing", "reading"}

\* A submission is read only after the answer that confirmed the stop.
ReadAfterStop == \A i \in Made : at[i] = "reading" => i \in remoteStopped

\* A session still at work is one nobody has evidence of having stopped, or was woken.
Evidenced ==
    \A i \in Made :
        session[i] = "busy" /\ (i \in remoteStopped \/ response[i] = "sent") => i \in woken

\* The driver asks about the latest invocation of an agent: the others are confirmed.
Asked ==
    \A i, j \in Made :
        asks[Driver][i] # "none" /\ agentOf[j] = agentOf[i] /\ j # i => j \in remoteStopped

\* Nothing is left of any invocation while a round stands admitted.
Admission == admitted => \A i \in Made : at[i] = "returned" /\ i \in remoteStopped

RunnerInv ==
    /\ TypeOK /\ Serial /\ Retention /\ Owners /\ Unstarted /\ Unprompted
    /\ ReadAfterStop /\ Evidenced /\ Asked /\ Admission

\* Each step keeps every part of it.
LEMMA RunnerStep == RunnerInv /\ [Next]_vars => RunnerInv'
<1> SUFFICES ASSUME RunnerInv, [Next]_vars PROVE RunnerInv'
  OBVIOUS
<1>1. TypeOK /\ TypeOK' /\ 0 \notin Made
  BY TypeStep DEF RunnerInv, TypeOK, Invocations
<1> DEFINE Rest == Serial /\ Retention /\ Owners /\ Unstarted /\ Unprompted
                   /\ ReadAfterStop /\ Evidenced /\ Asked /\ Admission
<1>2. Rest
  BY DEF RunnerInv
<1> USE DEF Serial, Retention, Owners, Unstarted, Unprompted, ReadAfterStop, Evidenced, Asked,
        Admission, TypeOK, Made, LocalReturned
<1>3. ASSUME NEW a \in Agents, Run(a) PROVE Rest'
  <2> DEFINE i == Cardinality(Made) + 1
  <2>0. PICK n \in Nat : Made = 1..n
    BY <1>2
  <2>1. i = n + 1 /\ i \notin Made
    BY <1>1, <1>2, <2>0, FS_Interval
  <2> HIDE DEF i
  <2>2. /\ agentOf' = With(agentOf, i, a) /\ at' = With(at, i, "creating")
        /\ live' = [live EXCEPT ![a] = i] /\ live[a] = 0
        /\ session' = With(session, i, "none") /\ transit' = With(transit, i, {})
        /\ response' = With(response, i, "none")
        /\ UNCHANGED <<flags, steered, woken>> /\ ~admitted'
    BY <1>3 DEF Run, Available, i
  <2>3. /\ \A j \in Made : agentOf[j] = a => asks[Driver][j] = "none"
        /\ asks'[Driver] = With(asks[Driver], i, "none")
    BY <1>3, CallersAssumption DEF Run, i
  <2>4. Made' = Made \cup {i} /\ i # 0
    BY <1>1, <2>1, <2>2 DEF With
  <2>9. Serial'
    <3>1. Made' = 1..(n + 1)
      BY <2>0, <2>1, <2>4
    <3> QED
      BY <2>0, <3>1
  <2>5. \A j \in Made : agentOf[j] = a => j \in LocalReturned \cap remoteStopped
    BY <1>1, <1>2, <2>2
  <2>6. Retention' /\ Owners'
    BY <1>1, <1>2, <2>1, <2>2, <2>4, <2>5 DEF With, flags
  <2>7. Unstarted' /\ Unprompted' /\ ReadAfterStop' /\ Evidenced'
    BY <1>1, <1>2, <2>1, <2>2, <2>4 DEF With, flags
  <2>8. Asked'
    <3> SUFFICES ASSUME NEW j \in Made', NEW k \in Made', asks'[Driver][j] # "none",
                        agentOf'[k] = agentOf'[j], k # j
                 PROVE  k \in remoteStopped
      BY <2>2 DEF flags
    <3>1. j \in Made /\ asks[Driver][j] # "none" /\ agentOf'[j] = agentOf[j]
      BY <1>1, <2>1, <2>2, <2>3, <2>4, CallersAssumption DEF With
    <3>2. k \in Made /\ agentOf[k] = agentOf[j]
      BY <1>1, <2>1, <2>2, <2>3, <2>4, <3>1 DEF With
    <3> QED
      BY <1>2, <3>1, <3>2
  <2> QED
    BY <2>2, <2>9, <2>6, <2>7, <2>8
<1>4. ASSUME NEW a \in Agents, Quiesce(a) PROVE Rest'
  BY <1>1, <1>2, <1>4, ConfirmFacts, CallersAssumption DEF Quiesce, Ask, Retained, remote
<1>5. ASSUME NEW c \in Callers, AbortAll(c) PROVE Rest'
  BY <1>1, <1>2, <1>5, ConfirmFacts, CallersAssumption DEF AbortAll, Ask, remote
<1>6. ASSUME AssertReady PROVE Rest'
  BY <1>1, <1>2, <1>6, ConfirmFacts DEF AssertReady, Evidence, Dead, Blocking, remote
<1>7. ASSUME NEW i \in Made, SessionCreated(i) PROVE Rest'
  BY <1>1, <1>2, <1>7 DEF SessionCreated
<1>8. ASSUME NEW i \in Made, SessionFails(i) PROVE Rest'
  BY <1>1, <1>2, <1>8 DEF SessionFails, flags, remote
<1>9. ASSUME NEW i \in Made, TimesOut(i) PROVE Rest'
  BY <1>1, <1>2, <1>9 DEF TimesOut, RequestAbort
<1>10. ASSUME NEW i \in Made, Read(i) PROVE Rest'
  BY <1>1, <1>2, <1>10 DEF Read, Forget, flags, remote
<1>11. ASSUME NEW i \in Made, Diagnosed(i) PROVE Rest'
  BY <1>1, <1>2, <1>11 DEF Diagnosed, Forget, remote
<1>12. ASSUME NEW i \in Made, Steer(i) PROVE Rest'
  BY <1>1, <1>2, <1>12 DEF Steer, flags
<1>13. ASSUME NEW i \in Made, Respond(i) PROVE Rest'
  BY <1>1, <1>2, <1>13, ConfirmFacts DEF Respond, Forget
<1>14. ASSUME NEW i \in Made, PromptFails(i) PROVE Rest'
  BY <1>1, <1>2, <1>14 DEF PromptFails, RequestAbort
<1>15. ASSUME NEW i \in Made, Watch(i) PROVE Rest'
  BY <1>1, <1>2, <1>15, ConfirmFacts DEF Watch, remote
<1>16. ASSUME NEW i \in Made, NEW c \in Callers, AskRuntime(c, i) PROVE Rest'
  <2>1. /\ asks[c][i] = "reconciling" /\ \E S \in Evidence({i}) : Confirm(S)
        /\ asks' = [asks EXCEPT ![c][i] = "none"] \/ asks' = [asks EXCEPT ![c][i] = "waiting"]
        /\ \A j \in Made : transit'[j] \subseteq transit[j] \cup {"abort"}
        /\ UNCHANGED <<agentOf, at, admitted, promptDispatched, stopRequested, session, response,
                       woken>>
    BY <1>1, <1>16 DEF AskRuntime, RequestAbort
  <2>2. Asked'
    <3>1. \A j \in Made : asks'[Driver][j] # "none" => asks[Driver][j] # "none"
      BY <1>1, <2>1, CallersAssumption
    <3>2. remoteStopped \subseteq remoteStopped'
      BY <1>1, <2>1, ConfirmFacts
    <3> QED
      BY <1>2, <2>1, <3>1, <3>2
  <2>3. Retention' /\ Owners'
    BY <1>1, <1>2, <2>1, ConfirmFacts DEF Evidence, Dead
  <2> QED
    BY <1>1, <1>2, <2>1, <2>2, <2>3, ConfirmFacts DEF Evidence, Dead
<1>17. ASSUME NEW i \in Made, NEW c \in Callers, GraceOver(c, i) PROVE Rest'
  BY <1>1, <1>2, <1>17, ConfirmFacts, CallersAssumption DEF GraceOver, Evidence, Dead, remote
<1>18. ASSUME NEW i \in Made, NEW r \in Requests, Deliver(i, r) PROVE Rest'
  BY <1>1, <1>2, <1>18 DEF Deliver, Followed, Requests, local, flags
<1>19. ASSUME NEW i \in Made, Finish(i) PROVE Rest'
  BY <1>1, <1>2, <1>19 DEF Finish, Followed, local, flags
<1>20. ASSUME NEW i \in Made, ContainerDies(i) PROVE Rest'
  BY <1>1, <1>2, <1>20 DEF ContainerDies, Followed, local, flags
<1>21. ASSUME UNCHANGED vars PROVE Rest'
  BY <1>1, <1>2, <1>21 DEF vars, local, flags, remote
<1> QED
  BY <1>1, <1>3, <1>4, <1>5, <1>6, <1>7, <1>8, <1>9, <1>10, <1>11, <1>12, <1>13, <1>14, <1>15,
     <1>16, <1>17, <1>18, <1>19, <1>20, <1>21
     DEF Next, Local, Answering, RunnerInv

LEMMA RunnerHolds == Spec => []RunnerInv
<1>1. Init => RunnerInv
  <2> SUFFICES ASSUME Init PROVE RunnerInv
    OBVIOUS
  <2>1. Made = {} /\ Made = 1..0
    BY DEF Init, Made
  <2>2. TypeOK
    <3>1. DOMAIN <<>> = {} /\ \A R : <<>> \in [{} -> R]
      OBVIOUS
    <3> QED
      BY <3>1 DEF Init, TypeOK, Made
  <2> QED
    BY <2>1, <2>2 DEF Init, RunnerInv, Serial, Retention, Owners, Unstarted, Unprompted,
       ReadAfterStop, Evidenced, Asked, Admission
<1> QED
  BY <1>1, RunnerStep, PTL DEF Spec

\* When assertReadyForRound passes, nothing of any earlier invocation is at work, and no
\* caller still waits for it, until something is dispatched.
THEOREM AdmittedRoundsAreClean == Spec => []AdmissionIsClean
<1>1. RunnerInv => AdmissionIsClean
  BY DEF RunnerInv, AdmissionIsClean, Admission, AtWork, Evidenced
<1> QED
  BY <1>1, RunnerHolds, PTL

-----------------------------------------------------------------------------
(* Messages and stops. *)

\* No step sends a message to a session whose stop was asked for or confirmed.
LEMMA MessageStep ==
    RunnerInv /\ [Next]_vars =>
      [\A i \in Made :
         /\ i \in stopRequested => transit'[i] \subseteq transit[i] \cup {"abort"}
         /\ i \in remoteStopped => transit'[i] \subseteq transit[i]]_vars
<1> DEFINE Quiet ==
      \A i \in Made :
         /\ i \in stopRequested => transit'[i] \subseteq transit[i] \cup {"abort"}
         /\ i \in remoteStopped => transit'[i] \subseteq transit[i]
<1> SUFFICES ASSUME RunnerInv, Next PROVE Quiet
  OBVIOUS
<1>1. TypeOK /\ Unstarted
  BY DEF RunnerInv
<1> USE DEF TypeOK
<1>2. ASSUME NEW a \in Agents, Run(a) PROVE Quiet
  <2>1. Cardinality(Made) + 1 \notin Made /\ transit' = With(transit, Cardinality(Made) + 1, {})
    BY <1>2, NextSerial DEF Run, RunnerInv
  <2> QED
    BY <1>1, <2>1 DEF With
<1>3. ASSUME NEW a \in Agents, Quiesce(a) PROVE Quiet
  BY <1>1, <1>3 DEF Quiesce, Ask, remote
<1>4. ASSUME NEW c \in Callers, AbortAll(c) PROVE Quiet
  BY <1>1, <1>4 DEF AbortAll, Ask, remote
<1>5. ASSUME AssertReady PROVE Quiet
  BY <1>1, <1>5 DEF AssertReady, remote
<1>6. ASSUME NEW i \in Made, SessionCreated(i) PROVE Quiet
  BY <1>1, <1>6 DEF SessionCreated, Unstarted
<1>7. ASSUME NEW i \in Made, SessionFails(i) PROVE Quiet
  BY <1>1, <1>7 DEF SessionFails, remote
<1>8. ASSUME NEW i \in Made, TimesOut(i) PROVE Quiet
  BY <1>1, <1>8 DEF TimesOut, RequestAbort
<1>9. ASSUME NEW i \in Made, Read(i) PROVE Quiet
  BY <1>1, <1>9 DEF Read, remote
<1>10. ASSUME NEW i \in Made, Diagnosed(i) PROVE Quiet
  BY <1>1, <1>10 DEF Diagnosed, remote
<1>11. ASSUME NEW i \in Made, Steer(i) PROVE Quiet
  BY <1>1, <1>11 DEF Steer
<1>12. ASSUME NEW i \in Made, Respond(i) PROVE Quiet
  BY <1>1, <1>12 DEF Respond
<1>13. ASSUME NEW i \in Made, PromptFails(i) PROVE Quiet
  BY <1>1, <1>13 DEF PromptFails, RequestAbort
<1>14. ASSUME NEW i \in Made, Watch(i) PROVE Quiet
  BY <1>1, <1>14 DEF Watch, remote
<1>15. ASSUME NEW i \in Made, NEW c \in Callers, AskRuntime(c, i) PROVE Quiet
  BY <1>1, <1>15 DEF AskRuntime, RequestAbort, Confirm
<1>16. ASSUME NEW i \in Made, NEW c \in Callers, GraceOver(c, i) PROVE Quiet
  BY <1>1, <1>16 DEF GraceOver, remote
<1>17. ASSUME NEW i \in Made, NEW r \in Requests, Deliver(i, r) PROVE Quiet
  BY <1>1, <1>17 DEF Deliver
<1>18. ASSUME NEW i \in Made, Finish(i) PROVE Quiet
  BY <1>1, <1>18 DEF Finish
<1>19. ASSUME NEW i \in Made, ContainerDies(i) PROVE Quiet
  BY <1>1, <1>19 DEF ContainerDies
<1> QED
  BY <1>2, <1>3, <1>4, <1>5, <1>6, <1>7, <1>8, <1>9, <1>10, <1>11, <1>12, <1>13, <1>14, <1>15,
     <1>16, <1>17, <1>18, <1>19
     DEF Next, Local, Answering

\* Nothing sets a session to work once its stop is asked for or confirmed: creation,
\* steering timer and stop may race, but what wakes a confirmed session was sent before.
THEOREM StopsSilenceTheRunner == Spec => MessagesPrecedeStop
BY RunnerHolds, MessageStep, PTL DEF Spec, MessagesPrecedeStop

-----------------------------------------------------------------------------
(* The contract. *)

\* What a step has to show for its effect to be one of the contract's Wane: nobody starts
\* working, whom it confirms was not at work, and whom it reports is confirmed.
LEMMA Waning ==
    ASSUME RunnerInv, RunnerInv', UNCHANGED agentOf,
           LocalReturned \subseteq LocalReturned', remoteStopped \subseteq remoteStopped',
           \A i \in Made : session'[i] = "busy" /\ i \notin woken' =>
                              session[i] = "busy" /\ i \notin woken,
           \A i \in remoteStopped' \ remoteStopped :
                session'[i] = session[i] /\ (i \in woken' => i \in woken),
           \A i \in Made : agentOf[i] \in told' \ told => i \in remoteStopped'
    PROVE  Contract!Wane
<1> DEFINE Pending == {agentOf[i] : i \in Made \ LocalReturned}
           Unconfirmed == {agentOf[i] : i \in Made \ remoteStopped}
<1>1. Made' = Made /\ told' \subseteq Agents
  BY DEF Made, RunnerInv, TypeOK
<1>2. AtWork' \subseteq AtWork
  BY <1>1 DEF AtWork
<1>3. /\ Pending' \subseteq Pending
      /\ Unconfirmed' \subseteq Unconfirmed
  BY <1>1
<1>4. \A a \in Unconfirmed \ Unconfirmed' :
         a \notin AtWork
  BY <1>1 DEF AtWork, RunnerInv, Evidenced
<1>5. (told' \ told) \cap Unconfirmed' = {}
  BY <1>1
<1> QED
  BY <1>1, <1>2, <1>3, <1>4, <1>5 DEF Contract!Wane

\* The runner's invocations as the contract sees them.
LEMMA ContractStep == RunnerInv /\ [Next]_vars => [Contract!Next]_(Contract!vars)
<1> SUFFICES ASSUME RunnerInv, [Next]_vars PROVE [Contract!Next]_(Contract!vars)
  OBVIOUS
<1>1. RunnerInv' /\ TypeOK /\ TypeOK'
  BY RunnerStep DEF RunnerInv
<1>2. Contract!Wane => [Contract!Next]_(Contract!vars)
  BY DEF Contract!Next
<1> USE DEF TypeOK, Made, LocalReturned
<1>3. ASSUME NEW a \in Agents, Run(a) PROVE Contract!Dispatch(a)
  <2> DEFINE Pending == {agentOf[j] : j \in Made \ LocalReturned}
             Unconfirmed == {agentOf[j] : j \in Made \ remoteStopped}
             i == Cardinality(Made) + 1
  <2>1. i \notin Made
    BY NextSerial DEF RunnerInv
  <2> HIDE DEF i
  <2>2. /\ agentOf' = With(agentOf, i, a) /\ at' = With(at, i, "creating") /\ live[a] = 0
        /\ session' = With(session, i, "none") /\ told' = told \ {a}
        /\ UNCHANGED <<flags, steered, woken>>
    BY <1>3 DEF Run, Available, i
  <2>3. Made' = Made \cup {i}
    BY <2>2 DEF With
  <2>4. \A j \in Made : agentOf[j] = a => j \in LocalReturned \cap remoteStopped
    BY <2>2 DEF RunnerInv, Retention, Invocations
  <2>5. LocalReturned' = LocalReturned /\ i \notin remoteStopped'
    BY <1>1, <2>1, <2>2, <2>3 DEF With, flags
  <2> HIDE DEF LocalReturned, Made
  <2>6. agentOf'[i] = a /\ \A j \in Made : agentOf'[j] = agentOf[j]
    BY <2>1, <2>2 DEF With, Made
  <2>7. Pending' = Pending \cup {a}
    <3>1. (Made \ LocalReturned)' = (Made \ LocalReturned) \cup {i}
      BY <2>1, <2>3, <2>5 DEF LocalReturned
    <3> QED
      BY <2>6, <3>1
  <2>8. Unconfirmed' = Unconfirmed \cup {a}
    <3>1. (Made \ remoteStopped)' = (Made \ remoteStopped) \cup {i}
      BY <2>1, <2>2, <2>3, <2>5 DEF flags
    <3> QED
      BY <2>6, <3>1
  <2>9. AtWork' = AtWork
    <3>1. {j \in Made : session[j] = "busy"}' = {j \in Made : session[j] = "busy"}
      BY <1>1, <2>1, <2>2, <2>3 DEF With, Made
    <3> QED
      BY <2>2, <2>6, <3>1 DEF AtWork
  <2> QED
    BY <2>2, <2>4, <2>7, <2>8, <2>9 DEF Contract!Dispatch
<1>4. ASSUME NEW a \in Agents, Quiesce(a)
      PROVE  Contract!Wane
  <2>1. /\ UNCHANGED <<agentOf, at, remote>> /\ remoteStopped \subseteq remoteStopped'
        /\ told' = IF Retained(a) /\ live[a] \notin remoteStopped' THEN told ELSE told \cup {a}
    BY <1>1, <1>4, ConfirmFacts DEF Quiesce, Ask
  <2>2. \A j \in Made : agentOf[j] = a /\ j # live[a] => j \in remoteStopped
    BY DEF RunnerInv, Retention
  <2>3. \A j \in Made : agentOf[j] \in told' \ told => j \in remoteStopped'
    BY <1>1, <2>1, <2>2 DEF Retained, Invocations
  <2> QED
    BY <1>1, <2>1, <2>3, Waning DEF remote
<1>5. ASSUME NEW c \in Callers, AbortAll(c) PROVE Contract!Wane
  BY <1>1, <1>5, ConfirmFacts, Waning DEF AbortAll, Ask, remote
<1>6. ASSUME AssertReady PROVE Contract!Wane
  BY <1>1, <1>6, ConfirmFacts, Waning DEF AssertReady, Evidence, Dead, remote
<1>7. ASSUME NEW i \in Made, SessionCreated(i) PROVE Contract!Wane
  BY <1>1, <1>7, Waning DEF SessionCreated
<1>8. ASSUME NEW i \in Made, SessionFails(i) PROVE Contract!Wane
  BY <1>1, <1>8, Waning DEF SessionFails, flags, remote
<1>9. ASSUME NEW i \in Made, TimesOut(i) PROVE Contract!Wane
  BY <1>1, <1>9, Waning DEF TimesOut
<1>10. ASSUME NEW i \in Made, Read(i) PROVE Contract!Wane
  BY <1>1, <1>10, Waning DEF Read, flags, remote
<1>11. ASSUME NEW i \in Made, Diagnosed(i) PROVE Contract!Wane
  BY <1>1, <1>11, Waning DEF Diagnosed, remote
<1>12. ASSUME NEW i \in Made, Steer(i) PROVE Contract!Wane
  BY <1>1, <1>12, Waning DEF Steer, flags
<1>13. ASSUME NEW i \in Made, Respond(i) PROVE Contract!Wane
  BY <1>1, <1>13, ConfirmFacts, Waning DEF Respond
<1>14. ASSUME NEW i \in Made, PromptFails(i) PROVE Contract!Wane
  BY <1>1, <1>14, Waning DEF PromptFails
<1>15. ASSUME NEW i \in Made, Watch(i) PROVE Contract!Wane
  BY <1>1, <1>15, ConfirmFacts, Waning DEF Watch, remote
<1>16. ASSUME NEW i \in Made, NEW c \in Callers, AskRuntime(c, i)
      PROVE  Contract!Wane
  <2>1. /\ \E S \in Evidence({i}) : Confirm(S)
        /\ UNCHANGED <<agentOf, at, session, woken>> /\ asks[c][i] # "none"
        /\ told' # told => c = Driver /\ i \in remoteStopped' /\ told' = told \cup {agentOf[i]}
    BY <1>16 DEF AskRuntime, Tell
  <2>2. remoteStopped \subseteq remoteStopped'
    BY <1>1, <2>1, ConfirmFacts
  <2>3. \A j \in Made : agentOf[j] \in told' \ told => j \in remoteStopped'
    BY <1>1, <2>1, <2>2 DEF RunnerInv, Asked
  <2> QED
    BY <1>1, <2>1, <2>2, <2>3, Waning
<1>17. ASSUME NEW i \in Made, NEW c \in Callers, GraceOver(c, i)
      PROVE  Contract!Wane
  <2>1. /\ \E S \in Evidence({i}) : Confirm(S)
        /\ UNCHANGED <<agentOf, at, session, woken>> /\ asks[c][i] # "none"
        /\ told' # told => c = Driver /\ i \in remoteStopped' /\ told' = told \cup {agentOf[i]}
    BY <1>17 DEF GraceOver, Tell, remote
  <2>2. remoteStopped \subseteq remoteStopped'
    BY <1>1, <2>1, ConfirmFacts
  <2>3. \A j \in Made : agentOf[j] \in told' \ told => j \in remoteStopped'
    BY <1>1, <2>1, <2>2 DEF RunnerInv, Asked
  <2> QED
    BY <1>1, <2>1, <2>2, <2>3, Waning
<1>18. ASSUME NEW i \in Made, NEW r \in Requests, Deliver(i, r)
      PROVE  [Contract!Next]_(Contract!vars)
  <2>1. /\ UNCHANGED <<local, flags>>
        /\ session' = [session EXCEPT ![i] = IF r = "abort" THEN "idle" ELSE "busy"]
        /\ woken' = IF r = "abort" THEN woken \ {i}
                    ELSE IF i \in remoteStopped \/ response[i] = "sent" THEN woken \cup {i}
                    ELSE woken
    BY <1>18 DEF Deliver
  <2>2. CASE r = "abort" \/ i \in woken'
    <3>1. \A j \in Made : session'[j] = "busy" /\ j \notin woken' =>
                             session[j] = "busy" /\ j \notin woken
      BY <1>1, <2>1, <2>2
    <3>2. Contract!Wane
      BY <1>1, <2>1, <3>1, Waning DEF local, flags
    <3> QED
      BY <1>2, <3>2
  <2>3. CASE r # "abort" /\ i \notin woken'
    <3>1. i \notin remoteStopped /\ woken' = woken
      BY <1>1, <2>1, <2>3
    <3>2. AtWork' = AtWork \cup {agentOf[i]}
      BY <1>1, <2>1, <2>3, <3>1 DEF AtWork, local
    <3>3. Contract!Begin(agentOf[i])
      BY <1>1, <2>1, <3>1, <3>2 DEF Contract!Begin, local, flags
    <3> QED
      BY <1>1, <3>3 DEF Contract!Next
  <2> QED
    BY <1>2, <2>2, <2>3
<1>19. ASSUME NEW i \in Made, Finish(i) PROVE Contract!Wane
  BY <1>1, <1>19, Waning DEF Finish, local, flags
<1>20. ASSUME NEW i \in Made, ContainerDies(i) PROVE Contract!Wane
  BY <1>1, <1>20, Waning DEF ContainerDies, local, flags
<1>21. CASE UNCHANGED vars
  BY <1>21 DEF vars, local, flags, remote, Contract!vars, AtWork
<1>22. (\E a \in Agents : Contract!Dispatch(a)) => [Contract!Next]_(Contract!vars)
  BY DEF Contract!Next
<1> QED
  BY <1>2, <1>3, <1>4, <1>5, <1>6, <1>7, <1>8, <1>9, <1>10, <1>11, <1>12, <1>13, <1>14, <1>15,
     <1>16, <1>17, <1>18, <1>19, <1>20, <1>21, <1>22
     DEF Next, Local, Answering

\* The runner implements the contract that the driver of a round relies on.
THEOREM RunnerKeepsContract == Spec => KeepsContract
<1>1. Init => Contract!Init
  BY DEF Init, Contract!Init, AtWork, Made
<1> QED
  BY <1>1, RunnerHolds, ContractStep, PTL DEF Spec, KeepsContract, Contract!Spec
=============================================================================
