---------------------------- MODULE OpenCodeRunner ----------------------------
(***************************************************************************)
(* OpenCodeAgentRunner (runtime/opencode/agent-runner.ts) over the HTTP    *)
(* client of runtime/opencode/client.ts: one invocation is one session on  *)
(* an OpenCode server, started by a prompt and ended by evidence.          *)
(*                                                                         *)
(* Evidence that a session stopped comes four ways, which race: the answer *)
(* to the prompt, on time or long after `run` gave up on it; the session's *)
(* status, polled after an abort; the state of its original container; and *)
(* the fact that no prompt was ever sent.  Requests travel: the server     *)
(* acts on one some time after it is sent, and on two of them in any order. *)
(***************************************************************************)
EXTENDS Integers, FiniteSets

CONSTANTS
    Agents,
    Callers,         \* who calls quiesce: the driver's worker, and abortAll
    Driver,          \* the caller that is told the answer
    HasTimeout,      \* `timeoutMs` is finite
    Steers,          \* `steerAfterMs` is finite
    MaxInvocations,  \* bound: invocations in a behaviour
    Overlapped       \* bound: the invocations that abortAll may find

Invocations == 1..MaxInvocations

ASSUME CallersAssumption == Driver \in Callers
ASSUME HasTimeoutAssumption == HasTimeout \in BOOLEAN
ASSUME SteersAssumption == Steers \in BOOLEAN
ASSUME MaxInvocationsAssumption == MaxInvocations \in Nat
ASSUME OverlappedAssumption == Overlapped \subseteq Invocations

VARIABLES
    agentOf,           \* the agent of each invocation made: a partial function
    at,                \* where `run` stands in each
    live,              \* `live`: the invocation retained for an agent, 0 for none
    promptDispatched, stopRequested, abortRequested,
    remoteStopped,     \* the flags of LiveRun, as sets of invocations
    steered,           \* invocations whose steering timer has fired
    asks,              \* how far each caller's quiesce of an invocation is
    admitted,          \* assertReadyForRound passed and nothing was dispatched since
    told,              \* history: agents last reported "stopped" to the driver
    session,           \* the server's side: none yet, idle, busy, or gone with its container
    transit,           \* requests sent and not yet acted on
    response,          \* the answer to the prompt
    woken              \* history: sessions at work on a message that reached them after the
                       \* evidence of their stop was given

local == <<agentOf, at, live, steered, asks, admitted, told>>
flags == <<promptDispatched, stopRequested, abortRequested, remoteStopped>>
remote == <<session, transit, response, woken>>
vars == <<local, flags, remote>>

Places == {"creating", "racing", "reading", "diagnosing", "returned"}
Requests == {"prompt", "steer", "abort"}

Made == DOMAIN agentOf
LocalReturned == {i \in Made : at[i] = "returned"}
Dead == {i \in Made : session[i] = "gone"}

TypeOK ==
    /\ Made \subseteq Invocations /\ agentOf \in [Made -> Agents]
    /\ at \in [Made -> Places]
    /\ live \in [Agents -> Made \cup {0}]
    /\ promptDispatched \subseteq Made /\ stopRequested \subseteq Made
    /\ abortRequested \subseteq Made /\ remoteStopped \subseteq Made
    /\ steered \subseteq Made /\ woken \subseteq Made
    /\ asks \in [Callers -> [Made -> {"none", "reconciling", "waiting"}]]
    /\ admitted \in BOOLEAN
    /\ told \subseteq Agents
    /\ session \in [Made -> {"none", "idle", "busy", "gone"}]
    /\ transit \in [Made -> SUBSET Requests]
    /\ response \in [Made -> {"none", "owed", "sent", "over"}]

Init ==
    /\ agentOf = <<>> /\ at = <<>>
    /\ live = [a \in Agents |-> 0]
    /\ promptDispatched = {} /\ stopRequested = {} /\ abortRequested = {}
    /\ remoteStopped = {} /\ steered = {} /\ woken = {}
    /\ asks = [c \in Callers |-> <<>>]
    /\ admitted = FALSE /\ told = {}
    /\ session = <<>> /\ transit = <<>> /\ response = <<>>

-----------------------------------------------------------------------------
(* Confirming and forgetting. *)

With(f, i, value) == [j \in DOMAIN f \cup {i} |-> IF j = i THEN value ELSE f[j]]

\* Mutant: whatever is retained for the agent is dropped, not this invocation.
ForgetAnyOf(i) == [live EXCEPT ![agentOf[i]] = 0]

\* forgetStopped, once both ends of invocation i are known to have ended.
Forget(i) == [live EXCEPT ![agentOf[i]] = IF @ = i THEN 0 ELSE @]

\* confirmStopped for the invocations of S.
Confirm(S) ==
    /\ remoteStopped' = remoteStopped \cup S
    /\ live' = [a \in Agents |->
                  IF \E i \in S \cap LocalReturned : agentOf[i] = a /\ Forget(i)[a] = 0
                  THEN 0 ELSE live[a]]

\* requestAbort: once, and only for a session that is not confirmed.
RequestAbort(i) ==
    IF i \in remoteStopped \cup abortRequested
    THEN UNCHANGED <<abortRequested, transit>>
    ELSE /\ abortRequested' = abortRequested \cup {i}
         /\ transit' = [transit EXCEPT ![i] = @ \cup {"abort"}]

-----------------------------------------------------------------------------
(* `run`. *)

\* assertAvailable.  Workspaces are one to an agent.
Available(a) == live[a] = 0

\* A served model; one the runtime lacks ends the call before anything is tracked.  The
\* driver runs an agent again only after its own quiesce of it was answered.
Run(a) ==
    LET i == Cardinality(Made) + 1
    IN  /\ i \in Invocations
        /\ Available(a)
        /\ \A j \in Made : agentOf[j] = a => asks[Driver][j] = "none"
        /\ agentOf' = With(agentOf, i, a)
        /\ at' = With(at, i, "creating")
        /\ live' = [live EXCEPT ![a] = i]
        /\ asks' = [c \in Callers |-> With(asks[c], i, "none")]
        /\ session' = With(session, i, "none")
        /\ transit' = With(transit, i, {})
        /\ response' = With(response, i, "none")
        /\ admitted' = FALSE
        /\ told' = told \ {a}
        /\ UNCHANGED <<flags, steered, woken>>

\* Mutant: the prompt is sent although a stop was requested.
SessionCreatedUnasked(i) ==
    /\ at[i] = "creating"
    /\ session' = [session EXCEPT ![i] = "idle"]
    /\ at' = [at EXCEPT ![i] = "racing"]
    /\ promptDispatched' = promptDispatched \cup {i}
    /\ transit' = [transit EXCEPT ![i] = @ \cup {"prompt"}]
    /\ UNCHANGED <<agentOf, live, steered, asks, admitted, told, stopRequested,
                   abortRequested, remoteStopped, response, woken>>

\* createSession answers.  A stop requested meanwhile closes prompt admission.
SessionCreated(i) ==
    /\ at[i] = "creating"
    /\ session' = [session EXCEPT ![i] = "idle"]
    /\ IF i \in stopRequested
       THEN /\ at' = [at EXCEPT ![i] = "diagnosing"]
            /\ UNCHANGED <<promptDispatched, transit>>
       ELSE /\ at' = [at EXCEPT ![i] = "racing"]
            /\ promptDispatched' = promptDispatched \cup {i}
            /\ transit' = [transit EXCEPT ![i] = @ \cup {"prompt"}]
    /\ UNCHANGED <<agentOf, live, steered, asks, admitted, told, stopRequested,
                   abortRequested, remoteStopped, response, woken>>

\* ... or fails.
SessionFails(i) ==
    /\ at[i] = "creating"
    /\ at' = [at EXCEPT ![i] = "diagnosing"]
    /\ UNCHANGED <<agentOf, live, steered, asks, admitted, told, flags, remote>>

\* The steering timer fires, and finds nothing against sending; else it does nothing.
Steer(i) ==
    /\ Steers
    /\ at[i] = "racing" /\ i \notin steered \cup remoteStopped \cup stopRequested
    /\ steered' = steered \cup {i}
    /\ transit' = [transit EXCEPT ![i] = @ \cup {"steer"}]
    /\ UNCHANGED <<agentOf, at, live, asks, admitted, told, flags, session, response, woken>>

\* The prompt's answer arrives.  It confirms the stop even when `run` has given up on it;
\* if not, a provider error in it ends the run, else the submission is read.
Respond(i) ==
    /\ response[i] = "sent"
    /\ response' = [response EXCEPT ![i] = "over"]
    /\ \/ /\ at[i] = "racing"
          /\ at' = [at EXCEPT ![i] = "reading"]
          /\ Confirm({i})
       \/ /\ at[i] = "racing"
          /\ at' = [at EXCEPT ![i] = "returned"]
          /\ remoteStopped' = remoteStopped \cup {i}
          /\ live' = Forget(i)
       \/ /\ at[i] # "racing"
          /\ Confirm({i})
          /\ UNCHANGED at
    /\ UNCHANGED <<agentOf, steered, asks, admitted, told, promptDispatched,
                   stopRequested, abortRequested, session, transit, woken>>

\* The prompt's request rejects: the connection, the client's own deadline, or an answer
\* that is no terminal response.  Nothing is confirmed, and no answer will follow.
PromptFails(i) ==
    /\ at[i] = "racing"
    /\ at' = [at EXCEPT ![i] = "diagnosing"]
    /\ response' = [response EXCEPT ![i] = "over"]
    /\ RequestAbort(i)
    /\ UNCHANGED <<agentOf, live, steered, asks, admitted, told, promptDispatched,
                   stopRequested, remoteStopped, session, woken>>

\* The runner's own timer wins: the request keeps its handler.
TimesOut(i) ==
    /\ HasTimeout /\ at[i] = "racing"
    /\ at' = [at EXCEPT ![i] = "diagnosing"]
    /\ RequestAbort(i)
    /\ UNCHANGED <<agentOf, live, steered, asks, admitted, told, promptDispatched,
                   stopRequested, remoteStopped, session, response, woken>>

\* The submission is read; or it cannot be, which is an error of the run.
Read(i) ==
    /\ at[i] = "reading"
    /\ \/ at' = [at EXCEPT ![i] = "returned"] /\ live' = Forget(i)
       \/ at' = [at EXCEPT ![i] = "diagnosing"] /\ UNCHANGED live
    /\ UNCHANGED <<agentOf, steered, asks, admitted, told, flags, remote>>

\* The bounded search for an out-of-memory kill is over and `finally` runs: what was
\* never prompted cannot be running.
Diagnosed(i) ==
    /\ at[i] = "diagnosing"
    /\ at' = [at EXCEPT ![i] = "returned"]
    /\ remoteStopped' = IF i \in promptDispatched THEN remoteStopped
                        ELSE remoteStopped \cup {i}
    /\ live' = IF i \in remoteStopped' THEN Forget(i) ELSE live
    /\ UNCHANGED <<agentOf, steered, asks, admitted, told, promptDispatched,
                   stopRequested, abortRequested, remote>>

-----------------------------------------------------------------------------
(* Stopping. *)

Tell(c, a) == told' = IF c = Driver THEN told \cup {a} ELSE told

\* Mutant: quiesce does not look whether anything is retained.
RetainedAlways(a) == TRUE

Retained(a) == live[a] # 0

\* quiesce by c for each invocation of S, up to its first await.
Ask(c, S) ==
    /\ stopRequested' = stopRequested \cup S
    /\ Confirm(S \ promptDispatched)
    /\ asks' = [asks EXCEPT ![c] =
                  [i \in Made |-> IF i \in S \ remoteStopped' THEN "reconciling" ELSE @[i]]]
    /\ UNCHANGED <<agentOf, at, steered, admitted, promptDispatched, abortRequested, remote>>

\* The driver's worker, at the end of its call: at most one quiesce of an agent.
Quiesce(a) ==
    /\ live[a] # 0 => asks[Driver][live[a]] = "none"
    /\ Ask(Driver, IF Retained(a) THEN {live[a]} ELSE {})
    /\ told' = IF Retained(a) /\ live[a] \notin remoteStopped' THEN told ELSE told \cup {a}

\* abortAll by another caller, over a snapshot of `live`.
AbortAll(c) ==
    LET snapshot == {live[a] : a \in Agents} \ {0}
    IN  /\ c # Driver /\ snapshot # {} /\ snapshot \subseteq Overlapped
        /\ \A i \in snapshot : asks[c][i] = "none"
        /\ Ask(c, snapshot)
        /\ UNCHANGED told

\* runtimeState for invocations of S: only a container that stopped is reported so, and
\* one that did may also be unreadable.
Evidence(S) == SUBSET (S \cap Dead)

\* The first reconcile: the container may answer; else the session is asked to abort.
AskRuntime(c, i) ==
    /\ asks[c][i] = "reconciling"
    /\ \E S \in Evidence({i}) : Confirm(S)
    /\ IF i \in remoteStopped'
       THEN /\ asks' = [asks EXCEPT ![c][i] = "none"] /\ Tell(c, agentOf[i])
            /\ UNCHANGED <<abortRequested, transit>>
       ELSE /\ asks' = [asks EXCEPT ![c][i] = "waiting"] /\ RequestAbort(i)
            /\ UNCHANGED told
    /\ UNCHANGED <<agentOf, at, steered, admitted, promptDispatched, stopRequested,
                   session, response, woken>>

\* Mutant: only a confirmation ends the wait.
GraceUnbounded(c, i) ==
    /\ asks[c][i] = "waiting" /\ i \in remoteStopped
    /\ asks' = [asks EXCEPT ![c][i] = "none"]
    /\ Tell(c, agentOf[i])
    /\ UNCHANGED <<agentOf, at, live, steered, admitted, flags, remote>>

\* The wait ends, with the confirmation or with the grace period: then the container is
\* asked once more, and the answer is whatever is known by now.
GraceOver(c, i) ==
    /\ asks[c][i] = "waiting"
    /\ asks' = [asks EXCEPT ![c][i] = "none"]
    /\ \E S \in Evidence({i}) : Confirm(S)
    /\ IF i \in remoteStopped' THEN Tell(c, agentOf[i]) ELSE UNCHANGED told
    /\ UNCHANGED <<agentOf, at, steered, admitted, promptDispatched, stopRequested,
                   abortRequested, remote>>

\* watchForStop: once the abort request settled, a poll finds the session idle.  One it
\* cannot read confirms nothing.
Watch(i) ==
    /\ i \in abortRequested \ remoteStopped
    /\ session[i] = "idle"
    /\ Confirm({i})
    /\ UNCHANGED <<agentOf, at, steered, asks, admitted, told, promptDispatched,
                   stopRequested, abortRequested, remote>>

\* Mutant: only an invocation that has not returned blocks the round.
BlockingUnreturned == {a \in Agents : live'[a] # 0 /\ live'[a] \notin LocalReturned}

\* What refuses the round once every container has been asked.
Blocking == {a \in Agents : live'[a] # 0}

\* assertReadyForRound.
AssertReady ==
    /\ \E S \in Evidence({live[a] : a \in Agents} \ {0}) : Confirm(S)
    /\ admitted' = (Blocking = {})
    /\ UNCHANGED <<agentOf, at, steered, asks, told, promptDispatched, stopRequested,
                   abortRequested, remote>>

-----------------------------------------------------------------------------
(* The server.  A session nothing retains is followed no further: nothing reads it, and
   what a request still under way may do to it is `woken`. *)

Followed(i) == session[i] \in {"idle", "busy"} /\ i \notin LocalReturned \cap remoteStopped

\* A request is acted on: a message sets the session to work, an abort ends what it does.
Deliver(i, request) ==
    /\ request \in transit[i] /\ Followed(i)
    /\ transit' = [transit EXCEPT ![i] = @ \ {request}]
    /\ session' = [session EXCEPT ![i] = IF request = "abort" THEN "idle" ELSE "busy"]
    /\ response' = [response EXCEPT
         ![i] = IF request = "prompt" /\ @ = "none" THEN "owed"
                ELSE IF request = "abort" /\ @ = "owed" THEN "sent" ELSE @]
    /\ woken' = IF request = "abort" THEN woken \ {i}
                ELSE IF i \in remoteStopped \/ response[i] = "sent" THEN woken \cup {i}
                ELSE woken
    /\ UNCHANGED <<local, flags>>

\* The session has nothing left to do, and answers the prompt.
Finish(i) ==
    /\ session[i] = "busy" /\ Followed(i)
    /\ session' = [session EXCEPT ![i] = "idle"]
    /\ response' = [response EXCEPT ![i] = IF @ = "owed" THEN "sent" ELSE @]
    /\ woken' = woken \ {i}
    /\ UNCHANGED <<local, flags, transit>>

\* The original container stops, with all that was sent to it.
ContainerDies(i) ==
    /\ Followed(i)
    /\ session' = [session EXCEPT ![i] = "gone"]
    /\ transit' = [transit EXCEPT ![i] = {}]
    /\ UNCHANGED <<local, flags, response, woken>>

-----------------------------------------------------------------------------
Local(i) ==
    \/ SessionCreated(i) \/ SessionFails(i) \/ TimesOut(i) \/ Read(i) \/ Diagnosed(i)

Answering(c, i) == AskRuntime(c, i) \/ GraceOver(c, i)

Next ==
    \/ \E a \in Agents : Run(a) \/ Quiesce(a)
    \/ \E c \in Callers : AbortAll(c)
    \/ AssertReady
    \/ \E i \in Made :
         \/ Local(i) \/ Steer(i) \/ Respond(i) \/ PromptFails(i)
         \/ Watch(i)
         \/ \E c \in Callers : Answering(c, i)
         \/ \E request \in Requests : Deliver(i, request)
         \/ Finish(i) \/ ContainerDies(i)

\* Requests with a deadline settle and timers fire; servers and containers owe nothing.
Fairness ==
    \A i \in Invocations :
        /\ WF_vars(i \in Made /\ Local(i))
        /\ WF_vars(i \in Made /\ Answering(Driver, i))

Spec == Init /\ [][Next]_vars /\ Fairness

-----------------------------------------------------------------------------
(* Properties. *)

InCall(i) == i \in Made /\ (at[i] # "returned" \/ asks[Driver][i] # "none")

\* Agents with a session at work, other than one set to work by a message that was
\* already under way when the evidence of its stop was given.
AtWork == {agentOf[i] : i \in {j \in Made : session[j] = "busy"} \ woken}

Contract == INSTANCE WorkerContract WITH
    pending <- {agentOf[i] : i \in Made \ LocalReturned},
    unconfirmed <- {agentOf[i] : i \in Made \ remoteStopped},
    executing <- AtWork

\* The runner keeps the contract that the round driver relies on: an agent is taken on
\* again only when its last worker has returned and is confirmed, no evidence calls a
\* working session stopped, and "stopped" is only said of a confirmed one; in whatever
\* order answers, polls, timeouts, quiesces and the death of a container arrive.
KeepsContract == Contract!Spec

\* When assertReadyForRound passes, no session of any earlier invocation is at work and
\* no caller still waits for it.
AdmissionIsClean == admitted => AtWork = {} /\ \A i \in Made : at[i] = "returned"

\* Nothing sets a session to work once its stop is confirmed or asked for: what wakes a
\* confirmed session was sent before, although creation, steering timer and stop race.
MessagesPrecedeStop ==
    [][\A i \in Made :
         /\ i \in stopRequested => transit'[i] \subseteq transit[i] \cup {"abort"}
         /\ i \in remoteStopped => transit'[i] \subseteq transit[i]]_vars

\* With a finite timeout every invocation returns and every quiesce the driver makes of
\* it is answered, though the server never answers and nothing confirms the stop.
CallsEnd == \A i \in Invocations : InCall(i) ~> ~InCall(i)

=============================================================================
