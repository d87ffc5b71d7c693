---------------------------- MODULE WorkerContract ----------------------------
(***************************************************************************)
(* What the driver of a round is promised about its remote workers, and    *)
(* all it may rely on: the AgentRunner interface (runtime/agent-runner.ts) *)
(* with the QuiesceStatus of engine/capture.ts.                            *)
(*                                                                         *)
(* A worker executes somewhere else.  Returning from `run` says that this  *)
(* process stopped waiting; only confirmation says that the worker stopped, *)
(* and what is said of a worker is never about a later one.  RoundDriver   *)
(* uses its workers within this contract, OpenCodeRunner provides it.      *)
(***************************************************************************)
EXTENDS FiniteSets

CONSTANT Agents

VARIABLES
    pending,      \* agents with an invocation that has not returned
    unconfirmed,  \* agents whose latest worker is not confirmed stopped
    executing,    \* agents whose worker is at work
    told          \* agents whose worker was reported "stopped" to the driver

vars == <<pending, unconfirmed, executing, told>>

TypeOK ==
    /\ pending \subseteq Agents /\ unconfirmed \subseteq Agents
    /\ executing \subseteq Agents /\ told \subseteq Agents

Init == pending = {} /\ unconfirmed = {} /\ executing = {} /\ told = {}

\* An agent is taken on only when nothing of an earlier invocation is left.
Dispatch(a) ==
    /\ a \notin pending \cup unconfirmed
    /\ pending' = pending \cup {a}
    /\ unconfirmed' = unconfirmed \cup {a}
    /\ executing' \in {executing, executing \cup {a}}
    /\ told' = told \ {a}

\* Work begins, or begins again, only at a worker nobody called stopped.
Begin(a) ==
    /\ a \in unconfirmed
    /\ executing' = executing \cup {a}
    /\ UNCHANGED <<pending, unconfirmed, told>>

\* Workers stop, are confirmed stopped, return, and are reported: only what has stopped
\* is confirmed, and only what is confirmed is reported.
Wane ==
    /\ executing' \subseteq executing
    /\ pending' \subseteq pending
    /\ unconfirmed' \subseteq unconfirmed
    /\ (unconfirmed \ unconfirmed') \cap executing = {}
    /\ (told' \ told) \cap unconfirmed' = {} /\ told' \subseteq Agents

\* The process that knew of the workers dies, and all it was told with it.
Lost ==
    /\ pending' = {} /\ unconfirmed' = {} /\ executing' = {} /\ told' = {}

Next == Wane \/ Lost \/ \E a \in Agents : Dispatch(a) \/ Begin(a)

Spec == Init /\ [][Next]_vars

-----------------------------------------------------------------------------
\* Nothing executes that is not held as unconfirmed, and what the driver was told has
\* stopped has stopped.
Honest ==
    /\ executing \subseteq unconfirmed
    /\ told \cap unconfirmed = {}
=============================================================================
