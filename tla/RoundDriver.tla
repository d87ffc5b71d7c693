----------------------------- MODULE RoundDriver -----------------------------
(***************************************************************************)
(* One tournament run driven round after round: TournamentEngine.runRound  *)
(* and abortRound (engine/driver.ts), behind RunManager                    *)
(* (server/run-manager.ts) and the abort and criteria endpoints            *)
(* (server/api.ts), with quiesceAgent, captureSubmission and verifyCapture *)
(* (engine/capture.ts), assertReadyForRound (agent-runner.ts) and the      *)
(* recovery of a restart (db/recover.ts).                                  *)
(*                                                                         *)
(* Workers are remote: a session goes on executing, and writing, whatever  *)
(* this process believes about it.  The driver must read each agent's      *)
(* output at a moment when it can say who may have written it, and must    *)
(* not start a round over a session nobody confirmed stopped.              *)
(*                                                                         *)
(* A step is what runs between two awaits.  The runner is taken by its     *)
(* contract: it calls a session stopped only once it has stopped.  Which   *)
(* spend shuts the dispatch gate is the subject of Budget; here the gate   *)
(* is one flag a returning agent may set.                                  *)
(***************************************************************************)
EXTENDS Integers, Sequences, FiniteSets

CONSTANTS
    Population,   \* how many agents are active; the pools pull them in order
    Concurrency,  \* workers of the RUN pool
    HasTimeout,   \* `agentTimeoutMs` is finite
    Setups,       \* how the workers may be hosted: see SetupType
    Events,       \* which of AllEvents may happen to the process and the run
    Sizes,        \* which of AllSizes an artifact may have
    MaxRounds     \* bound: round rows in a behaviour

Agents == 1..Population

AllEvents == {"abort", "criteria", "crash"}

\* `shard` places agents in containers.  `protected` shards are recreated at start,
\* others adopted when they still run.  `survivors`: workers outlive this process.
SetupType == [protected : BOOLEAN, survivors : BOOLEAN, shard : [Agents -> Nat]]

ASSUME PopulationAssumption == Population \in Nat \ {0}
ASSUME ConcurrencyAssumption == Concurrency \in Nat \ {0}
ASSUME HasTimeoutAssumption == HasTimeout \in BOOLEAN
ASSUME EventsAssumption == Events \subseteq AllEvents
ASSUME SetupsAssumption == Setups \subseteq SetupType

VARIABLES
    setup,        \* the hosting of this run
    rounds,       \* the status of each round row
    source,       \* whose criteria the latest row holds
    pc,           \* where runRound stands (see Steps); "idle" when the manager is
    aborted,      \* the run is in `aborted`
    lastError,    \* what the manager keeps of the latest task
    cursor,       \* the next agent the current pool, or COLLECT, takes up
    handles,      \* agents this round provisioned
    stage,        \* how far each agent's RUN worker is
    result,       \* what each worker's attempt ended with
    quiesced,     \* the answer quiesceAgent gave for each agent
    captures,     \* what was captured, and whether it was sealed
    submissions,  \* the rows COLLECT has written, with the capture's verdict
    exhausted,    \* the dispatch gate is shut
    cleanup,      \* releaseWorkers in the latest round: due, once, or not owed
    judgedWith,   \* whose criteria the latest round was graded against
    pending,      \* invocations runner.run has not returned from
    unconfirmed,  \* invocations whose remote end is unconfirmed
    executing,    \* agents whose session, dispatched by this process, still executes
    orphans,      \* agents with a session a dead process dispatched, still executing
    file,         \* SUBMISSION.md in each workspace, and who put it there, while a
                  \* round may read it
    abortAt,      \* history: how far the driver was when it accepted an abort
    overridden    \* history: an override was accepted for the latest round

manager == <<aborted, lastError, abortAt>>
criteria == <<source, judgedWith, overridden>>
pool == <<cursor, handles, stage, result, quiesced, captures, submissions, file>>
runner == <<pending, unconfirmed, executing, orphans>>
vars == <<setup, rounds, pc, manager, criteria, pool, exhausted, cleanup, runner>>

Steps == {"idle", "reconcile", "plan", "prepare", "run", "collect", "release",
          "criteria", "score", "reflect", "abandon", "down"}
Busy == pc \notin {"idle", "down"}

\* A round row exists and its workers may still be read or written to.
Working == pc \in {"prepare", "run", "collect"}

Statuses == {"preparing", "running", "collecting", "judging", "reflecting",
             "complete", "failed"}
Sources == {"generated", "submitted", "override"}
Ended == {"complete", "failed"}
Results == {"none", "ok", "no_submission", "error", "timeout", "threw"}

\* A workspace is told apart by the artifact in it: none, one within the quota, or one
\* over it (which is also too large to hash); author 0 is the seeded workspace.
AllSizes == {"absent", "fits", "oversized"}
Contents == [by : 0..Population, size : AllSizes]
Seeded == [by |-> 0, size |-> "absent"]
NoContent == [by |-> 0, size |-> "unread"]
NoCapture == [content |-> NoContent, sealed |-> FALSE]
NoRow == [status |-> "none", verified |-> FALSE, tampered |-> FALSE]

ASSUME SizesAssumption == Sizes \subseteq AllSizes

Captures == [content : Contents, sealed : BOOLEAN] \cup {NoCapture}
Rows == [status : {"ok", "no_submission", "error", "timeout"},
         verified : BOOLEAN, tampered : BOOLEAN] \cup {NoRow}

ControlType ==
    /\ setup \in Setups
    /\ rounds \in Seq(Statuses)
    /\ source \in Sources /\ judgedWith \in Sources \cup {"none"}
    /\ pc \in Steps
    /\ aborted \in BOOLEAN /\ exhausted \in BOOLEAN /\ overridden \in BOOLEAN
    /\ lastError \in {"none", "aborted", "failed", "refused"}
    /\ cleanup \in {"void", "due", "once", "twice"}
    /\ abortAt \in {"none", "early", "late"}

PoolType ==
    /\ cursor \in 1..(Population + 1)
    /\ handles \subseteq Agents
    /\ stage \in [Agents -> {"queued", "running", "stopping", "capturing", "done"}]
    /\ result \in [Agents -> Results]
    /\ quiesced \in [Agents -> {"none", "stopped", "unconfirmed"}]
    /\ captures \in [Agents -> Captures]
    /\ submissions \in [Agents -> Rows]
    /\ file \in [Agents -> Contents]

RunnerType ==
    /\ pending \subseteq Agents /\ unconfirmed \subseteq Agents
    /\ executing \subseteq Agents /\ orphans \subseteq Agents

\* Every variable stays within the values the code can give it.
TypeOK == ControlType /\ PoolType /\ RunnerType

-----------------------------------------------------------------------------
Last == Len(rounds)
WithStatus(s) == [rounds EXCEPT ![Last] = s]

ShardMates(a) == {b \in Agents : setup.shard[b] = setup.shard[a]}

\* isolatedWorkspace: sole occupancy of the shard, read from the plan.
Isolated(a) == ShardMates(a) = {a}

ClearFlag == aborted' = FALSE

\* What runRound holds in locals, empty at the start of a round and dropped once nothing
\* reads it; the rows and the workspaces stay on disk, but no later step looks at them.
FreshPool ==
    /\ cursor' = 1
    /\ handles' = {}
    /\ stage' = [a \in Agents |-> "queued"]
    /\ result' = [a \in Agents |-> "none"]
    /\ quiesced' = [a \in Agents |-> "none"]
    /\ captures' = [a \in Agents |-> NoCapture]
    /\ submissions' = [a \in Agents |-> NoRow]
    /\ file' = [a \in Agents |-> Seeded]

Init ==
    /\ setup \in Setups
    /\ rounds = <<>> /\ source = "generated"
    /\ pc = "idle"
    /\ aborted = FALSE /\ lastError = "none"
    /\ cursor = 1 /\ handles = {}
    /\ stage = [a \in Agents |-> "queued"]
    /\ result = [a \in Agents |-> "none"]
    /\ quiesced = [a \in Agents |-> "none"]
    /\ captures = [a \in Agents |-> NoCapture]
    /\ submissions = [a \in Agents |-> NoRow]
    /\ exhausted = FALSE
    /\ cleanup = "void"
    /\ judgedWith = "none"
    /\ pending = {} /\ unconfirmed = {} /\ executing = {} /\ orphans = {}
    /\ file = [a \in Agents |-> Seeded]
    /\ abortAt = "none" /\ overridden = FALSE

-----------------------------------------------------------------------------
(* Before the round exists. *)

\* Mutant: the flag an earlier refusal left behind is not cleared.
StartRoundKeepingFlag ==
    /\ pc = "idle" /\ Last < MaxRounds
    /\ pc' = "reconcile"
    /\ lastError' = "none"
    /\ abortAt' = "none"
    /\ UNCHANGED <<setup, rounds, aborted, criteria, pool, exhausted, cleanup,
                   runner>>

\* RunManager.startRound, up to the first await of runRound.
StartRound ==
    /\ pc = "idle" /\ Last < MaxRounds
    /\ pc' = "reconcile"
    /\ ClearFlag
    /\ lastError' = "none"
    /\ abortAt' = "none"
    /\ UNCHANGED <<setup, rounds, criteria, pool, exhausted, cleanup, runner>>

\* A throw before the `try`: no row, no cleanup, and the abort flag stays as it is.
Refuse(why) ==
    /\ pc' = "idle"
    /\ lastError' = why

\* Mutant: only an invocation that never returned blocks the round.
ReconcileReturnedOnly ==
    /\ pc = "reconcile"
    /\ IF pending = {} THEN pc' = "plan" /\ UNCHANGED lastError ELSE Refuse("refused")
    /\ UNCHANGED <<setup, rounds, aborted, abortAt, criteria, pool, exhausted,
                   cleanup, runner>>

\* assertReadyForRound: the runtime may vouch for invocations that have ended; one
\* still retained refuses the round.
Reconcile ==
    /\ pc = "reconcile"
    /\ \E vouched \in SUBSET (unconfirmed \ executing) :
         /\ unconfirmed' = unconfirmed \ vouched
         /\ IF pending \cup unconfirmed' = {}
            THEN pc' = "plan" /\ UNCHANGED lastError
            ELSE Refuse("refused")
    /\ UNCHANGED <<setup, rounds, aborted, abortAt, criteria, pool, exhausted,
                   cleanup, pending, executing, orphans>>

\* preparePopulation resolves; an abort that landed meanwhile is still honoured.
\* Otherwise the row is created, with the submitted criteria, and PREPARE begins.
CreateRow ==
    /\ pc = "plan" /\ ~aborted
    /\ rounds' = Append(rounds, "preparing")
    /\ source' \in {"generated"} \cup (IF "criteria" \in Events THEN {"submitted"} ELSE {})
    /\ pc' = "prepare"
    /\ FreshPool
    /\ exhausted' \in {FALSE, exhausted}
    /\ cleanup' = "due"
    /\ judgedWith' = "none" /\ overridden' = FALSE
    /\ UNCHANGED <<setup, manager, runner>>

\* Planning fails (placement, host capacity), or the abort is honoured here.
RefusePlan ==
    /\ pc = "plan"
    /\ IF aborted THEN Refuse("aborted") ELSE Refuse("refused")
    /\ UNCHANGED <<setup, rounds, aborted, abortAt, criteria, pool, exhausted,
                   cleanup, runner>>

-----------------------------------------------------------------------------
(* How a round ends. *)

\* Mutant: the failure path releases the workers whatever was done before.
EndFailedReleasingAlways(why) ==
    /\ rounds' = WithStatus("failed")
    /\ lastError' = why
    /\ pc' = "abandon" /\ cleanup' = IF cleanup = "due" THEN "once" ELSE "twice"
    /\ UNCHANGED <<aborted, abortAt>>

\* The catch and finally of runRound: the row fails; workers that never saw the normal
\* boundary are released now, and only then is the abort flag cleared.
EndFailed(why) ==
    /\ rounds' = WithStatus("failed")
    /\ lastError' = why
    /\ IF cleanup = "due"
       THEN pc' = "abandon" /\ cleanup' = "once" /\ UNCHANGED aborted
       ELSE pc' = "idle" /\ ClearFlag /\ UNCHANGED cleanup
    /\ UNCHANGED abortAt

\* releasePopulation, best effort: the containers go, or some stay for a later retry.
WorkersReleased == executing' \in SUBSET executing /\ orphans' \in SUBSET orphans

\* The late release of a failed round settles.
Abandoned ==
    /\ pc = "abandon"
    /\ pc' = "idle"
    /\ WorkersReleased
    /\ ClearFlag
    /\ FreshPool
    /\ UNCHANGED <<setup, rounds, lastError, abortAt, criteria, exhausted, cleanup, pending,
                   unconfirmed>>

\* A step that may reject where runRound awaits it or calls it: PREPARE (an agent
\* without a genome), verifyCapture, resolveCriteria, judge.score and planSelection, breed.
PhaseFails ==
    /\ \/ pc = "prepare" /\ cursor = 1
       \/ pc = "collect" /\ cursor <= Population
       \/ pc \in {"criteria", "score", "reflect"}
    /\ EndFailed("failed")
    /\ UNCHANGED <<setup, criteria, pool, exhausted, runner>>

-----------------------------------------------------------------------------
(* PREPARE. *)

\* One agent is provisioned and its workspace reset: provisions do not interfere, so
\* they are taken one at a time.  A protected shard's containers are recreated.
Provision ==
    /\ pc = "prepare" /\ cursor <= Population /\ ~aborted
    /\ handles' = handles \cup {cursor}
    /\ file' = [file EXCEPT ![cursor] = Seeded]
    /\ orphans' = IF setup.protected THEN orphans \ ShardMates(cursor) ELSE orphans
    /\ cursor' = cursor + 1
    /\ UNCHANGED <<setup, rounds, pc, manager, criteria, stage, result, quiesced, captures,
                   submissions, exhausted, cleanup, pending, unconfirmed, executing>>

\* ... or its provisioning fails, which is isolated to it.
ProvisionFails ==
    /\ pc = "prepare" /\ cursor <= Population /\ ~aborted
    /\ cursor' = cursor + 1
    /\ UNCHANGED <<setup, rounds, pc, manager, criteria, handles, stage, result, quiesced,
                   captures, submissions, exhausted, cleanup, runner, file>>

\* The pool drained, or stopped pulling at an abort: whoever was not pulled has no handle.
EndPrepare ==
    /\ pc = "prepare" /\ (cursor > Population \/ aborted)
    /\ pc' = "run"
    /\ rounds' = WithStatus("running")
    /\ cursor' = 1
    /\ UNCHANGED <<setup, manager, criteria, handles, stage, result, quiesced, captures,
                   submissions, exhausted, cleanup, runner, file>>

-----------------------------------------------------------------------------
(* RUN. *)

Occupied == {a \in Agents : stage[a] \in {"running", "stopping", "capturing"}}

\* Mutant: the pool's cursor is compared after it has moved on.
PullPastTheEnd ==
    /\ pc = "run" /\ cursor <= Population + 1 /\ ~aborted
    /\ Cardinality(Occupied) < Concurrency
    /\ cursor' = cursor + 1
    /\ UNCHANGED <<setup, rounds, pc, manager, criteria, handles, captures, submissions,
                   exhausted, cleanup, orphans, file>>

\* A free worker pulls the next agent, unless the round is aborted.
Pull ==
    /\ pc = "run" /\ cursor <= Population /\ ~aborted
    /\ Cardinality(Occupied) < Concurrency
    /\ cursor' = cursor + 1
    /\ UNCHANGED <<setup, rounds, pc, manager, criteria, handles, captures, submissions,
                   exhausted, cleanup, orphans, file>>

\* No handle, or the gate is shut: an error, returned before anything is dispatched.
Skip ==
    /\ Pull
    /\ cursor \notin handles \/ exhausted
    /\ stage' = [stage EXCEPT ![cursor] = "done"]
    /\ result' = [result EXCEPT ![cursor] = "error"]
    /\ UNCHANGED <<quiesced, pending, unconfirmed, executing>>

Dispatch ==
    /\ Pull
    /\ cursor \in handles /\ ~exhausted
    /\ stage' = [stage EXCEPT ![cursor] = "running"]
    /\ pending' = pending \cup {cursor}
    /\ unconfirmed' = unconfirmed \cup {cursor}
    /\ executing' = executing \cup {cursor}
    /\ UNCHANGED <<result, quiesced>>

\* runner.run tracks nothing: it throws (its client cannot be resolved), or it reports a
\* model the runtime cannot serve.
DispatchUntracked ==
    /\ Pull
    /\ cursor \in handles /\ ~exhausted
    /\ stage' = [stage EXCEPT ![cursor] = "stopping"]
    /\ \E r \in {"threw", "error"} : result' = [result EXCEPT ![cursor] = r]
    /\ UNCHANGED <<quiesced, pending, unconfirmed, executing>>

Settle(a, r) ==
    /\ stage[a] = "running"
    /\ stage' = [stage EXCEPT ![a] = "stopping"]
    /\ result' = [result EXCEPT ![a] = r]
    /\ UNCHANGED <<setup, rounds, pc, manager, criteria, cursor, handles, quiesced, captures,
                   submissions, cleanup, unconfirmed, executing, orphans, file>>

\* runner.run returns.  Only a terminal response, after which the session is confirmed
\* stopped, reports a submission or its absence.  The spend is recorded at once.
Return(a, r) ==
    /\ a \in pending
    /\ Settle(a, r)
    /\ r = "ok" => a \notin unconfirmed /\ file[a].size # "absent"
    /\ r = "no_submission" => a \notin unconfirmed /\ file[a].size = "absent"
    /\ pending' = pending \ {a}
    /\ exhausted' \in {exhausted, TRUE}

\* The driver's own timer wins the race: it stops waiting, the runner does not return.
DriverTimesOut(a) ==
    /\ HasTimeout
    /\ a \in pending
    /\ Settle(a, "timeout")
    /\ UNCHANGED <<pending, exhausted>>

\* quiesceAgent: "stopped" once it is confirmed, "unconfirmed" when the grace is over.
Quiesce(a) ==
    /\ stage[a] = "stopping"
    /\ stage' = [stage EXCEPT ![a] = "capturing"]
    /\ quiesced' = [quiesced EXCEPT
                      ![a] = IF a \in unconfirmed THEN "unconfirmed" ELSE "stopped"]
    /\ UNCHANGED <<setup, rounds, pc, manager, criteria, cursor, handles, result, captures,
                   submissions, exhausted, cleanup, runner, file>>

\* captureSubmission reads the workspace, or cannot.
Capture(a) ==
    /\ stage[a] = "capturing"
    /\ stage' = [stage EXCEPT ![a] = "done"]
    /\ \/ captures' = [captures EXCEPT
             ![a] = [content |-> file[a],
                     sealed |-> quiesced[a] = "stopped" /\ Isolated(a)]]
       \/ UNCHANGED captures
    /\ UNCHANGED <<setup, rounds, pc, manager, criteria, cursor, handles, result, quiesced,
                   submissions, exhausted, cleanup, runner, file>>

\* Mutant: the driver waits for every runner promise before it goes on.
EndRunWaiting ==
    /\ pc = "run" /\ (cursor > Population \/ aborted) /\ Occupied = {} /\ pending = {}
    /\ pc' = "collect"
    /\ rounds' = WithStatus("collecting")
    /\ cursor' = 1
    /\ UNCHANGED <<setup, manager, criteria, handles, stage, result, quiesced, captures,
                   submissions, exhausted, cleanup, runner, file>>

\* The pool has drained.
EndRun ==
    /\ pc = "run" /\ (cursor > Population \/ aborted) /\ Occupied = {}
    /\ pc' = "collect"
    /\ rounds' = WithStatus("collecting")
    /\ cursor' = 1
    /\ UNCHANGED <<setup, manager, criteria, handles, stage, result, quiesced, captures,
                   submissions, exhausted, cleanup, runner, file>>

-----------------------------------------------------------------------------
(* COLLECT: every row, with what verifyCapture can say of the artifact. *)

\* Mutant: an agent that could not be confirmed stopped is passed over.
BarrierIgnoringUnconfirmed == \A a \in handles : quiesced[a] # "none"

\* `executionStopped`: every provisioned agent was confirmed stopped by its worker.
Barrier == \A a \in handles : quiesced[a] = "stopped"

Hashed(capture) == capture.content.size \in {"absent", "fits"}

\* Deletion and planting count; an absent file has no author.
Same(x, y) == x.size = y.size /\ (x.size = "absent" \/ x.by = y.by)

Tampered(capture, found) == Hashed(capture) /\ ~Same(capture.content, found)

\* Mutant: an intact capture is certified even if a rival could have written first.
VerifiedUnsealed(capture, found) == Barrier /\ Hashed(capture)

\* A difference needs the barrier; "unchanged" needs a sealed capture as well.
Verified(capture, found) ==
    Barrier /\ Hashed(capture) /\ (Tampered(capture, found) \/ capture.sealed)

\* The row's status: the quota outranks the runner's verdict, the file comes last.
StatusOf(a, content) ==
    IF result[a] \in {"none", "threw"} \/ content.size = "oversized" THEN "error"
    ELSE IF result[a] # "ok" THEN result[a]
    ELSE IF content.size = "fits" THEN "ok" ELSE "no_submission"

\* The row of the next agent.  The verdict is on the capture whether or not a worker
\* that threw lets it be judged.
Collect ==
    /\ pc = "collect" /\ cursor <= Population
    /\ LET a == cursor
           capture == captures[a]
           kept == capture # NoCapture
           content == IF kept /\ result[a] \notin {"none", "threw"}
                      THEN capture.content ELSE NoContent
       IN  submissions' = [submissions EXCEPT
             ![a] = [status |-> StatusOf(a, content),
                     verified |-> kept /\ Verified(capture, file[a]),
                     tampered |-> kept /\ Tampered(capture, file[a])]]
    /\ cursor' = cursor + 1
    /\ UNCHANGED <<setup, rounds, pc, manager, criteria, handles, stage, result, quiesced,
                   captures, exhausted, cleanup, runner, file>>

\* The abort gate after the last row; past it the workers are released.
EndCollect ==
    /\ pc = "collect" /\ cursor > Population
    /\ IF aborted
       THEN EndFailed("aborted")
       ELSE pc' = "release" /\ cleanup' = "once" /\ UNCHANGED <<rounds, manager>>
    /\ UNCHANGED <<setup, criteria, pool, exhausted, runner>>

-----------------------------------------------------------------------------
(* JUDGE, EVOLVE, REFLECT. *)

\* Mutant: the criteria the round was started with, whatever the row says by now.
EffectiveAtStart == IF source = "submitted" THEN "submitted" ELSE "generated"

\* The row as it is now: an accepted override has replaced what was submitted.
Effective == source

\* The release settles, judging starts and the criteria are read, in one step.
Released ==
    /\ pc = "release"
    /\ pc' = "criteria"
    /\ WorkersReleased
    /\ rounds' = WithStatus("judging")
    /\ judgedWith' = Effective
    /\ FreshPool
    /\ UNCHANGED <<setup, manager, source, overridden, exhausted, cleanup, pending,
                   unconfirmed>>

\* resolveCriteria answers, and the row is written with what it resolved.
CriteriaResolved ==
    /\ pc = "criteria"
    /\ pc' = "score"
    /\ source' = judgedWith
    /\ UNCHANGED <<setup, rounds, manager, judgedWith, overridden, pool, exhausted, cleanup,
                   runner>>

\* judge.score answers; the gates of EVOLVE and REFLECT are in one step with the plan
\* and the scores between them.
Scored ==
    /\ pc = "score"
    /\ IF aborted
       THEN EndFailed("aborted")
       ELSE /\ pc' = "reflect"
            /\ rounds' = WithStatus("reflecting")
            /\ UNCHANGED <<manager, cleanup>>
    /\ UNCHANGED <<setup, criteria, pool, exhausted, runner>>

\* Reflection and breeding look at no flag: the round completes.
Complete ==
    /\ pc = "reflect"
    /\ pc' = "idle"
    /\ rounds' = WithStatus("complete")
    /\ ClearFlag
    /\ UNCHANGED <<setup, lastError, abortAt, criteria, pool, exhausted, cleanup,
                   runner>>

-----------------------------------------------------------------------------
(* The operator. *)

\* POST abort: accepted for the latest row whenever the manager is busy.  (abortAll
\* only asks: a session ends, and is confirmed, in steps of its own.)
Abort ==
    /\ "abort" \in Events /\ Busy /\ Last > 0
    /\ aborted' = TRUE
    /\ abortAt' = IF abortAt = "early" \/ pc \notin {"reflect", "abandon"}
                  THEN "early" ELSE "late"
    /\ UNCHANGED <<setup, rounds, pc, lastError, criteria, pool, exhausted, cleanup,
                   runner>>

\* POST criteria: accepted until the row says that judging has started.
Override ==
    /\ "criteria" \in Events /\ Busy /\ Last > 0
    /\ rounds[Last] \in {"preparing", "running", "collecting"}
    /\ source' = "override"
    /\ overridden' = TRUE
    /\ UNCHANGED <<setup, rounds, pc, manager, judgedWith, pool, exhausted, cleanup,
                   runner>>

-----------------------------------------------------------------------------
(* The workers. *)

\* A session writes, or deletes, an artifact in its container.  (Outside a round nobody
\* reads the workspaces, and PREPARE empties them.)
Write(a) ==
    /\ Working
    /\ a \in executing \cup orphans
    /\ \E b \in ShardMates(a), size \in Sizes :
         file' = [file EXCEPT ![b] = [by |-> a, size |-> size]]
    /\ UNCHANGED <<setup, rounds, pc, manager, criteria, cursor, handles, stage, result, quiesced,
                   captures, submissions, exhausted, cleanup, runner>>

SessionEnds(a) ==
    /\ \/ a \in executing /\ executing' = executing \ {a} /\ UNCHANGED orphans
       \/ a \in orphans /\ orphans' = orphans \ {a} /\ UNCHANGED executing
    /\ UNCHANGED <<setup, rounds, pc, manager, criteria, pool, exhausted, cleanup,
                   pending, unconfirmed>>

\* Evidence that the remote end stopped reaches the runner: a terminal response, an
\* idle status after an abort, the state of the container.
Confirm(a) ==
    /\ a \in unconfirmed \ executing
    /\ unconfirmed' = unconfirmed \ {a}
    /\ UNCHANGED <<setup, rounds, pc, manager, criteria, pool, exhausted, cleanup,
                   pending, executing, orphans>>

\* runner.run returns to a driver that has stopped listening.
LateReturn(a) ==
    /\ a \in pending /\ stage[a] # "running"
    /\ pending' = pending \ {a}
    /\ UNCHANGED <<setup, rounds, pc, manager, criteria, pool, exhausted, cleanup,
                   unconfirmed, executing, orphans>>

-----------------------------------------------------------------------------
(* This process dies; rows and workspaces stay, and so may the workers. *)

Crash ==
    /\ "crash" \in Events /\ pc # "down"
    /\ pc' = "down"
    /\ FreshPool
    /\ ClearFlag /\ lastError' = "none" /\ abortAt' = "none"
    /\ judgedWith' = "none"
    /\ cleanup' = "void"
    /\ pending' = {} /\ unconfirmed' = {} /\ executing' = {}
    /\ orphans' \in SUBSET (IF setup.survivors THEN executing \cup orphans ELSE {})
    /\ UNCHANGED <<setup, rounds, source, overridden, exhausted>>

\* Mutant: the stuck row is left as it was.
RestartWithoutRecovery ==
    /\ pc = "down"
    /\ pc' = "idle"
    /\ UNCHANGED <<setup, rounds, manager, criteria, pool, exhausted, cleanup,
                   runner>>

\* recoverIncompleteRounds, then a run resumed with a fresh runner and engine.
Restart ==
    /\ pc = "down"
    /\ pc' = "idle"
    /\ rounds' = [i \in DOMAIN rounds |->
                    IF rounds[i] \in Ended THEN rounds[i]
                    ELSE "failed"]
    /\ UNCHANGED <<setup, manager, criteria, pool, exhausted, cleanup, runner>>

-----------------------------------------------------------------------------
Driver ==
    \/ Reconcile \/ CreateRow \/ RefusePlan
    \/ Provision \/ ProvisionFails \/ EndPrepare
    \/ Skip \/ Dispatch \/ DispatchUntracked \/ EndRun
    \/ \E a \in Agents : DriverTimesOut(a) \/ Quiesce(a) \/ Capture(a)
    \/ Collect \/ EndCollect \/ Released \/ CriteriaResolved \/ Scored \/ Complete
    \/ PhaseFails \/ Abandoned

Environment ==
    \/ StartRound \/ Abort \/ Override \/ Crash \/ Restart
    \/ \E a \in Agents :
         \/ \E r \in {"ok", "no_submission", "error", "timeout"} : Return(a, r)
         \/ LateReturn(a) \/ Confirm(a) \/ SessionEnds(a) \/ Write(a)

Next == Driver \/ Environment

\* Every call the driver awaits settles, and its timers fire.  Nothing is owed by the
\* workers: a runner may never return and a session may never end.
Fairness == WF_vars(Driver)

Spec == Init /\ [][Next]_vars /\ Fairness

-----------------------------------------------------------------------------
(* Properties. *)

\* What a verified verdict says is so: "intact" means the captured copy is the agent's
\* own work (or that it left none), and "tampered" means that somebody else changed
\* the workspace after the capture, never the agent itself still at work.
VerdictIsTrue ==
    [][\A a \in Agents :
         submissions[a] # submissions'[a] /\ submissions'[a].verified =>
            LET own == captures[a].content
            IN  IF submissions'[a].tampered THEN file[a].by # a
                ELSE own.size = "absent" \/ own.by = a]_vars

\* When COLLECT claims that nothing of the round executes any more, nothing does,
\* although runs the driver gave up on may still be pending.
BarrierIsReal == pc = "collect" /\ Barrier => executing = {}

\* No writer of an earlier round, culled or not confirmed stopped, reaches a
\* workspace that a later round has reset for an agent it will run.
StaleWriterExcluded ==
    pc \in {"prepare", "run"} =>
        \A a \in handles, b \in executing \cup orphans :
            b \in ShardMates(a) => stage[b] # "queued" /\ b \in executing

\* An accepted abort ends the round it lands on and no other: if it came before the
\* EVOLVE gate, that round never completes; and a round is only ever stopped by an
\* abort accepted since it was started.
AbortLandsOnItsRound ==
    pc = "idle" =>
        /\ abortAt = "early" => lastError # "none"
        /\ lastError = "aborted" => abortAt = "early"

\* The workers of a round are released exactly once, never while a worker or COLLECT
\* may still need a workspace, and on every way out of the round.
ReleasedOnce ==
    /\ cleanup # "twice"
    /\ cleanup = "due" <=> Working

\* An override the API accepted is what the round is graded against, even one that
\* lands while the workers are being released.
AcceptedOverrideWins == overridden /\ judgedWith # "none" => judgedWith = "override"

\* A row that is neither complete nor failed is the latest one, and somebody is
\* driving it: no round is left stuck by a failure, an abort or a restart.
NoStuckRow ==
    pc # "down" =>
        \A i \in DOMAIN rounds :
            rounds[i] \notin Ended
                => i = Last /\ pc \notin {"idle", "reconcile", "plan", "abandon"}

Contract == INSTANCE WorkerContract WITH
    told <- {a \in Agents : quiesced[a] = "stopped"}

\* The driver stays within the contract of its runner: it never dispatches an agent over
\* an invocation that is pending or unconfirmed, from whatever round, and treats as
\* stopped only what the runner may report as stopped.
KeepsToContract == [][Contract!Next]_(Contract!vars)

\* With a finite agent timeout every round ends, even if no runner ever returns and
\* no session ever stops.
RoundEnds == Busy ~> ~Busy

\* capture.ts on `sealed`: "the agent stopped, and nobody shares its workspace".
SealedMeansStopped ==
    pc = "run" =>
        \A a \in Agents : captures[a].sealed => ShardMates(a) \cap (executing \cup orphans) = {}

\* The abort endpoint on what it accepts: "the round ends failed".
AbortFailsNamedRound ==
    pc = "idle" /\ lastError = "aborted" => rounds[Last] = "failed"

\* The comment over COLLECT: "every worker quiesced its own agent before returning".
EveryWorkerQuiesced == pc = "collect" => \A a \in handles : quiesced[a] # "none"

=============================================================================
