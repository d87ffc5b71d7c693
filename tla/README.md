# A verification of the agent tournament

TLA+ models of the tournament engine in `src/src`, checked with TLC on small instances
and, for every value of their parameters, proved with TLAPS. Paths below are relative to
`src/src` unless they start with `docs/`.

    tlc -workers 2 -config MCBudget.cfg MCBudget
    tlapm BudgetProofs.tla

`PROJECT.json` lists the runs, the theorems, the source lines of every definition, the
hazards each property is aimed at, and for each property a mutation of the model that it
catches. The definitions named as mutants in the modules (`PullUnbounded`, ...) exist for
that only: no specification reaches them.

## The system

A *run* is a population of LLM agents that competes round after round. In a round each
agent works in a workspace of its own towards a goal; its `SUBMISSION.md` is captured,
graded and ranked; the best are kept and cloned, the worst culled, the survivors'
strategies rewritten.

| part | state it keeps | operations | talks to |
|---|---|---|---|
| engine (`engine/driver.ts`) | a budget tracker, an abort flag and overridden dependencies per run; the locals of a round | `createRun`, `attachExistingRun`, `reconfigure`, `runRound`, `abortRound`, `dispose` | all of the below |
| budget (`engine/budget.ts`) | totals of run and round in tokens and dollars, the latched run breach, offenders, models without a price | `record`, `startRound`, `check`, `updateConfig` | called by the engine, synchronously |
| pool (`runtime/pool.ts`) | a cursor shared by the workers | pull, stop pulling | PREPARE, RUN, REFLECT |
| capture (`engine/capture.ts`) | captured text, manifest, hashes, `sealed` | quiesce, capture, verify, quota | runner, sandbox |
| runner (`runtime/opencode/agent-runner.ts`) | live invocations: prompt dispatched, abort requested, remote stopped, local returned | `run`, `quiesce`, `abortAll`, `assertReadyForRound` | an OpenCode server, remotely |
| Docker sandbox, capacity (`runtime/docker/*`) | shards, containers owned, pending starts; reservations of host capacity | plan, provision, reset, release, dispose; admit, release; sweep | the Docker daemon, the composition |
| composition (`server/compose-run.ts`) | published shard servers, catalogues, reservation, relay grant | start and stop a container, release a population, clean up | sandbox, capacity, relay |
| run manager, registry (`server/run-manager.ts`, `runs.ts`) | tasks in flight, last error, owned runs, disposing | start and abort a round, dispose | engine |
| API (`server/api.ts`) | none; it reads rows and registry before and after awaits | create, resume, start, abort, PATCH, criteria, agents, stop, delete | manager, engine, database |
| evolution (`core/selection.ts`, `evolution/*`) | agents and genomes in the database | `planSelection`, `reflect`, `breed` | database, judge's scores |
| judge (`judge/*`) | none | `resolveCriteria`, `score` | a provider |
| audit (`engine/audit.ts`) | events per agent, the frozen digest, late evidence | record, freeze | event bridges, database |
| relay (`runtime/provider-relay*.ts`) | grants: token, models, requests used | grant, revoke, authorize | workers |
| database (`db/*`) | runs, rounds, agents, genomes, submissions, scores, events | single synchronous statements; `recoverIncompleteRounds` | everything |
| event bridge, activity, websocket | subscriptions, a cache | relay and display | browser, audit |

What makes it hard:

* **Remote workers.** The orchestrator can stop waiting for an agent, ask it to stop, and
  still not know whether it has. A session goes on writing into a directory that is being
  hashed, or that the next round has reset.
* **Stale figures.** Spend is known only when an agent returns, and is compared with caps
  while others are in flight; caps and prices change between rounds.
* **Awaits everywhere.** One process, but aborts, overrides and PATCHes land in any await
  of a round; flags and rows are read before one and acted on after it.
* **Crashes.** Tracker, runner and registry are memory; rows, workspaces and unprotected
  containers are not.

What makes each part correct: caps bound what is spent up to a stated residual and survive
a restart; a verified verdict is true; nothing of an old round reaches a new one; an abort
ends the round it was meant for; workers are released exactly once; every round ends and
its row says how; the population stays whole; the judge sees what was frozen.

## Modules

    Budget            MCBudget            BudgetProofs
    RoundDriver       MCRoundDriver       RoundDriverProofs
        |  INSTANCE WorkerContract: uses it
    WorkerContract                        WorkerContractProofs
        |  INSTANCE WorkerContract: implements it
    OpenCodeRunner    MCOpenCodeRunner    OpenCodeRunnerProofs
    Selection <- Lineage                  MCLineage           LineageProofs
    Subsequences <- RoundAudit, Judging
    RoundAudit, Judging <- Grading        MCGrading           GradingProofs
    Capacity <- DockerSandbox             MCDockerSandbox     DockerSandboxProofs
    RunLifecycle      MCRunLifecycle      RunLifecycleProofs

`<-` is EXTENDS: on its right what builds on the module. `Selection`, `Judging` and
`Capacity` are pure operators over what `Subsequences` and the community modules have,
`RoundAudit` is a collector with no behaviour of its own, and the modules that extend them
compose them with what calls them. Modules meet where the code has a boundary:

* *Dispatch gate.* `Budget` says which spend shuts it; `RoundDriver` keeps one flag,
  `exhausted`, that a returning agent may set and that a new round may find set or cleared,
  which is all that the driver can tell.
* *Workers.* `WorkerContract` is what the driver of a round may rely on about agents that
  execute somewhere else. `RoundDriver` uses its workers within it and `OpenCodeRunner`
  provides it, each by a refinement mapping, so the two can be read apart.
* *Rounds inside a run.* `RunLifecycle` knows that a round is in flight and that its run has
  containers; `DockerSandbox` knows which. Where both have a disposal, `DockerSandbox` has
  its inside and `RunLifecycle` what surrounds it.
* *Evolution and judgement of a round* take from `RoundDriver` only that a round may fail at
  any awaited step: `Lineage` has the database's side of it, `Grading` the judge's.

### Budget (`engine/budget.ts`, phase RUN of `engine/driver.ts`)

One run seen from its `BudgetTracker`. `runTokens`, `roundTokens`, `runSpend`,
`roundSpend`, `runBreached`, `agentBreaches` and `unpriced` are the tracker's fields;
`config` is the stored configuration with the tracker's limits and prices; `cursor` and
`inFlight` are the pool of phase RUN; `rows` are the persisted submissions; `phase` tells a
round's RUN and COLLECT from idleness, from a dead process, and from a resume that is
replaying rows. `billedTokens` and `interrupted` are history.

| action | code |
|---|---|
| `StartRound` | `budget.startRound` in `runRound` |
| `Dispatch`, `Skip` | a worker pulls an agent and passes or fails `shouldStopDispatch` (driver.ts:398-426) |
| `Record`, `Lose` | the run returns and is recorded at once; or the timer wins, or it throws (445-481) |
| `Collect`, `FailCollect`, `EndRound` | the row of one agent; a verification that rejects; the rest of the round |
| `Reconfigure`, `PatchStored` | PATCH with and without a live tracker: merge, validation, `updateConfig` |
| `ReplaceAgent` | DELETE and POST agents, with POST's price check |
| `Crash`, `Attach`, `Replay`, `Attached` | process death; `resumeRun` with `attachExistingRun` over `collectRunUsage` |

Abstractions: the four token classes are one number with one rate, since every comparison
is on their sum; prices and dollars are naturals; a usage envelope is one of a set. A
replay prices rows with the current table: token totals are compared across a restart
and dollar totals are not, because the code gives them no such promise.

### RoundDriver (`engine/driver.ts`, `engine/capture.ts`, `server/run-manager.ts`)

`runRound` with everything that can happen to it. `pc` is the await it stands at, `rounds`
the status of every row, `aborted` the engine's flag, `lastError` what the run manager
reports. Per agent: `stage`, `result`, `quiesced`, `captures`, `submissions`. The runner is
`pending` (invocations not returned) and `unconfirmed` (remote end not confirmed); the
world is `executing` (sessions really at work), `orphans` (those a dead process left) and
`file` (what each workspace holds and who wrote it last). `setup` is the hosting: which
agents share a container, whether containers outlive the process, whether they are
recreated (protected isolation) or adopted.

| action | code |
|---|---|
| `StartRound`, `Reconcile`, `CreateRow`, `RefusePlan` | `RunManager.startRound`, then the preflight in its documented order |
| `Provision`, `ProvisionFails`, `EndPrepare` | PREPARE's pool |
| `Skip`, `Dispatch`, `DispatchUntracked`, `Return`, `DriverTimesOut` | RUN: the gate, `runner.run`, the race |
| `Quiesce`, `Capture`, `EndRun` | each worker's `finally`; the pool drains |
| `Collect`, `EndCollect`, `Released` | rows with verdicts, the abort gate, `releaseWorkers`, the criteria read |
| `CriteriaResolved`, `Scored`, `Complete` | judge, the EVOLVE and REFLECT gates, the end |
| `PhaseFails`, `Abandoned` | `catch` and `finally` |
| `Abort`, `Override` | the two endpoints, with their guards |
| `Write`, `SessionEnds`, `Confirm`, `LateReturn` | the workers and what the runner learns of them |
| `Crash`, `Restart` | process death, `recoverIncompleteRounds` and a resume |

Abstractions: a step is what runs between two awaits, and steps that only touch locals of
one agent are not interleaved further. Status `evolving` never shows, because nothing awaits
between it and `reflecting`. The workspace is one artifact, told apart by author and by
whether it is absent, within the quota or over it. The runner is taken by its contract,
`WorkerContract`, which the driver is shown to stay within. Provisions do not interfere and
are taken in order. Submitted and overriding criteria are both `user` rows in the database;
the model tells them apart.

### WorkerContract and OpenCodeRunner (`runtime/agent-runner.ts`, `runtime/opencode/agent-runner.ts`, `client.ts`)

`WorkerContract` is the abstract specification: `pending`, `unconfirmed`, `executing` and
`told`, four sets of agents. An agent is taken on only when nothing of an earlier invocation
is left; work begins only at a worker nobody called stopped; only what has stopped is
confirmed and only what is confirmed is reported.

`OpenCodeRunner` is the class behind it. `at` says where `run` stands in each invocation,
`live` is the map of retained ones, `promptDispatched`, `stopRequested`, `abortRequested`,
`remoteStopped` are the flags of a `LiveRun`. On the other side `session`, `transit`
(requests sent and not acted on, in no order) and `response` are the server.

| action | code |
|---|---|
| `Run`, `SessionCreated`, `SessionFails` | `assertAvailable`, `createSession`, prompt admission |
| `Steer` | the steering timer |
| `Respond`, `PromptFails`, `TimesOut`, `Read`, `Diagnosed` | the race of `run`, its answer on time or late, `finally` |
| `Quiesce`, `AbortAll`, `AskRuntime`, `GraceOver` | `quiesce` and its reconciliation, for the driver and for `abortAll` over a snapshot |
| `Watch` | `watchForStop` |
| `AssertReady` | `assertReadyForRound` |
| `Deliver`, `Finish`, `ContainerDies` | the server and its container |

Refinement: `pending` is the agents with an invocation that has not returned, `unconfirmed`
those with one not `remoteStopped`, `executing` those with a busy session. One thing the
runner cannot know is taken out, as history variable `woken`: a session set to work by a
message that was already under way when the evidence of its stop was given. A steering
prompt sent just before the answer to the first prompt arrives does that
(`agent-runner.ts:355`). `MessagesPrecedeStop` is what the code can promise about it: no
message is sent after.

Abstractions: usage, outcomes and their wording; the search for an out-of-memory kill is
the time it takes; a workspace belongs to one agent, so `assertAvailable` is about `live`.

### Selection and Lineage (`core/selection.ts`, `evolution/*`, agents and genomes of `db/repos.ts`)

`Selection` is `planSelection` as operators: bands from rounded shares, the diversity floor,
replacements. `Lineage` is the agents and genomes tables under a run's rounds. Every
statement of `breed` commits alone, so each is an action, and a child's row and its genome
are two, with `birth` in between.

| action | code |
|---|---|
| `StartRound`, `CarryForward`, `NoHistory`, `Prepared` | a round row; PREPARE's genome per agent, or its failure without one |
| `RoundFails`, `Evolve`, `Reflect` | any awaited step before EVOLVE; ranking and plan; the calls of REFLECT |
| `CopyElite`, `Mutate`, `Cull`, `BearClone`, `BearCrossover`, `WriteGenome`, `Complete` | `breed`, list after list |
| `AddAgent`, `RemoveAgent`, `Patch` | POST and DELETE agents, PATCH of the selection |
| `Crash` | the end of the process between any two statements |

Abstractions: what an agent is made of is one value, named by the genome it was first
written in; any ranking can come from the judge, and which culled agent the floor takes is
any, because both depend on words.

### RoundAudit, Judging and Grading (`engine/audit.ts`, `server/event-bridge.ts`, `judge/*`)

`RoundAudit` is the collector against the stream that feeds it; `Judging` what is made of an
untrusted reply and what of a review is believed; `Grading` the engine's judging boundary
and `Judge.score` over both.

| action | code |
|---|---|
| `ToolMoves`, `ToolReportedAgain`, `PermissionMoves`, `FileEdited`, `AttemptFailed` | what an agent does, and `record` and `apply` of the event, which may fail to be written |
| `StreamRefused`, `StreamClosed`, `Resubscribed` | the bridge's subscription |
| `StartRound`, `Freeze` | `beginRound`; `freeze` with open calls, limits and coverage, then the evidence of each agent |
| `ReviewFailed`, `ReviewsDone` | `reviewAttempts` over what produced no submission |
| `ScoreSingleCall`, `ScoreBatch`, `ScoreFinals`, `CallFails` | the strategies, `withRetry` and the fallback |
| `Rejudge`, `Crash` | POST rejudge over `readRoundAudit`; the end of the process |

Abstractions: one tool call and one permission request per agent and round; limits counted
in records, a digest being the records it covers; a score is awarded, placed or none. The
anonymous order is any, so a well-formed reply ranks reference *i* as *i*. A reply is odd in
one entry, or misses one with ranks from 100 on, or is empty.

### Capacity and DockerSandbox (`runtime/docker/*`, containers of `server/compose-run.ts`)

One run's containers. The daemon knows a container by its name, which is reused; the sandbox
knows it by its identity, which is not, and which it may have failed to read. `Capacity` is
`planShards`, `planCapacity` and the ledger, in the ceilings of one container.

| action | code |
|---|---|
| `PlanRound`, `Admit`, `AdmitUnread`, `Refuse` | `planFor`: the host is read, the ledger decides, the shards are planned |
| `RivalAdmit`, `RivalRelease` | another run in the same ledger |
| `Provision`, `AskDaemon`, `StartGateway`, `Answer`, `Undo` | `provision` over one pending start per shard; adopt or replace, check, resolve or take back |
| `Dies` | a worker is killed |
| `Work`, `Release`, `Released` | the round; `releasePopulation` |
| `RemoveWorker`, `RemoveGateway`, `Verify` | `stopOnce`: `stopContainer`, then `verifyGone` |
| `Dispose`, `Cleanup`, `StopNext`, `DisposalDone` | `disposeAll`, joined by a stop and a shutdown, then their cleanups |

Abstractions: a stopped container is absent, since every reader treats it so; memory and
processors are one resource; what runs on the host outside every ceiling differs from
reading to reading. A provision never races a release or a disposal, because the manager
waits for the round, and the pool's concurrency is any. A `docker run` that outlasts its 120 s
is killed, and the daemon may start its container all the same; the model has it start at that
moment, so that one starting later, beside what the next start made, is left out. A removal
that is killed and takes effect counts as one that did not fail.

### RunLifecycle (`server/api.ts`, `runs.ts`, `run-manager.ts`, `create-dashboard.ts`)

The runs of one dashboard process. A composition is named by the request that made it and
`holds` a reservation, a host server and a grant; `registry` says which one serves a run,
`carrying` whose containers wear its name, `request` where each handler stands.

| action | code |
|---|---|
| `Create`, `Compose`, `ComposeRefused`, `ComposeFails`, `Created`, `CreateFails` | POST runs and `composeRun`, await by await |
| `List`, `Sweep`, `Swept` | `sweepOrphanContainers`, then the registration |
| `PostRound`, `Resumed`, `ResumeFails`, `Lost` | POST rounds; `resumeRun`, its second look at the registry and its loser |
| `Stop`, `StopWaited`, `Stopped` | DELETE runs over `disposeRunRecord` |
| `Provision`, `EndRound` | a round, seen from outside |
| `Shutdown`, `DisposeNext`, `ShutdownWaited`, `ShutdownCleaned`, `Close`, `Exit` | the dashboard's shutdown |
| `Crash` | the process dies, another starts |

Abstractions: runs are protected docker runs, the ones with something to lose. The release at
the end of a round and the engine's disposal may leave containers behind; only the last
removal, in the cleanup, is taken to succeed, its failures being `DockerSandbox`'s subject.
A disposal removes the containers before the cleanup revokes the grant; the model has both in
one step once the round has ended (`Idle`), and the rest of the cleanup in another.
A request that leaves no composition behind is forgotten (`Ends`): nothing asks for it again.
`told` is history: which compositions a sweep was told of when it took its snapshot, or should
have been, because they had a round in flight.

## Runs

| run | instance | shows |
|---|---|---|
| `budget` | 3 agents, 2 workers, 2 rounds, 2 models, 2 patches, all faults | the five invariants and the action property of `Budget` |
| `budget_crash` | the same | *violated*: recorded spend is lost by a crash before COLLECT |
| `round_workers` | 2 agents and 2 workers, one round, one container or two | `BarrierIsReal`, `VerdictIsTrue` |
| `round_control` | 1 agent, 2 rounds, aborts, overrides, crashes | the control properties, liveness, `KeepsToContract` |
| `round_adopt` | 1 agent, an adopted container | *violated*: a sealed capture with an old session at work |
| `round_abort` | 1 agent, 2 rounds, aborts | *violated*: an abort that names one round refuses another |
| `round_skip` | 2 agents, 1 worker | *violated*: a skipped agent is never quiesced |
| `runner` | 1 agent, 2 invocations, 2 callers of quiesce | `OpenCodeRunner` implements `WorkerContract`, and every call ends |
| `lineage` | 3 founders, 6 settings, 3 rounds, 2 children, 2 requests or crashes | the six properties of `Lineage` |
| `grading` | 3 agents, 2 rounds of which 1 judged, 3 surprises | the properties of `Grading` |
| `sandbox` | 3 agents on 2 containers, 3 rounds, a rival, 2 failures | `NothingLost`, `CapacityHeld`, `AloneInItsContainer` |
| `lifecycle` | 2 runs, 4 requests, 1 crash | `NothingOrphaned`, `SparesTheLiving` |

What the properties say. Of `Budget` and `RoundDriver`:

* `OvershootBounded`: a run or round cap is passed by at most one agent cap per worker,
  unless an agent broke its own cap and was named for it. This is the residual bound
  `budget.ts` documents, as a statement about whole rounds.
* `BreachFinal`: in a round the gate only ever shuts, and only during RUN, so the verdict
  the driver snapshots before COLLECT is good until it skips reflection on it.
* `LatchCurrent`, `PricedUnderUsdCap`: latch and prices agree with totals and genomes
  after every mix of records, PATCHes, replaced agents, crashes and replays.
* `ReplayRebuildsTokens`: a restart neither forgets nor repeats tokens, except those of a
  round cut off between record and row.
* `BarrierIsReal`, `VerdictIsTrue`: `executionStopped` is true only when nothing executes;
  a verified "intact" is the agent's own work, a verified "tampered" is not its own hand.
* `StaleWriterExcluded`: no earlier session can reach a workspace a round has reset.
* `AbortLandsOnItsRound`, `ReleasedOnce`, `AcceptedOverrideWins`, `NoStuckRow`: what the
  names say, under aborts, overrides, failures and crashes at every step.
* `RoundEnds`: with a finite agent timeout every round ends, though a runner may never
  return and a session may never stop.
* `KeepsToContract`: every step of the driver is one of `WorkerContract`.

Of the runner: `KeepsContract` is the refinement; `AdmissionIsClean` that after
`assertReadyForRound` passes no session is at work and nobody waits for one;
`MessagesPrecedeStop` that creation, steering timer and quiesce cannot race a message past a
stop; `CallsEnd` that every `run` and every quiesce of the driver comes to an end although
the server never answers.

Of the population:

* `EveryAgentHasHistory`: an active agent has a genome to start from, except one whose birth
  a crash cut short. `RunsWithItsLatest`: it is the last that evolution or an operator gave
  it, however many rounds failed since.
* `PopulationKept`, `EliteStands`: a completed round leaves as many agents as it ranked, and
  its best unchanged. `PlanReplacesTheCulled`: the plan partitions the ranking, and each
  culled agent is replaced once by children of the top band.
* `EvolutionCompletes`: once ranked, a round is lost only with the process, or when the
  population has shrunk below the one its settings were validated for.

Of the evidence: `SealedForGood` (what a round was graded on is what its audit shows and
what it is graded on again, whatever arrives later), `SealingAccounts` (what an agent did is
in the sealed set once, or its loss is counted), `VerdictIsWhole` (every agent once, failed
ones last, unranked ones behind ranked ones except for a rank from 99 on, which
`scoreBatched` takes for none), `ReviewsAreGrounded` (a review cites its own
agent's records, clears nobody unobserved and states every admitted loss).

Of the containers: `NothingLost` (what runs is being started or owned, and after the disposal
of the run only what resisted it, or was leaked by a failed start, still runs), `CapacityHeld`
(promises fit the host and every worker has its place in one), `AloneInItsContainer` (no two
agents of a protected run are ever given one container).

Of the runs: `NothingOrphaned` (whatever a composition holds, somebody will give back; at
exit what was registered at the shutdown has been), with three exceptions it names: a run
resumed while it is created (`contested`), a stopped one revived by a late resume, which no
other stop reaches (`revived`), and what registers after the shutdown's list.
`SparesTheLiving` (a round in flight loses its containers to nothing but a sweep, and to none
whose snapshot was taken while the round's composition was registered or busy). It is a
property of the snapshot: whatever was live then is spared to the last removal, through ends
and starts of rounds and stops that wait. It excepts what was registered after the snapshot,
which a sweep does destroy (Disagreements met), and contested runs.

**Bounds.** *Budget*: three agents on two workers are the least with one agent queued, one in
flight and one returned; two rounds the least in which a run total differs from a round total;
one model has its price from the start and one by PATCH; the caps are reachable by two
envelopes, and one envelope breaks the agent cap. `Replaceable` limits which agent is replaced
to one, by symmetry. *RoundDriver*: two agents in one container or in one each are both answers
`isolatedWorkspace` can give. What needs several rounds does not need several agents: the
control run has one agent and two rounds, so that a first round can leave a flag, an unreturned
invocation, an orphan or a stuck row to a second one. *OpenCodeRunner*: agents do not interact
except in `abortAll` and `assertReadyForRound`, which treat each alone; two invocations are an
old one and its successor; `abortAll` may find the first (`Overlapped`). *Lineage*: three
agents are the least with an elite, a survivor and a culled one; the six settings sit on the
edges of the bands, among them one `Accepts` refuses after a removal; two children are one of
breeding and one of an operator, or two of one cull; three rounds let a failed round stand
between two complete ones. Founders are symmetric, and no liveness is checked with it.
*Grading*: one setting takes every way of judging: three agents go into one call, after whose
failure they go into batches of two with a final; when one of them has nothing to grade, the
other two are one batch without a final. Which way a run is configured for changes only where
it begins, and the proofs are for any setting. `MaxSurprises` bounds acts, losses and odd
replies together; three are a call opened, settled and its record lost, or an act beside an odd
reply, which counts as two. One agent acts, the others are only judged, and a second round only
observes. Limits of two records an agent and four a round are both reachable. `ReviewBatch` 1
cuts two failed attempts into two calls. *DockerSandbox*: a round of three agents shares a
container if it may, a round of two does not; the host can promise four ceilings of five, which
two containers and a rival's three do not fit; two failures are one to leave something behind
and one to spoil its retry; three rounds let what survives one release be met twice.
*RunLifecycle*: of four requests two can compose at once, one stop and one add a round; a
request starts one round at most, so that rounds need no bound of their own. `Persisted` is a
run from an earlier process, with containers or without.

**Stopping.** `sandbox` checks deadlock, with one action, `Idle`, for a run that has been
disposed of. All others turn it off: at their bounds nothing is left to do, and a run may
wait for ever on an unconfirmed session with no round in flight.

**Fairness.** `RoundDriver` has `WF_vars(Driver)`: every call the driver awaits settles and
its timers fire, which a single-threaded event loop gives, since no other step can keep a
driver step from being taken for ever. Judge calls are bounded by the provider's own
timeout. Nothing is assumed of the environment: sessions, confirmations, returns and the
operator owe no step, which is why `RoundEnds` says something. It is checked with a
finite `agentTimeoutMs`. The default is none, and then a round whose runner never returns
does not end; `HasTimeout = FALSE` is that instance. `OpenCodeRunner` has weak fairness of
`Local(i)`, what ends by a deadline of its own (session creation, the runner's timer, reading, the
diagnosis), and of `Answering(Driver, i)`, the grace period of the driver's own quiesce.
The server, its containers, the watch and `abortAll` owe nothing. The other modules check
safety only.

## Proofs

Each proof module names what it quantifies over in its header. Assumptions are the ones
declared beside the constants; TLC evaluates them in every run.

`BudgetProofs`, for every population, concurrency, configuration, set of patches and usages:

* `TypeCorrect` (`TypeOK`), which carries `Cardinality(inFlight) <= Concurrency`;
* `GateStaysShut` (`BreachFinal`), from the monotonicity of `Bill`;
* `LatchIsCurrent` (`LatchCurrent`), by `LatchInv`: between processes the totals are zero,
  without which a PATCH of the stored row would break the latch;
* `Priceable` (`PricedUnderUsdCap`), by `PricedInv`: under a dollar cap the roster of a
  live tracker is priced and no replay runs;
* `Overshoot` (`OvershootBounded`), by `OvershootInv`. The property is not inductive,
  because it forgets who is in flight. The invariant sets aside one agent cap for each of
  them: total plus reserve stays below cap plus `Concurrency` agent caps. A dispatch adds a
  reserve only under an open gate; a return trades its reserve for what it spent;
* `ReplayIsExact` (`ReplayRebuildsTokens`), by `SpendInv`: what was billed is the sum of the
  rows and of what the round still owes as rows, unless it was cut off, and a replay holds
  the sum of the rows it has been at. The sums are functions of which the invariant says that
  they exist, so that a step extends one by a value and no induction is needed.

`RoundDriverProofs`, for every population, concurrency, hosting and set of events:

* `TypeCorrect` (`TypeOK`); `CleanupExactlyOnce` (`ReleasedOnce`); `RowsEnd` (`NoStuckRow`);
* `AbortsLand` (`AbortLandsOnItsRound`), by `AbortInv`, which follows the flag from the
  request to the gate that honours it;
* `OverridesCount` (`AcceptedOverrideWins`), by `CriteriaInv`: what was read is what the
  row holds, from the read on;
* `BarrierHolds` (`BarrierIsReal`), by `WorkersInv`: whatever executes is retained as
  unconfirmed, a round starts with nothing retained, the stages of a worker follow each
  other, and an answer "stopped" is final, because nobody dispatches the agent again;
* `NoStaleWriter` (`StaleWriterExcluded`) and `VerdictsAreTrue` (`VerdictIsTrue`), by
  `OrphansInv` and `FilesInv` on top: a provisioned shard has no orphan, a sealed capture
  holds the agent's own work or none, and a captured workspace is written afterwards only
  by a co-tenant.

`NoStaleWriter` and `VerdictsAreTrue` assume `SafeHosting`: where containers outlive the
process they are recreated (protected isolation). Run `round_adopt` shows what happens
without it. The module ends with the driver's side of the contract:

* `DriverKeepsToContract` (`KeepsToContract`), from `WorkersInv` and `PendingInv`: a round
  starts with no invocation pending and a queued agent has none.

The contract itself, and its other side:

* `WorkerContractProofs`: `ContractIsHonest`. In every behaviour of the contract, whoever
  provides it, whatever executes is held as unconfirmed and nobody told "stopped" is.
* `OpenCodeRunnerProofs`: `RunnerKeepsContract` (`KeepsContract`), initial state and every
  step, for any agents, callers, deadlines and number of invocations. The mapping alone does
  not suffice: that `Run` maps to `Dispatch` needs `Retention` (who is not retained has
  returned and is confirmed), that a busy session maps to `unconfirmed` needs `Evidenced`,
  and that telling the driver is allowed needs `Asked` (the invocation asked about is the
  agent's latest). `RunnerInv` is these with `Unstarted`, `Unprompted`, `ReadAfterStop`.
  `AdmittedRoundsAreClean` (`AdmissionIsClean`), `StopsSilenceTheRunner`
  (`MessagesPrecedeStop`) and `RunnerTyped` (`TypeOK`) follow from it.

`LineageProofs`, for any founders, settings, children, rounds, requests and crashes. Founders
only may not be numbers that a child could get. It begins with the planner: whatever the
shares and their rounding, the bands partition the ranking, a rescue is the one way into the
top band, and every culled agent is replaced exactly once, by a clone of one of the top band
or a cross of two (`Replaces`). What `breed` does with a plan is then followed statement by
statement:

* `TypeCorrect` (`TypeOK`), `TheCulledAreReplaced` (`PlanReplacesTheCulled`),
  `PopulationIsKept` (`PopulationKept`), `TheBestStand` (`EliteStands`), `RunsWithTheLatest`
  (`RunsWithItsLatest`) and `EvolutionIsCompleted` (`EvolutionCompletes`), by `LineageInv`.
  That a completed round keeps its population is not inductive: it says nothing while agents
  are being culled and born. `Owed` counts instead what breeding still owes, children not born
  against culls not done, and that whoever has no genome for the next round is still on a
  list; `ElitePending` that the best are on the list of those to copy until they are copied;
  `Follows` that a genome has the text of the last one given, and `Dated` that none is of a
  round that has not come;
* `HistoriesAreKept` (`EveryAgentHasHistory`), by `HistoryInv`, which adds what a genome
  still to be written will be keyed by.

`GradingProofs`, for any number of agents, limits, settings, batch sizes, rounds, losses and
replies, in four layers:

* `AuditInv`, the shape of the collector and its table;
* `SealInv`, the seal of every judged round: its row's digest is the evidence recorded up to
  it. It is kept because the table only grows (`Grows`), so that what was recorded up to a
  row is the same for ever; with it `SealsHold` (`SealedForGood`);
* `JudgeInv`: while reviews are settled, while calls are made and when all is judged, what is
  asked and kept concerns agents of the right kind, each once, and says no more than their
  evidence. With it `TypeCorrect` (`TypeOK`), `GroundedReviews` (`ReviewsAreGrounded`) and
  `VerdictsAreWhole` (`VerdictIsWhole`), which also needs that sorting permutes and orders;
* `AccountInv`: whatever the book does not know of an agent's call or request (`Known`) is
  counted as dropped, or as a gap of the stream, or was lost where nobody listened. Sealing
  turns what is known into one record each, which is `ActsAreAccounted` (`SealingAccounts`).

Replay, freezing and sorting are recursive functions. A function of numbers is first
unfolded into a relation between its successive values; what all of these have in common
follows by `SetInduction`, which is the library's well-founded induction applied to the set
of numbers where something fails, and so takes a set instead of an operator.

`RunLifecycleProofs`, for any number of runs, requests and crashes: `TypeCorrect`,
`NothingIsOrphaned` (`NothingOrphaned`) and `SweepsSpareTheLiving` (`SparesTheLiving`), by
`LifecycleInv`. That every holding is within reach is not inductive, because it says nothing of
what a handler will do with the composition it remembers. The invariant follows it: what each
stage of a composition holds (`StagesInv`), that a registered composition can be given a round
or refuses it (`ServiceInv`), as can the one a lost resume still has to ask (`LosersInv`), that
a round runs on a registered one (`RoundsInv`), that one stop at most is under way for a run
and no round starts behind its back (`StopsInv`), that a shutdown takes its list one by one
(`ShutdownInv`), and that containers have a reservation (`CarriedInv`). For the sweeps, no run
a sweep was told of is among those it has found, since it spares them until it lists
(`SweepsInv`); it is kept because a busy composition is a registered one when the snapshot is
taken, and because a composition that is handed out keeps its run. That every other step leaves
a round's containers alone is a case for each action that removes any.

`DockerSandboxProofs`, for any agents, containers, host, rivals, rounds and number of failing
docker commands: `TypeCorrect` (`TypeOK`), `NothingIsLost` (`NothingLost`) and
`ProtectedAgentsAreAlone` (`AloneInItsContainer`), by `SandboxInv` (and, for the type,
`BoundsInv`, `ShapesInv` and `RemovalsInv`). A container that is being started may replace one
that is owned, so ownership is stated stage by stage: what a start has not touched yet is
owned or abandoned (`OwnedInv`), and owning the new one displaces nothing of another shard,
since an identity never moves (`NamesInv`). A disposal has been at whatever it neither lists
nor waits for (`DisposalInv`), which is kept because nothing starts beside it (`StartsInv`,
`QuietInv`). That the plan partitions the roster, one agent to a shard where the run is
protected (`PlanInv`), is proved of `planShards` itself from facts on remainders; with whose
container is whose (`PlannedInv`, `AloneInv`) it gives isolation.

`CapacityIsHeld` (`CapacityHeld`) is by `LedgerInv`, that reservations fit four fifths of the
host, kept because an admission is decided and entered in one step, and `PlacesInv`. A
reservation is a number of places and says nothing of which worker stands on one; the
invariant numbers them: a worker of the round has a shard below the reservation, and only
one from before the round may have none. The exceptions are the property's: a host that
could not be read (`unread`), and a smaller round over survivors of a release.

Every invariant and action property that a passing run checks is so proved, for all values of
the constants that the named assumptions admit. Model-checked only are `RoundEnds` and
`CallsEnd`, since liveness under fairness is outside the prover. The four violated properties
are shown by their runs. A proof says nothing of what a model abstracts from, and the bounds on
rounds, requests and faults are constants it quantifies over.

## Disagreements met

Four comments say more than the code does; `PROJECT.json` quotes them and a run shows each.
A crash between `record` and the row loses spend (`budget_crash`). An adopted container may
run an old session under a sealed capture (`round_adopt`). An abort of the previous round's
index refuses the round in preflight (`round_abort`). A worker skipped by the budget gate is
not quiesced, which leaves the whole round unverified (`round_skip`).

Others are exceptions in a property, because everything around them holds and is worth
stating:

* *Runner.* A steering message under way when its session answers sets a confirmed session
  to work (`woken`).
* *Lineage.* A crash between an agent's row and its genome leaves an active agent without
  one (`cut`, breed.ts:115-145), and every later PREPARE fails until it is retired. With the
  diversity floor the last survivor it bumps may be of the top band, although selection.ts:87
  says never to cull into it; the elite is safe. `eliteCount` is validated against the
  configured population, so a run whose agents were removed can throw in every EVOLVE.
* *Grading.* A stream that ends cleanly, or is down when a round begins, is no gap
  (`blind`), though judge/audit.ts:12 says "an incomplete record can never be reported as a
  clean one". A model that states as many limitations as fit pushes the coverage limitations
  out of the list. `?? 99` ranks an unranked agent ahead of one the model numbered 100.
* *Sandbox.* `stopContainer` forgets a gateway after one failed attempt (compose-run.ts:719),
  which a protected restart of the shard repairs. A shared container whose release failed is
  adopted by the next round, though that "restarts every shard fresh". A smaller next round
  is admitted with fewer places while survivors of the last one run, and a cleanup gives the
  reservation back whatever could not be removed. A container whose `docker run` was killed by
  its deadline is not removed by the start that asked for it (container.ts:227, 298 and, of a
  gateway, 328), though "every container this call created is removed on any failure".
* *Lifecycle.* A run can be resumed between the write of its row (api.ts:487) and its
  registration after the sweep (api.ts:505), which overwrites the resumed composition: it
  holds a round and is never disposed of (`contested`). A resume that outlasts a stop
  registers a live record for a stopped run (`revived`). Shutdown disposes of what is
  registered at its start, though requests are taken until it ends. A sweep is told which runs
  are live (create-dashboard.ts:177) and removes by name over later awaits (sweep.ts:88-108): a
  run resumed in between loses the containers of its round, although "every live run's
  containers must survive" (sweep.ts:49-50) and a sweep "can never destroy that run — or any other
  live run on the host" (sweep.ts:70-71). `SparesTheLiving` excepts what registered after the
  telling. Such a trace: a run is created; while its sweep lists and removes, a persisted run
  is resumed, registered and provisioned, and its containers go. README.md:56 and
  docs/operator-guide.md:49 have the relay stop serving a run the moment it is stopped; the
  grant is revoked when the round in flight has ended.

## Not modelled

* *The relay's proxying*, its models and its counter. A grant is held and revoked in
  `RunLifecycle`. That its models are fixed when the run is composed, while PATCH and added
  agents change the roster, and that the ceiling "per agent over a run" (compose-run.ts:187)
  is one pool renewed by a resume, no property covers yet.
* *In the sandbox*: networks, images, tool manifests, the published shard servers with their
  catalogues, and file operations inside a container.
* *The OpenCode server process, discovery and catalogue*: HTTP and child processes. The
  client's requests are in `OpenCodeRunner`.
* *Local and mock sandboxes*: file I/O on the host; their captures are never sealed, which
  is the shared hosting of `RoundDriver`. A *local* server that outlives a crash of the
  orchestrator is not in `survivors`, which is about containers.
* *Views, export, analytics, websocket, activity cache, CLI, benchmark and web UI*:
  projections, display, or one more sequential caller of the engine.
* *Details of modelled parts*: prompts and the repair of JSON, strategies as text, redaction
  and byte counts, dollar totals after a price change and a restart, wall-clock time beyond
  the order of timeouts.

## Plan

Done: `Budget`, `RoundDriver`, the worker contract from both sides, evolution, grading, the
sandbox and the life of a run; a theorem for every safety property checked.

Left, in order, each with its theorems:

1. The relay: grants, models and requests against PATCH, added agents, stops and resumes.
2. Published shard servers and catalogues against concurrent starts and releases.
