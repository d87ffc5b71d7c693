------------------------------- MODULE Budget -------------------------------
(***************************************************************************)
(* The spend of one tournament run: the BudgetTracker (engine/budget.ts),  *)
(* the dispatch gate of the worker pool that reads it (engine/driver.ts,   *)
(* phase RUN), the submission rows COLLECT writes, and what a restart      *)
(* rebuilds from those rows (attachExistingRun, server/api.ts).            *)
(*                                                                         *)
(* Spend is only observable when an agent returns, so the gate reads a     *)
(* figure that is stale by everything still in flight: how far a cap can   *)
(* be overshot is the first question.  The second is what survives: the    *)
(* tracker lives in memory, the rows on disk.                              *)
(*                                                                         *)
(* The four token classes of a usage envelope are one number with one      *)
(* rate: every comparison in the code is on their sum.                     *)
(***************************************************************************)
EXTENDS Integers, Sequences, FiniteSets

CONSTANTS
    Population,     \* how many agents a round has; the pool pulls them in order
    Models,         \* the model ids a roster may name
    Unlimited,      \* `Infinity`: a limit that never trips
    NoPrice,        \* a model without an entry in a pricing table
    InitialConfig,  \* the configuration the run is created with
    Patches,        \* the bodies PATCH /api/runs/:id/config may carry
    Usages,         \* the usage envelopes a worker may return
    Concurrency,    \* `config.concurrency`, the workers of runPool
    Replaceable,    \* bound: the agents an operator may replace between rounds
    MaxRounds,      \* bound: rounds in a behaviour
    Faults          \* which of AllFaults the environment may inject

Agents == 1..Population

AllFaults == {"crash_idle", "crash_round", "collect_error"}

Limits == (Nat \ {0}) \cup {Unlimited}
Prices == [Models -> Nat \cup {NoPrice}]
TokenCaps == [maxRunTokens : Limits, maxRoundTokens : Limits, maxAgentTokens : Limits]
Configs == [maxRunTokens : Limits, maxRoundTokens : Limits, maxAgentTokens : Limits,
            maxRunUsd : Limits, maxRoundUsd : Limits, maxAgentUsd : Limits,
            pricing : Prices, roster : (SUBSET Models) \ {{}}]
Envelopes == [tokens : Nat, reported : Nat]
Rows == [round : Nat, agent : Agents, model : Models, usage : Envelopes]

NoUsage == [tokens |-> 0, reported |-> 0]

ASSUME PopulationAssumption == Population \in Nat \ {0}
ASSUME UnlimitedAssumption == Unlimited \notin Nat
ASSUME NoPriceAssumption == NoPrice \notin Nat
ASSUME ConcurrencyAssumption == Concurrency \in Nat \ {0}
ASSUME ConfigAssumption == InitialConfig \in Configs
ASSUME PatchesAssumption ==
    Patches \subseteq [caps : TokenCaps, pricing : Prices, roster : (SUBSET Models) \ {{}}]
ASSUME UsagesAssumption == Usages \subseteq Envelopes
ASSUME ReplaceableAssumption == Replaceable \subseteq Agents
ASSUME FaultsAssumption == Faults \subseteq AllFaults

VARIABLES
    config,         \* the stored configuration, and the tracker's limits and pricing
    runTokens, roundTokens, runSpend, roundSpend,
    runBreached,    \* `_runBreached`: the latched run-level breach
    agentBreaches,  \* `_agentBreaches`, each with the round it was recorded in
    unpriced,       \* `_unpriced`: models billed without a price
    phase,          \* what the process is doing: see Phases
    round,          \* index of the latest round
    genomeModel,    \* the model each agent's genome names this round
    cursor,         \* the next agent a worker pulls
    inFlight,       \* agents dispatched and not yet returned
    returned,       \* the envelope each agent's row will carry: none unless observed
    collected,      \* how many agents COLLECT has written a row for
    rows,           \* the persisted submissions of the run, in order
    replayed,       \* how many rows a resume has folded in
    billedTokens,   \* history: every token ever recorded, by any process
    interrupted     \* history: some round ended between a record and its row

tracker == <<runTokens, roundTokens, runSpend, roundSpend, runBreached, agentBreaches, unpriced>>
pool == <<genomeModel, cursor, inFlight, returned, collected>>
history == <<billedTokens, interrupted>>
vars == <<config, tracker, phase, round, pool, rows, replayed, history>>

Phases == {"idle", "run", "collect", "down", "replay"}
Breaches == {"none", "tokens", "usd"}

TypeOK ==
    /\ config \in Configs
    /\ runTokens \in Nat /\ roundTokens \in Nat /\ runSpend \in Nat /\ roundSpend \in Nat
    /\ runBreached \in Breaches
    /\ agentBreaches \subseteq Nat \X Agents
    /\ unpriced \subseteq Models
    /\ phase \in Phases
    /\ round \in Nat
    /\ genomeModel \in [Agents -> Models]
    /\ cursor \in 1..(Population + 1)
    /\ inFlight \subseteq 1..(cursor - 1)
    /\ returned \in [Agents -> Envelopes]
    /\ collected \in 0..Population
    /\ rows \in Seq(Rows)
    /\ replayed \in 0..Len(rows)
    /\ billedTokens \in Nat
    /\ interrupted \in BOOLEAN
    /\ Cardinality(inFlight) <= Concurrency

-----------------------------------------------------------------------------
(* The tracker's arithmetic and its verdicts. *)

MaxOf(x, y) == IF x >= y THEN x ELSE y

\* Strictly above: a run that spends exactly its cap is within it.
Exceeds(spent, limit) == limit # Unlimited /\ spent > limit

HasUsdLimit(c) ==
    \/ c.maxRunUsd # Unlimited
    \/ c.maxRoundUsd # Unlimited
    \/ c.maxAgentUsd # Unlimited

Priced(c) == {m \in Models : c.pricing[m] # NoPrice}

\* A dollar ceiling needs a price for every model it is already known to cover.
Accepts(c, models) == HasUsdLimit(c) => models \subseteq Priced(c)

\* The higher of what the table derives and what the provider reported.
UsdOf(c, model, usage) ==
    MaxOf(IF model \in Priced(c) THEN usage.tokens * c.pricing[model] ELSE 0,
          usage.reported)

CheckRun(c, tokens, usd) ==
    IF Exceeds(tokens, c.maxRunTokens) THEN "tokens"
    ELSE IF Exceeds(usd, c.maxRunUsd) THEN "usd" ELSE "none"

PricingMissing == HasUsdLimit(config) /\ unpriced # {}

\* Mutant: the gate forgets the run-level caps.
ExhaustedThisRound ==
    Exceeds(roundTokens, config.maxRoundTokens) \/ Exceeds(roundSpend, config.maxRoundUsd)

\* `check() !== null`, the dispatch gate (shouldStopDispatch).
Exhausted ==
    \/ PricingMissing
    \/ runBreached # "none"
    \/ CheckRun(config, runTokens, runSpend) # "none"
    \/ Exceeds(roundTokens, config.maxRoundTokens)
    \/ Exceeds(roundSpend, config.maxRoundUsd)

\* BudgetTracker.record: fold one envelope in, in one synchronous step.
Bill(atRound, agent, model, usage) ==
    LET usd == UsdOf(config, model, usage)
    IN  /\ runTokens' = runTokens + usage.tokens
        /\ roundTokens' = roundTokens + usage.tokens
        /\ runSpend' = runSpend + usd
        /\ roundSpend' = roundSpend + usd
        /\ unpriced' = IF model \in Priced(config) THEN unpriced
                       ELSE unpriced \cup {model}
        /\ runBreached' = IF runBreached = "none"
                          THEN CheckRun(config, runTokens', runSpend')
                          ELSE runBreached
        /\ agentBreaches' = IF \/ Exceeds(usage.tokens, config.maxAgentTokens)
                               \/ Exceeds(usd, config.maxAgentUsd)
                            THEN agentBreaches \cup {<<atRound, agent>>}
                            ELSE agentBreaches

FreshTracker ==
    /\ runTokens' = 0 /\ roundTokens' = 0 /\ runSpend' = 0 /\ roundSpend' = 0
    /\ runBreached' = "none" /\ agentBreaches' = {} /\ unpriced' = {}

EmptyPool ==
    /\ cursor' = 1 /\ inFlight' = {} /\ collected' = 0
    /\ returned' = [a \in Agents |-> NoUsage]

-----------------------------------------------------------------------------
\* createRun: the tracker is built, and so validated, before the run row exists.
Init ==
    /\ config = InitialConfig
    /\ Accepts(config, config.roster)
    /\ runTokens = 0 /\ roundTokens = 0 /\ runSpend = 0 /\ roundSpend = 0
    /\ runBreached = "none" /\ agentBreaches = {} /\ unpriced = {}
    /\ phase = "idle"
    /\ round = 0
    /\ genomeModel \in [Agents -> config.roster]
    /\ cursor = 1 /\ inFlight = {} /\ collected = 0
    /\ returned = [a \in Agents |-> NoUsage]
    /\ rows = <<>>
    /\ replayed = 0
    /\ billedTokens = 0
    /\ interrupted = FALSE

\* A round starts: only the round counters are cleared.
StartRound ==
    /\ phase = "idle" /\ round < MaxRounds
    /\ roundTokens' = 0 /\ roundSpend' = 0
    /\ phase' = "run"
    /\ round' = round + 1
    /\ EmptyPool
    /\ UNCHANGED <<config, runTokens, runSpend, runBreached, agentBreaches, unpriced,
                   genomeModel, rows, replayed, history>>

\* Mutant: every agent gets a worker at once.
PullUnbounded ==
    /\ phase = "run" /\ cursor <= Population
    /\ cursor' = cursor + 1

\* A free worker of runPool pulls the next agent.
Pull ==
    /\ phase = "run" /\ cursor <= Population
    /\ Cardinality(inFlight) < Concurrency
    /\ cursor' = cursor + 1

\* ... and the gate is open.
Dispatch ==
    /\ Pull
    /\ ~Exhausted
    /\ inFlight' = inFlight \cup {cursor}
    /\ UNCHANGED <<config, tracker, phase, round, genomeModel, returned, collected,
                   rows, replayed, history>>

\* ... and the gate is shut, or the agent was never provisioned (which the worker
\* checks first): it ends at once, unbilled.
Skip ==
    /\ Pull
    /\ UNCHANGED <<config, tracker, phase, round, genomeModel, inFlight, returned, collected,
                   rows, replayed, history>>

\* The run won its race: its envelope is folded in the instant it returns.
Record(a, usage) ==
    /\ phase = "run" /\ a \in inFlight
    /\ inFlight' = inFlight \ {a}
    /\ returned' = [returned EXCEPT ![a] = usage]
    /\ Bill(round, a, genomeModel[a], usage)
    /\ billedTokens' = billedTokens + usage.tokens
    /\ UNCHANGED <<config, phase, round, genomeModel, cursor, collected, rows, replayed,
                   interrupted>>

\* The driver's timer won the race, or the runner threw: nothing was observed.
Lose(a) ==
    /\ phase = "run" /\ a \in inFlight
    /\ inFlight' = inFlight \ {a}
    /\ UNCHANGED <<config, tracker, phase, round, genomeModel, cursor, returned, collected,
                   rows, replayed, history>>

\* runPool has drained.
EndRun ==
    /\ phase = "run" /\ cursor > Population /\ inFlight = {}
    /\ phase' = "collect"
    /\ UNCHANGED <<config, tracker, round, pool, rows, replayed, history>>

\* Mutant: cache tokens are left out of the row.
CollectWithoutCache ==
    /\ phase = "collect" /\ collected < Population
    /\ LET a == collected + 1
           seen == IF returned[a].tokens > 0 THEN returned[a].tokens - 1 ELSE 0
       IN  rows' = Append(rows, [round |-> round, agent |-> a, model |-> genomeModel[a],
                                 usage |-> [returned[a] EXCEPT !.tokens = seen]])
    /\ collected' = collected + 1
    /\ UNCHANGED <<config, tracker, phase, round, genomeModel, cursor, inFlight, returned,
                   replayed, history>>

\* Mutant: COLLECT folds the envelope in again as it persists the row.
CollectBillingAgain ==
    /\ phase = "collect" /\ collected < Population
    /\ LET a == collected + 1
       IN  /\ rows' = Append(rows, [round |-> round, agent |-> a, model |-> genomeModel[a],
                                    usage |-> returned[a]])
           /\ Bill(round, a, genomeModel[a], returned[a])
    /\ collected' = collected + 1
    /\ UNCHANGED <<config, phase, round, genomeModel, cursor, inFlight, returned,
                   replayed, history>>

\* COLLECT persists the next agent's submission row, after awaiting its verification.
Collect ==
    /\ phase = "collect" /\ collected < Population
    /\ LET a == collected + 1
       IN  rows' = Append(rows, [round |-> round, agent |-> a, model |-> genomeModel[a],
                                 usage |-> returned[a]])
    /\ collected' = collected + 1
    /\ UNCHANGED <<config, tracker, phase, round, genomeModel, cursor, inFlight, returned,
                   replayed, history>>

\* The rest of the round records nothing; reflection and breeding then give every
\* agent a next genome, on a model of the roster or one carried forward.
EndRound ==
    /\ phase = "collect" /\ collected = Population
    /\ phase' = "idle"
    /\ genomeModel' \in [Agents -> config.roster \cup {genomeModel[a] : a \in Agents}]
    /\ UNCHANGED <<config, tracker, round, cursor, inFlight, returned, collected,
                   rows, replayed, history>>

\* verifyCapture rejects part-way through COLLECT and the round fails there.
FailCollect ==
    /\ "collect_error" \in Faults
    /\ phase = "collect" /\ collected < Population
    /\ phase' = "idle"
    /\ interrupted' = TRUE
    /\ UNCHANGED <<config, tracker, round, pool, rows, replayed, billedTokens>>

\* Mutant: a PATCH replaces the whole pricing table.
MergedReplacingPrices(p) ==
    [config EXCEPT
        !.maxRunTokens = p.caps.maxRunTokens,
        !.maxRoundTokens = p.caps.maxRoundTokens,
        !.maxAgentTokens = p.caps.maxAgentTokens,
        !.pricing = p.pricing,
        !.roster = p.roster]

\* The merge of PATCH: token caps and roster replace, prices are added or revised.
\* The dollar caps are fixed at creation.
Merged(p) ==
    [config EXCEPT
        !.maxRunTokens = p.caps.maxRunTokens,
        !.maxRoundTokens = p.caps.maxRoundTokens,
        !.maxAgentTokens = p.caps.maxAgentTokens,
        !.pricing = [m \in Models |->
                        IF p.pricing[m] # NoPrice THEN p.pricing[m] ELSE @[m]],
        !.roster = p.roster]

\* Mutant: the latch is left as the old caps set it.
ReconfigureKeepingLatch(p) ==
    /\ phase = "idle"
    /\ Accepts(Merged(p), p.roster)
    /\ config' = Merged(p)
    /\ unpriced' = {}
    /\ UNCHANGED <<runTokens, roundTokens, runSpend, roundSpend, runBreached, agentBreaches,
                   phase, round, pool, rows, replayed, history>>

\* PATCH between rounds: updateConfig keeps the spend and re-judges it.  The
\* genomes already written for the next round keep their models.
Reconfigure(p) ==
    /\ phase = "idle"
    /\ Accepts(Merged(p), p.roster)
    /\ config' = Merged(p)
    /\ unpriced' = {}
    /\ runBreached' = CheckRun(Merged(p), runTokens, runSpend)
    /\ UNCHANGED <<runTokens, roundTokens, runSpend, roundSpend, agentBreaches,
                   phase, round, pool, rows, replayed, history>>

\* PATCH of a run this process holds no tracker for: the stored row is the whole change.
PatchStored(p) ==
    /\ phase = "down"
    /\ config' = Merged(p)
    /\ UNCHANGED <<tracker, phase, round, pool, rows, replayed, history>>

\* DELETE agents, then POST agents in the slot it freed (the population's size is kept):
\* between rounds, any model, but only a priced one under a dollar cap.
ReplaceAgent(a, m) ==
    /\ phase \in {"idle", "down"}
    /\ Accepts(config, {m})
    /\ genomeModel' = [genomeModel EXCEPT ![a] = m]
    /\ UNCHANGED <<config, tracker, phase, round, cursor, inFlight, returned, collected,
                   rows, replayed, history>>

\* The process dies: the tracker and the pool with it; rows and config stay.
Crash ==
    /\ \/ phase = "idle" /\ "crash_idle" \in Faults
       \/ phase \in {"run", "collect"} /\ "crash_round" \in Faults
    /\ phase' = "down"
    /\ FreshTracker
    /\ EmptyPool
    /\ interrupted' = (interrupted \/ phase # "idle")
    /\ UNCHANGED <<config, round, genomeModel, rows, replayed, billedTokens>>

\* specForResume carries the token caps, prices and roster; a dashboard run has no
\* dollar caps, and a resumed one is composed without any.
Resumed ==
    [config EXCEPT !.maxRunUsd = Unlimited, !.maxRoundUsd = Unlimited, !.maxAgentUsd = Unlimited]

\* attachExistingRun builds a tracker for the roster and every model in the rows.
Attach ==
    /\ phase = "down"
    /\ Accepts(Resumed, config.roster \cup {rows[i].model : i \in DOMAIN rows})
    /\ config' = Resumed
    /\ phase' = "replay"
    /\ replayed' = 0
    /\ FreshTracker
    /\ UNCHANGED <<round, pool, rows, history>>

\* ... then records every row; the tracker is registered after the last one.
Replay ==
    /\ phase = "replay" /\ replayed < Len(rows)
    /\ LET row == rows[replayed + 1]
       IN  Bill(row.round, row.agent, row.model, row.usage)
    /\ replayed' = replayed + 1
    /\ UNCHANGED <<config, phase, round, pool, rows, history>>

Attached ==
    /\ phase = "replay" /\ replayed = Len(rows)
    /\ phase' = "idle"
    /\ UNCHANGED <<config, tracker, round, pool, rows, replayed, history>>

Next ==
    \/ StartRound \/ Dispatch \/ Skip \/ EndRun \/ Collect \/ EndRound \/ FailCollect
    \/ \E a \in Agents : Lose(a) \/ \E usage \in Usages : Record(a, usage)
    \/ \E p \in Patches : Reconfigure(p) \/ PatchStored(p)
    \/ \E a \in Replaceable, m \in Models : ReplaceAgent(a, m)
    \/ Crash \/ Attach \/ Replay \/ Attached

Spec == Init /\ [][Next]_vars

-----------------------------------------------------------------------------
(* Properties. *)

\* An agent was named for exceeding its own cap in the current round.
OffenderNamed == \E a \in Agents : <<round, a>> \in agentBreaches

\* What agents in flight can still spend: unbounded when no cap is set on one of them.
WorstCaseResidual(agents, agentCap) ==
    IF agents = 0 THEN 0
    ELSE IF agentCap = Unlimited THEN Unlimited ELSE agents * agentCap

WithinResidual(total, inRound, cap, agentCap) ==
    LET residual == WorstCaseResidual(Concurrency, agentCap)
    IN  cap # Unlimited /\ residual # Unlimited /\ inRound > 0 => total <= cap + residual

\* The residual bound of worstCaseResidual, whole: while a round runs, no run or
\* round cap is passed by more than one agent cap per worker, unless the tracker
\* has named an agent that broke its own cap.  Everything in flight when the gate
\* shuts still lands, so the bound is about interleavings of dispatch and return.
OvershootBounded ==
    phase \in {"run", "collect"} /\ ~OffenderNamed =>
        /\ WithinResidual(runTokens, roundTokens, config.maxRunTokens, config.maxAgentTokens)
        /\ WithinResidual(roundTokens, roundTokens, config.maxRoundTokens, config.maxAgentTokens)
        /\ WithinResidual(runSpend, roundSpend, config.maxRunUsd, config.maxAgentUsd)
        /\ WithinResidual(roundSpend, roundSpend, config.maxRoundUsd, config.maxAgentUsd)

\* Once the gate shuts it stays shut for the round, and the verdict the driver
\* snapshots before COLLECT is still the verdict when the round ends: skipping
\* reflection on that snapshot never disagrees with the tracker.
BreachFinal ==
    [][/\ phase \in {"run", "collect"} /\ phase' \in {"run", "collect"}
       /\ Exhausted # Exhausted'
       => phase = "run" /\ Exhausted']_vars

\* The latched run breach is never stale: whatever mix of records, rounds,
\* reconfigurations and restarts led here, it is set exactly when the totals
\* are above the caps now in force.
LatchCurrent == runBreached = "none" <=> CheckRun(config, runTokens, runSpend) = "none"

\* Under a dollar cap every model that can be billed has a price, so the cap is
\* computable and the "unenforceable budget" verdict is never reached by way of
\* creation, PATCH and restart.
PricedUnderUsdCap ==
    HasUsdLimit(config) =>
        /\ {genomeModel[a] : a \in Agents} \subseteq Priced(config)
        /\ unpriced = {}

\* A restart neither forgets nor repeats token spend: while no round was cut off
\* between a record and its row, a tracker rebuilt from the rows holds exactly
\* what every process of this run recorded, and it never holds more.
ReplayRebuildsTokens ==
    phase = "idle" => /\ runTokens <= billedTokens
                      /\ interrupted \/ runTokens = billedTokens

\* The comment on attachExistingRun taken at its word: "every recorded agent spend
\* survives in `submissions`", so a resumed tracker holds all of it.
RecordedSpendSurvives == phase = "idle" => runTokens = billedTokens

=============================================================================
