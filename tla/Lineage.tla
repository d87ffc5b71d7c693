------------------------------- MODULE Lineage -------------------------------
(***************************************************************************)
(* The population across rounds: which agents are active, which genome     *)
(* each runs with, and what evolution makes of a ranking.  From            *)
(* engine/driver.ts (createRun, PREPARE, EVOLVE, REFLECT), evolution/breed *)
(* and evolution/reflect, with the agents and genomes tables of db/repos   *)
(* and the two requests that add and remove agents.                        *)
(*                                                                         *)
(* Nothing of this is one transaction.  Every statement commits alone, so  *)
(* the process may die between two of them; and a crossover waits for a    *)
(* model between the child's row and its genome.  What an agent is made of *)
(* (strategy, notes, model, temperature) is one value, named by the genome *)
(* it was first written in.                                                *)
(***************************************************************************)
EXTENDS Selection, FiniteSets, SequencesExt

CONSTANTS
    Founders,       \* the agents of createRun
    Configs,        \* selection settings a run can have
    MaxChildren,    \* bound: agents made after the founders
    MaxRounds,      \* bound: rounds
    MaxEvents       \* bound: operator requests and ends of the process

ASSUME FoundersAssumption ==
    IsFiniteSet(Founders) /\ Founders # {} /\ Founders \cap (0..MaxChildren + 1) = {}
ASSUME ConfigsAssumption == Configs \subseteq SelectionConfig
ASSUME BoundsAssumption == {MaxChildren, MaxRounds, MaxEvents} \subseteq Nat

Statuses == {"active", "culled", "retired"}
Ids == Founders \cup 1..MaxChildren
Keys == Ids \X (1..(MaxRounds + 1))

VARIABLES
    config,     \* `config.selection`
    status,     \* agents.status, a partial function on Ids
    genomes,    \* the genomes table: a partial function on Keys, unique by agent and round
    round,      \* rounds.lastIdx
    events,     \* operator requests and ends of the process so far
    phase,      \* where the round stands
    result,     \* how the last round ended, until an operator changes anything
    ranking,    \* judged.scores of the round, kept for as long as `result` is
    plan,       \* its SelectionPlan, consumed statement by statement by breed
    mutated,    \* agents whose reflection gave them something new
    birth,      \* an agent row written, and the genome that is to follow
    cut         \* history: agents left without a genome because the process died

table == <<status, genomes>>
working == <<ranking, plan, mutated>>
vars == <<config, table, round, events, phase, result, working, birth, cut>>

NoBirth == [agent |-> 0]
NoPlan == [elite |-> <<>>, survivors |-> <<>>, culled |-> <<>>, clones |-> <<>>,
           crossovers |-> <<>>, rescued |-> {}]

Made == DOMAIN status
Active == {a \in Made : status[a] = "active"}
Written(a) == {k \in DOMAIN genomes : k[1] = a}
RoundsOf(a) == {k[2] : k \in Written(a)}
NextChild == Cardinality(Made \ Founders) + 1
LatestIn(S) == CHOOSE r \in S : \A q \in S : q <= r

TypeOK ==
    /\ config \in Configs
    /\ Made \subseteq Ids /\ Range(status) \subseteq Statuses
    /\ DOMAIN genomes \subseteq Keys
    /\ \A k \in DOMAIN genomes :
         /\ genomes[k].text \in Keys
         /\ genomes[k].from \in Keys \cup {<<>>}
         /\ genomes[k].origin \in {"seed", "elite", "mutation", "clone", "crossover", "manual"}
    /\ round \in 0..MaxRounds /\ events \in 0..MaxEvents
    /\ phase \in {"idle", "preparing", "running", "reflecting", "breeding"}
    /\ result \in {"none", "complete", "failed"}
    /\ ToSet(ranking) \subseteq Made /\ IsInjective(ranking)
    /\ mutated \subseteq Made
    /\ birth.agent \in Made \cup {0}
    /\ cut \subseteq Made

Genome(text, from, origin) == [text |-> text, from |-> from, origin |-> origin]

\* createRun, for Founders as its roster.
Init ==
    /\ config \in Configs /\ Accepts(Cardinality(Founders), config)
    /\ status = [a \in Founders |-> "active"]
    /\ genomes = [k \in Founders \X {1} |-> Genome(k, <<>>, "seed")]
    /\ round = 0 /\ events = 0 /\ phase = "idle" /\ result = "none"
    /\ ranking = <<>> /\ plan = NoPlan /\ mutated = {}
    /\ birth = NoBirth /\ cut = {}

-----------------------------------------------------------------------------
(* The rows.  genomes.create refuses a second genome of an agent and round. *)

Insert(key, genome) ==
    /\ key \notin DOMAIN genomes
    /\ genomes' = [k \in DOMAIN genomes \cup {key} |-> IF k = key THEN genome ELSE genomes[k]]

\* agents.create, with the genome that the code writes next.
Bear(agent, key, genome) ==
    /\ agent \in Ids
    /\ status' = [a \in Made \cup {agent} |-> IF a = agent THEN "active" ELSE status[a]]
    /\ birth' = [agent |-> agent, key |-> key, genome |-> genome]

\* genomes.create for the agent just made; for a crossover, after its model call has
\* answered, failed or been replaced by a split merge.
WriteGenome ==
    /\ birth # NoBirth
    /\ Insert(birth.key, birth.genome)
    /\ birth' = NoBirth
    /\ UNCHANGED <<config, status, round, events, phase, result, working, cut>>

-----------------------------------------------------------------------------
(* A round. *)

Forget == ranking' = <<>> /\ plan' = NoPlan /\ mutated' = {}

Fail ==
    /\ phase' = "idle" /\ result' = "failed"
    /\ UNCHANGED <<config, table, round, events, birth, cut>>

\* A round row is made; its index is spent whatever becomes of it.
StartRound ==
    /\ phase = "idle" /\ birth = NoBirth /\ round < MaxRounds
    /\ NextChild + BottomCount(Cardinality(Active), config) <= MaxChildren + 1
    /\ round' = round + 1 /\ phase' = "preparing" /\ result' = "none"
    /\ Forget
    /\ UNCHANGED <<config, table, events, birth, cut>>

\* The genomes PREPARE may carry forward.
Sources(a) == {r \in RoundsOf(a) : r < round}

\* Mutant: the oldest genome is carried forward.
SourceOldest(a) == CHOOSE r \in Sources(a) : \A q \in Sources(a) : q >= r

\* forAgent is in round order, and the last one below the round is taken.
Source(a) == LatestIn(Sources(a))

Unprepared == {a \in Active : <<a, round>> \notin DOMAIN genomes}

\* An agent without a genome for the round gets its latest; an exact one is left alone.
CarryForward(a) ==
    /\ phase = "preparing" /\ a \in Unprepared /\ Sources(a) # {}
    /\ LET key == <<a, Source(a)>>
       IN  Insert(<<a, round>>, Genome(genomes[key].text, key, "clone"))
    /\ UNCHANGED <<config, status, round, events, phase, result, working, birth, cut>>

\* ... and one without any genome fails the round.
NoHistory(a) ==
    /\ phase = "preparing" /\ a \in Unprepared /\ Sources(a) = {}
    /\ Fail /\ Forget

Prepared ==
    /\ phase = "preparing" /\ Unprepared = {}
    /\ phase' = "running"
    /\ UNCHANGED <<config, table, round, events, result, working, birth, cut>>

\* An abort, a rejected judge or a failed capture: any awaited step before EVOLVE.
RoundFails ==
    /\ phase = "running"
    /\ Fail /\ Forget

\* The scores of a round, stored all or none and read back by rank.
Rankings == SetToSeqs(Active)

\* EVOLVE: the judge ranked everybody, and the plan is made and stored with the scores.
Evolve ==
    /\ phase = "running"
    /\ ranking' \in Rankings
    /\ IF Accepts(Cardinality(Active), config)
       THEN /\ plan' \in Plans(ranking', config)
            /\ phase' = "reflecting"
            /\ UNCHANGED <<config, table, round, events, result, mutated, birth, cut>>
       ELSE Fail /\ UNCHANGED <<plan, mutated>>

\* A survivor's reflection gives it a new text, or its own when the call fails or answers
\* nothing usable.
Reflections == SUBSET ToSet(plan.survivors)

\* REFLECT, which a breach may skip for all.
Reflect ==
    /\ phase = "reflecting"
    /\ mutated' \in Reflections
    /\ phase' = "breeding"
    /\ UNCHANGED <<config, table, round, events, result, ranking, plan, birth, cut>>

-----------------------------------------------------------------------------
(* breed: elite, survivors, culled, clones, crossovers, each list in turn. *)

Breeding == phase = "breeding" /\ birth = NoBirth
Current(a) == genomes[<<a, round>>]

CopyElite ==
    /\ Breeding /\ plan.elite # <<>>
    /\ LET a == Head(plan.elite)
       IN  Insert(<<a, round + 1>>, Genome(Current(a).text, <<a, round>>, "elite"))
    /\ plan' = [plan EXCEPT !.elite = Tail(@)]
    /\ UNCHANGED <<config, status, round, events, phase, result, ranking, mutated, birth, cut>>

Mutate ==
    /\ Breeding /\ plan.elite = <<>> /\ plan.survivors # <<>>
    /\ LET a == Head(plan.survivors)
           key == <<a, round + 1>>
       IN  Insert(key, Genome(IF a \in mutated THEN key ELSE Current(a).text,
                              <<a, round>>, "mutation"))
    /\ plan' = [plan EXCEPT !.survivors = Tail(@)]
    /\ UNCHANGED <<config, status, round, events, phase, result, ranking, mutated, birth, cut>>

\* Mutant: whoever is in the bottom band is retired, rescued or not.
CullBottomBand ==
    /\ Breeding /\ plan.elite = <<>> /\ plan.survivors = <<>> /\ plan.culled # <<>>
    /\ status' = [status EXCEPT ![Head(Bands(ranking, config).culled)] = "culled"]
    /\ plan' = [plan EXCEPT !.culled = Tail(@)]
    /\ UNCHANGED <<config, genomes, round, events, phase, result, ranking, mutated, birth, cut>>

Cull ==
    /\ Breeding /\ plan.elite = <<>> /\ plan.survivors = <<>> /\ plan.culled # <<>>
    /\ status' = [status EXCEPT ![Head(plan.culled)] = "culled"]
    /\ plan' = [plan EXCEPT !.culled = Tail(@)]
    /\ UNCHANGED <<config, genomes, round, events, phase, result, ranking, mutated, birth, cut>>

Replacing ==
    Breeding /\ plan.elite = <<>> /\ plan.survivors = <<>> /\ plan.culled = <<>>

BearClone ==
    /\ Replacing /\ plan.clones # <<>>
    /\ LET parent == Head(plan.clones).parent
       IN  Bear(NextChild, <<NextChild, round + 1>>,
                Genome(Current(parent).text, <<parent, round>>, "clone"))
    /\ plan' = [plan EXCEPT !.clones = Tail(@)]
    /\ UNCHANGED <<config, genomes, round, events, phase, result, ranking, mutated, cut>>

\* A text of the child's own: the model's merge, or the split merge when it gives none.
Recombined(child, parent) == Genome(child, parent, "crossover")

\* Mutant: a model call that fails is not caught, and fails the round.
BearCrossoverUncaught ==
    /\ Replacing /\ plan.clones = <<>> /\ plan.crossovers # <<>>
    /\ status' = [a \in Made \cup {NextChild} |-> IF a = NextChild THEN "active" ELSE status[a]]
    /\ phase' = "idle" /\ result' = "failed" /\ Forget
    /\ UNCHANGED <<config, genomes, round, events, birth, cut>>

BearCrossover ==
    /\ Replacing /\ plan.clones = <<>> /\ plan.crossovers # <<>>
    /\ LET key == <<NextChild, round + 1>>
       IN  Bear(NextChild, key, Recombined(key, <<Head(plan.crossovers).a, round>>))
    /\ plan' = [plan EXCEPT !.crossovers = Tail(@)]
    /\ UNCHANGED <<config, genomes, round, events, phase, result, ranking, mutated, cut>>

Complete ==
    /\ Replacing /\ plan.clones = <<>> /\ plan.crossovers = <<>>
    /\ phase' = "idle" /\ result' = "complete"
    /\ plan' = NoPlan /\ mutated' = {}
    /\ UNCHANGED <<config, table, round, events, ranking, birth, cut>>

-----------------------------------------------------------------------------
(* The operator, while the run is not busy, and the process. *)

Idle == phase = "idle" /\ birth = NoBirth

Request ==
    /\ Idle /\ events < MaxEvents
    /\ events' = events + 1
    /\ result' = "none" /\ Forget

\* POST agents: blank or pasted, or a copy of any agent's latest genome.  Text whose key
\* is the agent's own is new.
AddAgent ==
    /\ Request /\ NextChild \in Ids
    /\ LET key == <<NextChild, round + 1>>
       IN  \/ Bear(NextChild, key, Genome(key, <<>>, "manual"))
           \/ \E a \in Made :
                /\ Written(a) # {}
                /\ LET latest == <<a, LatestIn(RoundsOf(a))>>
                   IN  Bear(NextChild, key, Genome(genomes[latest].text, latest, "manual"))
    /\ UNCHANGED <<config, genomes, round, phase, cut>>

\* Mutant: a status no reader knows.
RemoveAgentAside(a) ==
    /\ Request /\ a \in Active /\ Cardinality(Active) > 1
    /\ status' = [status EXCEPT ![a] = "removed"]
    /\ UNCHANGED <<config, genomes, round, phase, birth, cut>>

\* DELETE agents: never the last one.
RemoveAgent(a) ==
    /\ Request /\ a \in Active /\ Cardinality(Active) > 1
    /\ status' = [status EXCEPT ![a] = "retired"]
    /\ UNCHANGED <<config, genomes, round, phase, birth, cut>>

\* Mutant: the settings are stored as they come.
PatchUnchecked ==
    /\ Request
    /\ config' \in Configs
    /\ UNCHANGED <<table, round, phase, birth, cut>>

\* PATCH selection, validated against the configured population.
Patch ==
    /\ Request
    /\ config' \in Configs /\ Accepts(Cardinality(Founders), config')
    /\ UNCHANGED <<table, round, phase, birth, cut>>

\* The process dies between two statements, or while a crossover waits; the next one
\* fails the round it finds unfinished.
Crash ==
    /\ ~Idle /\ events < MaxEvents
    /\ events' = events + 1
    /\ phase' = "idle"
    /\ result' = IF phase = "idle" THEN "none" ELSE "failed"
    /\ cut' = cut \cup IF birth = NoBirth THEN {} ELSE {birth.agent}
    /\ birth' = NoBirth /\ Forget
    /\ UNCHANGED <<config, table, round>>

-----------------------------------------------------------------------------
Breed == CopyElite \/ Mutate \/ Cull \/ BearClone \/ BearCrossover \/ Complete

Next ==
    \/ StartRound \/ Prepared \/ RoundFails \/ Evolve \/ Reflect
    \/ \E a \in Active : CarryForward(a) \/ NoHistory(a) \/ RemoveAgent(a)
    \/ Breed \/ WriteGenome
    \/ AddAgent \/ Patch \/ Crash

Spec == Init /\ [][Next]_vars

-----------------------------------------------------------------------------
(* Properties. *)

\* Whatever a failed round, a partial evolution and the operator leave behind, every
\* active agent has a genome the next round can carry forward: the one exception is an
\* agent whose birth the end of the process cut short, which then fails every round.
EveryAgentHasHistory ==
    \A a \in Active \ cut :
        birth.agent # a => \E r \in RoundsOf(a) : r <= round + 1

\* A completed round leaves as many active agents as it ranked, with a genome each for
\* the next round.
PopulationKept ==
    result = "complete" =>
        /\ Cardinality(Active) = Len(ranking)
        /\ \A a \in Active : <<a, round + 1>> \in DOMAIN genomes

\* The best are still there after a completed round, and enter the next one as they
\* were, although the floor and rounded shares move the bands around them.
EliteStands ==
    result = "complete" =>
        \A i \in 1..Least(config.elite, Len(ranking)) :
            LET a == ranking[i]
            IN  /\ a \in Active
                /\ genomes[<<a, round + 1>>].text = genomes[<<a, round>>].text

\* The plan partitions the ranking; each culled agent is replaced once, by children of
\* two distinct parents or one; and only the floor takes anybody of the top band.
PlanReplacesTheCulled ==
    phase = "reflecting" =>
        LET top == ToSet(TopBand(ranking, config))
            replaced == {x.replaces : x \in ToSet(plan.clones) \cup ToSet(plan.crossovers)}
        IN  /\ Len(plan.elite) + Len(plan.survivors) + Len(plan.culled) = Len(ranking)
            /\ ToSet(plan.elite) \cup ToSet(plan.survivors) \cup ToSet(plan.culled)
                 = ToSet(ranking)
            /\ replaced = ToSet(plan.culled)
            /\ Len(plan.clones) + Len(plan.crossovers) = Len(plan.culled)
            /\ \A x \in ToSet(plan.crossovers) : {x.a, x.b} \subseteq top /\ x.a # x.b
            /\ \A x \in ToSet(plan.clones) : x.parent \in top
            /\ ToSet(plan.culled) \cap top # {} => plan.rescued # {}

\* Written for a's round r by anything but PREPARE's carry-forward.
Given(a, r) ==
    LET g == genomes[<<a, r>>]
    IN  ~(g.origin = "clone" /\ g.from # <<>> /\ g.from[1] = a)

\* An agent runs with what evolution or an operator last gave it, however many rounds
\* failed in between and wherever they did.
RunsWithItsLatest ==
    phase = "running" =>
        \A a \in Active :
            LET given == {r \in RoundsOf(a) : r <= round /\ Given(a, r)}
            IN  Current(a).text = genomes[<<a, LatestIn(given)>>].text

\* Once the agents are ranked the round is lost only with the process, or because the
\* population has fallen below the one its settings were accepted for.
EvolutionCompletes ==
    [][/\ phase \in {"reflecting", "breeding"} /\ phase' = "idle"
            => result' = "complete" \/ Crash
       /\ phase = "running" /\ ranking' # ranking /\ phase' = "idle"
            => Cardinality(Active) < Cardinality(Founders)]_vars

=============================================================================
