---------------------------- MODULE DockerSandbox ----------------------------
(***************************************************************************)
(* The containers of one run, from the plan of a round to the disposal of  *)
(* the run: runtime/docker/sandbox.ts with the start of a shard            *)
(* (container.ts) and the release and cleanup of server/compose-run.ts.    *)
(*                                                                         *)
(* A container has a name, which is reused, and an identity, which is not. *)
(* The daemon holds at most one container per name; one that has stopped   *)
(* counts as absent, since every reader in the code treats it so.  Any     *)
(* docker command may fail, at most MaxFaults times: removal, creation and *)
(* health checks, reading an identity, inspection; and a docker run whose  *)
(* deadline passes may yet have started its container.                     *)
(***************************************************************************)
EXTENDS Capacity, SequencesExt

CONSTANTS
    Agents,         \* 1..n, in roster order
    MaxContainers,  \* RunConfig.maxContainers
    Total,          \* what the host has, in ceilings of one container
    RivalRequests,  \* what other runs ask the ledger for
    MaxRounds,      \* bound: rounds of the run
    MaxFaults       \* bound: docker commands that fail, and workers that die

ASSUME SandboxAssumption ==
    /\ IsFiniteSet(Agents) /\ Agents = 1..Cardinality(Agents) /\ Agents # {}
    /\ MaxContainers \in Nat \ {0} /\ Total \in Nat
    /\ RivalRequests \subseteq Nat \ {0}
    /\ {MaxRounds, MaxFaults} \subseteq Nat

Shards == 0..(MaxContainers - 1)
Kinds == {"worker", "gateway"}
Disposals == {"engine", "stop", "shutdown"}
Absent == 0

VARIABLES
    protected,   \* RunConfig.isolation = "protected"
    ledger,      \* the reservations of this run and of the others
    unread,      \* history: this round was admitted without reading the host
    daemon,      \* [kind][shard]: identity of the container wearing the name
    born,        \* identities given out so far
    roster,      \* agents of the round
    plan,        \* `shards`
    prov,        \* where each agent's provisioning stands
    starts,      \* `pendingStarts`: shard to the stage of its start
    containers,  \* `containers`: shard to what was started
    gateways,    \* compose-run's `gateways`: shards whose gateway it will remove
    owned,       \* `owned`
    stops,       \* `stopAttempts`: owned container to the stage of its removal
    phase,       \* where the round stands
    disposals,   \* disposeAll by the engine, and in the cleanups of a stop and a shutdown
    left,        \* what each of them has still to remove
    awaiting,    \* the removal each of them waits for
    rounds,      \* rounds planned
    faults,      \* failures so far
    mark,        \* history: identities given out before this round
    users,       \* history: which agent was given which container
    leaked,      \* history: what one failed removal abandoned, or a start that was given up
    resisted     \* history: what could not be removed since disposal began

dockerVars == <<daemon, born, faults>>
planVars == <<roster, plan, rounds, mark>>
shardVars == <<prov, starts, containers, users>>
vars == <<protected, ledger, unread, dockerVars, planVars, shardVars, gateways, owned, stops,
          phase, disposals, left, awaiting, leaked, resisted>>

\* ownershipKey: the identity, or the name where starting reported none.
Key(c) == IF c.id = Absent THEN -(c.shard + 1) ELSE c.id

Planned == UNION {plan[s] : s \in DOMAIN plan}
ShardOf(a) == CHOOSE s \in DOMAIN plan : a \in plan[s]
With(f, x, y) == [z \in DOMAIN f \cup {x} |-> IF z = x THEN y ELSE f[z]]
Without(f, S) == Restrict(f, DOMAIN f \ S)
Running(kind, s) == daemon[kind][s] # Absent
Disposed == \E d \in Disposals : disposals[d] # "none"

Fail == faults < MaxFaults /\ faults' = faults + 1
Well == UNCHANGED faults
Removed(s, kinds) ==
    [k \in Kinds |-> IF k \in kinds THEN [daemon[k] EXCEPT ![s] = Absent] ELSE daemon[k]]

TypeOK ==
    /\ protected \in BOOLEAN /\ unread \in BOOLEAN
    /\ ledger \in [{"run", "rival"} -> 0..Total]
    /\ daemon \in [Kinds -> [Shards -> 0..born]]
    /\ ToSet(roster) \subseteq Agents /\ DOMAIN plan \subseteq Shards
    /\ prov \in [Agents -> {"out", "waiting", "starting", "live", "failed"}]
    /\ DOMAIN starts \subseteq DOMAIN plan
    /\ Range(starts) \subseteq {"asked", "gateway", "checking", "undo", "undo both"}
    /\ DOMAIN containers \subseteq DOMAIN plan /\ gateways \subseteq Shards
    /\ owned \subseteq [shard : Shards, id : 0..born, gateway : {protected}]
    /\ \A c, d \in owned : Key(c) = Key(d) => c = d
    /\ DOMAIN stops \subseteq owned /\ Range(stops) \subseteq {"worker", "gateway", "verify"}
    /\ phase \in {"idle", "admitting", "provisioning", "working", "releasing", "gone"}
    /\ disposals \in [Disposals -> {"none", "waiting", "running", "done"}]
    /\ left \in [Disposals -> SUBSET owned] /\ awaiting \in [Disposals -> SUBSET owned]
    /\ rounds \in 0..MaxRounds /\ faults \in 0..MaxFaults /\ mark \in 0..born

\* Composing the run has reserved containers for its whole population; a shared run is
\* composed though the host could not be read, and then holds no reservation.
Init ==
    /\ protected \in BOOLEAN
    /\ \E n \in {0, Count([a \in Agents |-> a], MaxContainers)} :
        /\ IF n = 0 THEN ~protected ELSE PlanCapacity(n, Total, 0, 0)
        /\ ledger = [r \in {"run", "rival"} |-> IF r = "run" THEN n ELSE 0]
    /\ unread = FALSE
    /\ daemon = [k \in Kinds |-> [s \in Shards |-> Absent]] /\ born = 0 /\ faults = 0
    /\ roster = <<>> /\ plan = <<>> /\ rounds = 0 /\ mark = 0
    /\ prov = [a \in Agents |-> "out"] /\ starts = <<>> /\ containers = <<>> /\ users = {}
    /\ gateways = {} /\ owned = {} /\ stops = <<>> /\ phase = "idle"
    /\ disposals = [d \in Disposals |-> "none"]
    /\ left = [d \in Disposals |-> {}] /\ awaiting = [d \in Disposals |-> {}]
    /\ leaked = {} /\ resisted = {}

-----------------------------------------------------------------------------
(* planFor of the composition, before a round has a row                     *)

\* Any agents that are active by now, in roster order.
Rosters ==
    {r \in UNION {[1..n -> Agents] : n \in 1..Cardinality(Agents)} :
        \A i, j \in DOMAIN r : i < j => r[i] < r[j]}

\* The host is being read.
PlanRound ==
    /\ phase = "idle" /\ ~Disposed /\ rounds < MaxRounds
    /\ roster' \in Rosters
    /\ phase' = "admitting" /\ rounds' = rounds + 1
    /\ UNCHANGED <<protected, ledger, unread, dockerVars, plan, mark, shardVars, gateways,
                   owned, stops, disposals, left, awaiting, leaked, resisted>>

Refused ==
    /\ phase' = "idle" /\ roster' = <<>>
    /\ UNCHANGED <<protected, unread, dockerVars, plan, rounds, mark, shardVars, gateways,
                   owned, stops, disposals, left, awaiting, leaked, resisted>>

Needed == Count(roster, MaxContainers)

\* DockerSandbox.planFor.  A protected round never puts two agents in one container.
MayPlan == protected => Len(roster) <= MaxContainers

Plan ==
    /\ MayPlan
    /\ plan' = PlanShards(roster, MaxContainers)
    /\ prov' = [a \in Agents |-> IF a \in ToSet(roster) THEN "waiting" ELSE "out"]
    /\ phase' = "provisioning" /\ mark' = born
    /\ UNCHANGED <<protected, daemon, born, roster, rounds, starts, containers, users, gateways,
                   owned, stops, disposals, left, awaiting, leaked, resisted>>

\* assertHostCapacity.  What is running outside every ceiling differs from reading to reading;
\* a host that cannot be read refuses a protected run and admits a shared one unchecked.
Admit ==
    /\ phase = "admitting"
    /\ \E foreign \in 0..Total :
        /\ Admissible(ledger, "run", Needed, Total, foreign)
        /\ ledger' = [ledger EXCEPT !["run"] = Needed]
    /\ IF MayPlan THEN Plan /\ unread' = FALSE /\ Well ELSE Refused

AdmitUnread ==
    /\ phase = "admitting" /\ ~protected /\ Fail
    /\ Plan /\ unread' = TRUE /\ UNCHANGED ledger

Refuse == phase = "admitting" /\ Refused /\ UNCHANGED ledger

RivalAdmit ==
    /\ phase # "gone" /\ ledger["rival"] = 0
    /\ \E n \in RivalRequests, foreign \in 0..Total :
        /\ Admissible(ledger, "rival", n, Total, foreign)
        /\ ledger' = [ledger EXCEPT !["rival"] = n]
    /\ UNCHANGED <<protected, unread, dockerVars, planVars, shardVars, gateways, owned, stops,
                   phase, disposals, left, awaiting, leaked, resisted>>

RivalRelease ==
    /\ ledger["rival"] > 0
    /\ ledger' = [ledger EXCEPT !["rival"] = 0]
    /\ UNCHANGED <<protected, unread, dockerVars, planVars, shardVars, gateways, owned, stops,
                   phase, disposals, left, awaiting, leaked, resisted>>

-----------------------------------------------------------------------------
(* Provisioning: one start per shard, shared by its agents                  *)

roundVars == <<protected, ledger, unread, planVars, phase, disposals, left, awaiting, resisted>>

\* provision, up to the start it waits for.
Provision(a) ==
    /\ phase = "provisioning" /\ prov[a] = "waiting"
    /\ LET s == ShardOf(a)
       IN  IF s \in DOMAIN containers
           THEN /\ prov' = [prov EXCEPT ![a] = "live"]
                /\ users' = users \cup {<<daemon["worker"][s], a>>}
                /\ UNCHANGED starts
           ELSE /\ prov' = [prov EXCEPT ![a] = "starting"]
                /\ starts' = IF s \in DOMAIN starts THEN starts ELSE With(starts, s, "asked")
                /\ UNCHANGED users
    /\ UNCHANGED <<roundVars, dockerVars, containers, gateways, owned, stops, leaked>>

\* The start rejects, and so does every provision that waits for it.
StartFails(s) ==
    /\ starts' = Without(starts, {s})
    /\ prov' = [a \in Agents |-> IF a \in plan[s] /\ prov[a] = "starting"
                                 THEN "failed" ELSE prov[a]]
    /\ UNCHANGED <<containers, users>>

Advance(s, stage) ==
    /\ starts' = [starts EXCEPT ![s] = stage]
    /\ UNCHANGED <<prov, containers, users>>

\* Mutant: that of a protected run is adopted too.
MayAdoptAlways(s) == Running("worker", s)

\* A container that runs under this name is adopted, unless the run is protected: then what
\* wears the names goes first, and a name that is still taken fails the start.
MayAdopt(s) == ~protected /\ Running("worker", s)

AskDaemon(s) ==
    /\ s \in DOMAIN starts /\ starts[s] = "asked"
    /\ \/ /\ MayAdopt(s) /\ Advance(s, "checking")
          /\ UNCHANGED <<dockerVars, leaked>>
       \/ /\ ~MayAdopt(s) /\ Well
          /\ born' = born + 1
          /\ daemon' = [daemon EXCEPT !["worker"][s] = born + 1, !["gateway"][s] = Absent]
          /\ Advance(s, IF protected THEN "gateway" ELSE "checking")
          /\ UNCHANGED leaked
       \/ \* The gateway's removal fails: its name is still taken when it is started.
          /\ protected /\ Running("gateway", s) /\ Fail
          /\ born' = born + 1
          /\ daemon' = [daemon EXCEPT !["worker"][s] = born + 1]
          /\ Advance(s, "gateway") /\ UNCHANGED leaked
       \/ \* The network, the removal of a worker, its creation or its inspection fails.
          /\ Fail /\ StartFails(s)
          /\ \E gone \in IF protected THEN SUBSET Kinds ELSE {{}} : daemon' = Removed(s, gone)
          /\ UNCHANGED <<born, leaked>>
       \/ \* docker run is killed by its deadline, and the daemon starts the worker all the same.
          /\ ~MayAdopt(s) /\ Fail /\ StartFails(s)
          /\ born' = born + 1
          /\ daemon' = [daemon EXCEPT !["worker"][s] = born + 1, !["gateway"][s] = Absent]
          /\ leaked' = leaked \cup {born + 1}
    /\ UNCHANGED <<roundVars, gateways, owned, stops>>

StartGateway(s) ==
    /\ s \in DOMAIN starts /\ starts[s] = "gateway"
    /\ \/ /\ ~Running("gateway", s) /\ Well
          /\ born' = born + 1
          /\ daemon' = [daemon EXCEPT !["gateway"][s] = born + 1]
          /\ Advance(s, "checking") /\ UNCHANGED leaked
       \/ /\ Advance(s, "undo")
          /\ IF Running("gateway", s) THEN Well ELSE Fail
          /\ UNCHANGED <<daemon, born, leaked>>
       \/ \* As with the worker: a gateway the start does not know of is not undone.
          /\ ~Running("gateway", s) /\ Fail /\ Advance(s, "undo")
          /\ born' = born + 1
          /\ daemon' = [daemon EXCEPT !["gateway"][s] = born + 1]
          /\ leaked' = leaked \cup {born + 1}
    /\ UNCHANGED <<roundVars, gateways, owned, stops>>

Healthy(s) == Running("worker", s) /\ (protected => Running("gateway", s))

\* Best effort: what this removal leaves behind nobody owns.
Undo(s) ==
    /\ s \in DOMAIN starts /\ starts[s] \in {"undo", "undo both"}
    /\ LET undone == IF starts[s] = "undo" THEN {"worker"} ELSE Kinds
       IN  \E kept \in SUBSET undone :
           /\ faults + Cardinality(kept) <= MaxFaults /\ faults' = faults + Cardinality(kept)
           /\ daemon' = Removed(s, undone \ kept)
           /\ leaked' = leaked \cup ({daemon[k][s] : k \in kept} \ {Absent})
    /\ StartFails(s)
    /\ UNCHANGED <<roundVars, born, gateways, owned, stops>>

\* What the start resolves with.
Started(s, id) == [shard |-> s, id |-> id, gateway |-> protected]

Own(c) == {d \in owned : Key(d) # Key(c)} \cup {c}

Resolve(s, id) ==
    LET c == Started(s, id)
        waited == {a \in plan[s] : prov[a] = "starting"}
    IN  /\ containers' = With(containers, s, c) /\ owned' = Own(c)
        /\ gateways' = IF protected THEN gateways \cup {s} ELSE gateways
        /\ starts' = Without(starts, {s})
        /\ prov' = [a \in Agents |-> IF a \in waited THEN "live" ELSE prov[a]]
        /\ users' = users \cup {<<daemon["worker"][s], a>> : a \in waited}

\* The address, the health check and the identity, which may stay unknown.  Then the start
\* resolves: the composition knows the gateway, the container is recorded, and every agent
\* that waited for it is live.
Answer(s) ==
    /\ s \in DOMAIN starts /\ starts[s] = "checking"
    /\ \/ /\ ~Healthy(s) /\ Well
          /\ Advance(s, IF protected THEN "undo both" ELSE "undo")
          /\ UNCHANGED <<gateways, owned>>
       \/ /\ Fail
          /\ Advance(s, IF protected THEN "undo both" ELSE "undo")
          /\ UNCHANGED <<gateways, owned>>
       \/ /\ Healthy(s)
          /\ \/ Well /\ Resolve(s, daemon["worker"][s])
             \/ Fail /\ Resolve(s, Absent)
    /\ UNCHANGED <<roundVars, daemon, born, stops, leaked>>

\* A worker dies: killed for its memory, or by itself.
Dies(s) ==
    /\ Running("worker", s) /\ Fail
    /\ daemon' = [daemon EXCEPT !["worker"][s] = Absent]
    /\ UNCHANGED <<roundVars, born, shardVars, gateways, owned, stops, leaked>>

\* The pool has settled: agents are at work.
Work ==
    /\ phase = "provisioning"
    /\ \A a \in Agents : prov[a] \in {"out", "live", "failed"}
    /\ phase' = "working"
    /\ UNCHANGED <<protected, ledger, unread, dockerVars, planVars, shardVars, gateways, owned,
                   stops, disposals, left, awaiting, leaked, resisted>>

-----------------------------------------------------------------------------
(* Removal: by name, confirmed by identity                                  *)

stopVars == <<protected, ledger, unread, planVars, shardVars, phase, disposals, left, awaiting, born>>

\* What did not go, and since disposal began.
Resists(id) == resisted' = IF Disposed THEN resisted \cup ({id} \ {Absent}) ELSE resisted

RemoveWorker(c) ==
    /\ c \in DOMAIN stops /\ stops[c] = "worker"
    /\ \/ Well /\ daemon' = Removed(c.shard, {"worker"}) /\ UNCHANGED resisted
       \/ Fail /\ UNCHANGED daemon /\ Resists(daemon["worker"][c.shard])
    /\ stops' = [stops EXCEPT ![c] = "gateway"]
    /\ UNCHANGED <<stopVars, gateways, owned, leaked>>

\* The composition forgets the gateway after its first attempt, whatever came of it.
RemoveGateway(c) ==
    /\ c \in DOMAIN stops /\ stops[c] = "gateway"
    /\ IF c.shard \in gateways
       THEN \/ Well /\ daemon' = Removed(c.shard, {"gateway"}) /\ UNCHANGED leaked
            \/ /\ Fail /\ UNCHANGED daemon
               /\ leaked' = leaked \cup ({daemon["gateway"][c.shard]} \ {Absent})
       ELSE UNCHANGED <<daemon, faults, leaked>>
    /\ gateways' = gateways \ {c.shard}
    /\ stops' = [stops EXCEPT ![c] = "verify"]
    /\ UNCHANGED <<stopVars, owned, resisted>>

\* Mutant: a removal that did not fail is taken for proof.
GoneUnverified(c) == TRUE

\* verifyGone: the worker by its identity, or its name; the gateway by its name.
Gone(c) ==
    /\ IF c.id = Absent THEN ~Running("worker", c.shard) ELSE daemon["worker"][c.shard] # c.id
    /\ c.gateway => ~Running("gateway", c.shard)

Verify(c) ==
    /\ c \in DOMAIN stops /\ stops[c] = "verify"
    /\ \/ Gone(c) /\ Well /\ owned' = owned \ {c} /\ UNCHANGED resisted
       \/ ~Gone(c) /\ Well /\ UNCHANGED <<owned, resisted>>
       \/ Fail /\ UNCHANGED <<owned, resisted>>   \* the daemon cannot say
    /\ stops' = Without(stops, {c})
    /\ left' = [d \in Disposals |-> left[d] \cap owned']
    /\ awaiting' = [d \in Disposals |-> awaiting[d] \ {c}]
    /\ UNCHANGED <<protected, ledger, unread, planVars, shardVars, phase, disposals, daemon,
                   born, gateways, leaked>>

-----------------------------------------------------------------------------
(* releasePopulation: at the end of a round                                 *)

Release ==
    /\ phase = "working"
    /\ phase' = "releasing"
    /\ stops' = [c \in owned |-> "worker"]
    /\ UNCHANGED <<protected, ledger, unread, dockerVars, planVars, shardVars, gateways, owned,
                   disposals, left, awaiting, leaked, resisted>>

\* Mutant: the reservation goes though the release failed.
ReleasedLedgerAlways == [ledger EXCEPT !["run"] = 0]

\* Only when all is confirmed gone is the reservation given back.
ReleasedLedger == IF owned = {} THEN [ledger EXCEPT !["run"] = 0] ELSE ledger

Released ==
    /\ phase = "releasing" /\ stops = <<>>
    /\ phase' = "idle"
    /\ ledger' = ReleasedLedger
    /\ containers' = <<>> /\ prov' = [a \in Agents |-> "out"]
    /\ roster' = <<>> /\ plan' = <<>>
    /\ users' = {u \in users : \E s \in Shards : u[1] = daemon["worker"][s]}
    /\ UNCHANGED <<protected, unread, dockerVars, rounds, mark, starts, gateways, owned, stops,
                   disposals, left, awaiting, leaked, resisted>>

-----------------------------------------------------------------------------
(* disposeAll: once by the engine, then in every cleanup of the composition *)

disposeVars == <<protected, unread, dockerVars, planVars, shardVars, gateways, owned>>

\* A stop or a shutdown of the run.  Both wait for the manager, which has waited for the
\* round, and join its one disposal of the engine.
Dispose(d) ==
    /\ d \in {"stop", "shutdown"} /\ phase \in {"idle", "gone"} /\ disposals[d] = "none"
    /\ disposals' = [disposals EXCEPT ![d] = "waiting",
                                      !["engine"] = IF @ = "none" THEN "running" ELSE @]
    /\ left' = IF Disposed THEN left ELSE [left EXCEPT !["engine"] = owned]
    /\ UNCHANGED <<disposeVars, ledger, stops, phase, awaiting, leaked, resisted>>

Cleanup(d) ==
    /\ disposals[d] = "waiting" /\ disposals["engine"] = "done"
    /\ disposals' = [disposals EXCEPT ![d] = "running"]
    /\ left' = [left EXCEPT ![d] = owned]
    /\ UNCHANGED <<disposeVars, ledger, stops, phase, awaiting, leaked, resisted>>

\* stopOnce of the next container: an attempt in flight is joined.
StopNext(d) ==
    /\ disposals[d] = "running" /\ awaiting[d] = {}
    /\ \E c \in left[d] :
        /\ left' = [left EXCEPT ![d] = @ \ {c}]
        /\ awaiting' = [awaiting EXCEPT ![d] = {c}]
        /\ stops' = IF c \in DOMAIN stops THEN stops ELSE With(stops, c, "worker")
    /\ UNCHANGED <<disposeVars, ledger, phase, disposals, leaked, resisted>>

\* After a cleanup the reservation is gone, whatever could not be removed.
DisposalDone(d) ==
    /\ disposals[d] = "running" /\ left[d] = {} /\ awaiting[d] = {}
    /\ disposals' = [disposals EXCEPT ![d] = "done"]
    /\ phase' = IF d = "engine" THEN phase ELSE "gone"
    /\ ledger' = IF d = "engine" THEN ledger ELSE [ledger EXCEPT !["run"] = 0]
    /\ UNCHANGED <<disposeVars, stops, left, awaiting, leaked, resisted>>

Ended == \A d \in Disposals : disposals[d] = "done"
Idle == Ended /\ ledger["rival"] = 0 /\ UNCHANGED vars

Next ==
    \/ PlanRound \/ Admit \/ AdmitUnread \/ Refuse \/ RivalAdmit \/ RivalRelease
    \/ \E a \in Agents : Provision(a)
    \/ \E s \in Shards : \/ AskDaemon(s) \/ StartGateway(s) \/ Answer(s) \/ Undo(s) \/ Dies(s)
    \/ Work \/ Release \/ Released
    \/ \E c \in owned : RemoveWorker(c) \/ RemoveGateway(c) \/ Verify(c)
    \/ \E d \in Disposals : Dispose(d) \/ Cleanup(d) \/ StopNext(d) \/ DisposalDone(d)
    \/ Idle

Spec == Init /\ [][Next]_vars

-----------------------------------------------------------------------------
(* Properties *)

OwnedInstance(s) ==
    \E c \in owned : c.shard = s /\ c.id \in {Absent, daemon["worker"][s]}

\* Nothing that runs is lost from sight: a worker is being started, or owned under its own
\* identity, and its gateway with it, except for what a failed start could not take back, or
\* did not try to: a container whose docker run was killed by its deadline, though "every
\* container this call created is removed on any failure" (container.ts).  Once the run is
\* disposed of, all that still runs resisted removal during the disposal; except for a
\* gateway, of which the composition forgets after one failed attempt (compose-run.ts,
\* stopContainer), though a retained container "stays owned for retry".
NothingLost ==
    /\ \A s \in Shards :
        /\ Running("worker", s) =>
            s \in DOMAIN starts \/ OwnedInstance(s) \/ daemon["worker"][s] \in leaked
        /\ Running("gateway", s) =>
            \/ s \in DOMAIN starts \/ daemon["gateway"][s] \in leaked
            \/ \E c \in owned : c.shard = s /\ c.gateway
    /\ Ended => \A k \in Kinds, s \in Shards :
                    Running(k, s) => daemon[k][s] \in resisted \cup leaked

\* A container runs within a reservation, from before it starts until it is confirmed gone:
\* what this process has promised fits the host, however plans, releases and other runs
\* interleave, and every running worker has its place in it.  A worker that survived a
\* release may have lost its place to a smaller round, and a run admitted without reading
\* the host has none.
CapacityHeld ==
    /\ 10 * (ledger["run"] + ledger["rival"]) <= 8 * Total
    /\ phase # "gone" /\ ~unread =>
        \A s \in Shards : LET id == daemon["worker"][s] IN
            id # Absent /\ id \notin leaked =>
                ledger["run"] > 0 /\ (s < ledger["run"] \/ id <= mark)

\* Who has an agent's workspace to himself: in a protected run no two agents are ever given
\* one container, in any rounds.  In a shared run an agent that is planned alone shares at
\* most a container that survived the release of an earlier round and was adopted by name,
\* though "the next round restarts every shard fresh" (sandbox.ts, releaseRound).
AloneInItsContainer ==
    \A u, v \in users :
        u[1] = v[1] /\ u[2] # v[2] =>
            /\ ~protected
            /\ SoleOccupant(plan, u[2]) => u[1] <= mark
=============================================================================
