------------------------ MODULE DockerSandboxProofs ------------------------
(***************************************************************************)
(* What DockerSandbox promises for any agents, containers, host, rivals,   *)
(* rounds and number of failing commands.                                  *)
(***************************************************************************)
EXTENDS DockerSandbox, FiniteSetTheorems, TLAPS

ProvStates == {"out", "waiting", "starting", "live", "failed"}
Phases == {"idle", "admitting", "provisioning", "working", "releasing", "gone"}
InRound == {"provisioning", "working", "releasing"}
DisposalStates == {"none", "waiting", "running", "done"}

\* What the argument needs of TypeOK.
DaemonTyped ==
    /\ protected \in BOOLEAN /\ born \in Nat /\ mark \in 0..born
    /\ daemon \in [Kinds -> [Shards -> 0..born]]

OwnedTyped == owned \subseteq [shard : Shards, id : 0..born, gateway : {protected}]

RoundTyped == prov \in [Agents -> ProvStates] /\ phase \in Phases

DisposalsTyped ==
    /\ disposals \in [Disposals -> DisposalStates]
    /\ DOMAIN left = Disposals /\ DOMAIN awaiting = Disposals

\* An identity belongs to one shard for ever; and a gateway to a protected run.
NamesInv ==
    /\ \A s, t \in Shards :
         daemon["worker"][s] # Absent /\ daemon["worker"][s] = daemon["worker"][t] => s = t
    /\ \A c \in owned, s \in Shards :
         c.id # Absent /\ c.id = daemon["worker"][s] => c.shard = s
    /\ ~protected => \A s \in Shards : ~Running("gateway", s)

\* What runs and no start has made is owned, or was abandoned: also while a start is about
\* to replace it.
Untouched(kind, s) ==
    \/ s \notin DOMAIN starts
    \/ starts[s] \in IF kind = "worker" THEN {"asked"} ELSE {"asked", "gateway", "undo"}

WorkerOwned(s) == OwnedInstance(s) \/ daemon["worker"][s] \in leaked

GatewayOwned(s) ==
    \/ daemon["gateway"][s] \in leaked
    \/ s \in gateways /\ \E c \in owned : c.shard = s /\ c.gateway

OwnedInv ==
    \A s \in Shards :
        /\ Running("worker", s) /\ Untouched("worker", s) => WorkerOwned(s)
        /\ Running("gateway", s) /\ Untouched("gateway", s) => GatewayOwned(s)

\* The plan partitions the agents of the round, one to a shard where the run is protected.
PlanInv ==
    /\ DOMAIN plan \subseteq Shards /\ \A s \in DOMAIN plan : plan[s] \subseteq Agents
    /\ phase \notin InRound => DOMAIN plan = {} /\ DOMAIN containers = {}
    /\ phase = "admitting" => roster \in Rosters
    /\ \A a \in Agents : prov[a] # "out" => \E s \in DOMAIN plan : a \in plan[s]
    /\ \A s, t \in DOMAIN plan : \A a \in plan[s] \cap plan[t] : s = t
    /\ protected => \A s \in DOMAIN plan : \A a, b \in plan[s] : a = b

\* Starts are made by agents that wait for them, in the first part of a round.
StartsInv ==
    /\ phase # "provisioning" => DOMAIN starts = {}
    /\ \A s \in DOMAIN starts :
         /\ starts[s] \in {"gateway", "undo both"} => protected
         /\ s \in DOMAIN plan
         /\ \E a \in plan[s] \cap Agents : prov[a] = "starting"

\* A run is disposed of between its rounds, and removes nothing during one.
QuietInv ==
    /\ Disposed => phase \in {"idle", "gone"} /\ disposals["engine"] # "none"
    /\ ~Disposed /\ phase # "releasing" => DOMAIN stops = {}

\* A disposal has been at everything owned that it does not wait for or still lists.
WorkerTried(s) == Running("worker", s) => daemon["worker"][s] \in resisted \cup leaked
GatewayTried(s) == Running("gateway", s) => daemon["gateway"][s] \in leaked

DisposalInv ==
    /\ Disposed => \A c \in DOMAIN stops \cap owned :
         /\ stops[c] \in {"gateway", "verify"} => WorkerTried(c.shard)
         /\ stops[c] = "verify" => GatewayTried(c.shard)
    /\ \A d \in Disposals : disposals[d] \in {"running", "done"} =>
         \A c \in owned : \/ c \in left[d] \cup awaiting[d]
                          \/ WorkerTried(c.shard) /\ GatewayTried(c.shard)
    /\ \A d \in Disposals : disposals[d] = "done" => left[d] = {} /\ awaiting[d] = {}

\* Who was given a container of this round was planned for its shard.
PlannedInv ==
    /\ users \subseteq (0..born) \X Agents
    /\ phase \in InRound =>
         /\ \A v \in users, s \in Shards :
              v[1] = daemon["worker"][s] /\ v[1] > mark => s \in DOMAIN plan /\ v[2] \in plan[s]
         /\ \A u, v \in users :
              u[1] = v[1] /\ u[1] > mark => \E s \in DOMAIN plan : {u[2], v[2]} \subseteq plan[s]

\* In a protected run no two agents have been given one container, nobody has been given one
\* that is being started, and nobody waits for one that is.
AloneInv ==
    protected =>
        /\ \A u, v \in users : u[1] = v[1] => u[2] = v[2]
        /\ \A s \in DOMAIN starts \cap Shards : \A u \in users :
             Running("worker", s) /\ ~Untouched("worker", s) => u[1] # daemon["worker"][s]
        /\ \A s \in DOMAIN containers \cap DOMAIN plan :
             \A a \in plan[s] \cap Agents : prov[a] # "waiting"

SandboxInv ==
    /\ DaemonTyped /\ OwnedTyped /\ RoundTyped /\ DisposalsTyped
    /\ NamesInv /\ OwnedInv /\ PlanInv /\ StartsInv /\ QuietInv /\ DisposalInv
    /\ PlannedInv /\ AloneInv

-----------------------------------------------------------------------------
(* The plan of a round. *)

LEMMA Remainder ==
    ASSUME NEW n \in Nat, NEW m \in Nat \ {0}
    PROVE  n % m \in 0..(m - 1) /\ (n < m => n % m = n)
  OBVIOUS

LEMMA RosterIsSequence ==
    ASSUME NEW r \in Rosters
    PROVE  /\ Len(r) \in Nat /\ DOMAIN r = 1..Len(r)
           /\ \A i \in DOMAIN r : r[i] \in Agents
           /\ \A i, j \in DOMAIN r : r[i] = r[j] => i = j
<1>1. PICK n \in 1..Cardinality(Agents) : r \in [1..n -> Agents]
  BY DEF Rosters
<1>2. Cardinality(Agents) \in Nat /\ Agents \subseteq Nat
  BY SandboxAssumption, FS_CardinalityType
<1>3. n \in Nat /\ Len(r) = n /\ DOMAIN r = 1..n
  BY <1>1, <1>2
<1>4. \A i, j \in DOMAIN r : i < j => r[i] < r[j]
  BY DEF Rosters
<1>5. \A i \in DOMAIN r : r[i] \in Agents
  BY <1>1, <1>3
<1>6. ASSUME NEW i \in DOMAIN r, NEW j \in DOMAIN r, r[i] = r[j] PROVE i = j
  <2>1. r[i] \in Nat
    BY <1>2, <1>5
  <2>2. ~(r[i] < r[j]) /\ ~(r[j] < r[i])
    BY <1>6, <2>1
  <2> QED
    BY <1>3, <1>4, <2>2
<1> QED
  BY <1>3, <1>5, <1>6

LEMMA PlanShardsPartitions ==
    ASSUME NEW r \in Rosters, NEW P, P = PlanShards(r, MaxContainers)
    PROVE  /\ DOMAIN P \subseteq Shards /\ \A s \in DOMAIN P : P[s] \subseteq Agents
           /\ \A a \in ToSet(r) : \E s \in DOMAIN P : a \in P[s]
           /\ \A s, t \in DOMAIN P : \A a \in P[s] \cap P[t] : s = t
           /\ Len(r) <= MaxContainers => \A s \in DOMAIN P : \A a, b \in P[s] : a = b
<1> DEFINE C == Count(r, MaxContainers)
<1>1. MaxContainers \in Nat \ {0}
  BY SandboxAssumption
<1>2. C \in Nat /\ C <= MaxContainers /\ C <= Len(r) /\ (Len(r) <= MaxContainers => C = Len(r))
  BY <1>1, RosterIsSequence DEF Count
<1>3. \A i \in DOMAIN r : C \in Nat \ {0} /\ i - 1 \in Nat
  BY <1>1, RosterIsSequence DEF Count
<1>4. \A i \in DOMAIN r : (i - 1) % C \in 0..(C - 1) /\ (i - 1 < C => (i - 1) % C = i - 1)
  BY <1>3, Remainder
<1>5. DOMAIN P = 0..(C - 1)
  BY DEF PlanShards
<1>6. \A s \in DOMAIN P : P[s] = {r[i] : i \in {j \in DOMAIN r : (j - 1) % C = s}}
  BY DEF PlanShards
<1> HIDE DEF C
<1>7. \A s \in DOMAIN P : \A a : a \in P[s] <=> \E i \in DOMAIN r : r[i] = a /\ (i - 1) % C = s
  BY <1>6
<1>8. DOMAIN P \subseteq Shards /\ \A s \in DOMAIN P : P[s] \subseteq Agents
  BY <1>1, <1>2, <1>5, <1>7, RosterIsSequence DEF Shards
<1>9. ASSUME NEW a \in ToSet(r) PROVE \E s \in DOMAIN P : a \in P[s]
  <2>1. PICK i \in DOMAIN r : r[i] = a
    BY DEF ToSet
  <2>2. (i - 1) % C \in DOMAIN P
    BY <1>4, <1>5
  <2> QED
    BY <1>7, <2>1, <2>2
<1>10. ASSUME NEW s \in DOMAIN P, NEW t \in DOMAIN P, NEW a \in P[s] \cap P[t] PROVE s = t
  <2>1. PICK i \in DOMAIN r : r[i] = a /\ (i - 1) % C = s
    BY <1>7
  <2>2. PICK j \in DOMAIN r : r[j] = a /\ (j - 1) % C = t
    BY <1>7
  <2> QED
    BY <2>1, <2>2, RosterIsSequence
<1>11. ASSUME Len(r) <= MaxContainers, NEW s \in DOMAIN P, NEW a \in P[s], NEW b \in P[s]
       PROVE  a = b
  <2>1. PICK i \in DOMAIN r : r[i] = a /\ (i - 1) % C = s
    BY <1>7
  <2>2. PICK j \in DOMAIN r : r[j] = b /\ (j - 1) % C = s
    BY <1>7
  <2>3. i \in Nat /\ j \in Nat /\ i - 1 < C /\ j - 1 < C
    BY <1>2, <1>11, RosterIsSequence
  <2>4. i - 1 = j - 1
    BY <1>4, <2>1, <2>2, <2>3
  <2> QED
    BY <2>1, <2>2, <2>3, <2>4
<1> QED
  BY <1>8, <1>9, <1>10, <1>11

-----------------------------------------------------------------------------
(* What the steps leave alone, and what they do to the daemon. *)

LEMMA PlanningKeeps ==
    ASSUME PlanRound \/ Admit \/ AdmitUnread \/ Refuse \/ Work
    PROVE  UNCHANGED <<protected, daemon, born, starts, containers, users, gateways, owned,
                       stops, disposals, left, awaiting, leaked, resisted>>
  BY DEF PlanRound, Admit, AdmitUnread, Refuse, Refused, Plan, Work, dockerVars, planVars,
         shardVars

LEMMA RivalsKeep ==
    ASSUME RivalAdmit \/ RivalRelease \/ Idle \/ UNCHANGED vars
    PROVE  UNCHANGED <<protected, daemon, born, roster, plan, mark, prov, starts, containers,
                       users, gateways, owned, stops, phase, disposals, left, awaiting, leaked,
                       resisted>>
  BY DEF RivalAdmit, RivalRelease, Idle, vars, dockerVars, planVars, shardVars

LEMMA StartingKeeps ==
    ASSUME NEW s \in Shards, AskDaemon(s) \/ StartGateway(s) \/ Undo(s) \/ Answer(s)
    PROVE  UNCHANGED <<protected, roster, plan, mark, phase, stops, disposals, left, awaiting,
                       resisted>>
  BY DEF AskDaemon, StartGateway, Undo, Answer, roundVars, planVars

LEMMA ProvisionKeeps ==
    ASSUME NEW a \in Agents, Provision(a)
    PROVE  UNCHANGED <<protected, daemon, born, roster, plan, mark, containers, gateways, owned,
                       stops, phase, disposals, left, awaiting, leaked, resisted>>
  BY DEF Provision, roundVars, planVars, dockerVars

LEMMA DiesKeeps ==
    ASSUME NEW s \in Shards, Dies(s)
    PROVE  UNCHANGED <<protected, born, roster, plan, mark, prov, starts, containers, users,
                       gateways, owned, stops, phase, disposals, left, awaiting, leaked,
                       resisted>>
  BY DEF Dies, roundVars, planVars, shardVars

LEMMA ReleasingKeeps ==
    ASSUME Release \/ Released
    PROVE  UNCHANGED <<protected, daemon, born, mark, starts, gateways, owned, disposals, left,
                       awaiting, leaked, resisted>>
  BY DEF Release, Released, dockerVars, planVars, shardVars

LEMMA RemovingKeeps ==
    ASSUME NEW c, RemoveWorker(c) \/ RemoveGateway(c) \/ Verify(c)
    PROVE  UNCHANGED <<protected, born, roster, plan, mark, prov, starts, containers, users,
                       phase, disposals>>
  BY DEF RemoveWorker, RemoveGateway, Verify, stopVars, planVars, shardVars

LEMMA DisposingKeeps ==
    ASSUME NEW d \in Disposals, Dispose(d) \/ Cleanup(d) \/ StopNext(d) \/ DisposalDone(d)
    PROVE  UNCHANGED <<protected, daemon, born, roster, plan, mark, prov, starts, containers,
                       users, gateways, owned, leaked, resisted>>
  BY DEF Dispose, Cleanup, StopNext, DisposalDone, disposeVars, dockerVars, planVars, shardVars

\* Containers can only go.
Shrinks ==
    /\ daemon' \in [Kinds -> [Shards -> 0..born]] /\ born' = born
    /\ \A k \in Kinds, s \in Shards : daemon'[k][s] \in {daemon[k][s], Absent}

\* A container is made, perhaps in place of one of the other kind.
Makes(kind, s) ==
    /\ born' = born + 1 /\ daemon' \in [Kinds -> [Shards -> 0..born']]
    /\ daemon'[kind][s] = born + 1
    /\ \A k \in Kinds, t \in Shards : k # kind /\ t = s => daemon'[k][t] \in {daemon[k][t], Absent}
    /\ \A k \in Kinds, t \in Shards : t # s => daemon'[k][t] = daemon[k][t]

LEMMA RemovedShrinks ==
    ASSUME DaemonTyped, NEW s \in Shards, NEW kinds \in SUBSET Kinds, born' = born,
           daemon' = Removed(s, kinds)
    PROVE  /\ Shrinks
           /\ \A k \in Kinds, t \in Shards :
                daemon'[k][t] = IF k \in kinds /\ t = s THEN Absent ELSE daemon[k][t]
<1>1. 0 \in 0..born
  BY DEF DaemonTyped
<1>2. \A k \in Kinds : daemon'[k] = IF k \in kinds THEN [daemon[k] EXCEPT ![s] = 0] ELSE daemon[k]
  BY DEF Removed, Absent
<1>3. \A k \in Kinds : daemon'[k] \in [Shards -> 0..born]
  BY <1>1, <1>2 DEF DaemonTyped
<1>4. daemon' \in [Kinds -> [Shards -> 0..born]]
  BY <1>3 DEF Removed
<1>5. \A k \in Kinds, t \in Shards :
        daemon'[k][t] = IF k \in kinds /\ t = s THEN Absent ELSE daemon[k][t]
  BY <1>2 DEF DaemonTyped, Absent
<1> QED
  BY <1>4, <1>5 DEF Shrinks

LEMMA DiesShrinks ==
    ASSUME DaemonTyped, NEW s \in Shards, Dies(s)
    PROVE  Shrinks
<1>1. daemon' = [daemon EXCEPT !["worker"] = [daemon["worker"] EXCEPT ![s] = 0]] /\ born' = born
  BY DEF Dies, Absent, roundVars, planVars
<1>2. 0 \in 0..born /\ "worker" \in Kinds /\ daemon["worker"] \in [Shards -> 0..born]
  BY DEF DaemonTyped, Kinds
<1>3. [daemon["worker"] EXCEPT ![s] = 0] \in [Shards -> 0..born]
  BY <1>2
<1>4. daemon' \in [Kinds -> [Shards -> 0..born]]
  BY <1>1, <1>2, <1>3 DEF DaemonTyped
<1>5. \A k \in Kinds, t \in Shards : daemon'[k][t] \in {daemon[k][t], 0}
  BY <1>1, <1>2 DEF DaemonTyped
<1> QED
  BY <1>1, <1>4, <1>5 DEF Shrinks, Absent

\* What is asked of the daemon for a start: adopt, make, fail, or fail and make all the same.
AskAdopts(s) ==
    /\ ~protected /\ Running("worker", s) /\ Advance(s, "checking")
    /\ UNCHANGED <<daemon, born, leaked>>

AskMakes(s) ==
    /\ Makes("worker", s)
    /\ Advance(s, IF protected THEN "gateway" ELSE "checking")
    /\ ~protected => daemon'["gateway"][s] = Absent
    /\ UNCHANGED leaked

AskFails(s) == StartFails(s) /\ Shrinks /\ UNCHANGED leaked

Leaks(kind, s) == Makes(kind, s) /\ leaked' = leaked \cup {born + 1}

AskLeaks(s) == StartFails(s) /\ Leaks("worker", s) /\ daemon'["gateway"][s] = Absent

LEMMA AskDaemonDoes ==
    ASSUME DaemonTyped, NEW s \in Shards, AskDaemon(s)
    PROVE  /\ s \in DOMAIN starts /\ starts[s] = "asked" /\ UNCHANGED <<gateways, owned>>
           /\ AskAdopts(s) \/ AskMakes(s) \/ AskFails(s) \/ AskLeaks(s)
<1>1. s \in DOMAIN starts /\ starts[s] = "asked" /\ UNCHANGED <<gateways, owned>>
  BY DEF AskDaemon
<1>2. CASE MayAdopt(s) /\ Advance(s, "checking") /\ UNCHANGED <<dockerVars, leaked>>
  BY <1>1, <1>2 DEF MayAdopt, AskAdopts, dockerVars
<1>3. ASSUME NEW f, f \in {daemon["gateway"], [daemon["gateway"] EXCEPT ![s] = 0]},
             daemon' = [daemon EXCEPT !["worker"] = [daemon["worker"] EXCEPT ![s] = born + 1],
                                      !["gateway"] = f],
             born' = born + 1
      PROVE  Makes("worker", s) /\ daemon'["gateway"] = f
  <2>1. born + 1 \in 0..born' /\ 0 \in 0..born' /\ 0..born \subseteq 0..born'
    BY <1>3 DEF DaemonTyped
  <2>2. \A k \in Kinds : daemon[k] \in [Shards -> 0..born']
    BY <2>1 DEF DaemonTyped
  <2>3. "worker" \in Kinds /\ "gateway" \in Kinds /\ Kinds = {"worker", "gateway"}
    BY DEF Kinds
  <2>4. f \in [Shards -> 0..born'] /\ \A t \in Shards : f[t] \in {daemon["gateway"][t], 0}
                                                       /\ (t # s => f[t] = daemon["gateway"][t])
    BY <1>3, <2>1, <2>2, <2>3
  <2>5. daemon'["worker"] = [daemon["worker"] EXCEPT ![s] = born + 1] /\ daemon'["gateway"] = f
    BY <1>3, <2>3 DEF DaemonTyped
  <2>6. daemon'["worker"] \in [Shards -> 0..born']
    BY <2>1, <2>2, <2>3, <2>5
  <2>7. daemon' \in [Kinds -> [Shards -> 0..born']]
    BY <1>3, <2>3, <2>4, <2>5, <2>6 DEF DaemonTyped
  <2> QED
    BY <1>3, <2>2, <2>3, <2>4, <2>5, <2>7 DEF Makes, Absent
<1>4. ASSUME born' = born + 1,
             daemon' = [daemon EXCEPT !["worker"][s] = born + 1, !["gateway"][s] = Absent]
      PROVE  Makes("worker", s) /\ daemon'["gateway"][s] = Absent
  <2>1. daemon' = [daemon EXCEPT !["worker"] = [daemon["worker"] EXCEPT ![s] = born + 1],
                                 !["gateway"] = [daemon["gateway"] EXCEPT ![s] = 0]]
    BY <1>4 DEF Absent, DaemonTyped, Kinds
  <2>2. Makes("worker", s) /\ daemon'["gateway"] = [daemon["gateway"] EXCEPT ![s] = 0]
    BY <1>3, <1>4, <2>1
  <2> QED
    BY <2>2 DEF Absent, DaemonTyped, Kinds
<1>5. CASE /\ born' = born + 1
           /\ daemon' = [daemon EXCEPT !["worker"][s] = born + 1, !["gateway"][s] = Absent]
           /\ Advance(s, IF protected THEN "gateway" ELSE "checking") /\ UNCHANGED leaked
  BY <1>1, <1>4, <1>5 DEF AskMakes
<1>6. CASE /\ protected /\ born' = born + 1
           /\ daemon' = [daemon EXCEPT !["worker"][s] = born + 1]
           /\ Advance(s, "gateway") /\ UNCHANGED leaked
  <2>1. daemon' = [daemon EXCEPT !["worker"] = [daemon["worker"] EXCEPT ![s] = born + 1],
                                 !["gateway"] = daemon["gateway"]]
    BY <1>6 DEF DaemonTyped, Kinds
  <2>2. Makes("worker", s)
    BY <1>3, <1>6, <2>1
  <2> QED
    BY <1>1, <1>6, <2>2 DEF AskMakes
<1>7. CASE /\ StartFails(s) /\ UNCHANGED <<born, leaked>>
           /\ \E gone \in IF protected THEN SUBSET Kinds ELSE {{}} : daemon' = Removed(s, gone)
  <2>1. PICK gone \in SUBSET Kinds : daemon' = Removed(s, gone)
    BY <1>7
  <2> QED
    BY <1>1, <1>7, <2>1, RemovedShrinks DEF AskFails
<1>8. CASE /\ StartFails(s) /\ born' = born + 1 /\ leaked' = leaked \cup {born + 1}
           /\ daemon' = [daemon EXCEPT !["worker"][s] = born + 1, !["gateway"][s] = Absent]
  BY <1>1, <1>4, <1>8 DEF AskLeaks, Leaks
<1> QED
  BY <1>1, <1>2, <1>5, <1>6, <1>7, <1>8 DEF AskDaemon

GatewayMakes(s) ==
    /\ Makes("gateway", s) /\ Advance(s, "checking")
    /\ daemon'["worker"] = daemon["worker"] /\ UNCHANGED leaked

GatewayFails(s) == Advance(s, "undo") /\ UNCHANGED <<daemon, born, leaked>>

GatewayLeaks(s) ==
    /\ Leaks("gateway", s) /\ Advance(s, "undo")
    /\ daemon'["worker"] = daemon["worker"]

LEMMA StartGatewayDoes ==
    ASSUME DaemonTyped, NEW s \in Shards, StartGateway(s)
    PROVE  /\ s \in DOMAIN starts /\ starts[s] = "gateway"
           /\ UNCHANGED <<gateways, owned>>
           /\ GatewayMakes(s) \/ GatewayFails(s) \/ GatewayLeaks(s)
<1>1. s \in DOMAIN starts /\ starts[s] = "gateway" /\ UNCHANGED <<gateways, owned>>
  BY DEF StartGateway
<1>2. CASE Advance(s, "undo") /\ UNCHANGED <<daemon, born, leaked>>
  BY <1>1, <1>2 DEF GatewayFails
<1>3. ASSUME born' = born + 1, daemon' = [daemon EXCEPT !["gateway"][s] = born + 1]
      PROVE  Makes("gateway", s) /\ daemon'["worker"] = daemon["worker"]
  <2>1. born + 1 \in 0..born' /\ 0..born \subseteq 0..born'
    BY <1>3 DEF DaemonTyped
  <2>2. \A k \in Kinds : daemon[k] \in [Shards -> 0..born']
    BY <2>1 DEF DaemonTyped
  <2>3. "worker" \in Kinds /\ "gateway" \in Kinds /\ Kinds = {"worker", "gateway"}
    BY DEF Kinds
  <2>4. /\ daemon'["gateway"] = [daemon["gateway"] EXCEPT ![s] = born + 1]
        /\ daemon'["worker"] = daemon["worker"]
    BY <1>3, <2>3 DEF DaemonTyped
  <2>5. daemon'["gateway"] \in [Shards -> 0..born']
    BY <2>1, <2>2, <2>3, <2>4
  <2>6. daemon' \in [Kinds -> [Shards -> 0..born']]
    BY <1>3, <2>2, <2>3, <2>4, <2>5 DEF DaemonTyped
  <2> QED
    BY <1>3, <2>2, <2>3, <2>4, <2>6 DEF Makes
<1>4. CASE /\ born' = born + 1 /\ daemon' = [daemon EXCEPT !["gateway"][s] = born + 1]
           /\ Advance(s, "checking") /\ UNCHANGED leaked
  BY <1>1, <1>3, <1>4 DEF GatewayMakes
<1>5. CASE /\ born' = born + 1 /\ daemon' = [daemon EXCEPT !["gateway"][s] = born + 1]
           /\ Advance(s, "undo") /\ leaked' = leaked \cup {born + 1}
  BY <1>1, <1>3, <1>5 DEF GatewayLeaks, Leaks
<1> QED
  BY <1>1, <1>2, <1>4, <1>5 DEF StartGateway

\* What cannot be removed again is abandoned.
LEMMA UndoDoes ==
    ASSUME DaemonTyped, NEW s \in Shards, Undo(s)
    PROVE  /\ s \in DOMAIN starts /\ starts[s] \in {"undo", "undo both"}
           /\ UNCHANGED <<gateways, owned, users, containers>>
           /\ StartFails(s) /\ Shrinks /\ leaked \subseteq leaked'
           /\ \A k \in Kinds, t \in Shards : t # s => daemon'[k][t] = daemon[k][t]
           /\ daemon'["worker"][s] # Absent => daemon'["worker"][s] \in leaked'
           /\ \/ daemon'["gateway"][s] # Absent => daemon'["gateway"][s] \in leaked'
              \/ starts[s] = "undo" /\ daemon'["gateway"][s] = daemon["gateway"][s]
<1> DEFINE undone == IF starts[s] = "undo" THEN {"worker"} ELSE Kinds
<1>1. PICK kept \in SUBSET undone :
        /\ daemon' = Removed(s, undone \ kept)
        /\ leaked' = leaked \cup ({daemon[k][s] : k \in kept} \ {Absent})
  BY DEF Undo
<1>2. undone \subseteq Kinds /\ "worker" \in undone /\ (starts[s] = "undo" \/ "gateway" \in undone)
  BY DEF Kinds
<1>3. /\ s \in DOMAIN starts /\ starts[s] \in {"undo", "undo both"} /\ born' = born
      /\ UNCHANGED <<gateways, owned, users, containers>> /\ StartFails(s)
  BY DEF Undo, StartFails, roundVars
<1>4. undone \ kept \in SUBSET Kinds
  BY <1>2
<1> HIDE DEF undone
<1>5. /\ Shrinks
      /\ \A k \in Kinds, t \in Shards :
           daemon'[k][t] = IF k \in undone \ kept /\ t = s THEN Absent ELSE daemon[k][t]
  <2>1. daemon' = Removed(s, undone \ kept)
    BY <1>1
  <2> DEFINE kinds == undone \ kept
  <2> HIDE DEF kinds
  <2>2. daemon' = Removed(s, kinds) /\ kinds \in SUBSET Kinds /\ born' = born
    BY <1>3, <1>4, <2>1 DEF kinds
  <2>3. /\ Shrinks
        /\ \A k \in Kinds, t \in Shards :
             daemon'[k][t] = IF k \in kinds /\ t = s THEN Absent ELSE daemon[k][t]
    BY <2>2, RemovedShrinks
  <2> QED
    BY <2>3 DEF kinds
<1>6. \A k \in undone : daemon'[k][s] # Absent => daemon'[k][s] \in leaked'
  BY <1>1, <1>2, <1>5
<1>7. "gateway" \in Kinds
  BY DEF Kinds
<1>8. \/ daemon'["gateway"][s] # Absent => daemon'["gateway"][s] \in leaked'
      \/ starts[s] = "undo" /\ daemon'["gateway"][s] = daemon["gateway"][s]
  <2>1. CASE "gateway" \in undone
    BY <2>1, <1>6
  <2>2. CASE "gateway" \notin undone
    BY <2>2, <1>2, <1>5, <1>7
  <2> QED
    BY <2>1, <2>2
<1>9. \A k \in Kinds, t \in Shards : t # s => daemon'[k][t] = daemon[k][t]
  BY <1>5
<1>10. leaked \subseteq leaked'
  BY <1>1
<1> QED
  BY <1>2, <1>3, <1>5, <1>6, <1>8, <1>9, <1>10

\* What the daemon answers of a start: it resolves, or is undone.
LEMMA AnswerDoes ==
    ASSUME NEW s \in Shards, Answer(s)
    PROVE  /\ s \in DOMAIN starts /\ starts[s] = "checking" /\ UNCHANGED <<daemon, born, leaked>>
           /\ \/ /\ Advance(s, IF protected THEN "undo both" ELSE "undo")
                 /\ UNCHANGED <<gateways, owned>>
              \/ Healthy(s) /\ \E id \in {Absent, daemon["worker"][s]} : Resolve(s, id)
<1>1. s \in DOMAIN starts /\ starts[s] = "checking" /\ UNCHANGED <<daemon, born, leaked>>
  BY DEF Answer
<1>2. CASE Advance(s, IF protected THEN "undo both" ELSE "undo") /\ UNCHANGED <<gateways, owned>>
  BY <1>1, <1>2
<1>3. CASE Healthy(s) /\ (Resolve(s, daemon["worker"][s]) \/ Resolve(s, Absent))
  BY <1>1, <1>3
<1> QED
  BY <1>2, <1>3 DEF Answer

\* Owning what a start resolved with displaces nothing of another shard.
LEMMA OwnDisplaces ==
    ASSUME DaemonTyped, OwnedTyped, NamesInv, NEW s \in Shards,
           NEW id \in {Absent, daemon["worker"][s]}, NEW c, c = Started(s, id)
    PROVE  /\ c \in [shard : Shards, id : 0..born, gateway : {protected}]
           /\ c.shard = s /\ c.id = id /\ c.gateway = protected
           /\ c \in Own(c) /\ Own(c) \subseteq owned \cup {c}
           /\ \A d \in owned : d \in Own(c) \/ d.shard = s
<1>1. c.shard = s /\ c.id = id /\ c.gateway = protected
  BY DEF Started
<1>2. id \in 0..born
  BY DEF DaemonTyped, Absent, Kinds
<1>3. c \in [shard : Shards, id : 0..born, gateway : {protected}]
  BY <1>2 DEF Started
<1>4. ASSUME NEW d \in owned, d \notin Own(c) PROVE d.shard = s
  <2>1. Key(d) = Key(c)
    BY <1>4 DEF Own
  <2>2. /\ d.id \in Nat /\ c.id \in Nat /\ d.shard \in Nat /\ c.shard \in Nat
    BY <1>3 DEF OwnedTyped, DaemonTyped, Shards
  <2>3. \/ d.id = Absent /\ c.id = Absent /\ d.shard = c.shard
        \/ d.id = c.id /\ c.id # Absent
    BY <2>1, <2>2 DEF Key, Absent
  <2> QED
    BY <1>1, <2>3 DEF NamesInv
<1> QED
  BY <1>1, <1>3, <1>4 DEF Own

\* One agent waits for a start, and only for one of its own shard.
LEMMA ResolveDoes ==
    ASSUME RoundTyped, NEW s \in Shards, NEW id, Resolve(s, id)
    PROVE  /\ owned' = Own(Started(s, id))
           /\ gateways' = IF protected THEN gateways \cup {s} ELSE gateways
           /\ DOMAIN starts' = DOMAIN starts \ {s}
           /\ \A t \in DOMAIN starts' : starts'[t] = starts[t]
           /\ DOMAIN containers' = DOMAIN containers \cup {s}
           /\ prov' \in [Agents -> ProvStates]
           /\ \A a \in Agents : prov'[a] = IF a \in plan[s] /\ prov[a] = "starting"
                                           THEN "live" ELSE prov[a]
           /\ users' = users \cup {<<daemon["worker"][s], a>> :
                                        a \in {b \in plan[s] : prov[b] = "starting"}}
<1>1. /\ starts' = [t \in DOMAIN starts \ {s} |-> starts[t]]
      /\ containers' = With(containers, s, Started(s, id))
  BY DEF Resolve, Without, Restrict
<1>2. DOMAIN containers' = DOMAIN containers \cup {s}
  BY <1>1 DEF With
<1>3. \A a \in Agents : prov'[a] = IF a \in plan[s] /\ prov[a] = "starting"
                                   THEN "live" ELSE prov[a]
  BY DEF Resolve
<1>4. prov' \in [Agents -> ProvStates]
  <2>1. \A a \in Agents : prov'[a] \in ProvStates
    BY <1>3 DEF RoundTyped, ProvStates
  <2> QED
    BY <2>1 DEF Resolve
<1> QED
  BY <1>1, <1>2, <1>3, <1>4 DEF Resolve

LEMMA StartFailsDoes ==
    ASSUME RoundTyped, NEW s \in Shards, StartFails(s)
    PROVE  /\ DOMAIN starts' = DOMAIN starts \ {s}
           /\ \A t \in DOMAIN starts' : starts'[t] = starts[t]
           /\ prov' \in [Agents -> ProvStates]
           /\ \A a \in Agents : prov'[a] = IF a \in plan[s] /\ prov[a] = "starting"
                                           THEN "failed" ELSE prov[a]
           /\ UNCHANGED <<containers, users>>
<1>1. /\ starts' = [t \in DOMAIN starts \ {s} |-> starts[t]] /\ UNCHANGED <<containers, users>>
      /\ prov' = [a \in Agents |-> IF a \in plan[s] /\ prov[a] = "starting"
                                   THEN "failed" ELSE prov[a]]
  BY DEF StartFails, Without, Restrict
<1>2. \A a \in Agents : prov'[a] \in ProvStates
  BY <1>1 DEF RoundTyped, ProvStates
<1> QED
  BY <1>1, <1>2

LEMMA AdvanceDoes ==
    ASSUME NEW s \in DOMAIN starts, NEW stage, Advance(s, stage)
    PROVE  /\ DOMAIN starts' = DOMAIN starts /\ starts'[s] = stage
           /\ \A t \in DOMAIN starts : t # s => starts'[t] = starts[t]
           /\ UNCHANGED <<prov, containers, users>>
  BY DEF Advance

\* An agent is given a container that runs, or waits for its start.
LEMMA ProvisionDoes ==
    ASSUME RoundTyped, PlanInv, NEW a \in Agents, Provision(a)
    PROVE  /\ phase = "provisioning" /\ prov[a] = "waiting" /\ prov' \in [Agents -> ProvStates]
           /\ \E s \in DOMAIN plan \cap Shards :
                /\ a \in plan[s]
                /\ \/ /\ s \in DOMAIN containers /\ UNCHANGED starts
                      /\ prov' = [prov EXCEPT ![a] = "live"]
                      /\ users' = users \cup {<<daemon["worker"][s], a>>}
                   \/ /\ prov' = [prov EXCEPT ![a] = "starting"] /\ UNCHANGED users
                      /\ DOMAIN starts' = DOMAIN starts \cup {s}
                      /\ \A t \in DOMAIN starts' :
                           starts'[t] = IF t \in DOMAIN starts THEN starts[t] ELSE "asked"
<1>1. phase = "provisioning" /\ prov[a] = "waiting"
  BY DEF Provision
<1>2. PICK s : s = ShardOf(a) /\ s \in DOMAIN plan /\ a \in plan[s]
  BY <1>1 DEF ShardOf, PlanInv
<1>3. s \in Shards
  BY <1>2 DEF PlanInv
<1>4. CASE s \in DOMAIN containers
  <2>1. /\ UNCHANGED starts /\ prov' = [prov EXCEPT ![a] = "live"]
        /\ users' = users \cup {<<daemon["worker"][s], a>>}
    BY <1>2, <1>4 DEF Provision
  <2>2. prov' \in [Agents -> ProvStates]
    BY <2>1 DEF RoundTyped, ProvStates
  <2> QED
    BY <1>1, <1>2, <1>3, <1>4, <2>1, <2>2
<1>5. CASE s \notin DOMAIN containers
  <2>1. /\ prov' = [prov EXCEPT ![a] = "starting"] /\ UNCHANGED users
        /\ starts' = IF s \in DOMAIN starts THEN starts ELSE With(starts, s, "asked")
    BY <1>2, <1>5 DEF Provision
  <2>2. prov' \in [Agents -> ProvStates]
    BY <2>1 DEF RoundTyped, ProvStates
  <2>3. /\ DOMAIN starts' = DOMAIN starts \cup {s}
        /\ \A t \in DOMAIN starts' : starts'[t] = IF t \in DOMAIN starts THEN starts[t]
                                                  ELSE "asked"
    <3>1. CASE s \in DOMAIN starts
      BY <2>1, <3>1
    <3>2. CASE s \notin DOMAIN starts
      BY <2>1, <3>2 DEF With
    <3> QED
      BY <3>1, <3>2
  <2> QED
    BY <1>1, <1>2, <1>3, <2>1, <2>2, <2>3
<1> QED
  BY <1>4, <1>5

LEMMA RemoveWorkerDoes ==
    ASSUME DaemonTyped, OwnedTyped, NEW c \in owned, RemoveWorker(c)
    PROVE  /\ c \in DOMAIN stops /\ stops' = [stops EXCEPT ![c] = "gateway"]
           /\ UNCHANGED <<owned, gateways, leaked, left, awaiting>>
           /\ Shrinks /\ resisted \subseteq resisted'
           /\ \A s \in Shards : daemon'["gateway"][s] = daemon["gateway"][s]
           /\ Disposed => WorkerTried(c.shard)'
<1>1. c \in DOMAIN stops /\ stops' = [stops EXCEPT ![c] = "gateway"] /\ UNCHANGED born
      /\ UNCHANGED <<owned, gateways, leaked, left, awaiting>> /\ UNCHANGED disposals
  BY DEF RemoveWorker, stopVars
<1>2. c.shard \in Shards /\ Kinds = {"worker", "gateway"}
  BY DEF OwnedTyped, Kinds
<1>3. CASE daemon' = Removed(c.shard, {"worker"}) /\ UNCHANGED resisted
  BY <1>1, <1>2, <1>3, RemovedShrinks DEF WorkerTried, Running
<1>4. CASE UNCHANGED daemon /\ Resists(daemon["worker"][c.shard])
  <2>1. Shrinks
    BY <1>1, <1>4 DEF Shrinks, DaemonTyped
  <2>2. resisted \subseteq resisted'
    BY <1>4 DEF Resists
  <2>3. ASSUME Disposed PROVE WorkerTried(c.shard)'
    BY <1>4, <2>3 DEF Resists, WorkerTried, Running
  <2> QED
    BY <1>1, <1>4, <2>1, <2>2, <2>3
<1> QED
  BY <1>3, <1>4 DEF RemoveWorker

LEMMA RemoveGatewayDoes ==
    ASSUME DaemonTyped, OwnedTyped, NEW c \in owned, RemoveGateway(c)
    PROVE  /\ c \in DOMAIN stops /\ stops[c] = "gateway" /\ stops' = [stops EXCEPT ![c] = "verify"]
           /\ UNCHANGED <<owned, resisted, left, awaiting>>
           /\ Shrinks /\ leaked \subseteq leaked' /\ gateways' = gateways \ {c.shard}
           /\ \A s \in Shards : daemon'["worker"][s] = daemon["worker"][s]
           /\ \A s \in Shards : s # c.shard => daemon'["gateway"][s] = daemon["gateway"][s]
           /\ IF c.shard \in gateways THEN GatewayTried(c.shard)'
              ELSE daemon' = daemon
<1>1. /\ c \in DOMAIN stops /\ stops[c] = "gateway" /\ stops' = [stops EXCEPT ![c] = "verify"]
      /\ UNCHANGED <<owned, resisted, left, awaiting, born>> /\ gateways' = gateways \ {c.shard}
  BY DEF RemoveGateway, stopVars
<1>2. c.shard \in Shards /\ Kinds = {"worker", "gateway"}
  BY DEF OwnedTyped, Kinds
<1>3. CASE c.shard \in gateways /\ daemon' = Removed(c.shard, {"gateway"}) /\ UNCHANGED leaked
  <2>1. /\ Shrinks
        /\ \A k \in Kinds, t \in Shards :
             daemon'[k][t] = IF k \in {"gateway"} /\ t = c.shard THEN Absent ELSE daemon[k][t]
    BY <1>1, <1>2, <1>3, RemovedShrinks
  <2> QED
    BY <1>1, <1>2, <1>3, <2>1 DEF GatewayTried, Running
<1>4. CASE /\ c.shard \in gateways /\ UNCHANGED daemon
           /\ leaked' = leaked \cup ({daemon["gateway"][c.shard]} \ {Absent})
  BY <1>1, <1>2, <1>4 DEF GatewayTried, Running, Shrinks, DaemonTyped
<1>5. CASE c.shard \notin gateways /\ UNCHANGED <<daemon, leaked>>
  BY <1>1, <1>5 DEF Shrinks, DaemonTyped
<1> QED
  BY <1>3, <1>4, <1>5 DEF RemoveGateway

LEMMA VerifyDoes ==
    ASSUME NEW c, Verify(c), DisposalsTyped
    PROVE  /\ c \in DOMAIN stops /\ stops[c] = "verify"
           /\ DOMAIN stops' = DOMAIN stops \ {c} /\ \A e \in DOMAIN stops' : stops'[e] = stops[e]
           /\ UNCHANGED <<daemon, gateways, leaked>> /\ resisted' = resisted
           /\ owned' = owned \/ (owned' = owned \ {c} /\ Gone(c))
           /\ DOMAIN left' = Disposals /\ DOMAIN awaiting' = Disposals
           /\ \A d \in Disposals : /\ left'[d] = left[d] \cap owned'
                                   /\ awaiting'[d] = awaiting[d] \ {c}
<1>1. stops' = [e \in DOMAIN stops \ {c} |-> stops[e]]
  BY DEF Verify, Without, Restrict
<1> QED
  BY <1>1 DEF Verify

-----------------------------------------------------------------------------
(* Every step preserves every part of the invariant. *)

LEMMA DaemonTypedStep == SandboxInv /\ [Next]_vars => DaemonTyped'
<1> SUFFICES ASSUME SandboxInv, [Next]_vars PROVE DaemonTyped'
  OBVIOUS
<1> USE DEF SandboxInv
<1>1. ASSUME UNCHANGED <<protected, born, daemon>>, mark' \in {mark, born} PROVE DaemonTyped'
  BY <1>1 DEF DaemonTyped
<1>2. CASE PlanRound \/ Admit \/ AdmitUnread \/ Refuse \/ Work
  <2>1. mark' \in {mark, born}
    BY <1>2 DEF PlanRound, Admit, AdmitUnread, Refuse, Refused, Plan, Work, planVars
  <2> QED
    BY <1>1, <1>2, <2>1, PlanningKeeps
<1>3. CASE RivalAdmit \/ RivalRelease \/ Idle \/ UNCHANGED vars
  BY <1>1, <1>3, RivalsKeep
<1>4. ASSUME NEW a \in Agents, Provision(a) PROVE DaemonTyped'
  BY <1>1, <1>4, ProvisionKeeps
<1>5. ASSUME UNCHANGED <<protected, mark>>, Shrinks PROVE DaemonTyped'
  BY <1>5 DEF DaemonTyped, Shrinks
<1>6. ASSUME UNCHANGED <<protected, mark>>, NEW k, NEW s, Makes(k, s) PROVE DaemonTyped'
  BY <1>6 DEF DaemonTyped, Makes
<1>7. ASSUME NEW s \in Shards, AskDaemon(s) PROVE DaemonTyped'
  <2>1. UNCHANGED <<protected, mark>>
    BY <1>7, StartingKeeps
  <2>2. (UNCHANGED <<daemon, born>>) \/ Shrinks \/ Makes("worker", s)
    BY <1>7, AskDaemonDoes DEF AskAdopts, AskMakes, AskFails, AskLeaks, Leaks
  <2> QED
    BY <1>1, <1>5, <1>6, <2>1, <2>2
<1>8. ASSUME NEW s \in Shards, StartGateway(s) PROVE DaemonTyped'
  <2>1. UNCHANGED <<protected, mark>>
    BY <1>8, StartingKeeps
  <2>2. (UNCHANGED <<daemon, born>>) \/ Makes("gateway", s)
    BY <1>8, StartGatewayDoes DEF GatewayMakes, GatewayFails, GatewayLeaks, Leaks
  <2> QED
    BY <1>1, <1>6, <2>1, <2>2
<1>9. ASSUME NEW s \in Shards, Answer(s) PROVE DaemonTyped'
  BY <1>1, <1>9, AnswerDoes, StartingKeeps
<1>10. ASSUME NEW s \in Shards, Undo(s) PROVE DaemonTyped'
  BY <1>5, <1>10, UndoDoes, StartingKeeps
<1>11. ASSUME NEW s \in Shards, Dies(s) PROVE DaemonTyped'
  BY <1>5, <1>11, DiesShrinks, DiesKeeps
<1>12. CASE Release \/ Released
  BY <1>1, <1>12, ReleasingKeeps
<1>13. ASSUME NEW c \in owned, RemoveWorker(c) PROVE DaemonTyped'
  BY <1>5, <1>13, RemoveWorkerDoes, RemovingKeeps
<1>14. ASSUME NEW c \in owned, RemoveGateway(c) PROVE DaemonTyped'
  BY <1>5, <1>14, RemoveGatewayDoes, RemovingKeeps
<1>15. ASSUME NEW c \in owned, Verify(c) PROVE DaemonTyped'
  BY <1>1, <1>15, VerifyDoes, RemovingKeeps
<1>16. ASSUME NEW d \in Disposals, Dispose(d) \/ Cleanup(d) \/ StopNext(d) \/ DisposalDone(d)
       PROVE  DaemonTyped'
  BY <1>1, <1>16, DisposingKeeps
<1> QED
  BY <1>2, <1>3, <1>4, <1>7, <1>8, <1>9, <1>10, <1>11, <1>12, <1>13, <1>14, <1>15, <1>16
     DEF Next

LEMMA OwnedTypedStep == SandboxInv /\ [Next]_vars => OwnedTyped'
<1> SUFFICES ASSUME SandboxInv, [Next]_vars PROVE OwnedTyped'
  OBVIOUS
<1> USE DEF SandboxInv
<1>1. ASSUME UNCHANGED protected, owned' \subseteq owned, born' \in {born, born + 1}
      PROVE  OwnedTyped'
  BY <1>1 DEF OwnedTyped, DaemonTyped
<1>2. CASE \/ PlanRound \/ Admit \/ AdmitUnread \/ Refuse \/ Work
           \/ RivalAdmit \/ RivalRelease \/ Idle \/ UNCHANGED vars
           \/ Release \/ Released
  BY <1>1, <1>2, PlanningKeeps, RivalsKeep, ReleasingKeeps
<1>3. ASSUME NEW a \in Agents, Provision(a) PROVE OwnedTyped'
  BY <1>1, <1>3, ProvisionKeeps
<1>4. ASSUME NEW s \in Shards, AskDaemon(s) PROVE OwnedTyped'
  BY <1>1, <1>4, AskDaemonDoes, StartingKeeps DEF AskAdopts, AskMakes, AskFails,
     AskLeaks, Leaks, Makes, Shrinks
<1>5. ASSUME NEW s \in Shards, StartGateway(s) PROVE OwnedTyped'
  BY <1>1, <1>5, StartGatewayDoes, StartingKeeps DEF GatewayMakes, GatewayFails, GatewayLeaks,
     Leaks, Makes
<1>6. ASSUME NEW s \in Shards, Answer(s) PROVE OwnedTyped'
  <2>1. UNCHANGED <<protected, born>>
    BY <1>6, AnswerDoes, StartingKeeps
  <2>2. CASE UNCHANGED owned
    BY <1>1, <2>1, <2>2
  <2>3. ASSUME NEW id \in {Absent, daemon["worker"][s]}, Resolve(s, id) PROVE OwnedTyped'
    BY <2>1, <2>3, OwnDisplaces DEF Resolve, OwnedTyped
  <2> QED
    BY <1>6, <2>2, <2>3, AnswerDoes
<1>7. ASSUME NEW s \in Shards, Undo(s) PROVE OwnedTyped'
  BY <1>1, <1>7, UndoDoes, StartingKeeps DEF Shrinks
<1>8. ASSUME NEW s \in Shards, Dies(s) PROVE OwnedTyped'
  BY <1>1, <1>8, DiesKeeps
<1>9. ASSUME NEW c \in owned, RemoveWorker(c) \/ RemoveGateway(c) \/ Verify(c) PROVE OwnedTyped'
  BY <1>1, <1>9, RemovingKeeps, RemoveWorkerDoes, RemoveGatewayDoes, VerifyDoes
<1>10. ASSUME NEW d \in Disposals, Dispose(d) \/ Cleanup(d) \/ StopNext(d) \/ DisposalDone(d)
       PROVE  OwnedTyped'
  BY <1>1, <1>10, DisposingKeeps
<1> QED
  BY <1>2, <1>3, <1>4, <1>5, <1>6, <1>7, <1>8, <1>9, <1>10 DEF Next

LEMMA RoundTypedStep == SandboxInv /\ [Next]_vars => RoundTyped'
<1> SUFFICES ASSUME SandboxInv, [Next]_vars PROVE RoundTyped'
  OBVIOUS
<1> USE DEF SandboxInv
<1>1. ASSUME UNCHANGED phase, prov' = prov \/ prov' \in [Agents -> ProvStates] PROVE RoundTyped'
  BY <1>1 DEF RoundTyped
<1>2. ASSUME UNCHANGED prov, phase' \in Phases PROVE RoundTyped'
  BY <1>2 DEF RoundTyped
<1>3. CASE PlanRound \/ Refuse \/ Work \/ Release
  BY <1>2, <1>3 DEF PlanRound, Refuse, Refused, Work, Release, shardVars, Phases
<1>4. CASE Admit \/ AdmitUnread
  <2>1. CASE Plan
    BY <2>1 DEF Plan, RoundTyped, ProvStates, Phases
  <2>2. CASE Refused
    BY <1>2, <2>2 DEF Refused, shardVars, Phases
  <2> QED
    BY <1>4, <2>1, <2>2 DEF Admit, AdmitUnread
<1>5. CASE Released
  BY <1>5 DEF Released, RoundTyped, ProvStates, Phases
<1>6. CASE RivalAdmit \/ RivalRelease \/ Idle \/ UNCHANGED vars
  BY <1>1, <1>6, RivalsKeep
<1>7. ASSUME NEW a \in Agents, Provision(a) PROVE RoundTyped'
  BY <1>1, <1>7, ProvisionKeeps, ProvisionDoes
<1>8. ASSUME NEW s \in Shards, AskDaemon(s) \/ StartGateway(s) \/ Undo(s) \/ Answer(s)
      PROVE  RoundTyped'
  <2>1. UNCHANGED phase
    BY <1>8, StartingKeeps
  <2>2. CASE StartFails(s)
    BY <1>1, <2>1, <2>2, StartFailsDoes
  <2>3. ASSUME NEW stage, Advance(s, stage) PROVE RoundTyped'
    BY <1>1, <2>1, <2>3 DEF Advance
  <2>4. ASSUME NEW id, Resolve(s, id) PROVE RoundTyped'
    BY <1>1, <2>1, <2>4, ResolveDoes
  <2>5. CASE AskDaemon(s)
    BY <2>2, <2>3, <2>5, AskDaemonDoes DEF AskAdopts, AskMakes, AskFails, AskLeaks, Leaks
  <2>6. CASE StartGateway(s)
    BY <2>3, <2>6, StartGatewayDoes DEF GatewayMakes, GatewayFails, GatewayLeaks, Leaks
  <2>7. CASE Undo(s)
    BY <2>2, <2>7, UndoDoes
  <2>8. CASE Answer(s)
    BY <2>3, <2>4, <2>8, AnswerDoes
  <2> QED
    BY <1>8, <2>5, <2>6, <2>7, <2>8
<1>9. ASSUME NEW s \in Shards, Dies(s) PROVE RoundTyped'
  BY <1>1, <1>9, DiesKeeps
<1>10. ASSUME NEW c \in owned, RemoveWorker(c) \/ RemoveGateway(c) \/ Verify(c) PROVE RoundTyped'
  BY <1>1, <1>10, RemovingKeeps
<1>11. ASSUME NEW d \in Disposals, Dispose(d) \/ Cleanup(d) \/ StopNext(d) \/ DisposalDone(d)
       PROVE  RoundTyped'
  <2>1. UNCHANGED prov
    BY <1>11, DisposingKeeps
  <2>2. phase' \in {phase, "gone"}
    BY <1>11 DEF Dispose, Cleanup, StopNext, DisposalDone
  <2> QED
    BY <1>2, <2>1, <2>2 DEF RoundTyped, Phases
<1> QED
  BY <1>3, <1>4, <1>5, <1>6, <1>7, <1>8, <1>9, <1>10, <1>11 DEF Next

LEMMA DisposalsTypedStep == SandboxInv /\ [Next]_vars => DisposalsTyped'
<1> SUFFICES ASSUME SandboxInv, [Next]_vars PROVE DisposalsTyped'
  OBVIOUS
<1> USE DEF SandboxInv
<1>1. ASSUME UNCHANGED <<disposals, left, awaiting>> PROVE DisposalsTyped'
  BY <1>1 DEF DisposalsTyped
<1>2. CASE \/ PlanRound \/ Admit \/ AdmitUnread \/ Refuse \/ Work
           \/ RivalAdmit \/ RivalRelease \/ Idle \/ UNCHANGED vars
           \/ Release \/ Released
  BY <1>1, <1>2, PlanningKeeps, RivalsKeep, ReleasingKeeps
<1>3. ASSUME NEW a \in Agents, Provision(a) PROVE DisposalsTyped'
  BY <1>1, <1>3, ProvisionKeeps
<1>4. ASSUME NEW s \in Shards,
             AskDaemon(s) \/ StartGateway(s) \/ Undo(s) \/ Answer(s) \/ Dies(s)
      PROVE  DisposalsTyped'
  BY <1>1, <1>4, StartingKeeps, DiesKeeps
<1>5. ASSUME NEW c \in owned, RemoveWorker(c) \/ RemoveGateway(c) PROVE DisposalsTyped'
  BY <1>1, <1>5, RemovingKeeps, RemoveWorkerDoes, RemoveGatewayDoes
<1>6. ASSUME NEW c \in owned, Verify(c) PROVE DisposalsTyped'
  BY <1>6, RemovingKeeps, VerifyDoes DEF DisposalsTyped
<1>7. ASSUME NEW d \in Disposals, Dispose(d) \/ Cleanup(d) \/ StopNext(d) \/ DisposalDone(d)
      PROVE  DisposalsTyped'
  <2>1. disposals' \in [Disposals -> DisposalStates]
    BY <1>7 DEF Dispose, Cleanup, StopNext, DisposalDone, DisposalsTyped, DisposalStates, Disposals
  <2>2. DOMAIN left' = Disposals /\ DOMAIN awaiting' = Disposals
    BY <1>7 DEF Dispose, Cleanup, StopNext, DisposalDone, DisposalsTyped
  <2> QED
    BY <2>1, <2>2 DEF DisposalsTyped
<1> QED
  BY <1>2, <1>3, <1>4, <1>5, <1>6, <1>7 DEF Next

LEMMA NamesInvStep == SandboxInv /\ [Next]_vars => NamesInv'
<1> SUFFICES ASSUME SandboxInv, [Next]_vars PROVE NamesInv'
  OBVIOUS
<1> USE DEF SandboxInv
<1>1. ASSUME UNCHANGED protected, owned' \subseteq owned, daemon' = daemon \/ Shrinks
      PROVE  NamesInv'
  BY <1>1 DEF NamesInv, Shrinks, Kinds, Running, Absent
<1>2. CASE \/ PlanRound \/ Admit \/ AdmitUnread \/ Refuse \/ Work
           \/ RivalAdmit \/ RivalRelease \/ Idle \/ UNCHANGED vars
           \/ Release \/ Released
  BY <1>1, <1>2, PlanningKeeps, RivalsKeep, ReleasingKeeps
<1>3. ASSUME NEW a \in Agents, Provision(a) PROVE NamesInv'
  BY <1>1, <1>3, ProvisionKeeps
<1>4. ASSUME NEW s \in Shards, AskDaemon(s) PROVE NamesInv'
  <2>1. UNCHANGED <<protected, owned>>
    BY <1>4, StartingKeeps, AskDaemonDoes
  <2>2. CASE AskAdopts(s) \/ AskFails(s)
    BY <1>1, <2>1, <2>2 DEF AskAdopts, AskFails
  <2>3. CASE AskMakes(s) \/ AskLeaks(s)
    <3>1. \A t \in Shards : daemon["worker"][t] \in 0..born
      BY DEF DaemonTyped, Kinds
    <3>2. \A c \in owned : c.id \in 0..born
      BY DEF OwnedTyped
    <3>3. /\ daemon'["worker"][s] = born + 1 /\ born \in Nat
          /\ \A t \in Shards : t # s => daemon'["worker"][t] = daemon["worker"][t]
      BY <2>3 DEF AskMakes, AskLeaks, Leaks, Makes, Kinds, DaemonTyped
    <3>4. \A t, u \in Shards :
            daemon'["worker"][t] # Absent /\ daemon'["worker"][t] = daemon'["worker"][u] => t = u
      BY <3>1, <3>3 DEF NamesInv
    <3>5. \A c \in owned', t \in Shards :
            c.id # Absent /\ c.id = daemon'["worker"][t] => c.shard = t
      BY <2>1, <3>2, <3>3 DEF NamesInv
    <3>6. ASSUME ~protected', NEW t \in Shards PROVE ~Running("gateway", t)'
      BY <2>1, <2>3, <3>6 DEF AskMakes, AskLeaks, Leaks, Makes, NamesInv, Running,
         Kinds
    <3> QED
      BY <3>4, <3>5, <3>6 DEF NamesInv
  <2> QED
    BY <1>4, <2>2, <2>3, AskDaemonDoes
<1>5. ASSUME NEW s \in Shards, StartGateway(s) PROVE NamesInv'
  <2>1. UNCHANGED <<protected, owned>> /\ protected
    BY <1>5, StartingKeeps, StartGatewayDoes DEF StartsInv
  <2>2. daemon'["worker"] = daemon["worker"]
    BY <1>5, StartGatewayDoes DEF GatewayMakes, GatewayFails, GatewayLeaks, Leaks
  <2> QED
    BY <2>1, <2>2 DEF NamesInv
<1>6. ASSUME NEW s \in Shards, Answer(s) PROVE NamesInv'
  <2>1. UNCHANGED <<protected, daemon>>
    BY <1>6, StartingKeeps, AnswerDoes
  <2>2. CASE UNCHANGED owned
    BY <1>1, <2>1, <2>2
  <2>3. ASSUME NEW id \in {Absent, daemon["worker"][s]}, Resolve(s, id) PROVE NamesInv'
    <3> DEFINE c == Started(s, id)
    <3>1. owned' \subseteq owned \cup {c} /\ c.shard = s /\ c.id = id
      BY <2>3, OwnDisplaces DEF Resolve
    <3>2. \A t \in Shards : id # Absent /\ id = daemon["worker"][t] => t = s
      BY <2>3 DEF NamesInv
    <3> QED
      BY <2>1, <3>1, <3>2 DEF NamesInv, Running
  <2> QED
    BY <1>6, <2>2, <2>3, AnswerDoes
<1>7. ASSUME NEW s \in Shards, Undo(s) PROVE NamesInv'
  BY <1>1, <1>7, StartingKeeps, UndoDoes
<1>8. ASSUME NEW s \in Shards, Dies(s) PROVE NamesInv'
  BY <1>1, <1>8, DiesKeeps, DiesShrinks
<1>9. ASSUME NEW c \in owned, RemoveWorker(c) \/ RemoveGateway(c) \/ Verify(c) PROVE NamesInv'
  <2>1. UNCHANGED protected /\ owned' \subseteq owned
    BY <1>9, RemovingKeeps, RemoveWorkerDoes, RemoveGatewayDoes, VerifyDoes
  <2>2. daemon' = daemon \/ Shrinks
    BY <1>9, RemoveWorkerDoes, RemoveGatewayDoes, VerifyDoes
  <2> QED
    BY <1>1, <2>1, <2>2
<1>10. ASSUME NEW d \in Disposals, Dispose(d) \/ Cleanup(d) \/ StopNext(d) \/ DisposalDone(d)
       PROVE  NamesInv'
  BY <1>1, <1>10, DisposingKeeps
<1> QED
  BY <1>2, <1>3, <1>4, <1>5, <1>6, <1>7, <1>8, <1>9, <1>10 DEF Next

\* Of a shard that a step does not touch, what was owned stays owned.
LEMMA StaysOwned ==
    ASSUME DaemonTyped, OwnedInv, NEW s \in Shards,
           leaked \subseteq leaked',
           \A k \in Kinds : daemon'[k][s] \in {daemon[k][s], Absent},
           \A c \in owned : c \in owned' \/ c.shard # s,
           s \in gateways => s \in gateways',
           Untouched("worker", s)' => Untouched("worker", s),
           Untouched("gateway", s)' => Untouched("gateway", s) \/ daemon'["gateway"][s] = Absent
    PROVE  /\ Running("worker", s)' /\ Untouched("worker", s)' => WorkerOwned(s)'
           /\ Running("gateway", s)' /\ Untouched("gateway", s)' => GatewayOwned(s)'
<1>1. ASSUME Running("worker", s)', Untouched("worker", s)' PROVE WorkerOwned(s)'
  <2>1. daemon'["worker"][s] = daemon["worker"][s] /\ Running("worker", s)
    BY <1>1 DEF Running, Kinds
  <2>2. WorkerOwned(s)
    BY <1>1, <2>1 DEF OwnedInv
  <2> QED
    BY <2>1, <2>2 DEF WorkerOwned, OwnedInstance
<1>2. ASSUME Running("gateway", s)', Untouched("gateway", s)' PROVE GatewayOwned(s)'
  <2>1. daemon'["gateway"][s] = daemon["gateway"][s] /\ Running("gateway", s)
    BY <1>2 DEF Running, Kinds
  <2>2. GatewayOwned(s)
    BY <1>2, <2>1 DEF OwnedInv, Running
  <2> QED
    BY <2>1, <2>2 DEF GatewayOwned
<1> QED
  BY <1>1, <1>2

LEMMA OwnedInvStep == SandboxInv /\ [Next]_vars => OwnedInv'
<1> SUFFICES ASSUME SandboxInv, [Next]_vars PROVE OwnedInv'
  OBVIOUS
<1> USE DEF SandboxInv
<1>1. ASSUME UNCHANGED <<starts, gateways, owned>>, leaked \subseteq leaked',
             daemon' = daemon \/ Shrinks
      PROVE  OwnedInv'
  <2>1. ASSUME NEW s \in Shards
        PROVE  /\ Running("worker", s)' /\ Untouched("worker", s)' => WorkerOwned(s)'
               /\ Running("gateway", s)' /\ Untouched("gateway", s)' => GatewayOwned(s)'
    <3>1. \A k \in Kinds : daemon'[k][s] \in {daemon[k][s], Absent}
      BY <1>1 DEF Shrinks
    <3>2. \A k \in Kinds : Untouched(k, s)' <=> Untouched(k, s)
      BY <1>1 DEF Untouched
    <3> QED
      BY <1>1, <3>1, <3>2, StaysOwned DEF Kinds
  <2> QED
    BY <2>1 DEF OwnedInv
<1>2. CASE \/ PlanRound \/ Admit \/ AdmitUnread \/ Refuse \/ Work
           \/ RivalAdmit \/ RivalRelease \/ Idle \/ UNCHANGED vars
           \/ Release \/ Released
  BY <1>1, <1>2, PlanningKeeps, RivalsKeep, ReleasingKeeps
<1>3. ASSUME NEW a \in Agents, Provision(a) PROVE OwnedInv'
  <2>1. UNCHANGED <<daemon, gateways, owned, leaked>>
    BY <1>3, ProvisionKeeps
  <2>2. \A k \in Kinds, s \in Shards : Untouched(k, s)' => Untouched(k, s)
    BY <1>3, ProvisionDoes DEF Untouched
  <2> QED
    BY <2>1, <2>2, StaysOwned DEF OwnedInv, Kinds
<1>4. ASSUME NEW s \in Shards, UNCHANGED <<gateways, owned>>, leaked \subseteq leaked',
             \A k \in Kinds, t \in Shards : t # s => daemon'[k][t] = daemon[k][t],
             \A t \in Shards : t # s => (t \in DOMAIN starts' <=> t \in DOMAIN starts),
             \A t \in DOMAIN starts' : t # s => starts'[t] = starts[t],
             /\ Running("worker", s)' /\ Untouched("worker", s)' => WorkerOwned(s)'
             /\ Running("gateway", s)' /\ Untouched("gateway", s)' => GatewayOwned(s)'
      PROVE  OwnedInv'
  <2>1. ASSUME NEW t \in Shards, t # s
        PROVE  /\ Running("worker", t)' /\ Untouched("worker", t)' => WorkerOwned(t)'
               /\ Running("gateway", t)' /\ Untouched("gateway", t)' => GatewayOwned(t)'
    <3>1. \A k \in Kinds : Untouched(k, t)' <=> Untouched(k, t)
      BY <1>4, <2>1 DEF Untouched
    <3>2. \A k \in Kinds : daemon'[k][t] = daemon[k][t]
      BY <1>4, <2>1
    <3> QED
      BY <1>4, <3>1, <3>2, StaysOwned DEF Kinds
  <2> QED
    BY <1>4, <2>1 DEF OwnedInv
<1>5. ASSUME NEW s \in Shards, AskDaemon(s) PROVE OwnedInv'
  <2>1. /\ s \in DOMAIN starts /\ starts[s] = "asked" /\ UNCHANGED <<gateways, owned>>
        /\ Untouched("worker", s) /\ Untouched("gateway", s)
    BY <1>5, AskDaemonDoes DEF Untouched
  <2>2. CASE AskAdopts(s)
    <3>1. ~Untouched("worker", s)' /\ ~Untouched("gateway", s)'
      BY <2>1, <2>2, AdvanceDoes DEF AskAdopts, Untouched
    <3> QED
      BY <1>4, <2>1, <2>2, <3>1, AdvanceDoes DEF AskAdopts
  <2>3. CASE AskMakes(s)
    <3> DEFINE stage == IF protected THEN "gateway" ELSE "checking"
    <3>1. /\ DOMAIN starts' = DOMAIN starts /\ starts'[s] = stage
          /\ \A t \in DOMAIN starts : t # s => starts'[t] = starts[t]
      BY <2>1, <2>3, AdvanceDoes DEF AskMakes
    <3>2. ~Untouched("worker", s)'
      BY <2>1, <3>1 DEF Untouched
    <3>3. \A k \in Kinds, t \in Shards : t # s => daemon'[k][t] = daemon[k][t]
      BY <2>3 DEF AskMakes, Makes
    <3>4. daemon'["gateway"][s] \in {daemon["gateway"][s], Absent}
      BY <2>3 DEF AskMakes, Makes, Kinds
    <3>5. Running("gateway", s)' /\ Untouched("gateway", s)' => GatewayOwned(s)'
      BY <2>1, <2>3, <3>4 DEF OwnedInv, Running, GatewayOwned, AskMakes
    <3> QED
      BY <1>4, <2>1, <2>3, <3>1, <3>2, <3>3, <3>5 DEF AskMakes
  <2>4. CASE AskFails(s)
    <3>1. /\ DOMAIN starts' = DOMAIN starts \ {s}
          /\ \A t \in DOMAIN starts' : starts'[t] = starts[t]
      BY <2>4, StartFailsDoes DEF AskFails
    <3>2. \A k \in Kinds, t \in Shards : daemon'[k][t] \in {daemon[k][t], Absent}
      BY <2>4 DEF AskFails, Shrinks
    <3>3. \A k \in {"worker", "gateway"}, t \in Shards : Untouched(k, t)' => Untouched(k, t)
      BY <2>1, <3>1 DEF Untouched
    <3>4. ASSUME NEW t \in Shards
          PROVE  /\ Running("worker", t)' /\ Untouched("worker", t)' => WorkerOwned(t)'
                 /\ Running("gateway", t)' /\ Untouched("gateway", t)' => GatewayOwned(t)'
      BY <2>1, <2>4, <3>2, <3>3, StaysOwned DEF AskFails
    <3> QED
      BY <3>4 DEF OwnedInv
  <2>5. CASE AskLeaks(s)
    <3>1. /\ DOMAIN starts' = DOMAIN starts \ {s}
          /\ \A t \in DOMAIN starts' : starts'[t] = starts[t]
      BY <2>5, StartFailsDoes DEF AskLeaks
    <3>2. /\ daemon'["worker"][s] \in leaked' /\ daemon'["gateway"][s] = Absent
          /\ leaked \subseteq leaked'
          /\ \A k \in Kinds, t \in Shards : t # s => daemon'[k][t] = daemon[k][t]
      BY <2>5 DEF AskLeaks, Leaks, Makes
    <3> QED
      BY <1>4, <2>1, <3>1, <3>2 DEF WorkerOwned, Running
  <2> QED
    BY <1>5, <2>2, <2>3, <2>4, <2>5, AskDaemonDoes
<1>6. ASSUME NEW s \in Shards, StartGateway(s) PROVE OwnedInv'
  <2>1. /\ s \in DOMAIN starts /\ starts[s] = "gateway" /\ UNCHANGED <<gateways, owned>>
        /\ Untouched("gateway", s)
    BY <1>6, StartGatewayDoes DEF Untouched
  <2>2. CASE GatewayMakes(s)
    <3>1. /\ DOMAIN starts' = DOMAIN starts /\ starts'[s] = "checking"
          /\ \A t \in DOMAIN starts : t # s => starts'[t] = starts[t]
      BY <2>1, <2>2, AdvanceDoes DEF GatewayMakes
    <3>2. ~Untouched("worker", s)' /\ ~Untouched("gateway", s)'
      BY <2>1, <3>1 DEF Untouched
    <3>3. \A k \in Kinds, t \in Shards : t # s => daemon'[k][t] = daemon[k][t]
      BY <2>2 DEF GatewayMakes, Makes
    <3> QED
      BY <1>4, <2>1, <2>2, <3>1, <3>2, <3>3 DEF GatewayMakes
  <2>3. CASE GatewayFails(s)
    <3>1. /\ DOMAIN starts' = DOMAIN starts /\ starts'[s] = "undo" /\ daemon' = daemon
          /\ \A t \in DOMAIN starts : t # s => starts'[t] = starts[t]
      BY <2>1, <2>3, AdvanceDoes DEF GatewayFails
    <3>2. ~Untouched("worker", s)'
      BY <2>1, <3>1 DEF Untouched
    <3>3. Running("gateway", s)' => GatewayOwned(s)'
      BY <2>1, <2>3, <3>1 DEF OwnedInv, Running, GatewayOwned, GatewayFails
    <3> QED
      BY <1>4, <2>1, <2>3, <3>1, <3>2, <3>3 DEF GatewayFails
  <2>4. CASE GatewayLeaks(s)
    <3>1. /\ DOMAIN starts' = DOMAIN starts /\ starts'[s] = "undo"
          /\ \A t \in DOMAIN starts : t # s => starts'[t] = starts[t]
      BY <2>1, <2>4, AdvanceDoes DEF GatewayLeaks
    <3>2. ~Untouched("worker", s)'
      BY <2>1, <3>1 DEF Untouched
    <3>3. /\ daemon'["gateway"][s] \in leaked' /\ leaked \subseteq leaked'
          /\ \A k \in Kinds, t \in Shards : t # s => daemon'[k][t] = daemon[k][t]
      BY <2>4 DEF GatewayLeaks, Leaks, Makes
    <3> QED
      BY <1>4, <2>1, <3>1, <3>2, <3>3 DEF GatewayOwned
  <2> QED
    BY <1>6, <2>2, <2>3, <2>4, StartGatewayDoes
<1>7. ASSUME NEW s \in Shards, Undo(s) PROVE OwnedInv'
  <2>1. /\ s \in DOMAIN starts /\ leaked \subseteq leaked' /\ UNCHANGED <<gateways, owned>>
        /\ \A k \in Kinds, t \in Shards : t # s => daemon'[k][t] = daemon[k][t]
    BY <1>7, UndoDoes
  <2>2. DOMAIN starts' = DOMAIN starts \ {s} /\ \A t \in DOMAIN starts' : starts'[t] = starts[t]
    BY <1>7, UndoDoes, StartFailsDoes
  <2>3. Running("worker", s)' => WorkerOwned(s)'
    BY <1>7, UndoDoes DEF Running, WorkerOwned
  <2>4. ASSUME Running("gateway", s)' PROVE GatewayOwned(s)'
    <3>1. CASE daemon'["gateway"][s] \in leaked'
      BY <3>1 DEF GatewayOwned
    <3>2. CASE starts[s] = "undo" /\ daemon'["gateway"][s] = daemon["gateway"][s]
      <4>1. Untouched("gateway", s) /\ Running("gateway", s)
        BY <2>4, <3>2 DEF Untouched, Running
      <4> QED
        BY <2>1, <3>2, <4>1 DEF OwnedInv, GatewayOwned
    <3> QED
      BY <1>7, <2>4, <3>1, <3>2, UndoDoes DEF Running
  <2> QED
    BY <1>4, <2>1, <2>2, <2>3, <2>4
<1>8. ASSUME NEW s \in Shards, Answer(s) PROVE OwnedInv'
  <2>1. /\ s \in DOMAIN starts /\ starts[s] = "checking"
        /\ UNCHANGED <<daemon, born, leaked, protected>>
    BY <1>8, AnswerDoes, StartingKeeps
  <2>2. CASE /\ Advance(s, IF protected THEN "undo both" ELSE "undo")
             /\ UNCHANGED <<gateways, owned>>
    <3>1. /\ DOMAIN starts' = DOMAIN starts
          /\ starts'[s] = IF protected THEN "undo both" ELSE "undo"
          /\ \A t \in DOMAIN starts : t # s => starts'[t] = starts[t]
      BY <2>1, <2>2, AdvanceDoes
    <3>2. ~Untouched("worker", s)'
      BY <2>1, <3>1 DEF Untouched
    <3>3. ~Untouched("gateway", s)' \/ ~Running("gateway", s)'
      <4>1. CASE protected
        BY <2>1, <3>1, <4>1 DEF Untouched
      <4>2. CASE ~protected
        BY <2>1, <4>2 DEF NamesInv, Running
      <4> QED
        BY <4>1, <4>2
    <3> QED
      BY <1>4, <2>1, <2>2, <3>1, <3>2, <3>3
  <2>3. ASSUME NEW id \in {Absent, daemon["worker"][s]}, Resolve(s, id) PROVE OwnedInv'
    <3> DEFINE c == Started(s, id)
    <3>1. /\ c \in owned' /\ c.shard = s /\ c.id = id /\ c.gateway = protected
          /\ \A d \in owned : d \in owned' \/ d.shard = s
      BY <2>3, OwnDisplaces DEF Resolve
    <3>2. /\ gateways' = IF protected THEN gateways \cup {s} ELSE gateways
          /\ DOMAIN starts' = DOMAIN starts \ {s}
          /\ \A t \in DOMAIN starts' : starts'[t] = starts[t]
      BY <2>3, ResolveDoes
    <3>3. WorkerOwned(s)'
      BY <2>1, <2>3, <3>1 DEF WorkerOwned, OwnedInstance
    <3>4. Running("gateway", s)' => GatewayOwned(s)'
      <4>1. CASE protected
        BY <3>1, <3>2, <4>1 DEF GatewayOwned
      <4>2. CASE ~protected
        BY <2>1, <4>2 DEF NamesInv, Running
      <4> QED
        BY <4>1, <4>2
    <3>5. ASSUME NEW t \in Shards, t # s
          PROVE  /\ Running("worker", t)' /\ Untouched("worker", t)' => WorkerOwned(t)'
                 /\ Running("gateway", t)' /\ Untouched("gateway", t)' => GatewayOwned(t)'
      <4>1. \A k \in Kinds : Untouched(k, t)' <=> Untouched(k, t)
        BY <3>2, <3>5 DEF Untouched
      <4>2. \A k \in Kinds : daemon'[k][t] = daemon[k][t]
        BY <2>1
      <4>3. \A d \in owned : d \in owned' \/ d.shard # t
        BY <3>1, <3>5
      <4>4. t \in gateways => t \in gateways'
        BY <3>2
      <4> QED
        BY <2>1, <4>1, <4>2, <4>3, <4>4, StaysOwned DEF Kinds
    <3> QED
      BY <3>3, <3>4, <3>5 DEF OwnedInv
  <2> QED
    BY <1>8, <2>2, <2>3, AnswerDoes
<1>9. ASSUME NEW s \in Shards, Dies(s) PROVE OwnedInv'
  BY <1>1, <1>9, DiesKeeps, DiesShrinks
<1>10. ASSUME NEW c \in owned, RemoveWorker(c) PROVE OwnedInv'
  BY <1>1, <1>10, RemovingKeeps, RemoveWorkerDoes
<1>11. ASSUME NEW c \in owned, RemoveGateway(c) PROVE OwnedInv'
  <2>1. /\ UNCHANGED <<starts, owned>> /\ Shrinks /\ leaked \subseteq leaked'
        /\ gateways' = gateways \ {c.shard}
        /\ IF c.shard \in gateways THEN GatewayTried(c.shard)' ELSE daemon' = daemon
    BY <1>11, RemovingKeeps, RemoveGatewayDoes
  <2>2. CASE c.shard \notin gateways
    <3>1. UNCHANGED gateways
      BY <2>1, <2>2
    <3> QED
      BY <1>1, <2>1, <3>1
  <2>3. CASE c.shard \in gateways
    <3>1. ASSUME NEW s \in Shards, Running("worker", s)', Untouched("worker", s)'
          PROVE  WorkerOwned(s)'
      <4>1. daemon'["worker"][s] = daemon["worker"][s] /\ Running("worker", s)
        BY <2>1, <3>1 DEF Shrinks, Running, Kinds
      <4>2. Untouched("worker", s)
        BY <2>1, <3>1 DEF Untouched
      <4> QED
        BY <2>1, <4>1, <4>2 DEF OwnedInv, WorkerOwned, OwnedInstance
    <3>2. ASSUME NEW s \in Shards, Running("gateway", s)', Untouched("gateway", s)'
          PROVE  GatewayOwned(s)'
      <4>1. CASE s = c.shard
        BY <2>1, <2>3, <3>2, <4>1 DEF GatewayTried, GatewayOwned
      <4>2. CASE s # c.shard
        <5>1. daemon'["gateway"][s] = daemon["gateway"][s] /\ Running("gateway", s)
          BY <2>1, <3>2 DEF Shrinks, Running, Kinds
        <5>2. Untouched("gateway", s)
          BY <2>1, <3>2 DEF Untouched
        <5> QED
          BY <2>1, <4>2, <5>1, <5>2 DEF OwnedInv, GatewayOwned
      <4> QED
        BY <4>1, <4>2
    <3> QED
      BY <3>1, <3>2 DEF OwnedInv
  <2> QED
    BY <2>2, <2>3
<1>12. ASSUME NEW c \in owned, Verify(c) PROVE OwnedInv'
  <2>1. /\ UNCHANGED <<starts, daemon, gateways, leaked>>
        /\ owned' = owned \/ (owned' = owned \ {c} /\ Gone(c))
    BY <1>12, RemovingKeeps, VerifyDoes
  <2>2. CASE owned' = owned
    BY <1>1, <2>1, <2>2
  <2>3. CASE owned' = owned \ {c} /\ Gone(c)
    <3>1. ASSUME NEW s \in Shards, Running("worker", s), Untouched("worker", s)
          PROVE  WorkerOwned(s)'
      <4>1. WorkerOwned(s)
        BY <3>1 DEF OwnedInv
      <4>2. ASSUME OwnedInstance(s) PROVE OwnedInstance(s)'
        <5>1. PICK e \in owned : e.shard = s /\ e.id \in {Absent, daemon["worker"][s]}
          BY <4>2 DEF OwnedInstance
        <5>2. e # c
          BY <2>3, <3>1, <5>1 DEF Gone, Running, Absent
        <5> QED
          BY <2>1, <2>3, <5>1, <5>2 DEF OwnedInstance
      <4> QED
        BY <2>1, <4>1, <4>2 DEF WorkerOwned
    <3>2. ASSUME NEW s \in Shards, Running("gateway", s), Untouched("gateway", s)
          PROVE  GatewayOwned(s)'
      <4>1. GatewayOwned(s)
        BY <3>2 DEF OwnedInv
      <4>2. \A e \in owned : e.shard = s /\ e.gateway => e \in owned'
        BY <2>3, <3>2 DEF Gone
      <4> QED
        BY <2>1, <4>1, <4>2 DEF GatewayOwned
    <3> QED
      BY <2>1, <3>1, <3>2 DEF OwnedInv, Running, Untouched
  <2> QED
    BY <2>1, <2>2, <2>3
<1>13. ASSUME NEW d \in Disposals, Dispose(d) \/ Cleanup(d) \/ StopNext(d) \/ DisposalDone(d)
       PROVE  OwnedInv'
  BY <1>1, <1>13, DisposingKeeps
<1> QED
  BY <1>2, <1>3, <1>5, <1>6, <1>7, <1>8, <1>9, <1>10, <1>11, <1>12, <1>13 DEF Next

LEMMA PlanInvStep == SandboxInv /\ [Next]_vars => PlanInv'
<1> SUFFICES ASSUME SandboxInv, [Next]_vars PROVE PlanInv'
  OBVIOUS
<1> USE DEF SandboxInv
<1>2. CASE PlanRound
  BY <1>2, PlanningKeeps DEF PlanRound, PlanInv, shardVars, InRound
<1>3. CASE Admit \/ AdmitUnread
  <2>1. phase = "admitting" /\ (Refused \/ (Plan /\ (Admit \/ AdmitUnread)))
    BY <1>3 DEF Admit, AdmitUnread
  <2>2. CASE Refused
    BY <2>1, <2>2 DEF Refused, PlanInv, shardVars, InRound
  <2>3. CASE Plan
    <3>1. roster \in Rosters
      BY <2>1 DEF PlanInv
    <3>2. /\ plan' = PlanShards(roster, MaxContainers) /\ phase' = "provisioning"
          /\ UNCHANGED <<protected, roster>> /\ (protected => Len(roster) <= MaxContainers)
          /\ prov' = [a \in Agents |-> IF a \in ToSet(roster) THEN "waiting" ELSE "out"]
      BY <2>3 DEF Plan, MayPlan
    <3>3. /\ DOMAIN plan' \subseteq Shards /\ \A s \in DOMAIN plan' : plan'[s] \subseteq Agents
          /\ \A a \in ToSet(roster) : \E s \in DOMAIN plan' : a \in plan'[s]
          /\ \A s, t \in DOMAIN plan' : \A a \in plan'[s] \cap plan'[t] : s = t
          /\ protected' => \A s \in DOMAIN plan' : \A a, b \in plan'[s] : a = b
      BY <3>1, <3>2, PlanShardsPartitions
    <3>4. \A a \in Agents : prov'[a] # "out" => \E s \in DOMAIN plan' : a \in plan'[s]
      BY <3>2, <3>3
    <3> QED
      BY <3>2, <3>3, <3>4 DEF PlanInv, InRound
  <2> QED
    BY <2>1, <2>2, <2>3
<1>4. CASE Refuse
  BY <1>4 DEF Refuse, Refused, PlanInv, shardVars, InRound
<1>5. CASE Work \/ Release
  <2>1. /\ UNCHANGED <<protected, plan, prov, containers>> /\ phase \in InRound
        /\ phase' \in {"working", "releasing"}
    BY <1>5 DEF Work, Release, planVars, shardVars, InRound
  <2> QED
    BY <2>1 DEF PlanInv, InRound
<1>6. CASE Released
  BY <1>6 DEF Released, PlanInv, InRound
<1>7. CASE RivalAdmit \/ RivalRelease \/ Idle \/ UNCHANGED vars
  BY <1>7, RivalsKeep DEF PlanInv
<1>8. ASSUME NEW a \in Agents, Provision(a) PROVE PlanInv'
  <2>1. /\ UNCHANGED <<protected, plan, phase, roster, containers>>
        /\ \A b \in Agents : b # a => prov'[b] = prov[b]
        /\ prov[a] = "waiting"
    BY <1>8, ProvisionKeeps, ProvisionDoes DEF RoundTyped
  <2>2. \A b \in Agents : prov'[b] # "out" => prov[b] # "out"
    BY <2>1
  <2> QED
    BY <2>1, <2>2 DEF PlanInv
<1>9. ASSUME UNCHANGED <<protected, plan, phase, roster>>, phase = "provisioning",
             \A a \in Agents : prov'[a] # "out" => prov[a] # "out"
      PROVE  PlanInv'
  BY <1>9 DEF PlanInv, InRound
<1>10. ASSUME NEW s \in Shards, AskDaemon(s) \/ StartGateway(s) \/ Undo(s) \/ Answer(s)
       PROVE  PlanInv'
  <2>1. UNCHANGED <<protected, plan, phase, roster>>
    BY <1>10, StartingKeeps
  <2>2. phase = "provisioning"
    BY <1>10, AskDaemonDoes, StartGatewayDoes, UndoDoes, AnswerDoes DEF StartsInv
  <2>3. CASE StartFails(s)
    BY <1>9, <2>1, <2>2, <2>3, StartFailsDoes
  <2>4. ASSUME NEW stage, Advance(s, stage) PROVE PlanInv'
    BY <1>9, <2>1, <2>2, <2>4 DEF Advance
  <2>5. ASSUME NEW id, Resolve(s, id) PROVE PlanInv'
    BY <1>9, <2>1, <2>2, <2>5, ResolveDoes
  <2>6. CASE AskDaemon(s)
    BY <2>3, <2>4, <2>6, AskDaemonDoes DEF AskAdopts, AskMakes, AskFails, AskLeaks, Leaks
  <2>7. CASE StartGateway(s)
    BY <2>4, <2>7, StartGatewayDoes DEF GatewayMakes, GatewayFails, GatewayLeaks, Leaks
  <2>8. CASE Undo(s)
    BY <2>3, <2>8, UndoDoes
  <2>9. CASE Answer(s)
    BY <2>4, <2>5, <2>9, AnswerDoes
  <2> QED
    BY <1>10, <2>6, <2>7, <2>8, <2>9
<1>11. ASSUME NEW s \in Shards, Dies(s) PROVE PlanInv'
  BY <1>11, DiesKeeps DEF PlanInv
<1>12. ASSUME NEW c \in owned, RemoveWorker(c) \/ RemoveGateway(c) \/ Verify(c) PROVE PlanInv'
  BY <1>12, RemovingKeeps DEF PlanInv
<1>13. ASSUME NEW d \in Disposals, Dispose(d) \/ Cleanup(d) \/ StopNext(d) \/ DisposalDone(d)
       PROVE  PlanInv'
  <2>1. UNCHANGED <<protected, roster, plan, prov, containers>>
    BY <1>13, DisposingKeeps
  <2>2. CASE phase' = phase
    BY <2>1, <2>2 DEF PlanInv
  <2>3. CASE DisposalDone(d) /\ phase' = "gone"
    <3>1. phase \notin InRound
      BY <2>3 DEF DisposalDone, QuietInv, Disposed, InRound
    <3> QED
      BY <2>1, <2>3, <3>1 DEF PlanInv, InRound
  <2> QED
    BY <1>13, <2>2, <2>3 DEF Dispose, Cleanup, StopNext, DisposalDone
<1> QED
  BY <1>2, <1>3, <1>4, <1>5, <1>6, <1>7, <1>8, <1>10, <1>11, <1>12, <1>13 DEF Next

LEMMA StartsInvStep == SandboxInv /\ [Next]_vars => StartsInv'
<1> SUFFICES ASSUME SandboxInv, [Next]_vars PROVE StartsInv'
  OBVIOUS
<1> USE DEF SandboxInv
<1>1. CASE DOMAIN starts' = {}
  BY <1>1 DEF StartsInv
<1>2. CASE PlanRound \/ Admit \/ AdmitUnread \/ Refuse \/ Release \/ Released
  <2>1. phase # "provisioning" /\ UNCHANGED starts
    BY <1>2, PlanningKeeps, ReleasingKeeps
       DEF PlanRound, Admit, AdmitUnread, Refuse, Release, Released
  <2> QED
    BY <1>1, <2>1 DEF StartsInv
<1>3. CASE Work
  <2>1. UNCHANGED starts /\ \A a \in Agents : prov[a] # "starting"
    BY <1>3, PlanningKeeps DEF Work
  <2>2. DOMAIN starts = {}
    BY <2>1 DEF StartsInv
  <2> QED
    BY <1>1, <2>1, <2>2
<1>4. ASSUME UNCHANGED <<protected, plan, prov, starts, phase>> PROVE StartsInv'
  BY <1>4 DEF StartsInv
<1>5. CASE RivalAdmit \/ RivalRelease \/ Idle \/ UNCHANGED vars
  BY <1>4, <1>5, RivalsKeep
<1>6. ASSUME NEW a \in Agents, Provision(a) PROVE StartsInv'
  <2>1. UNCHANGED <<protected, plan, phase>> /\ phase = "provisioning" /\ prov[a] = "waiting"
    BY <1>6, ProvisionKeeps, ProvisionDoes
  <2>2. \A b \in Agents : b # a => prov'[b] = prov[b]
    BY <1>6, ProvisionDoes DEF RoundTyped
  <2>3. ASSUME NEW t \in DOMAIN starts
        PROVE  t \in DOMAIN plan /\ \E b \in plan[t] \cap Agents : prov'[b] = "starting"
    <3>1. PICK b \in plan[t] \cap Agents : prov[b] = "starting"
      BY DEF StartsInv
    <3>2. prov'[b] = "starting"
      BY <2>1, <2>2, <3>1
    <3> QED
      BY <3>1, <3>2 DEF StartsInv
  <2>4. PICK s \in DOMAIN plan \cap Shards :
          /\ a \in plan[s]
          /\ \/ UNCHANGED starts
             \/ /\ prov' = [prov EXCEPT ![a] = "starting"]
                /\ DOMAIN starts' = DOMAIN starts \cup {s}
                /\ \A t \in DOMAIN starts' : starts'[t] = IF t \in DOMAIN starts THEN starts[t]
                                                          ELSE "asked"
    BY <1>6, ProvisionDoes
  <2>5. CASE UNCHANGED starts
    BY <2>1, <2>3, <2>5 DEF StartsInv
  <2>6. CASE /\ prov' = [prov EXCEPT ![a] = "starting"]
             /\ DOMAIN starts' = DOMAIN starts \cup {s}
             /\ \A t \in DOMAIN starts' : starts'[t] = IF t \in DOMAIN starts THEN starts[t]
                                                       ELSE "asked"
    <3>1. prov'[a] = "starting"
      BY <2>6 DEF RoundTyped
    <3>2. \A t \in DOMAIN starts' : starts'[t] \in {"gateway", "undo both"} => protected
      BY <2>6 DEF StartsInv
    <3>3. \A t \in DOMAIN starts' :
            t \in DOMAIN plan /\ \E b \in plan[t] \cap Agents : prov'[b] = "starting"
      BY <2>3, <2>4, <2>6, <3>1
    <3> QED
      BY <2>1, <3>2, <3>3 DEF StartsInv
  <2> QED
    BY <2>4, <2>5, <2>6
<1>7. ASSUME NEW s \in Shards, AskDaemon(s) \/ StartGateway(s) \/ Undo(s) \/ Answer(s)
      PROVE  StartsInv'
  <2>1. /\ UNCHANGED <<protected, plan, phase>> /\ s \in DOMAIN starts
        /\ phase = "provisioning"
    BY <1>7, StartingKeeps, AskDaemonDoes, StartGatewayDoes, UndoDoes, AnswerDoes DEF StartsInv
  <2>2. ASSUME NEW stage, Advance(s, stage), stage \in {"gateway", "undo both"} => protected
        PROVE  StartsInv'
    BY <2>1, <2>2, AdvanceDoes DEF StartsInv
  <2>3. ASSUME DOMAIN starts' = DOMAIN starts \ {s},
               \A t \in DOMAIN starts' : starts'[t] = starts[t],
               \A a \in Agents : a \notin plan[s] => prov'[a] = prov[a]
        PROVE  StartsInv'
    <3>1. ASSUME NEW t \in DOMAIN starts'
          PROVE  \E b \in plan'[t] \cap Agents : prov'[b] = "starting"
      <4>1. t \in DOMAIN plan /\ s \in DOMAIN plan /\ t # s
        BY <2>1, <2>3 DEF StartsInv
      <4>2. PICK b \in plan[t] \cap Agents : prov[b] = "starting"
        BY <2>3 DEF StartsInv
      <4>3. b \notin plan[s]
        BY <4>1, <4>2 DEF PlanInv
      <4> QED
        BY <2>1, <2>3, <4>2, <4>3
    <3> QED
      BY <2>1, <2>3, <3>1 DEF StartsInv
  <2>4. CASE StartFails(s)
    BY <2>3, <2>4, StartFailsDoes
  <2>5. ASSUME NEW id, Resolve(s, id) PROVE StartsInv'
    BY <2>3, <2>5, ResolveDoes
  <2>6. CASE AskDaemon(s)
    <3>1. CASE AskMakes(s)
      BY <2>2, <3>1 DEF AskMakes
    <3>2. CASE AskAdopts(s)
      BY <2>2, <3>2 DEF AskAdopts
    <3> QED
      BY <2>4, <2>6, <3>1, <3>2, AskDaemonDoes DEF AskFails, AskLeaks
  <2>7. CASE StartGateway(s)
    BY <2>2, <2>7, StartGatewayDoes DEF GatewayMakes, GatewayFails, GatewayLeaks, Leaks
  <2>8. CASE Undo(s)
    BY <2>4, <2>8, UndoDoes
  <2>9. CASE Answer(s)
    BY <2>2, <2>5, <2>9, AnswerDoes
  <2> QED
    BY <1>7, <2>6, <2>7, <2>8, <2>9
<1>8. ASSUME NEW s \in Shards, Dies(s) PROVE StartsInv'
  BY <1>4, <1>8, DiesKeeps
<1>9. ASSUME NEW c \in owned, RemoveWorker(c) \/ RemoveGateway(c) \/ Verify(c) PROVE StartsInv'
  BY <1>4, <1>9, RemovingKeeps
<1>10. ASSUME NEW d \in Disposals, Dispose(d) \/ Cleanup(d) \/ StopNext(d) \/ DisposalDone(d)
       PROVE  StartsInv'
  <2>1. UNCHANGED <<protected, plan, prov, starts>>
    BY <1>10, DisposingKeeps
  <2>2. CASE phase' = phase
    BY <1>4, <2>1, <2>2
  <2>3. CASE DisposalDone(d)
    <3>1. phase # "provisioning"
      BY <2>3 DEF DisposalDone, QuietInv, Disposed
    <3> QED
      BY <1>1, <2>1, <3>1 DEF StartsInv
  <2> QED
    BY <1>10, <2>2, <2>3 DEF Dispose, Cleanup, StopNext
<1> QED
  BY <1>2, <1>3, <1>5, <1>6, <1>7, <1>8, <1>9, <1>10 DEF Next

LEMMA QuietInvStep == SandboxInv /\ [Next]_vars => QuietInv'
<1> SUFFICES ASSUME SandboxInv, [Next]_vars PROVE QuietInv'
  OBVIOUS
<1> USE DEF SandboxInv
<1>1. ASSUME UNCHANGED <<disposals, phase>>, DOMAIN stops' \subseteq DOMAIN stops PROVE QuietInv'
  BY <1>1 DEF QuietInv, Disposed
<1>2. ASSUME ~Disposed, UNCHANGED <<disposals, stops>>, phase # "releasing" \/ stops = <<>>
      PROVE  QuietInv'
  BY <1>2 DEF QuietInv, Disposed
<1>3. CASE PlanRound \/ Admit \/ AdmitUnread \/ Refuse \/ Work
  <2>1. phase # "releasing" /\ ~Disposed
    BY <1>3 DEF PlanRound, Admit, AdmitUnread, Refuse, Work, QuietInv
  <2> QED
    BY <1>2, <1>3, <2>1, PlanningKeeps
<1>4. CASE RivalAdmit \/ RivalRelease \/ Idle \/ UNCHANGED vars
  BY <1>1, <1>4, RivalsKeep
<1>5. ASSUME NEW a \in Agents, Provision(a) PROVE QuietInv'
  BY <1>1, <1>5, ProvisionKeeps
<1>6. ASSUME NEW s \in Shards,
             AskDaemon(s) \/ StartGateway(s) \/ Undo(s) \/ Answer(s) \/ Dies(s)
      PROVE  QuietInv'
  BY <1>1, <1>6, StartingKeeps, DiesKeeps
<1>7. CASE Release
  <2>1. ~Disposed /\ phase' = "releasing" /\ UNCHANGED disposals
    BY <1>7 DEF Release, QuietInv
  <2> QED
    BY <2>1 DEF QuietInv, Disposed
<1>8. CASE Released
  <2>1. ~Disposed /\ stops = <<>> /\ UNCHANGED <<disposals, stops>>
    BY <1>8 DEF Released, QuietInv
  <2> QED
    BY <1>2, <2>1
<1>9. ASSUME NEW c \in owned, RemoveWorker(c) \/ RemoveGateway(c) \/ Verify(c) PROVE QuietInv'
  <2>1. UNCHANGED <<disposals, phase>>
    BY <1>9, RemovingKeeps
  <2>2. DOMAIN stops' \subseteq DOMAIN stops
    BY <1>9, RemoveWorkerDoes, RemoveGatewayDoes, VerifyDoes
  <2> QED
    BY <1>1, <2>1, <2>2
<1>10. ASSUME NEW d \in Disposals, Dispose(d) \/ Cleanup(d) \/ StopNext(d) \/ DisposalDone(d)
       PROVE  QuietInv'
  <2>1. CASE Dispose(d)
    <3>1. disposals'[d] = "waiting" /\ disposals'["engine"] # "none"
      BY <2>1 DEF Dispose, DisposalsTyped, Disposals
    <3> QED
      BY <2>1, <3>1 DEF Dispose, QuietInv, Disposed
  <2>2. CASE Cleanup(d)
    <3>1. Disposed /\ disposals'[d] = "running" /\ UNCHANGED phase
      BY <2>2 DEF Cleanup, Disposed, DisposalsTyped
    <3>2. disposals'["engine"] # "none"
      BY <2>2 DEF Cleanup, DisposalsTyped, Disposals
    <3> QED
      BY <3>1, <3>2 DEF QuietInv, Disposed
  <2>3. CASE StopNext(d)
    <3>1. Disposed /\ UNCHANGED <<disposals, phase>>
      BY <2>3 DEF StopNext, Disposed
    <3> QED
      BY <3>1 DEF QuietInv, Disposed
  <2>4. CASE DisposalDone(d)
    <3>1. Disposed /\ disposals'[d] = "done" /\ phase' \in {phase, "gone"}
      BY <2>4 DEF DisposalDone, Disposed, DisposalsTyped
    <3>2. disposals'["engine"] # "none"
      BY <2>4, <3>1 DEF DisposalDone, DisposalsTyped, Disposals, QuietInv
    <3> QED
      BY <3>1, <3>2 DEF QuietInv, Disposed
  <2> QED
    BY <1>10, <2>1, <2>2, <2>3, <2>4
<1> QED
  BY <1>3, <1>4, <1>5, <1>6, <1>7, <1>8, <1>9, <1>10 DEF Next

LEMMA TriedKept ==
    ASSUME daemon' = daemon \/ Shrinks, leaked \subseteq leaked', resisted \subseteq resisted',
           NEW s \in Shards
    PROVE  /\ WorkerTried(s) => WorkerTried(s)'
           /\ GatewayTried(s) => GatewayTried(s)'
  BY DEF WorkerTried, GatewayTried, Running, Shrinks, Kinds

LEMMA DisposalInvStep == SandboxInv /\ [Next]_vars => DisposalInv'
<1> SUFFICES ASSUME SandboxInv, [Next]_vars PROVE DisposalInv'
  OBVIOUS
<1> USE DEF SandboxInv
<1>1. ASSUME ~Disposed, UNCHANGED disposals PROVE DisposalInv'
  BY <1>1 DEF DisposalInv, Disposed
<1>2. CASE PlanRound \/ Admit \/ AdmitUnread \/ Refuse \/ Work \/ Release \/ Released
  <2>1. ~Disposed
    BY <1>2 DEF PlanRound, Admit, AdmitUnread, Refuse, Work, Release, Released, QuietInv
  <2> QED
    BY <1>1, <1>2, <2>1, PlanningKeeps, ReleasingKeeps
<1>3. CASE RivalAdmit \/ RivalRelease \/ Idle \/ UNCHANGED vars
  BY <1>3, RivalsKeep DEF DisposalInv, Disposed, WorkerTried, GatewayTried, Running
<1>4. ASSUME NEW a \in Agents, Provision(a) PROVE DisposalInv'
  <2>1. ~Disposed
    BY <1>4, ProvisionDoes DEF QuietInv
  <2> QED
    BY <1>1, <1>4, <2>1, ProvisionKeeps
<1>5. ASSUME NEW s \in Shards, AskDaemon(s) \/ StartGateway(s) \/ Undo(s) \/ Answer(s)
      PROVE  DisposalInv'
  <2>1. s \in DOMAIN starts
    BY <1>5, AskDaemonDoes, StartGatewayDoes, UndoDoes, AnswerDoes
  <2>2. ~Disposed
    BY <2>1 DEF StartsInv, QuietInv
  <2> QED
    BY <1>1, <1>5, <2>2, StartingKeeps
<1>6. \A c \in owned : c.shard \in Shards
  BY DEF OwnedTyped
<1>7. ASSUME NEW s \in Shards, Dies(s) PROVE DisposalInv'
  <2>1. UNCHANGED <<owned, stops, disposals, left, awaiting>>
    BY <1>7, DiesKeeps
  <2>2. \A c \in owned : /\ WorkerTried(c.shard) => WorkerTried(c.shard)'
                         /\ GatewayTried(c.shard) => GatewayTried(c.shard)'
    BY <1>6, <1>7, DiesKeeps, DiesShrinks, TriedKept
  <2> QED
    BY <2>1, <2>2 DEF DisposalInv, Disposed
<1>8. ASSUME NEW c \in owned, RemoveWorker(c) \/ RemoveGateway(c), Disposed,
             UNCHANGED <<owned, disposals, left, awaiting>>,
             daemon' = daemon \/ Shrinks, leaked \subseteq leaked', resisted \subseteq resisted',
             NEW stage, stops' = [stops EXCEPT ![c] = stage], c \in DOMAIN stops,
             stage \in {"gateway", "verify"} => WorkerTried(c.shard)',
             stage = "verify" => GatewayTried(c.shard)'
      PROVE  DisposalInv'
  <2>1. \A e \in owned : /\ WorkerTried(e.shard) => WorkerTried(e.shard)'
                         /\ GatewayTried(e.shard) => GatewayTried(e.shard)'
    BY <1>6, <1>8, TriedKept
  <2>2. \A e \in DOMAIN stops' \cap owned' :
           /\ stops'[e] \in {"gateway", "verify"} => WorkerTried(e.shard)'
           /\ stops'[e] = "verify" => GatewayTried(e.shard)'
    <3>1. ASSUME NEW e \in DOMAIN stops' \cap owned', e # c
          PROVE  /\ stops'[e] \in {"gateway", "verify"} => WorkerTried(e.shard)'
                 /\ stops'[e] = "verify" => GatewayTried(e.shard)'
      BY <1>8, <2>1, <3>1 DEF DisposalInv
    <3> QED
      BY <1>8, <3>1
  <2> QED
    BY <1>8, <2>1, <2>2 DEF DisposalInv, Disposed
<1>9. ASSUME NEW c \in owned, RemoveWorker(c) PROVE DisposalInv'
  <2>1. UNCHANGED disposals
    BY <1>9, RemovingKeeps
  <2>2. CASE Disposed
    BY <1>8, <1>9, <2>1, <2>2, RemoveWorkerDoes
  <2> QED
    BY <1>1, <2>1, <2>2
<1>10. ASSUME NEW c \in owned, RemoveGateway(c) PROVE DisposalInv'
  <2>1. UNCHANGED disposals
    BY <1>10, RemovingKeeps
  <2>2. CASE Disposed
    <3>1. WorkerTried(c.shard)
      BY <1>10, <2>2, RemoveGatewayDoes DEF DisposalInv
    <3>2. WorkerTried(c.shard)'
      BY <1>6, <1>10, <3>1, RemoveGatewayDoes, TriedKept
    <3>3. GatewayTried(c.shard)'
      <4>1. CASE c.shard \in gateways
        BY <1>10, <4>1, RemoveGatewayDoes
      <4>2. CASE c.shard \notin gateways
        <5>1. DOMAIN starts = {}
          BY <2>2 DEF StartsInv, QuietInv
        <5>2. GatewayTried(c.shard)
          BY <1>6, <4>2, <5>1 DEF OwnedInv, Untouched, GatewayOwned, GatewayTried
        <5> QED
          BY <1>6, <1>10, <5>2, RemoveGatewayDoes, TriedKept
      <4> QED
        BY <4>1, <4>2
    <3> QED
      BY <1>8, <1>10, <2>1, <2>2, <3>2, <3>3, RemoveGatewayDoes
  <2> QED
    BY <1>1, <2>1, <2>2
<1>11. ASSUME NEW c \in owned, Verify(c) PROVE DisposalInv'
  <2>1. UNCHANGED disposals
    BY <1>11, RemovingKeeps
  <2>2. CASE Disposed
    <3>1. WorkerTried(c.shard) /\ GatewayTried(c.shard)
      BY <1>11, <2>2, VerifyDoes DEF DisposalInv
    <3>2. UNCHANGED <<daemon, leaked, resisted>>
      BY <1>11, VerifyDoes
    <3>3. \A e \in owned : /\ WorkerTried(e.shard) <=> WorkerTried(e.shard)'
                           /\ GatewayTried(e.shard) <=> GatewayTried(e.shard)'
      BY <3>2 DEF WorkerTried, GatewayTried, Running
    <3>4. owned' \subseteq owned
      BY <1>11, VerifyDoes
    <3>5. \A e \in DOMAIN stops' \cap owned' :
            /\ stops'[e] \in {"gateway", "verify"} => WorkerTried(e.shard)'
            /\ stops'[e] = "verify" => GatewayTried(e.shard)'
      BY <1>11, <2>2, <3>3, <3>4, VerifyDoes DEF DisposalInv
    <3>6. ASSUME NEW d \in Disposals, disposals[d] \in {"running", "done"}, NEW e \in owned'
          PROVE  \/ e \in left'[d] \cup awaiting'[d]
                 \/ WorkerTried(e.shard)' /\ GatewayTried(e.shard)'
      <4>1. CASE e = c
        BY <3>1, <3>3, <3>4, <4>1
      <4>2. CASE e # c
        BY <1>11, <3>3, <3>4, <3>6, <4>2, VerifyDoes DEF DisposalInv
      <4> QED
        BY <4>1, <4>2
    <3>7. \A d \in Disposals : disposals[d] = "done" => left'[d] = {} /\ awaiting'[d] = {}
      BY <1>11, VerifyDoes DEF DisposalInv
    <3> QED
      BY <2>1, <3>5, <3>6, <3>7 DEF DisposalInv
  <2> QED
    BY <1>1, <2>1, <2>2
<1>12. ASSUME NEW d \in Disposals, Dispose(d) \/ Cleanup(d) \/ StopNext(d) \/ DisposalDone(d)
       PROVE  DisposalInv'
  <2>1. UNCHANGED <<daemon, owned, leaked, resisted>>
    BY <1>12, DisposingKeeps
  <2>2. \A s : (WorkerTried(s)' <=> WorkerTried(s)) /\ (GatewayTried(s)' <=> GatewayTried(s))
    BY <2>1 DEF WorkerTried, GatewayTried, Running
  <2>3. CASE Dispose(d)
    <3>1. /\ disposals[d] = "none" /\ UNCHANGED <<stops, awaiting>> /\ d # "engine"
          /\ disposals' = [disposals EXCEPT ![d] = "waiting",
                             !["engine"] = IF @ = "none" THEN "running" ELSE @]
          /\ left' = IF Disposed THEN left ELSE [left EXCEPT !["engine"] = owned]
      BY <2>3 DEF Dispose
    <3>2. \A e \in Disposals : e # "engine" => /\ disposals'[e] \in {"running", "done"}
                                                   => disposals'[e] = disposals[e]
                                               /\ left'[e] = left[e]
      BY <3>1 DEF DisposalsTyped, Disposals
    <3>3. CASE Disposed
      <4>1. disposals'["engine"] = disposals["engine"] /\ left' = left
        BY <3>1, <3>3 DEF QuietInv, DisposalsTyped, Disposals
      <4>2. \A e \in Disposals : disposals'[e] \in {"running", "done"} =>
                                disposals'[e] = disposals[e]
        BY <3>2, <4>1
      <4>3. UNCHANGED <<stops, left, awaiting, owned>>
        BY <2>1, <3>1, <4>1
      <4> QED
        BY <2>2, <3>3, <4>2, <4>3 DEF DisposalInv
    <3>4. CASE ~Disposed
      <4>1. \A e \in Disposals : disposals[e] = "none"
        BY <3>4 DEF Disposed
      <4>2. disposals'["engine"] = "running" /\ left'["engine"] = owned
        BY <3>1, <3>4, <4>1 DEF DisposalsTyped, Disposals
      <4>3. DOMAIN stops' = {}
        BY <2>3, <3>1, <3>4 DEF Dispose, QuietInv
      <4> QED
        BY <2>1, <3>1, <3>2, <4>1, <4>2, <4>3 DEF DisposalInv
    <3> QED
      BY <3>3, <3>4
  <2>4. CASE Cleanup(d)
    <3>1. /\ UNCHANGED <<stops, awaiting>> /\ Disposed
          /\ disposals'[d] = "running" /\ left'[d] = owned
          /\ \A e \in Disposals : e # d => disposals'[e] = disposals[e] /\ left'[e] = left[e]
      BY <2>4 DEF Cleanup, Disposed, DisposalsTyped
    <3> QED
      BY <2>1, <2>2, <3>1 DEF DisposalInv
  <2>5. CASE StopNext(d)
    <3>1. PICK c \in left[d] :
            /\ left' = [left EXCEPT ![d] = @ \ {c}]
            /\ awaiting' = [awaiting EXCEPT ![d] = {c}]
            /\ stops' = IF c \in DOMAIN stops THEN stops ELSE With(stops, c, "worker")
      BY <2>5 DEF StopNext
    <3>2. /\ disposals[d] = "running" /\ awaiting[d] = {} /\ UNCHANGED disposals
      BY <2>5 DEF StopNext
    <3>3. \A e \in DOMAIN stops' :
            (e \in DOMAIN stops /\ stops'[e] = stops[e]) \/ stops'[e] = "worker"
      BY <3>1 DEF With
    <3>4. Disposed
      BY <3>2 DEF Disposed
    <3>5. \A e \in Disposals : left[e] \cup awaiting[e] \subseteq left'[e] \cup awaiting'[e]
      BY <3>1, <3>2 DEF DisposalsTyped
    <3>6. \A e \in Disposals : e # d => left'[e] = left[e] /\ awaiting'[e] = awaiting[e]
      BY <3>1 DEF DisposalsTyped
    <3>7. \A e \in DOMAIN stops' \cap owned' :
            /\ stops'[e] \in {"gateway", "verify"} => WorkerTried(e.shard)'
            /\ stops'[e] = "verify" => GatewayTried(e.shard)'
      BY <2>1, <2>2, <3>3, <3>4 DEF DisposalInv
    <3>8. \A e \in Disposals : disposals'[e] \in {"running", "done"} =>
            \A o \in owned' : \/ o \in left'[e] \cup awaiting'[e]
                              \/ WorkerTried(o.shard)' /\ GatewayTried(o.shard)'
      BY <2>1, <2>2, <3>2, <3>5 DEF DisposalInv
    <3>9. \A e \in Disposals : disposals'[e] = "done" => left'[e] = {} /\ awaiting'[e] = {}
      BY <3>2, <3>6 DEF DisposalInv
    <3> QED
      BY <3>7, <3>8, <3>9 DEF DisposalInv
  <2>6. CASE DisposalDone(d)
    <3>1. /\ UNCHANGED <<stops, left, awaiting>> /\ Disposed /\ disposals[d] = "running"
          /\ left[d] = {} /\ awaiting[d] = {} /\ disposals'[d] = "done"
          /\ \A e \in Disposals : e # d => disposals'[e] = disposals[e]
      BY <2>6 DEF DisposalDone, Disposed, DisposalsTyped
    <3> QED
      BY <2>1, <2>2, <3>1 DEF DisposalInv
  <2> QED
    BY <1>12, <2>3, <2>4, <2>5, <2>6
<1> QED
  BY <1>2, <1>3, <1>4, <1>5, <1>7, <1>9, <1>10, <1>11, <1>12 DEF Next

\* That a step hands no container to anybody, and makes none.
LEMMA UsersKept ==
    ASSUME PlannedInv, DaemonTyped, UNCHANGED <<plan, mark>>,
           phase' \in InRound => phase \in InRound,
           born' \in {born, born + 1}, users' \subseteq users,
           \A s \in Shards : \/ daemon'["worker"][s] \in {daemon["worker"][s], Absent}
                             \/ daemon'["worker"][s] = born + 1
    PROVE  PlannedInv'
<1>1. born \in Nat /\ mark \in Nat /\ Absent = 0
  BY DEF DaemonTyped, Absent
<1>2. users' \subseteq (0..born') \X Agents
  BY <1>1 DEF PlannedInv
<1>3. ASSUME phase' \in InRound, NEW v \in users', NEW s \in Shards,
             v[1] = daemon'["worker"][s], v[1] > mark
      PROVE  s \in DOMAIN plan /\ v[2] \in plan[s]
  <2>1. v[1] \in 0..born
    BY DEF PlannedInv
  <2>2. v[1] = daemon["worker"][s]
    BY <1>1, <1>3, <2>1
  <2> QED
    BY <1>3, <2>2 DEF PlannedInv
<1> QED
  BY <1>2, <1>3 DEF PlannedInv

\* Agents of one shard that is not the container of an earlier round are given its container.
LEMMA UsersGain ==
    ASSUME PlannedInv, DaemonTyped, NamesInv, UNCHANGED <<plan, mark, phase, born, daemon>>,
           NEW s \in DOMAIN plan \cap Shards, NEW A \in SUBSET (plan[s] \cap Agents),
           users' = users \cup {<<daemon["worker"][s], a>> : a \in A}
    PROVE  PlannedInv'
<1>1. daemon["worker"][s] \in 0..born /\ mark \in Nat /\ Absent = 0
  BY DEF DaemonTyped, Kinds, Absent
<1>2. users' \subseteq (0..born') \X Agents
  BY <1>1 DEF PlannedInv
<1>3. ASSUME phase \in InRound, NEW v \in users', NEW t \in Shards,
             v[1] = daemon["worker"][t], v[1] > mark
      PROVE  t \in DOMAIN plan /\ v[2] \in plan[t]
  <2>1. CASE v \in users
    BY <1>3, <2>1 DEF PlannedInv
  <2>2. ASSUME NEW a \in A, v = <<daemon["worker"][s], a>> PROVE t = s /\ v[2] \in plan[s]
    BY <1>1, <1>3, <2>2 DEF NamesInv
  <2> QED
    BY <2>1, <2>2
<1>4. ASSUME phase \in InRound, NEW u \in users', NEW v \in users', u[1] = v[1], u[1] > mark
      PROVE  \E t \in DOMAIN plan : {u[2], v[2]} \subseteq plan[t]
  <2>1. CASE u \in users /\ v \in users
    BY <1>4, <2>1 DEF PlannedInv
  <2>2. CASE u[1] = daemon["worker"][s]
    BY <1>3, <1>4, <2>2
  <2> QED
    BY <1>4, <2>1, <2>2
<1> QED
  BY <1>2, <1>3, <1>4 DEF PlannedInv

LEMMA PlannedInvStep == SandboxInv /\ [Next]_vars => PlannedInv'
<1> SUFFICES ASSUME SandboxInv, [Next]_vars PROVE PlannedInv'
  OBVIOUS
<1> USE DEF SandboxInv
<1>1. ASSUME UNCHANGED <<plan, mark, born, users>>, daemon' = daemon \/ Shrinks,
             phase' \in InRound => phase \in InRound
      PROVE  PlannedInv'
  BY <1>1, UsersKept DEF Shrinks, Kinds
<1>2. CASE PlanRound \/ Refuse \/ Work
  <2>1. UNCHANGED <<plan, mark, born, users, daemon>>
    BY <1>2, PlanningKeeps DEF PlanRound, Refuse, Refused, Work, planVars
  <2>2. phase' \in InRound => phase \in InRound
    BY <1>2 DEF PlanRound, Refuse, Refused, Work, InRound
  <2> QED
    BY <1>1, <2>1, <2>2
<1>3. CASE Admit \/ AdmitUnread
  <2>1. UNCHANGED <<born, users, daemon>>
    BY <1>3, PlanningKeeps
  <2>2. CASE Plan
    <3>1. \A v \in users : v[1] \in 0..born
      BY DEF PlannedInv
    <3>2. \A v \in users : ~(v[1] > mark')
      BY <2>2, <3>1 DEF Plan, DaemonTyped
    <3> QED
      BY <2>1, <3>2 DEF PlannedInv
  <2>3. CASE Refused
    BY <1>1, <2>1, <2>3 DEF Refused, InRound
  <2> QED
    BY <1>3, <2>2, <2>3 DEF Admit, AdmitUnread
<1>4. CASE RivalAdmit \/ RivalRelease \/ Idle \/ UNCHANGED vars
  BY <1>1, <1>4, RivalsKeep
<1>5. ASSUME NEW a \in Agents, Provision(a) PROVE PlannedInv'
  <2>1. UNCHANGED <<plan, mark, phase, born, daemon>>
    BY <1>5, ProvisionKeeps
  <2>2. PICK s \in DOMAIN plan \cap Shards :
          a \in plan[s] /\ (users' = users \cup {<<daemon["worker"][s], a>>} \/ UNCHANGED users)
    BY <1>5, ProvisionDoes
  <2>3. CASE UNCHANGED users
    BY <1>1, <2>1, <2>3
  <2>4. CASE users' = users \cup {<<daemon["worker"][s], a>>}
    <3>1. /\ users' = users \cup {<<daemon["worker"][s], b>> : b \in {a}}
          /\ {a} \subseteq plan[s] \cap Agents
      BY <2>2, <2>4
    <3> QED
      BY <2>1, <3>1, UsersGain
  <2> QED
    BY <2>2, <2>3, <2>4
<1>6. ASSUME NEW s \in Shards, AskDaemon(s) PROVE PlannedInv'
  <2>1. UNCHANGED <<plan, mark, phase>>
    BY <1>6, StartingKeeps
  <2>2. CASE AskAdopts(s)
    BY <1>1, <2>1, <2>2 DEF AskAdopts, Advance
  <2>3. CASE AskFails(s)
    BY <1>1, <2>1, <2>3, StartFailsDoes DEF AskFails, Shrinks
  <2>4. CASE AskMakes(s) \/ AskLeaks(s)
    <3>1. /\ UNCHANGED users /\ born' = born + 1 /\ daemon'["worker"][s] = born + 1
          /\ \A t \in Shards : t # s => daemon'["worker"][t] = daemon["worker"][t]
      BY <2>4, StartFailsDoes DEF AskMakes, AskLeaks, Leaks, Makes, Advance, Kinds
    <3> QED
      BY <2>1, <3>1, UsersKept
  <2> QED
    BY <1>6, <2>2, <2>3, <2>4, AskDaemonDoes
<1>7. ASSUME NEW s \in Shards, StartGateway(s) PROVE PlannedInv'
  <2>1. UNCHANGED <<plan, mark, phase>>
    BY <1>7, StartingKeeps
  <2>2. /\ UNCHANGED users /\ born' \in {born, born + 1}
        /\ daemon'["worker"] = daemon["worker"]
    BY <1>7, StartGatewayDoes DEF GatewayMakes, GatewayFails, GatewayLeaks,
     Leaks, Makes, Advance
  <2> QED
    BY <2>1, <2>2, UsersKept
<1>8. ASSUME NEW s \in Shards, Undo(s) PROVE PlannedInv'
  BY <1>1, <1>8, StartingKeeps, UndoDoes DEF Shrinks
<1>9. ASSUME NEW s \in Shards, Answer(s) PROVE PlannedInv'
  <2>1. UNCHANGED <<plan, mark, phase, born, daemon>> /\ s \in DOMAIN starts
    BY <1>9, StartingKeeps, AnswerDoes
  <2>2. ASSUME NEW stage, Advance(s, stage) PROVE PlannedInv'
    BY <1>1, <2>1, <2>2 DEF Advance
  <2>3. ASSUME NEW id, Resolve(s, id) PROVE PlannedInv'
    <3> DEFINE A == {a \in plan[s] \cap Agents : prov[a] = "starting"}
    <3>1. s \in DOMAIN plan \cap Shards
      BY <2>1 DEF StartsInv
    <3>2. CASE users' = users \cup {<<daemon["worker"][s], a>> : a \in A}
      <4>1. A \subseteq plan[s] \cap Agents
        OBVIOUS
      <4> HIDE DEF A
      <4> QED
        BY <2>1, <3>1, <3>2, <4>1, UsersGain
    <3>3. A = {a \in plan[s] : prov[a] = "starting"}
      BY <3>1 DEF PlanInv
    <3>4. users' = users \cup {<<daemon["worker"][s], a>> :
                                  a \in {b \in plan[s] : prov[b] = "starting"}}
      BY <2>3, ResolveDoes
    <3> HIDE DEF A
    <3> QED
      BY <3>2, <3>3, <3>4
  <2> QED
    BY <1>9, <2>2, <2>3, AnswerDoes
<1>10. ASSUME NEW s \in Shards, Dies(s) PROVE PlannedInv'
  BY <1>1, <1>10, DiesKeeps, DiesShrinks
<1>11. CASE Release
  BY <1>1, <1>11, ReleasingKeeps DEF Release, planVars, shardVars, InRound
<1>12. CASE Released
  <2>1. phase' \notin InRound /\ users' \subseteq users /\ UNCHANGED born
    BY <1>12 DEF Released, InRound, dockerVars
  <2> QED
    BY <2>1 DEF PlannedInv
<1>13. ASSUME NEW c \in owned, RemoveWorker(c) \/ RemoveGateway(c) \/ Verify(c) PROVE PlannedInv'
  <2>1. daemon' = daemon \/ Shrinks
    BY <1>13, RemoveWorkerDoes, RemoveGatewayDoes, VerifyDoes
  <2> QED
    BY <1>1, <1>13, <2>1, RemovingKeeps
<1>14. ASSUME NEW d \in Disposals, Dispose(d) \/ Cleanup(d) \/ StopNext(d) \/ DisposalDone(d)
       PROVE  PlannedInv'
  <2>1. UNCHANGED <<plan, mark, born, users, daemon>>
    BY <1>14, DisposingKeeps
  <2>2. phase' \in InRound => phase \in InRound
    BY <1>14 DEF Dispose, Cleanup, StopNext, DisposalDone, InRound
  <2> QED
    BY <1>1, <2>1, <2>2
<1> QED
  BY <1>2, <1>3, <1>4, <1>5, <1>6, <1>7, <1>8, <1>9, <1>10, <1>11, <1>12, <1>13, <1>14 DEF Next

\* In a protected run nothing is handed out, and what is being started stays what it was.
LEMMA AloneKept ==
    ASSUME AloneInv, UNCHANGED <<protected, plan>>, users' \subseteq users,
           DOMAIN containers' \subseteq DOMAIN containers,
           \A a \in Agents : prov'[a] = "waiting" => prov[a] = "waiting",
           \A s \in DOMAIN starts' \cap Shards :
              \/ Untouched("worker", s)'
              \/ /\ s \in DOMAIN starts /\ ~Untouched("worker", s)
                 /\ daemon'["worker"][s] \in {daemon["worker"][s], Absent}
              \/ \A u \in users : u[1] # daemon'["worker"][s]
    PROVE  AloneInv'
  BY DEF AloneInv, Running

LEMMA AloneInvStep == SandboxInv /\ [Next]_vars => AloneInv'
<1> SUFFICES ASSUME SandboxInv, [Next]_vars PROVE AloneInv'
  OBVIOUS
<1> USE DEF SandboxInv
<1>1. ASSUME UNCHANGED <<protected, plan, containers, starts, users, prov>>,
             daemon' = daemon \/ Shrinks
      PROVE  AloneInv'
  BY <1>1, AloneKept DEF Shrinks, Kinds, Untouched
<1>2. CASE PlanRound \/ Refuse \/ Work
  <2>1. UNCHANGED <<protected, plan, containers, starts, users, prov, daemon>>
    BY <1>2, PlanningKeeps DEF PlanRound, Refuse, Refused, Work, planVars, shardVars
  <2> QED
    BY <1>1, <2>1
<1>3. CASE Admit \/ AdmitUnread
  <2>1. UNCHANGED <<protected, daemon, starts, containers, users>> /\ phase = "admitting"
    BY <1>3, PlanningKeeps DEF Admit, AdmitUnread
  <2>2. DOMAIN containers = {} /\ DOMAIN starts = {}
    BY <2>1 DEF PlanInv, StartsInv, InRound
  <2> QED
    BY <2>1, <2>2 DEF AloneInv
<1>4. CASE RivalAdmit \/ RivalRelease \/ Idle \/ UNCHANGED vars
  BY <1>1, <1>4, RivalsKeep
<1>5. ASSUME NEW a \in Agents, Provision(a) PROVE AloneInv'
  <2>1. UNCHANGED <<protected, plan, containers, daemon>> /\ prov[a] = "waiting"
    BY <1>5, ProvisionKeeps, ProvisionDoes
  <2>2. PICK s \in DOMAIN plan \cap Shards :
          /\ a \in plan[s]
          /\ \/ s \in DOMAIN containers
             \/ /\ prov' = [prov EXCEPT ![a] = "starting"] /\ UNCHANGED users
                /\ DOMAIN starts' = DOMAIN starts \cup {s}
                /\ \A t \in DOMAIN starts' : starts'[t] = IF t \in DOMAIN starts THEN starts[t]
                                                          ELSE "asked"
    BY <1>5, ProvisionDoes
  <2>3. CASE protected
    <3>1. s \notin DOMAIN containers
      BY <2>1, <2>2, <2>3 DEF AloneInv
    <3>2. \A b \in Agents : prov'[b] = "waiting" => prov[b] = "waiting"
      BY <2>2, <3>1 DEF RoundTyped
    <3>3. \A t \in DOMAIN starts' :
            Untouched("worker", t)' \/ (t \in DOMAIN starts /\ ~Untouched("worker", t))
      BY <2>2, <3>1 DEF Untouched
    <3> QED
      BY <2>1, <2>2, <3>1, <3>2, <3>3, AloneKept
  <2> QED
    BY <2>1, <2>3 DEF AloneInv
<1>6. ASSUME NEW s \in Shards, StartFails(s), UNCHANGED <<protected, plan>>,
             daemon' = daemon \/ Shrinks
      PROVE  AloneInv'
  <2>1. /\ \A t \in DOMAIN starts' : t \in DOMAIN starts /\ starts'[t] = starts[t]
        /\ \A a \in Agents : prov'[a] = "waiting" => prov[a] = "waiting"
        /\ UNCHANGED <<containers, users>>
    BY <1>6, StartFailsDoes
  <2>2. \A t \in DOMAIN starts' : Untouched("worker", t)' <=> Untouched("worker", t)
    BY <2>1 DEF Untouched
  <2>3. \A t \in Shards : daemon'["worker"][t] \in {daemon["worker"][t], Absent}
    BY <1>6 DEF Shrinks, Kinds
  <2> QED
    BY <1>6, <2>1, <2>2, <2>3, AloneKept
<1>7. ASSUME NEW s \in Shards, s \in DOMAIN starts, NEW stage, Advance(s, stage),
             UNCHANGED <<protected, plan>>,
             \A t \in Shards : t # s => daemon'["worker"][t] = daemon["worker"][t],
             \/ ~Untouched("worker", s) /\ daemon'["worker"][s] = daemon["worker"][s]
             \/ \A u \in users : u[1] # daemon'["worker"][s]
      PROVE  AloneInv'
  <2>1. /\ DOMAIN starts' = DOMAIN starts
        /\ \A t \in DOMAIN starts : t # s => starts'[t] = starts[t]
        /\ UNCHANGED <<prov, containers, users>>
    BY <1>7, AdvanceDoes
  <2>2. \A t \in DOMAIN starts : t # s => (Untouched("worker", t)' <=> Untouched("worker", t))
    BY <2>1 DEF Untouched
  <2>3. ASSUME NEW t \in DOMAIN starts' \cap Shards
        PROVE  \/ Untouched("worker", t)'
               \/ /\ t \in DOMAIN starts /\ ~Untouched("worker", t)
                  /\ daemon'["worker"][t] \in {daemon["worker"][t], Absent}
               \/ \A u \in users : u[1] # daemon'["worker"][t]
    BY <1>7, <2>1, <2>2
  <2> QED
    BY <1>7, <2>1, <2>3, AloneKept
<1>8. ASSUME NEW s \in Shards, AskDaemon(s) PROVE AloneInv'
  <2>1. UNCHANGED <<protected, plan>> /\ s \in DOMAIN starts
    BY <1>8, StartingKeeps, AskDaemonDoes
  <2>2. CASE AskAdopts(s)
    BY <2>1, <2>2 DEF AskAdopts, AloneInv
  <2>3. CASE AskFails(s)
    BY <1>6, <2>1, <2>3 DEF AskFails
  <2>4. CASE AskMakes(s)
    <3>1. \A u \in users : u[1] # born + 1
      BY DEF PlannedInv, DaemonTyped
    <3>2. /\ daemon'["worker"][s] = born + 1
          /\ \A t \in Shards : t # s => daemon'["worker"][t] = daemon["worker"][t]
      BY <2>4 DEF AskMakes, Makes, Kinds
    <3> QED
      BY <1>7, <2>1, <2>4, <3>1, <3>2 DEF AskMakes
  <2>5. CASE AskLeaks(s)
    <3>1. /\ \A t \in DOMAIN starts' : t # s /\ t \in DOMAIN starts /\ starts'[t] = starts[t]
          /\ \A a \in Agents : prov'[a] = "waiting" => prov[a] = "waiting"
          /\ UNCHANGED <<containers, users>>
      BY <2>5, StartFailsDoes DEF AskLeaks
    <3>2. \A t \in DOMAIN starts' : Untouched("worker", t)' <=> Untouched("worker", t)
      BY <3>1 DEF Untouched
    <3>3. \A t \in Shards : t # s => daemon'["worker"][t] = daemon["worker"][t]
      BY <2>5 DEF AskLeaks, Leaks, Makes, Kinds
    <3> QED
      BY <2>1, <3>1, <3>2, <3>3, AloneKept
  <2> QED
    BY <1>8, <2>2, <2>3, <2>4, <2>5, AskDaemonDoes
<1>9. ASSUME NEW s \in Shards, StartGateway(s) PROVE AloneInv'
  <2>1. /\ UNCHANGED <<protected, plan>> /\ s \in DOMAIN starts /\ ~Untouched("worker", s)
        /\ daemon'["worker"] = daemon["worker"]
        /\ \E stage \in {"checking", "undo"} : Advance(s, stage)
    BY <1>9, StartingKeeps, StartGatewayDoes DEF GatewayMakes, GatewayFails,
       GatewayLeaks, Leaks, Untouched
  <2> QED
    BY <1>7, <2>1
<1>10. ASSUME NEW s \in Shards, Undo(s) PROVE AloneInv'
  BY <1>6, <1>10, StartingKeeps, UndoDoes
<1>11. ASSUME NEW s \in Shards, Answer(s) PROVE AloneInv'
  <2>1. /\ UNCHANGED <<protected, plan, daemon>> /\ s \in DOMAIN starts /\ ~Untouched("worker", s)
    BY <1>11, StartingKeeps, AnswerDoes DEF Untouched
  <2>2. ASSUME NEW stage, Advance(s, stage) PROVE AloneInv'
    BY <1>7, <2>1, <2>2
  <2>3. ASSUME NEW id, Resolve(s, id), Healthy(s), protected PROVE AloneInv'
    <3>1. s \in DOMAIN plan /\ \E a \in plan[s] : prov[a] = "starting"
      BY <2>1 DEF StartsInv
    <3>2. PICK b \in plan[s] : prov[b] = "starting" /\ \A a \in plan[s] : a = b
      BY <2>3, <3>1 DEF PlanInv
    <3>3. users' = users \cup {<<daemon["worker"][s], b>>}
      <4> DEFINE W == {a \in plan[s] : prov[a] = "starting"}
      <4>1. users' = users \cup {<<daemon["worker"][s], a>> : a \in W}
        BY <2>3, ResolveDoes
      <4>2. W = {b}
        BY <3>2
      <4> HIDE DEF W
      <4> QED
        BY <4>1, <4>2
    <3>4. \A u \in users : u[1] # daemon["worker"][s]
      BY <2>1, <2>3 DEF AloneInv, Healthy
    <3>5. \A u, v \in users' : u[1] = v[1] => u[2] = v[2]
      BY <2>3, <3>3, <3>4 DEF AloneInv
    <3>6. ASSUME NEW t \in DOMAIN starts' \cap Shards, NEW u \in users',
                 Running("worker", t), ~Untouched("worker", t)'
          PROVE  u[1] # daemon["worker"][t]
      <4>1. t \in DOMAIN starts /\ t # s /\ starts'[t] = starts[t]
        BY <2>3, ResolveDoes
      <4>2. ~Untouched("worker", t)
        BY <3>6, <4>1 DEF Untouched
      <4>3. daemon["worker"][s] # daemon["worker"][t]
        BY <3>6, <4>1 DEF NamesInv, Running
      <4> QED
        BY <2>3, <3>3, <3>6, <4>1, <4>2, <4>3 DEF AloneInv
    <3>7. ASSUME NEW t \in DOMAIN containers' \cap DOMAIN plan, NEW a \in plan[t] \cap Agents
          PROVE  prov'[a] # "waiting"
      <4>1. CASE t = s
        BY <2>3, <3>2, <3>7, <4>1, ResolveDoes
      <4>2. CASE t # s
        <5>1. t \in DOMAIN containers \cap DOMAIN plan
          <6>1. DOMAIN containers' = DOMAIN containers \cup {s}
            BY <2>3, ResolveDoes
          <6> QED
            BY <3>7, <4>2, <6>1
        <5>2. prov[a] # "waiting"
          BY <2>3, <3>7, <5>1 DEF AloneInv
        <5>3. prov'[a] = IF a \in plan[s] /\ prov[a] = "starting" THEN "live" ELSE prov[a]
          BY <2>3, ResolveDoes
        <5> QED
          BY <5>2, <5>3
      <4> QED
        BY <4>1, <4>2
    <3> QED
      BY <2>1, <3>5, <3>6, <3>7 DEF AloneInv, Running
  <2>4. CASE ~protected
    BY <2>1, <2>4 DEF AloneInv
  <2> QED
    BY <1>11, <2>2, <2>3, <2>4, AnswerDoes
<1>12. ASSUME NEW s \in Shards, Dies(s) PROVE AloneInv'
  BY <1>1, <1>12, DiesKeeps, DiesShrinks
<1>13. CASE Release
  BY <1>1, <1>13, ReleasingKeeps DEF Release, planVars, shardVars
<1>14. CASE Released
  <2>1. UNCHANGED <<protected, daemon, starts>> /\ users' \subseteq users /\ plan' = <<>>
    BY <1>14, ReleasingKeeps DEF Released
  <2>2. DOMAIN starts = {}
    BY <1>14 DEF Released, StartsInv
  <2> QED
    BY <2>1, <2>2 DEF AloneInv
<1>15. ASSUME NEW c \in owned, RemoveWorker(c) \/ RemoveGateway(c) \/ Verify(c) PROVE AloneInv'
  <2>1. daemon' = daemon \/ Shrinks
    BY <1>15, RemoveWorkerDoes, RemoveGatewayDoes, VerifyDoes
  <2> QED
    BY <1>1, <1>15, <2>1, RemovingKeeps
<1>16. ASSUME NEW d \in Disposals, Dispose(d) \/ Cleanup(d) \/ StopNext(d) \/ DisposalDone(d)
       PROVE  AloneInv'
  BY <1>1, <1>16, DisposingKeeps
<1> QED
  BY <1>2, <1>3, <1>4, <1>5, <1>8, <1>9, <1>10, <1>11, <1>12, <1>13, <1>14, <1>15, <1>16 DEF Next

-----------------------------------------------------------------------------
(* The ledger, and the place of every worker in it. *)

Keepers == {"run", "rival"}

LedgerInv ==
    /\ ledger \in [Keepers -> Nat]
    /\ 10 * (ledger["run"] + ledger["rival"]) <= 8 * Total

\* The shards of a round that was admitted are those its reservation counts; and a worker
\* from before the round may have lost its place.
HasPlace(s) == ledger["run"] > 0 /\ (s < ledger["run"] \/ daemon["worker"][s] <= mark)

PlacesInv ==
    /\ phase \in InRound /\ ~unread => \A s \in DOMAIN plan : s < ledger["run"]
    /\ phase # "gone" /\ ~unread =>
         \A s \in Shards : Running("worker", s) /\ daemon["worker"][s] \notin leaked => HasPlace(s)

\* What the ledger sums over all but one of two reservations is the other one.
LEMMA OthersIsTheOther ==
    ASSUME NEW l, NEW id, NEW other, DOMAIN l = {id, other}, id # other, l[other] \in Nat
    PROVE  Others(l, id) = l[other]
<1> DEFINE S == {other}
           Fold(s, g) == IF s = {} THEN 0
                         ELSE LET x == CHOOSE x \in s : TRUE IN l[x] + g[s \ {x}]
           G == CHOOSE g : g = [s \in SUBSET S |-> Fold(s, g)]
           F == [s \in SUBSET S |-> IF s = {} THEN 0 ELSE l[other]]
<1>1. DOMAIN l \ {id} = S
  OBVIOUS
<1>2. Others(l, id) = G[S]
  BY <1>1 DEF Others, MapThenSumSet, MapThenFoldSet
<1>3. SUBSET S = {{}, S}
  OBVIOUS
<1>4. (CHOOSE x \in S : TRUE) = other /\ S \ {other} = {}
  OBVIOUS
<1>5. F = [s \in SUBSET S |-> Fold(s, F)]
  <2>1. Fold({}, F) = 0 /\ F[{}] = 0 /\ F[S] = l[other]
    BY <1>3
  <2>2. Fold(S, F) = l[other] + 0
    BY <1>4, <2>1
  <2>3. F[S] = Fold(S, F) /\ F[{}] = Fold({}, F)
    BY <2>1, <2>2
  <2>4. F = [s \in SUBSET S |-> F[s]]
    OBVIOUS
  <2> HIDE DEF Fold, F
  <2> QED
    BY <1>3, <2>3, <2>4
<1>6. G = [s \in SUBSET S |-> Fold(s, G)]
  <2> HIDE DEF F, Fold
  <2> QED
    BY <1>5
<1>7. Fold({}, G) = 0
  OBVIOUS
<1>8. G[{}] = 0
  <2> HIDE DEF G, Fold
  <2> QED
    BY <1>3, <1>6, <1>7
<1>9. Fold(S, G) = l[other] + G[{}]
  BY <1>4
<1>10. G[S] = l[other]
  <2> HIDE DEF G, Fold
  <2> QED
    BY <1>3, <1>6, <1>8, <1>9
<1> QED
  BY <1>2, <1>10

\* What is admitted leaves a fifth of the host alone, whatever else uses it.
LEMMA AdmissibleFits ==
    ASSUME NEW n \in Nat, NEW reserved \in Nat, NEW foreign \in 0..Total,
           PlanCapacity(n, Total, foreign, reserved)
    PROVE  10 * (n + reserved) <= 8 * Total
<1> DEFINE free == IF Total > foreign THEN Total - foreign ELSE 0
<1>1. Total \in Nat
  BY SandboxAssumption
<1>2. free \in Nat /\ free <= Total
  BY <1>1
<1>3. n <= (8 * free) \div 10 - reserved
  BY DEF PlanCapacity, Committable
<1> HIDE DEF free
<1>4. 10 * ((8 * free) \div 10) <= 8 * free /\ (8 * free) \div 10 \in Int
  BY <1>2
<1> QED
  BY <1>1, <1>2, <1>3, <1>4

LEMMA CountIsNat ==
    ASSUME NEW r, Len(r) \in Nat
    PROVE  Count(r, MaxContainers) \in Nat /\ (Len(r) > 0 => Count(r, MaxContainers) > 0)
  BY SandboxAssumption DEF Count

\* A reservation is recorded only when it fits.
LEMMA ReserveKeepsLedger ==
    ASSUME LedgerInv, NEW id \in Keepers, NEW n \in Nat, NEW foreign \in 0..Total,
           Admissible(ledger, id, n, Total, foreign), ledger' = [ledger EXCEPT ![id] = n]
    PROVE  LedgerInv' /\ ledger'[id] = n
<1>1. PICK other \in Keepers : other # id /\ Keepers = {id, other}
  BY DEF Keepers
<1>2. Others(ledger, id) = ledger[other] /\ ledger[other] \in Nat
  BY <1>1, OthersIsTheOther DEF LedgerInv
<1>3. 10 * (n + ledger[other]) <= 8 * Total
  BY <1>2, AdmissibleFits DEF Admissible
<1>4. DOMAIN ledger' = Keepers /\ ledger'[id] = n /\ ledger'[other] = ledger[other]
  BY <1>1 DEF LedgerInv
<1>5. ledger["run"] \in Nat /\ ledger["rival"] \in Nat
  BY DEF LedgerInv, Keepers
<1>6. \/ id = "run" /\ other = "rival"
      \/ id = "rival" /\ other = "run"
  BY <1>1 DEF Keepers
<1> QED
  BY <1>1, <1>2, <1>3, <1>4, <1>5, <1>6 DEF LedgerInv

LEMMA ReleaseKeepsLedger ==
    ASSUME LedgerInv, NEW id \in Keepers, ledger' = [ledger EXCEPT ![id] = 0]
    PROVE  LedgerInv' /\ ledger'[id] = 0
<1>1. ledger["run"] \in Nat /\ ledger["rival"] \in Nat
  BY DEF LedgerInv, Keepers
<1>2. Total \in Nat
  BY SandboxAssumption
<1> QED
  BY <1>1, <1>2 DEF LedgerInv, Keepers

\* An admitted round holds a place for each of its shards.
LEMMA AdmitReserves ==
    ASSUME LedgerInv, PlanInv, Admit
    PROVE  LedgerInv' /\ ledger'["run"] = Needed /\ Needed \in Nat \ {0}
<1>1. phase = "admitting" /\ roster \in Rosters
  BY DEF Admit, PlanInv
<1>2. Len(roster) \in Nat \ {0}
  <2>1. PICK n \in 1..Cardinality(Agents) : roster \in [1..n -> Agents]
    BY <1>1 DEF Rosters
  <2>2. n \in Nat \ {0}
    BY <2>1, SandboxAssumption, FS_CardinalityType
  <2> QED
    BY <2>1, <2>2
<1>3. Needed \in Nat \ {0}
  BY <1>2, CountIsNat DEF Needed
<1>4. PICK foreign \in 0..Total : /\ Admissible(ledger, "run", Needed, Total, foreign)
                                  /\ ledger' = [ledger EXCEPT !["run"] = Needed]
  BY DEF Admit
<1> QED
  BY <1>3, <1>4, ReserveKeepsLedger DEF Keepers

LEMMA LedgerInvStep == SandboxInv /\ LedgerInv /\ [Next]_vars => LedgerInv'
<1> SUFFICES ASSUME SandboxInv, LedgerInv, [Next]_vars PROVE LedgerInv'
  OBVIOUS
<1>1. CASE UNCHANGED ledger
  BY <1>1 DEF LedgerInv
<1>2. CASE Admit
  BY <1>2, AdmitReserves DEF SandboxInv
<1>3. CASE RivalAdmit
  <2>1. PICK n \in RivalRequests, foreign \in 0..Total :
          /\ Admissible(ledger, "rival", n, Total, foreign)
          /\ ledger' = [ledger EXCEPT !["rival"] = n]
    BY <1>3 DEF RivalAdmit
  <2>2. n \in Nat
    BY <2>1, SandboxAssumption
  <2> QED
    BY <2>1, <2>2, ReserveKeepsLedger DEF Keepers
<1>4. CASE ledger' = [ledger EXCEPT !["run"] = 0] \/ ledger' = [ledger EXCEPT !["rival"] = 0]
  BY <1>4, ReleaseKeepsLedger DEF Keepers
<1>5. CASE Released \/ RivalRelease
  BY <1>1, <1>4, <1>5 DEF Released, ReleasedLedger, RivalRelease
<1>6. ASSUME NEW d \in Disposals, DisposalDone(d) PROVE LedgerInv'
  BY <1>1, <1>4, <1>6 DEF DisposalDone
<1>7. CASE PlanRound \/ AdmitUnread \/ Refuse \/ Work \/ Release \/ Idle \/ UNCHANGED vars
  BY <1>1, <1>7 DEF PlanRound, AdmitUnread, Refuse, Work, Release, Idle, vars
<1>8. ASSUME NEW a \in Agents, Provision(a) PROVE LedgerInv'
  BY <1>1, <1>8 DEF Provision, roundVars
<1>9. ASSUME NEW s \in Shards,
             AskDaemon(s) \/ StartGateway(s) \/ Answer(s) \/ Undo(s) \/ Dies(s)
      PROVE  LedgerInv'
  BY <1>1, <1>9 DEF AskDaemon, StartGateway, Answer, Undo, Dies, roundVars
<1>10. ASSUME NEW c \in owned, RemoveWorker(c) \/ RemoveGateway(c) \/ Verify(c) PROVE LedgerInv'
  BY <1>1, <1>10 DEF RemoveWorker, RemoveGateway, Verify, stopVars
<1>11. ASSUME NEW d \in Disposals, Dispose(d) \/ Cleanup(d) \/ StopNext(d) PROVE LedgerInv'
  BY <1>1, <1>11 DEF Dispose, Cleanup, StopNext
<1> QED
  BY <1>2, <1>3, <1>5, <1>6, <1>7, <1>8, <1>9, <1>10, <1>11 DEF Next

\* Nothing loses its place while its reservation and its round stay as they are.
LEMMA PlacesKept ==
    ASSUME DaemonTyped, PlacesInv, UNCHANGED <<ledger, unread, plan, mark>>,
           leaked \subseteq leaked',
           phase' \in InRound => phase \in InRound, phase = "gone" => phase' = "gone",
           daemon' = daemon \/ Shrinks
    PROVE  PlacesInv'
<1>1. \A s \in Shards : daemon'["worker"][s] \in {daemon["worker"][s], Absent}
  BY DEF Shrinks, Kinds
<1> QED
  BY <1>1 DEF PlacesInv, HasPlace, Running

\* A worker that is made has the place of its shard.
LEMMA PlacesMade ==
    ASSUME PlacesInv, LedgerInv, NEW s \in DOMAIN plan \cap Shards, phase \in InRound,
           UNCHANGED <<ledger, unread, plan, mark, phase>>, leaked \subseteq leaked',
           \A t \in Shards : t # s => daemon'["worker"][t] = daemon["worker"][t]
    PROVE  PlacesInv'
<1>1. ASSUME ~unread PROVE ledger["run"] > 0 /\ s < ledger["run"]
  <2>1. s \in Nat /\ s < ledger["run"] /\ ledger["run"] \in Nat
    BY <1>1 DEF PlacesInv, LedgerInv, Keepers, Shards
  <2> QED
    BY <2>1
<1>2. ASSUME phase # "gone", ~unread, NEW t \in Shards, Running("worker", t)',
             daemon'["worker"][t] \notin leaked'
      PROVE  HasPlace(t)'
  <2>1. CASE t = s
    BY <1>1, <1>2, <2>1 DEF HasPlace
  <2>2. CASE t # s
    BY <1>2, <2>2 DEF PlacesInv, HasPlace, Running
  <2> QED
    BY <2>1, <2>2
<1> QED
  BY <1>2 DEF PlacesInv

LEMMA PlacesInvStep == SandboxInv /\ LedgerInv /\ PlacesInv /\ [Next]_vars => PlacesInv'
<1> SUFFICES ASSUME SandboxInv, LedgerInv, PlacesInv, [Next]_vars PROVE PlacesInv'
  OBVIOUS
<1> USE DEF SandboxInv
<1>1. CASE PlanRound \/ Refuse \/ Work
  <2>1. UNCHANGED <<ledger, unread, plan, mark, leaked, daemon>>
    BY <1>1 DEF PlanRound, Refuse, Refused, Work, planVars, dockerVars
  <2>2. (phase' \in InRound => phase \in InRound) /\ phase # "gone"
    BY <1>1 DEF PlanRound, Refuse, Refused, Work, InRound
  <2> QED
    BY <2>1, <2>2, PlacesKept
<1>2. CASE Admit
  <2>1. /\ UNCHANGED <<daemon, leaked, born>> /\ phase = "admitting" /\ roster \in Rosters
        /\ ledger'["run"] = Needed /\ Needed \in Nat \ {0}
    BY <1>2, PlanningKeeps, AdmitReserves DEF Admit, PlanInv
  <2>2. CASE Plan
    <3>1. plan' = PlanShards(roster, MaxContainers) /\ mark' = born
      BY <2>2 DEF Plan
    <3>2. \A s \in DOMAIN plan' : s < Needed
      BY <2>1, <3>1 DEF PlanShards, Needed
    <3>3. \A s \in Shards : daemon["worker"][s] <= born
      BY DEF DaemonTyped, Kinds
    <3> QED
      BY <2>1, <3>1, <3>2, <3>3 DEF PlacesInv, HasPlace
  <2>3. CASE ~MayPlan /\ Refused
    <3>1. Needed = MaxContainers
      <4>1. Len(roster) \in Nat /\ MaxContainers \in Nat
        BY <2>1, RosterIsSequence, SandboxAssumption
      <4> QED
        BY <2>3, <4>1 DEF MayPlan, Needed, Count
    <3>2. \A s \in Shards : s < Needed
      BY <3>1, SandboxAssumption DEF Shards
    <3>3. phase' \notin InRound
      BY <2>3 DEF Refused, InRound
    <3> QED
      BY <2>1, <3>2, <3>3 DEF PlacesInv, HasPlace
  <2> QED
    BY <1>2, <2>2, <2>3 DEF Admit
<1>3. CASE AdmitUnread
  BY <1>3 DEF AdmitUnread, PlacesInv
<1>4. CASE RivalAdmit \/ RivalRelease
  <2>1. UNCHANGED <<daemon, leaked, plan, mark, phase, unread>>
    BY <1>4, RivalsKeep DEF RivalAdmit, RivalRelease
  <2>2. ledger'["run"] = ledger["run"]
    BY <1>4 DEF RivalAdmit, RivalRelease, LedgerInv, Keepers
  <2> QED
    BY <2>1, <2>2 DEF PlacesInv, HasPlace, Running
<1>5. CASE Idle \/ UNCHANGED vars
  BY <1>5 DEF Idle, vars, dockerVars, planVars, PlacesInv, HasPlace, Running
<1>6. ASSUME NEW a \in Agents, Provision(a) PROVE PlacesInv'
  <2>1. UNCHANGED <<ledger, unread, plan, mark, leaked, daemon, phase>>
    BY <1>6, ProvisionKeeps DEF Provision, roundVars
  <2> QED
    BY <2>1, PlacesKept
<1>7. ASSUME NEW s \in Shards, AskDaemon(s) PROVE PlacesInv'
  <2>1. UNCHANGED <<ledger, unread, plan, mark, phase>> /\ s \in DOMAIN starts
    BY <1>7, AskDaemonDoes, StartingKeeps DEF AskDaemon, roundVars
  <2>2. CASE AskAdopts(s) \/ AskFails(s)
    BY <2>1, <2>2, PlacesKept DEF AskAdopts, AskFails
  <2>3. CASE AskMakes(s) \/ AskLeaks(s)
    <3>1. s \in DOMAIN plan /\ phase \in InRound
      BY <2>1 DEF StartsInv, InRound
    <3>2. /\ leaked \subseteq leaked'
          /\ \A t \in Shards : t # s => daemon'["worker"][t] = daemon["worker"][t]
      BY <2>3 DEF AskMakes, AskLeaks, Leaks, Makes, Kinds
    <3> QED
      BY <2>1, <3>1, <3>2, PlacesMade
  <2> QED
    BY <1>7, <2>2, <2>3, AskDaemonDoes
<1>8. ASSUME NEW s \in Shards, StartGateway(s) PROVE PlacesInv'
  <2>1. UNCHANGED <<ledger, unread, plan, mark, phase>>
    BY <1>8, StartGatewayDoes, StartingKeeps DEF StartGateway, roundVars
  <2>2. daemon'["worker"] = daemon["worker"] /\ leaked \subseteq leaked'
    BY <1>8, StartGatewayDoes DEF GatewayMakes, GatewayFails, GatewayLeaks, Leaks
  <2> QED
    BY <2>1, <2>2 DEF PlacesInv, HasPlace, Running
<1>9. ASSUME NEW s \in Shards, Answer(s) \/ Undo(s) \/ Dies(s) PROVE PlacesInv'
  <2>1. UNCHANGED <<ledger, unread, plan, mark, phase>>
    BY <1>9 DEF Answer, Undo, Dies, roundVars, planVars
  <2>2. leaked \subseteq leaked' /\ (daemon' = daemon \/ Shrinks)
    BY <1>9, AnswerDoes, UndoDoes, DiesShrinks, DiesKeeps
  <2> QED
    BY <2>1, <2>2, PlacesKept
<1>10. CASE Release
  BY <1>10, PlacesKept, ReleasingKeeps DEF Release, planVars, InRound
<1>11. CASE Released
  <2>1. UNCHANGED <<daemon, leaked, mark, unread>> /\ phase' = "idle" /\ phase # "gone"
    BY <1>11, ReleasingKeeps DEF Released
  <2>2. phase' \notin InRound
    BY <2>1 DEF InRound
  <2>3. CASE owned = {}
    <3>1. DOMAIN starts = {}
      BY <1>11 DEF Released, StartsInv
    <3>2. \A s \in Shards : Running("worker", s) => daemon["worker"][s] \in leaked
      BY <2>3, <3>1 DEF OwnedInv, Untouched, WorkerOwned, OwnedInstance
    <3> QED
      BY <2>1, <2>2, <3>2 DEF PlacesInv, Running
  <2>4. CASE owned # {}
    <3>1. UNCHANGED ledger
      BY <1>11, <2>4 DEF Released, ReleasedLedger
    <3> QED
      BY <2>1, <2>2, <3>1 DEF PlacesInv, Running, HasPlace
  <2> QED
    BY <2>3, <2>4
<1>12. ASSUME NEW c \in owned, RemoveWorker(c) \/ RemoveGateway(c) \/ Verify(c) PROVE PlacesInv'
  <2>1. UNCHANGED <<ledger, unread, plan, mark, phase>>
    BY <1>12 DEF RemoveWorker, RemoveGateway, Verify, stopVars, planVars
  <2>2. leaked \subseteq leaked' /\ (daemon' = daemon \/ Shrinks)
    BY <1>12, RemoveWorkerDoes, RemoveGatewayDoes, VerifyDoes
  <2> QED
    BY <2>1, <2>2, PlacesKept
<1>13. ASSUME NEW d \in Disposals, Dispose(d) \/ Cleanup(d) \/ StopNext(d) PROVE PlacesInv'
  <2>1. UNCHANGED <<ledger, unread, plan, mark, phase, leaked, daemon>>
    BY <1>13, DisposingKeeps DEF Dispose, Cleanup, StopNext, disposeVars
  <2> QED
    BY <2>1, PlacesKept
<1>14. ASSUME NEW d \in Disposals, DisposalDone(d) PROVE PlacesInv'
  <2>1. UNCHANGED <<unread, plan, mark, leaked, daemon>>
    BY <1>14, DisposingKeeps DEF DisposalDone, disposeVars
  <2>2. CASE d = "engine"
    BY <1>14, <2>1, <2>2, PlacesKept DEF DisposalDone
  <2>3. CASE d # "engine"
    BY <1>14, <2>3 DEF DisposalDone, PlacesInv, InRound
  <2> QED
    BY <2>2, <2>3
<1> QED
  BY <1>1, <1>2, <1>3, <1>4, <1>5, <1>6, <1>7, <1>8, <1>9, <1>10, <1>11, <1>12, <1>13, <1>14
     DEF Next

-----------------------------------------------------------------------------
(* The rest of the types: what a round has, and what is being removed. *)

Stages == {"asked", "gateway", "checking", "undo", "undo both"}
StopStages == {"worker", "gateway", "verify"}

BoundsInv == unread \in BOOLEAN /\ rounds \in 0..MaxRounds /\ faults \in 0..MaxFaults

ShapesInv ==
    /\ ToSet(roster) \subseteq Agents
    /\ \A s \in DOMAIN starts : starts[s] \in Stages
    /\ DOMAIN containers \subseteq DOMAIN plan /\ gateways \subseteq Shards

\* Two containers are owned under two keys, only what is owned is removed, and a disposal
\* lists nothing before it begins.
RemovalsInv ==
    /\ \A c, d \in owned : Key(c) = Key(d) => c = d
    /\ DOMAIN stops \subseteq owned /\ \A c \in DOMAIN stops : stops[c] \in StopStages
    /\ left \in [Disposals -> SUBSET owned] /\ awaiting \in [Disposals -> SUBSET owned]
    /\ \A d \in Disposals :
         disposals[d] \in {"none", "waiting"} => left[d] = {} /\ awaiting[d] = {}

LEMMA FaultsStep == SandboxInv /\ BoundsInv /\ [Next]_vars => faults' \in 0..MaxFaults
<1> SUFFICES ASSUME SandboxInv, BoundsInv, [Next]_vars PROVE faults' \in 0..MaxFaults
  OBVIOUS
<1>1. faults \in 0..MaxFaults /\ MaxFaults \in Nat
  BY SandboxAssumption DEF BoundsInv
<1>2. ASSUME UNCHANGED faults \/ Fail \/ Well PROVE faults' \in 0..MaxFaults
  BY <1>1, <1>2 DEF Fail, Well
<1>3. CASE \/ PlanRound \/ Admit \/ AdmitUnread \/ Refuse \/ Work
           \/ RivalAdmit \/ RivalRelease \/ Idle \/ UNCHANGED vars
           \/ Release \/ Released
  BY <1>2, <1>3 DEF PlanRound, Admit, AdmitUnread, Refuse, Refused, Work, RivalAdmit,
     RivalRelease, Idle, vars, Release, Released, dockerVars
<1>4. ASSUME NEW a \in Agents, Provision(a) PROVE faults' \in 0..MaxFaults
  BY <1>2, <1>4 DEF Provision, dockerVars
<1>5. ASSUME NEW s \in Shards, AskDaemon(s) \/ StartGateway(s) \/ Answer(s) \/ Dies(s)
      PROVE  faults' \in 0..MaxFaults
  BY <1>2, <1>5 DEF AskDaemon, StartGateway, Answer, Dies, dockerVars
<1>6. ASSUME NEW s \in Shards, Undo(s) PROVE faults' \in 0..MaxFaults
  <2>1. PICK kept \in SUBSET Kinds : /\ faults + Cardinality(kept) <= MaxFaults
                                     /\ faults' = faults + Cardinality(kept)
    BY <1>6 DEF Undo, Kinds
  <2>2. IsFiniteSet(kept)
    <3>1. IsFiniteSet(Kinds)
      <4>1. IsFiniteSet({} \cup {"worker"}) /\ IsFiniteSet({} \cup {"worker"} \cup {"gateway"})
        BY FS_EmptySet, FS_AddElement
      <4>2. Kinds = {} \cup {"worker"} \cup {"gateway"}
        BY DEF Kinds
      <4> QED
        BY <4>1, <4>2
    <3> QED
      BY <3>1, FS_Subset
  <2>3. Cardinality(kept) \in Nat
    BY <2>2, FS_CardinalityType
  <2> QED
    BY <1>1, <2>1, <2>3
<1>7. ASSUME NEW c \in owned, RemoveWorker(c) \/ RemoveGateway(c) \/ Verify(c)
      PROVE  faults' \in 0..MaxFaults
  BY <1>2, <1>7 DEF RemoveWorker, RemoveGateway, Verify
<1>8. ASSUME NEW d \in Disposals, Dispose(d) \/ Cleanup(d) \/ StopNext(d) \/ DisposalDone(d)
      PROVE  faults' \in 0..MaxFaults
  BY <1>2, <1>8 DEF Dispose, Cleanup, StopNext, DisposalDone, disposeVars, dockerVars
<1> QED
  BY <1>3, <1>4, <1>5, <1>6, <1>7, <1>8 DEF Next

LEMMA BoundsInvStep == SandboxInv /\ BoundsInv /\ [Next]_vars => BoundsInv'
<1> SUFFICES ASSUME SandboxInv, BoundsInv, [Next]_vars PROVE BoundsInv'
  OBVIOUS
<1>1. faults' \in 0..MaxFaults
  BY FaultsStep
<1>2. ASSUME UNCHANGED rounds, unread' \in {unread, TRUE, FALSE} PROVE BoundsInv'
  BY <1>1, <1>2 DEF BoundsInv
<1>3. CASE PlanRound
  <2>1. UNCHANGED unread /\ rounds < MaxRounds /\ rounds' = rounds + 1 /\ MaxRounds \in Nat
    BY <1>3, SandboxAssumption DEF PlanRound
  <2> QED
    BY <1>1, <2>1 DEF BoundsInv
<1>4. CASE \/ Admit \/ AdmitUnread \/ Refuse \/ Work
           \/ RivalAdmit \/ RivalRelease \/ Idle \/ UNCHANGED vars
           \/ Release \/ Released
  BY <1>2, <1>4 DEF Admit, AdmitUnread, Plan, Refuse, Refused, Work, RivalAdmit,
     RivalRelease, Idle, vars, Release, Released, planVars
<1>5. ASSUME NEW a \in Agents, Provision(a) PROVE BoundsInv'
  BY <1>2, <1>5 DEF Provision, roundVars, planVars
<1>6. ASSUME NEW s \in Shards,
             AskDaemon(s) \/ StartGateway(s) \/ Answer(s) \/ Undo(s) \/ Dies(s)
      PROVE  BoundsInv'
  BY <1>2, <1>6 DEF AskDaemon, StartGateway, Answer, Undo, Dies, roundVars, planVars
<1>7. ASSUME NEW c \in owned, RemoveWorker(c) \/ RemoveGateway(c) \/ Verify(c) PROVE BoundsInv'
  BY <1>2, <1>7 DEF RemoveWorker, RemoveGateway, Verify, stopVars, planVars
<1>8. ASSUME NEW d \in Disposals, Dispose(d) \/ Cleanup(d) \/ StopNext(d) \/ DisposalDone(d)
      PROVE  BoundsInv'
  BY <1>2, <1>8 DEF Dispose, Cleanup, StopNext, DisposalDone, disposeVars, planVars
<1> QED
  BY <1>3, <1>4, <1>5, <1>6, <1>7, <1>8 DEF Next

LEMMA RosterIsOfAgents ==
    ASSUME NEW r, r = <<>> \/ r \in Rosters
    PROVE  ToSet(r) \subseteq Agents
<1>1. CASE r = <<>>
  BY <1>1 DEF ToSet
<1>2. CASE r \in Rosters
  BY <1>2, RosterIsSequence DEF ToSet
<1> QED
  BY <1>1, <1>2

LEMMA ShapesInvStep == SandboxInv /\ ShapesInv /\ [Next]_vars => ShapesInv'
<1> SUFFICES ASSUME SandboxInv, ShapesInv, [Next]_vars PROVE ShapesInv'
  OBVIOUS
<1> USE DEF SandboxInv
<1>1. ASSUME UNCHANGED <<roster, plan>>, gateways' \subseteq gateways,
             DOMAIN containers' \subseteq DOMAIN containers,
             \A s \in DOMAIN starts' : starts'[s] \in Stages
      PROVE  ShapesInv'
  BY <1>1 DEF ShapesInv
<1>2. CASE PlanRound \/ Refuse \/ Refused
  <2>1. UNCHANGED <<plan, starts, containers, gateways>>
    BY <1>2 DEF PlanRound, Refuse, Refused, shardVars
  <2>2. roster' = <<>> \/ roster' \in Rosters
    BY <1>2 DEF PlanRound, Refuse, Refused
  <2> QED
    BY <2>1, <2>2, RosterIsOfAgents DEF ShapesInv
<1>3. CASE phase = "admitting" /\ Plan
  <2>1. UNCHANGED <<roster, starts, containers, gateways>> /\ DOMAIN containers = {}
    BY <1>3 DEF Plan, PlanInv, InRound
  <2> QED
    BY <2>1 DEF ShapesInv
<1>4. CASE Admit \/ AdmitUnread
  BY <1>2, <1>3, <1>4 DEF Admit, AdmitUnread
<1>5. CASE Work \/ RivalAdmit \/ RivalRelease \/ Idle \/ UNCHANGED vars \/ Release
  <2>1. UNCHANGED <<roster, plan, starts, containers, gateways>>
    BY <1>5, RivalsKeep DEF Work, Release, planVars, shardVars
  <2> QED
    BY <2>1 DEF ShapesInv
<1>6. CASE Released
  <2>1. /\ UNCHANGED <<starts, gateways>>
        /\ roster' = <<>> /\ DOMAIN containers' = {} /\ DOMAIN plan' = {}
    BY <1>6 DEF Released
  <2> QED
    BY <2>1, RosterIsOfAgents DEF ShapesInv
<1>7. ASSUME NEW a \in Agents, Provision(a) PROVE ShapesInv'
  <2>1. UNCHANGED <<roster, plan, gateways, containers>>
    BY <1>7, ProvisionKeeps
  <2>2. \A s \in DOMAIN starts' : starts'[s] \in Stages
    BY <1>7, ProvisionDoes DEF ShapesInv, Stages
  <2> QED
    BY <1>1, <2>1, <2>2
<1>8. ASSUME NEW s \in Shards, StartFails(s), UNCHANGED <<roster, plan, gateways>>
      PROVE  ShapesInv'
  <2>1. UNCHANGED containers /\ \A t \in DOMAIN starts' : starts'[t] \in Stages
    BY <1>8, StartFailsDoes DEF ShapesInv
  <2> QED
    BY <1>1, <1>8, <2>1
<1>9. ASSUME NEW s \in DOMAIN starts, NEW stage \in Stages, Advance(s, stage),
             UNCHANGED <<roster, plan, gateways>>
      PROVE  ShapesInv'
  <2>1. UNCHANGED containers /\ \A t \in DOMAIN starts' : starts'[t] \in Stages
    BY <1>9, AdvanceDoes DEF ShapesInv
  <2> QED
    BY <1>1, <1>9, <2>1
<1>10. ASSUME NEW s \in Shards, AskDaemon(s) PROVE ShapesInv'
  <2>1. UNCHANGED <<roster, plan, gateways>> /\ s \in DOMAIN starts
    BY <1>10, StartingKeeps, AskDaemonDoes
  <2>2. StartFails(s) \/ \E stage \in Stages : Advance(s, stage)
    BY <1>10, AskDaemonDoes DEF AskAdopts, AskMakes, AskFails, AskLeaks, Stages
  <2> QED
    BY <1>8, <1>9, <2>1, <2>2
<1>11. ASSUME NEW s \in Shards, StartGateway(s) PROVE ShapesInv'
  <2>1. UNCHANGED <<roster, plan, gateways>> /\ s \in DOMAIN starts
    BY <1>11, StartingKeeps, StartGatewayDoes
  <2>2. \E stage \in Stages : Advance(s, stage)
    BY <1>11, StartGatewayDoes DEF GatewayMakes, GatewayFails, GatewayLeaks, Stages
  <2> QED
    BY <1>9, <2>1, <2>2
<1>12. ASSUME NEW s \in Shards, Undo(s) PROVE ShapesInv'
  BY <1>8, <1>12, StartingKeeps, UndoDoes
<1>13. ASSUME NEW s \in Shards, Answer(s) PROVE ShapesInv'
  <2>1. UNCHANGED <<roster, plan>> /\ s \in DOMAIN starts
    BY <1>13, StartingKeeps, AnswerDoes
  <2>2. ASSUME NEW stage \in Stages, Advance(s, stage), UNCHANGED gateways PROVE ShapesInv'
    BY <1>9, <2>1, <2>2
  <2>3. ASSUME NEW id, Resolve(s, id) PROVE ShapesInv'
    <3>1. /\ DOMAIN containers' = DOMAIN containers \cup {s}
          /\ gateways' \subseteq gateways \cup {s}
          /\ \A t \in DOMAIN starts' : t \in DOMAIN starts /\ starts'[t] = starts[t]
      BY <2>3, ResolveDoes
    <3>2. s \in DOMAIN plan
      BY <2>1 DEF StartsInv
    <3> QED
      BY <2>1, <3>1, <3>2 DEF ShapesInv
  <2> QED
    BY <1>13, <2>2, <2>3, AnswerDoes DEF Stages
<1>14. ASSUME NEW s \in Shards, Dies(s) PROVE ShapesInv'
  <2>1. UNCHANGED <<roster, plan, gateways, containers, starts>>
    BY <1>14, DiesKeeps
  <2> QED
    BY <2>1 DEF ShapesInv
<1>15. ASSUME NEW c \in owned, RemoveWorker(c) \/ RemoveGateway(c) \/ Verify(c) PROVE ShapesInv'
  <2>1. UNCHANGED <<roster, plan, containers, starts>>
    BY <1>15, RemovingKeeps
  <2>2. gateways' \subseteq gateways
    BY <1>15, RemoveWorkerDoes, RemoveGatewayDoes, VerifyDoes
  <2> QED
    BY <2>1, <2>2 DEF ShapesInv
<1>16. ASSUME NEW d \in Disposals, Dispose(d) \/ Cleanup(d) \/ StopNext(d) \/ DisposalDone(d)
       PROVE  ShapesInv'
  <2>1. UNCHANGED <<roster, plan, gateways, containers, starts>>
    BY <1>16, DisposingKeeps
  <2> QED
    BY <2>1 DEF ShapesInv
<1> QED
  BY <1>2, <1>4, <1>5, <1>6, <1>7, <1>10, <1>11, <1>12, <1>13, <1>14, <1>15, <1>16 DEF Next

LEMMA RemovalsInvStep == SandboxInv /\ RemovalsInv /\ [Next]_vars => RemovalsInv'
<1> SUFFICES ASSUME SandboxInv, RemovalsInv, [Next]_vars PROVE RemovalsInv'
  OBVIOUS
<1> USE DEF SandboxInv
<1>1. ASSUME UNCHANGED <<owned, stops, disposals, left, awaiting>> PROVE RemovalsInv'
  BY <1>1 DEF RemovalsInv, Key
<1>2. CASE \/ PlanRound \/ Admit \/ AdmitUnread \/ Refuse \/ Work
           \/ RivalAdmit \/ RivalRelease \/ Idle \/ UNCHANGED vars
  BY <1>1, <1>2, PlanningKeeps, RivalsKeep
<1>3. CASE Release
  <2>1. UNCHANGED <<owned, disposals, left, awaiting>> /\ stops' = [c \in owned |-> "worker"]
    BY <1>3 DEF Release
  <2> QED
    BY <2>1 DEF RemovalsInv, Key, StopStages
<1>4. CASE Released
  BY <1>1, <1>4 DEF Released
<1>5. ASSUME NEW a \in Agents, Provision(a) PROVE RemovalsInv'
  BY <1>1, <1>5, ProvisionKeeps
<1>6. ASSUME NEW s \in Shards, AskDaemon(s) \/ StartGateway(s) \/ Undo(s) \/ Dies(s)
      PROVE  RemovalsInv'
  BY <1>1, <1>6, StartingKeeps, DiesKeeps, AskDaemonDoes, StartGatewayDoes, UndoDoes
<1>7. ASSUME NEW s \in Shards, Answer(s) PROVE RemovalsInv'
  <2>1. UNCHANGED <<stops, disposals, left, awaiting>> /\ s \in DOMAIN starts
    BY <1>7, StartingKeeps, AnswerDoes
  <2>2. CASE UNCHANGED owned
    BY <1>1, <2>1, <2>2
  <2>3. ASSUME NEW id, Resolve(s, id) PROVE RemovalsInv'
    <3>1. phase = "provisioning"
      BY <2>1 DEF StartsInv
    <3>2. ~Disposed /\ DOMAIN stops = {}
      BY <3>1 DEF QuietInv
    <3>3. \A d \in Disposals : left[d] = {} /\ awaiting[d] = {}
      BY <3>2 DEF Disposed, RemovalsInv
    <3>4. PICK c : c = Started(s, id)
      OBVIOUS
    <3>5. owned' = {d \in owned : Key(d) # Key(c)} \cup {c}
      BY <2>3, <3>4, ResolveDoes DEF Own
    <3>6. \A d, e \in owned' : Key(d) = Key(e) => d = e
      BY <3>5 DEF RemovalsInv
    <3> QED
      BY <2>1, <3>2, <3>3, <3>6 DEF RemovalsInv, Key
  <2> QED
    BY <1>7, <2>2, <2>3, AnswerDoes
<1>8. ASSUME NEW c \in owned, RemoveWorker(c) \/ RemoveGateway(c) PROVE RemovalsInv'
  <2>1. UNCHANGED <<owned, disposals, left, awaiting>>
    BY <1>8, RemovingKeeps, RemoveWorkerDoes, RemoveGatewayDoes
  <2>2. \E stage \in StopStages : stops' = [stops EXCEPT ![c] = stage]
    BY <1>8, RemoveWorkerDoes, RemoveGatewayDoes DEF StopStages
  <2> QED
    BY <2>1, <2>2 DEF RemovalsInv, Key
<1>9. ASSUME NEW c \in owned, Verify(c) PROVE RemovalsInv'
  <2>1. /\ UNCHANGED disposals /\ owned \ {c} \subseteq owned' /\ owned' \subseteq owned
        /\ DOMAIN stops' = DOMAIN stops \ {c} /\ \A e \in DOMAIN stops' : stops'[e] = stops[e]
        /\ \A d \in Disposals : left'[d] = left[d] \cap owned' /\ awaiting'[d] = awaiting[d] \ {c}
    BY <1>9, RemovingKeeps, VerifyDoes
  <2>2. \A d, e \in owned' : Key(d) = Key(e) => d = e
    BY <2>1 DEF RemovalsInv
  <2>3. DOMAIN stops' \subseteq owned' /\ \A e \in DOMAIN stops' : stops'[e] \in StopStages
    BY <2>1 DEF RemovalsInv
  <2>4. left' \in [Disposals -> SUBSET owned'] /\ awaiting' \in [Disposals -> SUBSET owned']
    <3>1. /\ left' = [d \in Disposals |-> left[d] \cap owned']
          /\ awaiting' = [d \in Disposals |-> awaiting[d] \ {c}]
      BY <1>9 DEF Verify
    <3>2. \A d \in Disposals : awaiting[d] \ {c} \subseteq owned'
      BY <2>1 DEF RemovalsInv
    <3> QED
      BY <3>1, <3>2
  <2>5. \A d \in Disposals :
           disposals[d] \in {"none", "waiting"} => left'[d] = {} /\ awaiting'[d] = {}
    BY <2>1 DEF RemovalsInv
  <2> QED
    BY <2>1, <2>2, <2>3, <2>4, <2>5 DEF RemovalsInv, Key
<1>10. ASSUME NEW d \in Disposals, Dispose(d) \/ Cleanup(d) \/ StopNext(d) \/ DisposalDone(d)
       PROVE  RemovalsInv'
  <2>1. UNCHANGED owned
    BY <1>10, DisposingKeeps
  <2>2. ASSUME UNCHANGED <<stops, awaiting>>, left' \in [Disposals -> SUBSET owned],
               \A e \in Disposals :
                  disposals'[e] \in {"none", "waiting"} =>
                     disposals[e] \in {"none", "waiting"} /\ left'[e] = left[e]
        PROVE  RemovalsInv'
    BY <2>1, <2>2 DEF RemovalsInv, Key
  <2>3. CASE Dispose(d)
    <3>1. /\ d # "engine" /\ UNCHANGED <<stops, awaiting>> /\ disposals[d] = "none"
          /\ disposals' = [disposals EXCEPT ![d] = "waiting",
                              !["engine"] = IF disposals["engine"] = "none" THEN "running"
                                            ELSE disposals["engine"]]
          /\ left' = IF Disposed THEN left ELSE [left EXCEPT !["engine"] = owned]
      BY <2>3 DEF Dispose, DisposalsTyped, Disposals
    <3>2. \A e \in Disposals : disposals'[e] = IF e = d THEN "waiting"
                                  ELSE IF e = "engine" /\ disposals[e] = "none" THEN "running"
                                  ELSE disposals[e]
      BY <3>1 DEF DisposalsTyped, Disposals
    <3>3. disposals["engine"] = "none" <=> ~Disposed
      BY DEF QuietInv, Disposed, Disposals
    <3>4. \A e \in Disposals : left'[e] = IF ~Disposed /\ e = "engine" THEN owned ELSE left[e]
      BY <3>1 DEF DisposalsTyped, Disposals
    <3>5. left' \in [Disposals -> SUBSET owned]
      BY <3>1 DEF RemovalsInv
    <3>6. ASSUME NEW e \in Disposals, disposals'[e] \in {"none", "waiting"}
          PROVE  disposals[e] \in {"none", "waiting"} /\ left'[e] = left[e]
      <4>1. CASE e = d
        BY <3>1, <3>4, <4>1
      <4>2. CASE e # d
        BY <3>2, <3>3, <3>4, <3>6, <4>2
      <4> QED
        BY <4>1, <4>2
    <3> QED
      BY <2>2, <3>1, <3>5, <3>6
  <2>4. CASE Cleanup(d)
    <3>1. /\ UNCHANGED <<stops, awaiting>> /\ disposals' = [disposals EXCEPT ![d] = "running"]
          /\ left' = [left EXCEPT ![d] = owned]
      BY <2>4 DEF Cleanup
    <3>2. \A e \in Disposals : /\ left'[e] = IF e = d THEN owned ELSE left[e]
                               /\ disposals'[e] = IF e = d THEN "running" ELSE disposals[e]
      BY <3>1 DEF DisposalsTyped
    <3>3. left' \in [Disposals -> SUBSET owned]
      BY <3>1 DEF RemovalsInv
    <3> QED
      BY <2>2, <3>1, <3>2, <3>3
  <2>5. CASE StopNext(d)
    <3>1. /\ UNCHANGED disposals /\ disposals[d] = "running"
          /\ \E c \in left[d] :
               /\ left' = [left EXCEPT ![d] = left[d] \ {c}]
               /\ awaiting' = [awaiting EXCEPT ![d] = {c}]
               /\ stops' = IF c \in DOMAIN stops THEN stops ELSE With(stops, c, "worker")
      BY <2>5 DEF StopNext, DisposalsTyped
    <3>2. PICK c \in left[d] :
            /\ \A e \in Disposals : /\ left'[e] = IF e = d THEN left[d] \ {c} ELSE left[e]
                                    /\ awaiting'[e] = IF e = d THEN {c} ELSE awaiting[e]
            /\ stops' = IF c \in DOMAIN stops THEN stops ELSE With(stops, c, "worker")
      BY <3>1 DEF DisposalsTyped
    <3>3. c \in owned
      BY <3>2 DEF RemovalsInv
    <3>4. DOMAIN stops' \subseteq owned /\ \A e \in DOMAIN stops' : stops'[e] \in StopStages
      BY <3>2, <3>3 DEF RemovalsInv, With, StopStages
    <3>5. left' \in [Disposals -> SUBSET owned] /\ awaiting' \in [Disposals -> SUBSET owned]
      <4>1. \E k \in owned : /\ left' = [left EXCEPT ![d] = left[d] \ {k}]
                             /\ awaiting' = [awaiting EXCEPT ![d] = {k}]
        BY <3>1 DEF RemovalsInv
      <4> QED
        BY <4>1 DEF RemovalsInv
    <3>6. \A e \in Disposals :
            disposals'[e] \in {"none", "waiting"} => left'[e] = {} /\ awaiting'[e] = {}
      BY <3>1, <3>2 DEF RemovalsInv
    <3> QED
      BY <2>1, <3>4, <3>5, <3>6 DEF RemovalsInv, Key
  <2>6. CASE DisposalDone(d)
    <3>1. UNCHANGED <<stops, left, awaiting>> /\ disposals' = [disposals EXCEPT ![d] = "done"]
      BY <2>6 DEF DisposalDone
    <3>2. \A e \in Disposals : disposals'[e] = IF e = d THEN "done" ELSE disposals[e]
      BY <3>1 DEF DisposalsTyped
    <3> QED
      BY <2>2, <3>1, <3>2 DEF RemovalsInv
  <2> QED
    BY <1>10, <2>3, <2>4, <2>5, <2>6
<1> QED
  BY <1>2, <1>3, <1>4, <1>5, <1>6, <1>7, <1>8, <1>9, <1>10 DEF Next

-----------------------------------------------------------------------------
(* The theorems. *)

LEMMA InitSandboxInv == Init => SandboxInv
<1> SUFFICES ASSUME Init PROVE SandboxInv
  OBVIOUS
<1> USE DEF Init, Absent
<1>1. DaemonTyped /\ OwnedTyped /\ DisposalsTyped
  BY DEF DaemonTyped, OwnedTyped, DisposalsTyped, DisposalStates
<1>2. RoundTyped
  BY DEF RoundTyped, ProvStates, Phases
<1>3. \A k \in Kinds, s \in Shards : daemon[k][s] = 0
  OBVIOUS
<1>4. NamesInv /\ OwnedInv
  BY <1>3 DEF NamesInv, OwnedInv, Running, Kinds
<1>5. DOMAIN plan = {} /\ DOMAIN starts = {} /\ DOMAIN containers = {} /\ DOMAIN stops = {}
  OBVIOUS
<1>6. PlanInv /\ StartsInv
  BY <1>5 DEF PlanInv, StartsInv, InRound
<1>7. \A d \in Disposals : disposals[d] = "none"
  OBVIOUS
<1>8. QuietInv /\ DisposalInv
  BY <1>5, <1>7 DEF QuietInv, DisposalInv, Disposed
<1>9. PlannedInv /\ AloneInv
  BY <1>5 DEF PlannedInv, AloneInv
<1> QED
  BY <1>1, <1>2, <1>4, <1>6, <1>8, <1>9 DEF SandboxInv

LEMMA SandboxInvariant == Spec => []SandboxInv
<1>1. SandboxInv /\ [Next]_vars => SandboxInv'
  BY DaemonTypedStep, OwnedTypedStep, RoundTypedStep, DisposalsTypedStep, NamesInvStep,
     OwnedInvStep, PlanInvStep, StartsInvStep, QuietInvStep, DisposalInvStep, PlannedInvStep,
     AloneInvStep DEF SandboxInv
<1> QED
  BY InitSandboxInv, <1>1, PTL DEF Spec

LEMMA InitLedgerInv == Init => LedgerInv
<1> SUFFICES ASSUME Init PROVE LedgerInv
  OBVIOUS
<1> DEFINE population == [a \in Agents |-> a]
<1>1. PICK n \in {0, Count(population, MaxContainers)} :
        /\ IF n = 0 THEN ~protected ELSE PlanCapacity(n, Total, 0, 0)
        /\ ledger = [r \in {"run", "rival"} |-> IF r = "run" THEN n ELSE 0]
  BY DEF Init
<1>2. n \in Nat
  <2>1. Cardinality(Agents) \in Nat /\ Agents = 1..Cardinality(Agents)
    BY SandboxAssumption, FS_CardinalityType
  <2>2. Len(population) = Cardinality(Agents)
    BY <2>1
  <2> HIDE DEF population
  <2> QED
    BY <1>1, <2>1, <2>2, CountIsNat
<1>3. Total \in Nat /\ 0 \in 0..Total
  BY SandboxAssumption
<1>4. 10 * (n + 0) <= 8 * Total
  BY <1>1, <1>2, <1>3, AdmissibleFits
<1> QED
  BY <1>1, <1>2, <1>4 DEF LedgerInv, Keepers

LEMMA InitPlacesInv == Init => PlacesInv
<1> SUFFICES ASSUME Init PROVE PlacesInv
  OBVIOUS
<1>1. \A s \in Shards : ~Running("worker", s)
  BY DEF Init, Running, Kinds
<1>2. phase \notin InRound
  BY DEF Init, InRound
<1> QED
  BY <1>1, <1>2 DEF PlacesInv

LEMMA InitShapes == Init => BoundsInv /\ ShapesInv /\ RemovalsInv
<1> SUFFICES ASSUME Init PROVE BoundsInv /\ ShapesInv /\ RemovalsInv
  OBVIOUS
<1>1. BoundsInv
  <2>1. unread = FALSE /\ rounds = 0 /\ faults = 0
    BY DEF Init
  <2>2. 0 \in 0..MaxRounds /\ 0 \in 0..MaxFaults
    BY SandboxAssumption
  <2> QED
    BY <2>1, <2>2 DEF BoundsInv
<1>2. ShapesInv
  BY RosterIsOfAgents DEF Init, ShapesInv
<1>3. RemovalsInv
  BY DEF Init, RemovalsInv
<1> QED
  BY <1>1, <1>2, <1>3

LEMMA CapacityInvariant == Spec => [](SandboxInv /\ LedgerInv /\ PlacesInv)
<1>1. SandboxInv /\ SandboxInv' /\ LedgerInv /\ PlacesInv /\ [Next]_vars => LedgerInv' /\ PlacesInv'
  BY LedgerInvStep, PlacesInvStep
<1> QED
  BY SandboxInvariant, InitLedgerInv, InitPlacesInv, <1>1, PTL DEF Spec

LEMMA ShapesInvariant == Spec => [](BoundsInv /\ ShapesInv /\ RemovalsInv)
<1>1. /\ SandboxInv /\ BoundsInv /\ ShapesInv /\ RemovalsInv /\ [Next]_vars
      => BoundsInv' /\ ShapesInv' /\ RemovalsInv'
  BY BoundsInvStep, ShapesInvStep, RemovalsInvStep
<1> QED
  BY SandboxInvariant, InitShapes, <1>1, PTL DEF Spec

LEMMA InvCapacityHeld == LedgerInv /\ PlacesInv => CapacityHeld
  BY DEF LedgerInv, PlacesInv, HasPlace, Running, CapacityHeld

LEMMA InvTypeOK ==
    SandboxInv /\ LedgerInv /\ BoundsInv /\ ShapesInv /\ RemovalsInv => TypeOK
<1> SUFFICES ASSUME SandboxInv, LedgerInv, BoundsInv, ShapesInv, RemovalsInv PROVE TypeOK
  OBVIOUS
<1> USE DEF SandboxInv
<1>1. ledger \in [{"run", "rival"} -> 0..Total]
  <2>1. ledger["run"] \in Nat /\ ledger["rival"] \in Nat /\ Total \in Nat
    BY SandboxAssumption DEF LedgerInv, Keepers
  <2>2. ledger["run"] \in 0..Total /\ ledger["rival"] \in 0..Total
    BY <2>1 DEF LedgerInv
  <2> QED
    BY <2>2 DEF LedgerInv, Keepers
<1>2. /\ protected \in BOOLEAN /\ mark \in 0..born
      /\ daemon \in [Kinds -> [Shards -> 0..born]]
      /\ owned \subseteq [shard : Shards, id : 0..born, gateway : {protected}]
  BY DEF DaemonTyped, OwnedTyped
<1>3. /\ prov \in [Agents -> {"out", "waiting", "starting", "live", "failed"}]
      /\ phase \in {"idle", "admitting", "provisioning", "working", "releasing", "gone"}
      /\ disposals \in [Disposals -> {"none", "waiting", "running", "done"}]
  BY DEF RoundTyped, DisposalsTyped, ProvStates, Phases, DisposalStates
<1>4. DOMAIN starts \subseteq DOMAIN plan /\ DOMAIN plan \subseteq Shards
  BY DEF StartsInv, PlanInv
<1>5. /\ Range(starts) \subseteq {"asked", "gateway", "checking", "undo", "undo both"}
      /\ Range(stops) \subseteq {"worker", "gateway", "verify"}
  BY DEF ShapesInv, RemovalsInv, Stages, StopStages, Range
<1>6. left \in [Disposals -> SUBSET owned] /\ awaiting \in [Disposals -> SUBSET owned]
  BY DEF DisposalsTyped, RemovalsInv
<1> QED
  BY <1>1, <1>2, <1>3, <1>4, <1>5, <1>6 DEF TypeOK, BoundsInv, ShapesInv, RemovalsInv

LEMMA InvNothingLost == SandboxInv => NothingLost
<1> SUFFICES ASSUME SandboxInv PROVE NothingLost
  OBVIOUS
<1> USE DEF SandboxInv
<1>1. ASSUME NEW s \in Shards, Running("worker", s)
      PROVE  s \in DOMAIN starts \/ OwnedInstance(s) \/ daemon["worker"][s] \in leaked
  BY <1>1 DEF OwnedInv, Untouched, WorkerOwned
<1>2. ASSUME NEW s \in Shards, Running("gateway", s)
      PROVE  \/ s \in DOMAIN starts \/ daemon["gateway"][s] \in leaked
             \/ \E c \in owned : c.shard = s /\ c.gateway
  BY <1>2 DEF OwnedInv, Untouched, GatewayOwned
<1>3. ASSUME Ended, NEW s \in Shards
      PROVE  WorkerTried(s) /\ GatewayTried(s)
  <2>1. Disposed /\ DOMAIN starts = {}
    BY <1>3 DEF Ended, Disposed, Disposals, QuietInv, StartsInv
  <2>2. \A c \in owned : WorkerTried(c.shard) /\ GatewayTried(c.shard)
    BY <1>3 DEF Ended, Disposals, DisposalInv
  <2>3. WorkerTried(s)
    BY <1>1, <2>1, <2>2 DEF OwnedInstance, WorkerTried
  <2>4. GatewayTried(s)
    BY <1>2, <2>1, <2>2 DEF GatewayTried
  <2> QED
    BY <2>3, <2>4
<1>4. ASSUME Ended, NEW k \in Kinds, NEW s \in Shards, Running(k, s)
      PROVE  daemon[k][s] \in resisted \cup leaked
  BY <1>3, <1>4 DEF Kinds, WorkerTried, GatewayTried
<1> QED
  BY <1>1, <1>2, <1>4 DEF NothingLost

LEMMA InvAlone == SandboxInv => AloneInItsContainer
<1> SUFFICES ASSUME SandboxInv, NEW u \in users, NEW v \in users, u[1] = v[1], u[2] # v[2]
             PROVE  ~protected /\ (SoleOccupant(plan, u[2]) => u[1] <= mark)
  BY DEF AloneInItsContainer
<1> USE DEF SandboxInv
<1>1. ~protected
  BY DEF AloneInv
<1>2. ASSUME SoleOccupant(plan, u[2]), ~(u[1] <= mark) PROVE FALSE
  <2>1. PICK s \in DOMAIN plan : plan[s] = {u[2]}
    BY <1>2 DEF SoleOccupant
  <2>2. u[1] > mark /\ u[2] \in Agents
    BY <1>2 DEF PlannedInv, DaemonTyped
  <2>3. phase \in InRound
    BY <2>1 DEF PlanInv
  <2>4. PICK t \in DOMAIN plan : u[2] \in plan[t] /\ v[2] \in plan[t]
    BY <2>2, <2>3 DEF PlannedInv
  <2>5. s = t
    BY <2>1, <2>2, <2>4 DEF PlanInv
  <2> QED
    BY <2>1, <2>4, <2>5
<1> QED
  BY <1>1, <1>2

\* No container is lost from sight, from its start until it is confirmed gone, however many
\* docker commands fail and workers die; and what runs after the run is disposed of resisted
\* its removal, or was abandoned by a failed start or a gateway's one attempt (start and
\* ownership in sandbox.ts, stopContainer and cleanup in compose-run.ts).
THEOREM NothingIsLost == Spec => []NothingLost
  BY SandboxInvariant, InvNothingLost, PTL

\* No two agents are ever given one container of a protected run, over any number of rounds;
\* and in a shared run only a container that survived a release is ever shared by an agent
\* planned alone (planFor, provision and startContainer).
THEOREM ProtectedAgentsAreAlone == Spec => []AloneInItsContainer
  BY SandboxInvariant, InvAlone, PTL

\* What this process has promised fits the host, however rounds, releases and other runs
\* interleave; and every worker that runs has its place in it, but for those a smaller round
\* or an unread host left without one (admit in capacity.ts, planFor and releasePopulation in
\* compose-run.ts).
THEOREM CapacityIsHeld == Spec => []CapacityHeld
  BY CapacityInvariant, InvCapacityHeld, PTL

\* Every part of the sandbox's state is what its type says: among it, that two containers
\* are owned under two keys and that only what is owned is removed or waited for
\* (ownershipKey, stopOnce and disposeAll in sandbox.ts).
THEOREM TypeCorrect == Spec => []TypeOK
  BY CapacityInvariant, ShapesInvariant, InvTypeOK, PTL

=============================================================================
