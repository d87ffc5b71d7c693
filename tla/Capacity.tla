------------------------------- MODULE Capacity -------------------------------
(***************************************************************************)
(* Who shares which container, and what the host can promise: planShards   *)
(* of runtime/docker/shard.ts, planCapacity and the CapacityLedger of      *)
(* runtime/docker/capacity.ts.  Memory and processors are counted in the   *)
(* ceilings of one container, so a request is a number of containers.      *)
(***************************************************************************)
EXTENDS Integers, Sequences, FiniteSets, FiniteSetsExt

\* Round robin over as many containers as are allowed and needed: the shard of each
\* agent of `roster`, numbered from 0.
Count(roster, maxContainers) ==
    IF Len(roster) < maxContainers THEN Len(roster) ELSE maxContainers

\* Mutant: shards are numbered from one.
PlanShardsFromOne(roster, maxContainers) ==
    [s \in 1..Count(roster, maxContainers) |->
        {roster[i] : i \in {j \in DOMAIN roster : j % Count(roster, maxContainers) = s - 1}}]

PlanShards(roster, maxContainers) ==
    [s \in 0..(Count(roster, maxContainers) - 1) |->
        {roster[i] : i \in {j \in DOMAIN roster :
                                (j - 1) % Count(roster, maxContainers) = s}}]

\* `a` is planned to be the only party that can write where it works.
SoleOccupant(plan, a) == \E s \in DOMAIN plan : plan[s] = {a}

\* HEADROOM: four fifths of what is free may be promised.
Committable(free, reservedByOthers) == (8 * free) \div 10 - reservedByOthers

\* `containers` fit beside what other runs hold, on a host of which `foreign` is used by
\* what no reservation covers.  Usage inside a ceiling is not counted a second time.
PlanCapacity(containers, total, foreign, reservedByOthers) ==
    LET free == IF total > foreign THEN total - foreign ELSE 0
    IN  containers <= Committable(free, reservedByOthers)

\* The ledger holds one number per reservation, 0 for none.
Others(ledger, id) == MapThenSumSet(LAMBDA r : ledger[r], DOMAIN ledger \ {id})

\* Checked against every other reservation, in the synchronous step that records it.
Admissible(ledger, id, containers, total, foreign) ==
    PlanCapacity(containers, total, foreign, Others(ledger, id))
=============================================================================
