---------------------------- MODULE BudgetProofs ----------------------------
(***************************************************************************)
(* What Budget promises for every population, concurrency, configuration,  *)
(* patch and envelope.                                                     *)
(***************************************************************************)
EXTENDS Budget, FiniteSetTheorems, TLAPS

-----------------------------------------------------------------------------
(* Typing. *)

\* A billed amount is a natural number, whatever the table and the provider say.
LEMMA UsdType ==
    ASSUME NEW c \in Configs, NEW m \in Models, NEW u \in Envelopes
    PROVE  UsdOf(c, m, u) \in Nat
<1>1. u.tokens \in Nat /\ u.reported \in Nat
  BY DEF Envelopes
<1>2. CASE m \in Priced(c)
  <2>1. c.pricing[m] \in Nat
    BY <1>2 DEF Priced, Configs, Prices
  <2>2. u.tokens * c.pricing[m] \in Nat
    BY <1>1, <2>1
  <2> QED
    BY <1>1, <1>2, <2>2 DEF UsdOf, MaxOf
<1>3. CASE m \notin Priced(c)
  BY <1>1, <1>3 DEF UsdOf, MaxOf
<1> QED
  BY <1>2, <1>3

\* A PATCH merges into a well-formed configuration and never drops a price.
LEMMA MergedType ==
    ASSUME config \in Configs, NEW p \in Patches
    PROVE  /\ Merged(p) \in Configs
           /\ Priced(config) \subseteq Priced(Merged(p))
           /\ Merged(p).roster = p.roster
           /\ HasUsdLimit(Merged(p)) = HasUsdLimit(config)
<1>1. /\ p.caps \in TokenCaps
      /\ p.pricing \in Prices
      /\ p.roster \in (SUBSET Models) \ {{}}
  BY PatchesAssumption
<1> QED
  BY <1>1, NoPriceAssumption DEF Merged, Configs, TokenCaps, Prices, Priced, HasUsdLimit

\* A resumed configuration is well-formed, with the same prices and no dollar cap.
LEMMA ResumedType ==
    ASSUME config \in Configs
    PROVE  /\ Resumed \in Configs
           /\ Resumed.pricing = config.pricing
           /\ Resumed.roster = config.roster
           /\ ~HasUsdLimit(Resumed)
BY DEF Resumed, Configs, Limits, HasUsdLimit

\* The pool never has more agents in flight than workers, and it is finite.
LEMMA InFlightFinite ==
    ASSUME TypeOK
    PROVE  /\ IsFiniteSet(inFlight)
           /\ inFlight \subseteq Agents
           /\ Cardinality(inFlight) \in Nat
           /\ Cardinality(inFlight) <= Concurrency
<1>1. inFlight \subseteq 1..(cursor - 1) /\ cursor \in 1..(Population + 1)
  BY DEF TypeOK
<1>2. inFlight \subseteq 1..Population
  BY <1>1, PopulationAssumption
<1>3. IsFiniteSet(1..Population)
  BY FS_Interval, PopulationAssumption
<1>4. IsFiniteSet(inFlight)
  BY <1>2, <1>3, FS_Subset
<1> QED
  BY <1>2, <1>4, FS_CardinalityType DEF Agents, TypeOK

\* A worker taking an agent up, or letting it go, counts for one.
LEMMA OneMoreInFlight ==
    ASSUME TypeOK, NEW a
    PROVE  /\ Cardinality(inFlight \cup {a}) \in Nat
           /\ Cardinality(inFlight \cup {a}) <= Cardinality(inFlight) + 1
<1>1. IsFiniteSet(inFlight) /\ Cardinality(inFlight) \in Nat
  BY InFlightFinite
<1>2. \/ Cardinality(inFlight \cup {a}) = Cardinality(inFlight)
      \/ Cardinality(inFlight \cup {a}) = Cardinality(inFlight) + 1
  BY <1>1, FS_AddElement
<1> QED
  BY <1>1, <1>2

\* ... and letting it go counts for one less.
LEMMA OneLessInFlight ==
    ASSUME TypeOK, NEW a \in inFlight
    PROVE  /\ Cardinality(inFlight \ {a}) \in Nat
           /\ Cardinality(inFlight \ {a}) = Cardinality(inFlight) - 1
<1>1. IsFiniteSet(inFlight) /\ Cardinality(inFlight) \in Nat
  BY InFlightFinite
<1>2. IsFiniteSet(inFlight \ {a}) /\ Cardinality(inFlight \ {a}) = Cardinality(inFlight) - 1
  BY <1>1, FS_RemoveElement
<1> QED
  BY <1>2, FS_CardinalityType

\* Folding an envelope in keeps the tracker well-formed and only adds to it.
LEMMA BillType ==
    ASSUME TypeOK, NEW r \in Nat, NEW a \in Agents, NEW m \in Models, NEW u \in Envelopes,
           Bill(r, a, m, u)
    PROVE  /\ runTokens' \in Nat /\ roundTokens' \in Nat /\ runSpend' \in Nat /\ roundSpend' \in Nat
           /\ runTokens' >= runTokens /\ roundTokens' >= roundTokens
           /\ runSpend' >= runSpend /\ roundSpend' >= roundSpend
           /\ runBreached' \in Breaches
           /\ agentBreaches' \subseteq Nat \X Agents
           /\ unpriced' \subseteq Models
<1>1. PICK usd \in Nat : usd = UsdOf(config, m, u)
  BY UsdType DEF TypeOK
<1>2. /\ runTokens' = runTokens + u.tokens /\ roundTokens' = roundTokens + u.tokens
      /\ runSpend' = runSpend + usd /\ roundSpend' = roundSpend + usd
  BY <1>1 DEF Bill
<1>3. runBreached' \in Breaches
  BY DEF Bill, TypeOK, Breaches, CheckRun
<1>4. agentBreaches' \subseteq Nat \X Agents
  BY DEF Bill, TypeOK
<1>5. unpriced' \subseteq Models
  BY DEF Bill, TypeOK
<1>6. /\ runTokens \in Nat /\ roundTokens \in Nat /\ runSpend \in Nat /\ roundSpend \in Nat
      /\ u.tokens \in Nat
  BY DEF TypeOK, Envelopes
<1> QED
  BY <1>1, <1>2, <1>3, <1>4, <1>5, <1>6

\* Every persisted row is one envelope of the run, and replay folds it in.
LEMMA ReplayBills ==
    ASSUME TypeOK, Replay
    PROVE  \E r \in Nat, a \in Agents, m \in Models, u \in Envelopes : Bill(r, a, m, u)
<1> DEFINE row == rows[replayed + 1]
<1>1. replayed \in 0..Len(rows) /\ replayed < Len(rows) /\ rows \in Seq(Rows)
  BY DEF Replay, TypeOK
<1>2. row \in Rows
  BY <1>1
<1>3. /\ row.round \in Nat /\ row.agent \in Agents
      /\ row.model \in Models /\ row.usage \in Envelopes
  BY <1>2 DEF Rows
<1>4. Bill(row.round, row.agent, row.model, row.usage)
  BY DEF Replay
<1> HIDE DEF row
<1> QED
  BY <1>3, <1>4

\* Every state the tracker, the pool and the rows can reach is well-formed.
THEOREM TypeCorrect == Spec => []TypeOK
<1> USE PopulationAssumption, ConcurrencyAssumption
<1>1. Init => TypeOK
  <2> SUFFICES ASSUME Init PROVE TypeOK
    OBVIOUS
  <2>1. config \in Configs /\ genomeModel \in [Agents -> Models]
    BY ConfigAssumption DEF Init, Configs
  <2>2. Cardinality(inFlight) <= Concurrency
    BY FS_EmptySet DEF Init
  <2>3. rows \in Seq(Rows) /\ Len(rows) = 0
    BY DEF Init
  <2>4. returned \in [Agents -> Envelopes]
    BY DEF Init, NoUsage, Envelopes
  <2>5. cursor \in 1..(Population + 1) /\ inFlight \subseteq 1..(cursor - 1)
    BY DEF Init
  <2>6. collected \in 0..Population /\ replayed \in 0..Len(rows)
    BY <2>3 DEF Init
  <2>7. /\ runTokens \in Nat /\ roundTokens \in Nat /\ runSpend \in Nat /\ roundSpend \in Nat
        /\ round \in Nat /\ billedTokens \in Nat /\ interrupted \in BOOLEAN
        /\ runBreached \in Breaches /\ phase \in Phases
        /\ agentBreaches \subseteq Nat \X Agents /\ unpriced \subseteq Models
    BY DEF Init, Breaches, Phases
  <2> QED
    BY <2>1, <2>2, <2>3, <2>4, <2>5, <2>6, <2>7 DEF TypeOK
<1>2. TypeOK /\ [Next]_vars => TypeOK'
  <2> SUFFICES ASSUME TypeOK, [Next]_vars PROVE TypeOK'
    OBVIOUS
  <2> USE DEF Phases
  <2> DEFINE EmptyPoolTyped ==
        /\ cursor' \in 1..(Population + 1) /\ inFlight' \subseteq 1..(cursor' - 1)
        /\ returned' \in [Agents -> Envelopes] /\ collected' \in 0..Population
        /\ Cardinality(inFlight') <= Concurrency
  <2>e. EmptyPool => EmptyPoolTyped
    BY FS_EmptySet DEF EmptyPool, NoUsage, Envelopes
  <2>1. CASE StartRound
    BY <2>1, <2>e DEF TypeOK, StartRound, history
  <2>2. CASE Dispatch
    <3>1. Cardinality(inFlight') <= Concurrency
      BY <2>2, OneMoreInFlight, InFlightFinite DEF Dispatch, Pull
    <3> QED
      BY <2>2, <3>1 DEF TypeOK, Dispatch, Pull, tracker, history
  <2>3. CASE Skip
    BY <2>3 DEF TypeOK, Skip, Pull, tracker, history
  <2>4. CASE EndRun
    BY <2>4 DEF TypeOK, EndRun, tracker, pool, history
  <2>5. CASE Collect
    <3> DEFINE row == [round |-> round, agent |-> collected + 1,
                       model |-> genomeModel[collected + 1], usage |-> returned[collected + 1]]
    <3>1. collected + 1 \in Agents /\ collected' \in 0..Population
      BY <2>5 DEF Collect, TypeOK, Agents
    <3>2. row \in Rows
      BY <3>1 DEF Rows, TypeOK
    <3>3. rows' = Append(rows, row)
      BY <2>5 DEF Collect
    <3>4. rows' \in Seq(Rows) /\ Len(rows') = Len(rows) + 1
      BY <3>2, <3>3 DEF TypeOK
    <3> QED
      BY <2>5, <3>1, <3>4 DEF TypeOK, Collect, tracker, history
  <2>6. CASE EndRound
    <3>1. genomeModel' \in [Agents -> Models]
      BY <2>6 DEF EndRound, TypeOK, Configs
    <3> QED
      BY <2>6, <3>1 DEF TypeOK, EndRound, tracker, history
  <2>7. CASE FailCollect
    BY <2>7 DEF TypeOK, FailCollect, tracker, pool
  <2>8. ASSUME NEW a \in Agents, Lose(a) PROVE TypeOK'
    <3>1. Cardinality(inFlight') <= Concurrency
      BY <2>8, OneLessInFlight, InFlightFinite DEF Lose
    <3> QED
      BY <2>8, <3>1 DEF TypeOK, Lose, tracker, history
  <2>9. ASSUME NEW a \in Agents, NEW usage \in Usages, Record(a, usage) PROVE TypeOK'
    <3>1. Cardinality(inFlight') <= Concurrency
      BY <2>9, OneLessInFlight, InFlightFinite DEF Record
    <3>2. usage \in Envelopes /\ usage.tokens \in Nat /\ genomeModel[a] \in Models
      BY UsagesAssumption DEF TypeOK, Envelopes
    <3>3. /\ runTokens' \in Nat /\ roundTokens' \in Nat /\ runSpend' \in Nat /\ roundSpend' \in Nat
          /\ runBreached' \in Breaches /\ agentBreaches' \subseteq Nat \X Agents
          /\ unpriced' \subseteq Models
      BY <2>9, <3>2, BillType DEF Record, TypeOK
    <3>4. returned' \in [Agents -> Envelopes] /\ billedTokens' \in Nat
      BY <2>9, <3>2 DEF Record, TypeOK
    <3> QED
      BY <2>9, <3>1, <3>3, <3>4 DEF TypeOK, Record
  <2>10. ASSUME NEW p \in Patches, Reconfigure(p) PROVE TypeOK'
    <3>1. config' \in Configs
      BY <2>10, MergedType DEF Reconfigure, TypeOK
    <3> QED
      BY <2>10, <3>1 DEF TypeOK, Reconfigure, Breaches, CheckRun, pool, history
  <2>11. ASSUME NEW p \in Patches, PatchStored(p) PROVE TypeOK'
    <3>1. config' \in Configs
      BY <2>11, MergedType DEF PatchStored, TypeOK
    <3> QED
      BY <2>11, <3>1 DEF TypeOK, PatchStored, tracker, pool, history
  <2>12. ASSUME NEW a \in Replaceable, NEW m \in Models, ReplaceAgent(a, m) PROVE TypeOK'
    <3>1. genomeModel' \in [Agents -> Models]
      BY <2>12 DEF ReplaceAgent, TypeOK
    <3> QED
      BY <2>12, <3>1 DEF TypeOK, ReplaceAgent, tracker, history
  <2>13. CASE Crash
    BY <2>13, <2>e DEF TypeOK, Crash, FreshTracker, Breaches
  <2>14. CASE Attach
    <3>1. config' \in Configs
      BY <2>14, ResumedType DEF Attach, TypeOK
    <3>2. replayed' \in 0..Len(rows')
      BY <2>14 DEF Attach, TypeOK
    <3> QED
      BY <2>14, <3>1, <3>2 DEF TypeOK, Attach, FreshTracker, Breaches, pool, history
  <2>15. CASE Replay
    <3>1. PICK r \in Nat, a \in Agents, m \in Models, u \in Envelopes : Bill(r, a, m, u)
      BY <2>15, ReplayBills
    <3>2. /\ runTokens' \in Nat /\ roundTokens' \in Nat /\ runSpend' \in Nat /\ roundSpend' \in Nat
          /\ runBreached' \in Breaches /\ agentBreaches' \subseteq Nat \X Agents
          /\ unpriced' \subseteq Models
      BY <3>1, BillType
    <3>3. replayed' \in 0..Len(rows')
      BY <2>15 DEF Replay, TypeOK
    <3> QED
      BY <2>15, <3>2, <3>3 DEF TypeOK, Replay, pool, history
  <2>16. CASE Attached
    BY <2>16 DEF TypeOK, Attached, tracker, pool, history
  <2>17. CASE UNCHANGED vars
    BY <2>17 DEF TypeOK, vars, tracker, pool, history
  <2> QED
    BY <2>1, <2>2, <2>3, <2>4, <2>5, <2>6, <2>7, <2>8, <2>9, <2>10, <2>11, <2>12, <2>13,
       <2>14, <2>15, <2>16, <2>17 DEF Next
<1> QED
  BY <1>1, <1>2, PTL DEF Spec

-----------------------------------------------------------------------------
(* The gate stays shut for the round. *)

\* Totals that grow never un-exceed a limit.
LEMMA ExceedsMonotone ==
    ASSUME NEW x \in Nat, NEW y \in Nat, y >= x, NEW limit \in Limits, Exceeds(x, limit)
    PROVE  Exceeds(y, limit)
BY UnlimitedAssumption DEF Exceeds, Limits

\* ... nor does a run breach ever lift under the same caps.
LEMMA CheckRunMonotone ==
    ASSUME NEW c \in Configs, NEW t \in Nat, NEW s \in Nat, NEW tt \in Nat, NEW ss \in Nat,
           tt >= t, ss >= s, CheckRun(c, t, s) # "none"
    PROVE  CheckRun(c, tt, ss) # "none"
<1>1. c.maxRunTokens \in Limits /\ c.maxRunUsd \in Limits
  BY DEF Configs
<1>2. Exceeds(t, c.maxRunTokens) \/ Exceeds(s, c.maxRunUsd)
  BY DEF CheckRun
<1>3. Exceeds(tt, c.maxRunTokens) \/ Exceeds(ss, c.maxRunUsd)
  BY <1>1, <1>2, ExceedsMonotone
<1> QED
  BY <1>3 DEF CheckRun

\* A record can shut the gate but never opens it.
LEMMA BillKeepsExhausted ==
    ASSUME TypeOK, config' = config, Exhausted,
           NEW r \in Nat, NEW a \in Agents, NEW m \in Models, NEW u \in Envelopes,
           Bill(r, a, m, u)
    PROVE  Exhausted'
<1>1. /\ runTokens' \in Nat /\ roundTokens' \in Nat /\ runSpend' \in Nat /\ roundSpend' \in Nat
      /\ runTokens' >= runTokens /\ roundTokens' >= roundTokens
      /\ runSpend' >= runSpend /\ roundSpend' >= roundSpend
  BY BillType
<1>2. /\ runTokens \in Nat /\ roundTokens \in Nat /\ runSpend \in Nat /\ roundSpend \in Nat
      /\ config \in Configs
  BY DEF TypeOK
<1>3. config.maxRoundTokens \in Limits /\ config.maxRoundUsd \in Limits
  BY <1>2 DEF Configs
<1>4. CASE PricingMissing
  BY <1>4 DEF PricingMissing, Bill, Exhausted
<1>5. CASE runBreached # "none"
  BY <1>5 DEF Bill, Exhausted
<1>6. CASE CheckRun(config, runTokens, runSpend) # "none"
  BY <1>1, <1>2, <1>6, CheckRunMonotone DEF Exhausted
<1>7. CASE Exceeds(roundTokens, config.maxRoundTokens)
  BY <1>1, <1>2, <1>3, <1>7, ExceedsMonotone DEF Exhausted
<1>8. CASE Exceeds(roundSpend, config.maxRoundUsd)
  BY <1>1, <1>2, <1>3, <1>8, ExceedsMonotone DEF Exhausted
<1> QED
  BY <1>4, <1>5, <1>6, <1>7, <1>8 DEF Exhausted

\* The dispatch verdict depends on the configuration and the tracker alone.
LEMMA SameVerdict ==
    ASSUME UNCHANGED <<config, tracker>>
    PROVE  Exhausted' = Exhausted
BY DEF tracker, Exhausted, PricingMissing

\* BreachFinal for every configuration: in a round the dispatch verdict only ever
\* goes from open to shut, and only while agents are still returning.
THEOREM GateStaysShut == Spec => BreachFinal
<1> DEFINE Final == /\ phase \in {"run", "collect"} /\ phase' \in {"run", "collect"}
                    /\ Exhausted # Exhausted'
                    => phase = "run" /\ Exhausted'
<1>1. TypeOK /\ [Next]_vars => [Final]_vars
  <2> SUFFICES ASSUME TypeOK, Next,
                      phase \in {"run", "collect"}, phase' \in {"run", "collect"},
                      Exhausted # Exhausted'
               PROVE  phase = "run" /\ Exhausted'
    BY DEF vars
  <2>0. Exhausted \in BOOLEAN /\ Exhausted' \in BOOLEAN
    BY DEF Exhausted, PricingMissing, Exceeds
  <2>1. ASSUME UNCHANGED <<config, tracker>> PROVE FALSE
    BY <2>1, SameVerdict
  <2>2. CASE StartRound
    BY <2>2 DEF StartRound
  <2>3. CASE Dispatch \/ Skip \/ EndRun \/ Collect \/ EndRound \/ FailCollect
    BY <2>1, <2>3 DEF Dispatch, Skip, EndRun, Collect, EndRound, FailCollect
  <2>4. ASSUME NEW a \in Agents, Lose(a) PROVE FALSE
    BY <2>1, <2>4 DEF Lose
  <2>5. ASSUME NEW a \in Agents, NEW usage \in Usages, Record(a, usage)
        PROVE  phase = "run" /\ Exhausted'
    <3>1. usage \in Envelopes /\ genomeModel[a] \in Models /\ round \in Nat
      BY UsagesAssumption DEF TypeOK
    <3>2. Exhausted => Exhausted'
      BY <2>5, <3>1, BillKeepsExhausted DEF Record
    <3> QED
      BY <2>0, <2>5, <3>2 DEF Record
  <2>6. ASSUME NEW p \in Patches, Reconfigure(p) \/ PatchStored(p) PROVE FALSE
    BY <2>6 DEF Reconfigure, PatchStored
  <2>7. CASE Crash \/ Attach \/ Replay \/ Attached
    BY <2>7 DEF Crash, Attach, Replay, Attached
  <2>8. ASSUME NEW a \in Replaceable, NEW m \in Models, ReplaceAgent(a, m) PROVE FALSE
    BY <2>8 DEF ReplaceAgent
  <2> QED
    BY <2>2, <2>3, <2>4, <2>5, <2>6, <2>7, <2>8, <2>1 DEF Next
<1> QED
  BY <1>1, TypeCorrect, PTL DEF Spec, BreachFinal

-----------------------------------------------------------------------------
(* The latched breach. *)

\* While no process holds the run its (future) tracker is empty: without this a
\* PATCH of the stored row would leave the latch behind the caps.
LatchInv ==
    /\ LatchCurrent
    /\ phase = "down" => runTokens = 0 /\ runSpend = 0

\* Totals of zero break no cap: a fresh tracker owes no latch.
LEMMA NothingSpent ==
    ASSUME NEW c \in Configs
    PROVE  CheckRun(c, 0, 0) = "none"
BY UnlimitedAssumption DEF CheckRun, Exceeds, Configs, Limits

\* An envelope sets the latch when its totals pass a cap, and totals only grow.
LEMMA BillKeepsLatch ==
    ASSUME TypeOK, LatchCurrent, config' = config,
           NEW r \in Nat, NEW a \in Agents, NEW m \in Models, NEW u \in Envelopes,
           Bill(r, a, m, u)
    PROVE  LatchCurrent'
<1>1. CASE runBreached = "none"
  BY <1>1 DEF Bill, LatchCurrent
<1>2. CASE runBreached # "none"
  <2>1. /\ runTokens' \in Nat /\ runSpend' \in Nat
        /\ runTokens' >= runTokens /\ runSpend' >= runSpend
    BY BillType
  <2>2. CheckRun(config, runTokens, runSpend) # "none"
    BY <1>2 DEF LatchCurrent
  <2>3. CheckRun(config, runTokens', runSpend') # "none"
    BY <2>1, <2>2, CheckRunMonotone DEF TypeOK
  <2> QED
    BY <1>2, <2>3 DEF Bill, LatchCurrent
<1> QED
  BY <1>1, <1>2

\* LatchCurrent for every configuration and history: the latched run breach is
\* always the verdict of the current totals under the current caps.
THEOREM LatchIsCurrent == Spec => []LatchCurrent
<1>1. Init => LatchInv
  BY NothingSpent, ConfigAssumption DEF Init, LatchInv, LatchCurrent
<1>2. TypeOK /\ TypeOK' /\ LatchInv /\ [Next]_vars => LatchInv'
  <2> SUFFICES ASSUME TypeOK, TypeOK', LatchInv, [Next]_vars PROVE LatchInv'
    OBVIOUS
  <2>1. ASSUME UNCHANGED <<config, tracker>>, phase' = "down" => phase = "down"
        PROVE  LatchInv'
    BY <2>1 DEF LatchInv, LatchCurrent, tracker
  <2>2. CASE StartRound
    BY <2>2 DEF StartRound, LatchInv, LatchCurrent
  <2>3. CASE Dispatch \/ Skip \/ EndRun \/ Collect \/ EndRound \/ FailCollect \/ Attached
    BY <2>1, <2>3 DEF Dispatch, Skip, Pull, EndRun, Collect, EndRound, FailCollect, Attached
  <2>4. ASSUME NEW a \in Agents, Lose(a) PROVE LatchInv'
    BY <2>1, <2>4 DEF Lose
  <2>5. ASSUME NEW a \in Agents, NEW usage \in Usages, Record(a, usage) PROVE LatchInv'
    <3>1. usage \in Envelopes /\ genomeModel[a] \in Models /\ round \in Nat
      BY UsagesAssumption DEF TypeOK
    <3> QED
      BY <2>5, <3>1, BillKeepsLatch DEF Record, LatchInv
  <2>6. ASSUME NEW p \in Patches, Reconfigure(p) PROVE LatchInv'
    BY <2>6 DEF Reconfigure, LatchInv, LatchCurrent
  <2>7. ASSUME NEW p \in Patches, PatchStored(p) PROVE LatchInv'
    <3>1. runTokens' = 0 /\ runSpend' = 0 /\ runBreached' = "none"
      BY <2>7, NothingSpent DEF PatchStored, tracker, LatchInv, LatchCurrent, TypeOK
    <3> QED
      BY <3>1, NothingSpent DEF TypeOK, LatchInv, LatchCurrent
  <2>8. CASE Crash \/ Attach
    <3>1. runTokens' = 0 /\ runSpend' = 0 /\ runBreached' = "none"
      BY <2>8 DEF Crash, Attach, FreshTracker
    <3> QED
      BY <3>1, NothingSpent DEF TypeOK, LatchInv, LatchCurrent
  <2>9. CASE Replay
    <3>1. PICK r \in Nat, a \in Agents, m \in Models, u \in Envelopes : Bill(r, a, m, u)
      BY <2>9, ReplayBills
    <3> QED
      BY <2>9, <3>1, BillKeepsLatch DEF Replay, LatchInv
  <2>10. ASSUME NEW a \in Replaceable, NEW m \in Models, ReplaceAgent(a, m) PROVE LatchInv'
    BY <2>1, <2>10 DEF ReplaceAgent
  <2>11. CASE UNCHANGED vars
    BY <2>1, <2>11 DEF vars
  <2> QED
    BY <2>2, <2>3, <2>4, <2>5, <2>6, <2>7, <2>8, <2>9, <2>10, <2>11 DEF Next
<1>3. LatchInv => LatchCurrent
  BY DEF LatchInv
<1> QED
  BY <1>1, <1>2, <1>3, TypeCorrect, PTL DEF Spec

-----------------------------------------------------------------------------
(* A dollar cap stays computable. *)

\* Two facts carry PricedUnderUsdCap through EndRound and Record: the roster a
\* live tracker was validated for is priced, and a replay never runs under a
\* dollar cap (Resumed drops them), so replay bills nothing it could mark.
PricedInv ==
    HasUsdLimit(config) =>
        /\ {genomeModel[a] : a \in Agents} \subseteq Priced(config)
        /\ unpriced = {}
        /\ phase # "down" => config.roster \subseteq Priced(config)
        /\ phase # "replay"

\* PricedUnderUsdCap for every roster, table and sequence of PATCHes: under a dollar
\* cap no model that can be billed lacks a price.
THEOREM Priceable == Spec => []PricedUnderUsdCap
<1>1. Init => PricedInv
  BY DEF Init, PricedInv, Accepts
<1>2. TypeOK /\ PricedInv /\ [Next]_vars => PricedInv'
  <2> SUFFICES ASSUME TypeOK, PricedInv, [Next]_vars PROVE PricedInv'
    OBVIOUS
  <2>1. ASSUME UNCHANGED <<config, genomeModel, unpriced>>,
               phase' \in {"down", "replay"} => phase = phase', phase = "down" => phase' = "down"
        PROVE  PricedInv'
    BY <2>1 DEF PricedInv
  <2>2. CASE StartRound \/ Dispatch \/ Skip \/ EndRun \/ Collect \/ FailCollect
    BY <2>1, <2>2 DEF StartRound, Dispatch, Skip, Pull, EndRun, Collect, FailCollect, tracker, pool
  <2>3. CASE EndRound
    BY <2>3 DEF EndRound, PricedInv, tracker
  <2>4. ASSUME NEW a \in Agents, Lose(a) PROVE PricedInv'
    BY <2>1, <2>4 DEF Lose, tracker
  <2>5. ASSUME NEW a \in Agents, NEW usage \in Usages, Record(a, usage) PROVE PricedInv'
    <3>1. HasUsdLimit(config) => unpriced' = unpriced
      BY <2>5 DEF Record, Bill, PricedInv
    <3> QED
      BY <2>5, <3>1 DEF Record, PricedInv
  <2>6. ASSUME NEW p \in Patches, Reconfigure(p) PROVE PricedInv'
    <3>1. /\ config' = Merged(p) /\ unpriced' = {} /\ genomeModel' = genomeModel
          /\ phase' = phase /\ phase = "idle" /\ Accepts(Merged(p), p.roster)
      BY <2>6 DEF Reconfigure, pool
    <3>2. /\ Priced(config) \subseteq Priced(config')
          /\ HasUsdLimit(config') = HasUsdLimit(config)
          /\ config'.roster = p.roster
      BY <3>1, MergedType DEF TypeOK
    <3>3. HasUsdLimit(config') => config'.roster \subseteq Priced(config')
      BY <3>1, <3>2 DEF Accepts
    <3> QED
      BY <3>1, <3>2, <3>3 DEF PricedInv
  <2>7. ASSUME NEW p \in Patches, PatchStored(p) PROVE PricedInv'
    <3>1. /\ config' = Merged(p) /\ unpriced' = unpriced /\ genomeModel' = genomeModel
          /\ phase' = "down" /\ phase = "down"
      BY <2>7 DEF PatchStored, pool, tracker
    <3>2. /\ Priced(config) \subseteq Priced(config')
          /\ HasUsdLimit(config') = HasUsdLimit(config)
      BY <3>1, MergedType DEF TypeOK
    <3> QED
      BY <3>1, <3>2 DEF PricedInv
  <2>8. CASE Crash
    BY <2>8 DEF Crash, FreshTracker, PricedInv
  <2>9. CASE Attach
    <3>1. ~HasUsdLimit(config')
      BY <2>9, ResumedType DEF Attach, TypeOK
    <3> QED
      BY <3>1 DEF PricedInv
  <2>10. CASE Replay \/ Attached
    BY <2>10 DEF Replay, Attached, PricedInv
  <2>11. ASSUME NEW a \in Replaceable, NEW m \in Models, ReplaceAgent(a, m) PROVE PricedInv'
    <3>1. HasUsdLimit(config) => m \in Priced(config)
      BY <2>11 DEF ReplaceAgent, Accepts
    <3>2. \A b \in Agents : genomeModel'[b] \in {genomeModel[b], m}
      BY <2>11 DEF ReplaceAgent, TypeOK
    <3>3. UNCHANGED <<config, unpriced, phase>>
      BY <2>11 DEF ReplaceAgent, tracker
    <3> QED
      BY <3>1, <3>2, <3>3 DEF PricedInv
  <2>12. CASE UNCHANGED vars
    BY <2>1, <2>12 DEF vars, tracker, pool
  <2> QED
    BY <2>2, <2>3, <2>4, <2>5, <2>6, <2>7, <2>8, <2>9, <2>10, <2>11, <2>12 DEF Next
<1>3. PricedInv => PricedUnderUsdCap
  BY DEF PricedInv, PricedUnderUsdCap
<1> QED
  BY <1>1, <1>2, <1>3, TypeCorrect, PTL DEF Spec

-----------------------------------------------------------------------------
(* How far a cap is overshot. *)

\* What the agents in flight may still add, at one agent cap each, fits above the
\* cap.  OvershootBounded forgets who is in flight, so it is not inductive: a
\* worker that returns needs its own share to have been set aside at dispatch.
Covered(total, inRound, cap, agentCap) ==
    cap # Unlimited /\ agentCap # Unlimited =>
        \/ inRound = 0 /\ inFlight = {}
        \/ total + Cardinality(inFlight) * agentCap <= cap + Concurrency * agentCap

AllCovered ==
    /\ Covered(runTokens, roundTokens, config.maxRunTokens, config.maxAgentTokens)
    /\ Covered(roundTokens, roundTokens, config.maxRoundTokens, config.maxAgentTokens)
    /\ Covered(runSpend, roundSpend, config.maxRunUsd, config.maxAgentUsd)
    /\ Covered(roundSpend, roundSpend, config.maxRoundUsd, config.maxAgentUsd)

OvershootInv == phase \in {"run", "collect"} /\ ~OffenderNamed => AllCovered

\* Fewer workers, a smaller residual.
LEMMA TimesMonotone ==
    ASSUME NEW k \in Nat, NEW n \in Nat, NEW x \in Nat, k <= n
    PROVE  k * x \in Nat /\ k * x <= n * x
<1>1. PICK d \in Nat : n = k + d
  <2>1. n - k \in Nat /\ n = k + (n - k)
    OBVIOUS
  <2> QED
    BY <2>1
<1>2. k * x \in Nat /\ d * x \in Nat
  OBVIOUS
<1>3. n * x = k * x + d * x
  BY <1>1
<1> QED
  BY <1>2, <1>3

\* One worker less in flight frees exactly one agent cap.
LEMMA TimesLess ==
    ASSUME NEW n \in Nat, n > 0, NEW x \in Nat
    PROVE  n * x = (n - 1) * x + x /\ (n - 1) * x \in Nat
<1>1. PICK k \in Nat : n = k + 1
  <2>1. n - 1 \in Nat /\ n = (n - 1) + 1
    OBVIOUS
  <2> QED
    BY <2>1
<1>2. n * x = k * x + x /\ n - 1 = k /\ k * x \in Nat
  BY <1>1
<1> QED
  BY <1>2

\* At dispatch: the gate was open, so the total is within its cap, and there was
\* a free worker.
LEMMA DispatchCovers ==
    ASSUME TypeOK, Dispatch, NEW total \in Nat, NEW inRound,
           NEW cap \in Limits, NEW agentCap \in Limits, ~Exceeds(total, cap)
    PROVE  cap # Unlimited /\ agentCap # Unlimited =>
             total + Cardinality(inFlight') * agentCap <= cap + Concurrency * agentCap
<1> SUFFICES ASSUME cap # Unlimited, agentCap # Unlimited
             PROVE  total + Cardinality(inFlight') * agentCap <= cap + Concurrency * agentCap
  OBVIOUS
<1>1. cap \in Nat /\ agentCap \in Nat /\ total <= cap
  BY UnlimitedAssumption DEF Limits, Exceeds
<1>2. /\ Cardinality(inFlight') \in Nat
      /\ Cardinality(inFlight') <= Cardinality(inFlight) + 1
      /\ Cardinality(inFlight) \in Nat /\ Cardinality(inFlight) < Concurrency
  BY OneMoreInFlight, InFlightFinite DEF Dispatch, Pull
<1>3. Concurrency \in Nat /\ Cardinality(inFlight') <= Concurrency
  BY <1>2, ConcurrencyAssumption
<1>4. Cardinality(inFlight') * agentCap <= Concurrency * agentCap
  BY <1>1, <1>2, <1>3, TimesMonotone
<1>5. Cardinality(inFlight') * agentCap \in Nat /\ Concurrency * agentCap \in Nat
  BY <1>1, <1>2, <1>3
<1> QED
  BY <1>1, <1>4, <1>5

\* At return: what the agent spent was set aside, unless it broke its own cap.
LEMMA ReturnCovers ==
    ASSUME TypeOK, NEW a \in inFlight, inFlight' = inFlight \ {a},
           NEW total \in Nat, NEW spent \in Nat, NEW inRound, NEW inRoundNow,
           NEW cap \in Limits, NEW agentCap \in Limits, ~Exceeds(spent, agentCap),
           Covered(total, inRound, cap, agentCap)
    PROVE  cap # Unlimited /\ agentCap # Unlimited =>
             total + spent + Cardinality(inFlight') * agentCap <= cap + Concurrency * agentCap
<1> SUFFICES ASSUME cap # Unlimited, agentCap # Unlimited
             PROVE  total + spent + Cardinality(inFlight') * agentCap
                      <= cap + Concurrency * agentCap
  OBVIOUS
<1> DEFINE n == Cardinality(inFlight)
<1>1. cap \in Nat /\ agentCap \in Nat /\ spent <= agentCap
  BY UnlimitedAssumption DEF Limits, Exceeds
<1>2. n \in Nat /\ n > 0 /\ Cardinality(inFlight') = n - 1
  BY OneLessInFlight, InFlightFinite
<1>3. total + n * agentCap <= cap + Concurrency * agentCap
  BY DEF Covered
<1> HIDE DEF n
<1>4. n * agentCap = (n - 1) * agentCap + agentCap /\ (n - 1) * agentCap \in Nat
  BY <1>1, <1>2, TimesLess
<1>5. Concurrency * agentCap \in Nat
  BY <1>1, ConcurrencyAssumption
<1>6. total + spent + (n - 1) * agentCap <= cap + Concurrency * agentCap
  BY <1>1, <1>3, <1>4, <1>5
<1> QED
  BY <1>2, <1>6

\* With nobody in flight more than the residual cannot have been spent.
LEMMA CoveredIsWithin ==
    ASSUME TypeOK, NEW total \in Nat, NEW inRound \in Nat,
           NEW cap \in Limits, NEW agentCap \in Limits,
           Covered(total, inRound, cap, agentCap)
    PROVE  WithinResidual(total, inRound, cap, agentCap)
<1> SUFFICES ASSUME cap # Unlimited, agentCap # Unlimited, inRound > 0
             PROVE  total <= cap + Concurrency * agentCap
  BY ConcurrencyAssumption DEF WithinResidual, WorstCaseResidual
<1>1. cap \in Nat /\ agentCap \in Nat
  BY DEF Limits
<1>2. total + Cardinality(inFlight) * agentCap <= cap + Concurrency * agentCap
  BY DEF Covered
<1>3. Cardinality(inFlight) * agentCap \in Nat /\ Concurrency * agentCap \in Nat
  BY <1>1, InFlightFinite, ConcurrencyAssumption
<1> QED
  BY <1>1, <1>2, <1>3

\* OvershootBounded for every population, number of workers, cap and envelope.
THEOREM Overshoot == Spec => []OvershootBounded
<1>1. Init => OvershootInv
  BY DEF Init, OvershootInv
<1>2. TypeOK /\ TypeOK' /\ OvershootInv /\ [Next]_vars => OvershootInv'
  <2> SUFFICES ASSUME TypeOK, TypeOK', OvershootInv, [Next]_vars,
                      phase' \in {"run", "collect"}, ~OffenderNamed'
               PROVE  AllCovered'
    BY DEF OvershootInv
  <2>l. /\ config.maxRunTokens \in Limits /\ config.maxRoundTokens \in Limits
        /\ config.maxAgentTokens \in Limits /\ config.maxRunUsd \in Limits
        /\ config.maxRoundUsd \in Limits /\ config.maxAgentUsd \in Limits
    BY DEF TypeOK, Configs
  <2>n. runTokens \in Nat /\ roundTokens \in Nat /\ runSpend \in Nat /\ roundSpend \in Nat
    BY DEF TypeOK
  <2>1. ASSUME UNCHANGED <<config, tracker, round, inFlight>>, phase \in {"run", "collect"}
        PROVE  AllCovered'
    <3>1. ~OffenderNamed
      BY <2>1 DEF OffenderNamed, tracker
    <3> QED
      BY <2>1, <3>1 DEF OvershootInv, AllCovered, Covered, tracker
  <2>2. CASE StartRound
    <3>1. roundTokens' = 0 /\ roundSpend' = 0 /\ inFlight' = {}
      BY <2>2 DEF StartRound, EmptyPool
    <3> QED
      BY <3>1 DEF AllCovered, Covered
  <2>3. CASE Dispatch
    <3>1. /\ ~Exceeds(roundTokens, config.maxRoundTokens)
          /\ ~Exceeds(roundSpend, config.maxRoundUsd)
          /\ ~Exceeds(runTokens, config.maxRunTokens)
          /\ ~Exceeds(runSpend, config.maxRunUsd)
      BY <2>3 DEF Dispatch, Exhausted, CheckRun
    <3>2. UNCHANGED <<config, tracker>>
      BY <2>3 DEF Dispatch
    <3>3. ASSUME NEW total \in Nat, NEW inRound, NEW cap \in Limits, NEW agentCap \in Limits,
                 ~Exceeds(total, cap)
          PROVE  cap # Unlimited /\ agentCap # Unlimited =>
                   total + Cardinality(inFlight') * agentCap <= cap + Concurrency * agentCap
      BY <2>3, <3>3, DispatchCovers
    <3> QED
      BY <2>l, <2>n, <3>1, <3>2, <3>3 DEF AllCovered, Covered, tracker
  <2>4. CASE Skip \/ EndRun \/ Collect
    BY <2>1, <2>4 DEF Skip, Pull, EndRun, Collect, pool
  <2>5. CASE EndRound \/ FailCollect
    BY <2>5 DEF EndRound, FailCollect
  <2>6. ASSUME NEW a \in Agents, Lose(a) PROVE AllCovered'
    <3>1. /\ UNCHANGED <<config, tracker, round>> /\ phase = "run"
          /\ a \in inFlight /\ inFlight' = inFlight \ {a}
      BY <2>6 DEF Lose
    <3>2. AllCovered
      BY <3>1 DEF OvershootInv, OffenderNamed, tracker
    <3>3. ASSUME NEW total \in Nat, NEW inRound, NEW cap \in Limits, NEW agentCap \in Limits,
                 Covered(total, inRound, cap, agentCap)
          PROVE  cap # Unlimited /\ agentCap # Unlimited =>
                   total + Cardinality(inFlight') * agentCap <= cap + Concurrency * agentCap
      <4>1. ~Exceeds(0, agentCap)
        BY UnlimitedAssumption DEF Exceeds, Limits
      <4>2. cap # Unlimited /\ agentCap # Unlimited =>
              total + 0 + Cardinality(inFlight') * agentCap <= cap + Concurrency * agentCap
        BY <3>1, <3>3, <4>1, ReturnCovers
      <4> QED
        BY <4>2
    <3> QED
      BY <2>l, <2>n, <3>1, <3>2, <3>3 DEF AllCovered, Covered, tracker
  <2>7. ASSUME NEW a \in Agents, NEW usage \in Usages, Record(a, usage) PROVE AllCovered'
    <3> DEFINE usd == UsdOf(config, genomeModel[a], usage)
    <3>1. /\ config' = config /\ round' = round /\ phase = "run"
          /\ a \in inFlight /\ inFlight' = inFlight \ {a}
          /\ Bill(round, a, genomeModel[a], usage)
      BY <2>7 DEF Record
    <3>2. usage \in Envelopes /\ usage.tokens \in Nat /\ usd \in Nat
      <4>1. usage \in Envelopes /\ genomeModel[a] \in Models /\ config \in Configs
        BY UsagesAssumption DEF TypeOK
      <4> QED
        BY <4>1, UsdType DEF Envelopes
    <3>3. /\ runTokens' = runTokens + usage.tokens /\ roundTokens' = roundTokens + usage.tokens
          /\ runSpend' = runSpend + usd /\ roundSpend' = roundSpend + usd
      BY <3>1 DEF Bill
    <3>4. /\ ~Exceeds(usage.tokens, config.maxAgentTokens) /\ ~Exceeds(usd, config.maxAgentUsd)
          /\ agentBreaches' = agentBreaches
      BY <3>1 DEF Bill, OffenderNamed
    <3>5. AllCovered
      BY <3>1, <3>4 DEF OvershootInv, OffenderNamed
    <3>6. ASSUME NEW total \in Nat, NEW spent \in Nat, NEW inRound,
                 NEW cap \in Limits, NEW agentCap \in Limits, ~Exceeds(spent, agentCap),
                 Covered(total, inRound, cap, agentCap)
          PROVE  cap # Unlimited /\ agentCap # Unlimited =>
                   total + spent + Cardinality(inFlight') * agentCap
                     <= cap + Concurrency * agentCap
      BY <3>1, <3>6, ReturnCovers
    <3> HIDE DEF usd
    <3> QED
      BY <2>l, <2>n, <3>1, <3>2, <3>3, <3>4, <3>5, <3>6 DEF AllCovered, Covered
  <2>8. ASSUME NEW p \in Patches, Reconfigure(p) \/ PatchStored(p) PROVE FALSE
    BY <2>8 DEF Reconfigure, PatchStored
  <2>9. CASE Crash \/ Attach \/ Replay \/ Attached
    BY <2>9 DEF Crash, Attach, Replay, Attached
  <2>10. ASSUME NEW a \in Replaceable, NEW m \in Models, ReplaceAgent(a, m) PROVE FALSE
    BY <2>10 DEF ReplaceAgent
  <2>11. CASE UNCHANGED vars
    BY <2>1, <2>11 DEF vars, pool
  <2> QED
    BY <2>2, <2>3, <2>4, <2>5, <2>6, <2>7, <2>8, <2>9, <2>10, <2>11 DEF Next
<1>3. TypeOK /\ OvershootInv => OvershootBounded
  <2> SUFFICES ASSUME TypeOK, OvershootInv, phase \in {"run", "collect"}, ~OffenderNamed
               PROVE  /\ WithinResidual(runTokens, roundTokens, config.maxRunTokens, config.maxAgentTokens)
                      /\ WithinResidual(roundTokens, roundTokens, config.maxRoundTokens, config.maxAgentTokens)
                      /\ WithinResidual(runSpend, roundSpend, config.maxRunUsd, config.maxAgentUsd)
                      /\ WithinResidual(roundSpend, roundSpend, config.maxRoundUsd, config.maxAgentUsd)
    BY DEF OvershootBounded
  <2>1. /\ config.maxRunTokens \in Limits /\ config.maxRoundTokens \in Limits
        /\ config.maxAgentTokens \in Limits /\ config.maxRunUsd \in Limits
        /\ config.maxRoundUsd \in Limits /\ config.maxAgentUsd \in Limits
    BY DEF TypeOK, Configs
  <2>2. runTokens \in Nat /\ roundTokens \in Nat /\ runSpend \in Nat /\ roundSpend \in Nat
    BY DEF TypeOK
  <2>3. AllCovered
    BY DEF OvershootInv
  <2> QED
    BY <2>1, <2>2, <2>3, CoveredIsWithin DEF AllCovered
<1> QED
  BY <1>1, <1>2, <1>3, TypeCorrect, PTL DEF Spec

-----------------------------------------------------------------------------
(* What survives a restart.  The rows are summed by a function of how many  *)
(* of them are counted, the envelopes of the round by one of how many       *)
(* agents; either sum exists, and grows by what is added.                   *)

Sums(f, s) ==
    /\ f \in [0..Len(s) -> Nat] /\ f[0] = 0
    /\ \A i \in 1..Len(s) : f[i] = f[i - 1] + s[i].usage.tokens
    /\ \A i \in 0..Len(s) : f[i] <= f[Len(s)]

Owes(g, r) ==
    /\ g \in [0..Population -> Nat] /\ g[0] = 0
    /\ \A a \in 1..Population : g[a] = g[a - 1] + r[a].tokens
    /\ \A a \in 0..Population : g[a] <= g[Population]

\* f sums the rows, g what the round's agents returned.
Balanced(f, g) ==
    /\ runTokens <= billedTokens /\ f[Len(rows)] <= billedTokens
    /\ phase \in {"run", "collect"} =>
         LET kept == f[Len(rows)] + (g[Population] - g[collected])
         IN  /\ kept <= billedTokens
             /\ ~interrupted => kept = billedTokens /\ runTokens = billedTokens
    /\ phase = "run" =>
         /\ collected = 0
         /\ \A a \in Agents : a \in inFlight \/ a >= cursor => returned[a].tokens = 0
    /\ phase \in {"idle", "down", "replay"} /\ ~interrupted => f[Len(rows)] = billedTokens
    /\ phase = "idle" /\ ~interrupted => runTokens = billedTokens
    /\ phase = "replay" => runTokens = f[replayed]

SpendInv == \E f, g : Sums(f, rows) /\ Owes(g, returned) /\ Balanced(f, g)

\* A row more.
LEMMA SumAppended ==
    ASSUME NEW s \in Seq(Rows), NEW row \in Rows, NEW f, Sums(f, s)
    PROVE  \E h : /\ Sums(h, Append(s, row)) /\ h[Len(s)] = f[Len(s)]
                  /\ h[Len(Append(s, row))] = f[Len(s)] + row.usage.tokens
<1> DEFINE N == Len(s)
           t == Append(s, row)
           n == row.usage.tokens
           h == [i \in 0..(N + 1) |-> IF i = N + 1 THEN f[N] + n ELSE f[i]]
<1>1. /\ N \in Nat /\ Len(t) = N + 1 /\ t[N + 1] = row /\ \A i \in 1..N : t[i] = s[i]
  OBVIOUS
<1>2. n \in Nat
  BY DEF Rows, Envelopes
<1>3. /\ f \in [0..N -> Nat] /\ f[0] = 0
      /\ \A i \in 1..N : f[i] = f[i - 1] + s[i].usage.tokens
      /\ \A i \in 0..N : f[i] <= f[N]
  BY DEF Sums
<1> HIDE DEF t, N
<1>4. /\ h \in [0..(N + 1) -> Nat] /\ h[N + 1] = f[N] + n
      /\ \A i \in 0..N : h[i] = f[i]
  <2>1. \A i \in 0..(N + 1) : i # N + 1 => i \in 0..N
    BY <1>1
  <2>2. N + 1 \in 0..(N + 1) /\ f[N] + n \in Nat
    BY <1>1, <1>2, <1>3
  <2>3. \A i \in 0..N : i # N + 1 /\ i \in 0..(N + 1)
    BY <1>1
  <2> HIDE DEF n
  <2> QED
    BY <1>3, <2>1, <2>2, <2>3
<1>5. t[N + 1].usage.tokens = n
  BY <1>1
<1> HIDE DEF n, h
<1>6. ASSUME NEW i \in 1..(N + 1)
      PROVE  h[i] = h[i - 1] + t[i].usage.tokens
  <2>1. CASE i = N + 1
    BY <1>1, <1>4, <1>5, <2>1
  <2>2. CASE i # N + 1
    <3>1. i \in 1..N /\ i \in 0..N /\ i - 1 \in 0..N
      BY <1>1, <2>2
    <3> QED
      BY <1>1, <1>3, <1>4, <3>1
  <2> QED
    BY <2>1, <2>2
<1>7. ASSUME NEW i \in 0..(N + 1)
      PROVE  h[i] <= h[N + 1]
  <2>1. CASE i = N + 1
    BY <1>1, <1>4, <2>1
  <2>2. CASE i # N + 1
    <3>1. i \in 0..N /\ N \in 0..N
      BY <1>1, <2>2
    <3>2. f[i] \in Nat /\ f[N] \in Nat /\ f[i] <= f[N]
      BY <1>3, <3>1
    <3> QED
      BY <1>2, <1>4, <3>1, <3>2
  <2> QED
    BY <2>1, <2>2
<1>8. h[0] = 0 /\ h[N] = f[N]
  BY <1>1, <1>3, <1>4
<1>9. Sums(h, t)
  BY <1>1, <1>4, <1>6, <1>7, <1>8 DEF Sums
<1>10. h[N] = f[N] /\ h[Len(t)] = f[N] + n
  BY <1>1, <1>4, <1>8
<1> QED
  BY <1>9, <1>10 DEF t, N, n

\* An agent that had returned nothing returns an envelope.
LEMMA OwedRaised ==
    ASSUME NEW r \in [Agents -> Envelopes], NEW a \in Agents, NEW usage \in Envelopes,
           r[a].tokens = 0, NEW g, Owes(g, r)
    PROVE  \E h : /\ Owes(h, [r EXCEPT ![a] = usage])
                  /\ h[Population] = g[Population] + usage.tokens
<1> DEFINE P == Population
           n == usage.tokens
           q == [r EXCEPT ![a] = usage]
           h == [i \in 0..P |-> IF i >= a THEN g[i] + n ELSE g[i]]
<1>1. P \in Nat /\ Agents = 1..P /\ a \in 1..P
  BY PopulationAssumption DEF Agents
<1>2. n \in Nat
  BY DEF Envelopes
<1>3. /\ g \in [0..P -> Nat] /\ g[0] = 0
      /\ \A i \in 1..P : g[i] = g[i - 1] + r[i].tokens
      /\ \A i \in 0..P : g[i] <= g[P]
  BY DEF Owes
<1>4. q[a] = usage /\ \A i \in 1..P : i # a => q[i] = r[i]
  BY <1>1
<1>5. q[a].tokens = n
  BY <1>4
<1> HIDE DEF P, n, q
<1>6. \A i \in 0..P : h[i] = IF i >= a THEN g[i] + n ELSE g[i]
  OBVIOUS
<1>7. h \in [0..P -> Nat]
  BY <1>2, <1>3
<1> HIDE DEF h
<1>8. ASSUME NEW i \in 1..P
      PROVE  h[i] = h[i - 1] + q[i].tokens
  <2>1. i \in 0..P /\ i - 1 \in 0..P /\ g[i] = g[i - 1] + r[i].tokens
    BY <1>1, <1>3
  <2>2. g[i] \in Nat /\ g[i - 1] \in Nat
    BY <1>3, <2>1
  <2>3. CASE i = a
    <3>1. i >= a /\ ~(i - 1 >= a)
      BY <1>1, <2>3
    <3>2. g[i] = g[i - 1]
      BY <2>1, <2>2, <2>3
    <3> QED
      BY <1>2, <1>5, <1>6, <2>1, <2>2, <2>3, <3>1, <3>2
  <2>4. CASE i # a
    <3>1. i >= a <=> i - 1 >= a
      BY <1>1, <2>4
    <3>2. q[i] = r[i]
      BY <1>4, <2>4
    <3>3. r[i].tokens \in Nat
      BY <1>1 DEF Envelopes
    <3> QED
      BY <1>2, <1>6, <2>1, <2>2, <3>1, <3>2, <3>3
  <2> QED
    BY <2>3, <2>4
<1>9. h[0] = 0 /\ h[P] = g[P] + n
  <2>1. 0 \in 0..P /\ P \in 0..P /\ ~(0 >= a) /\ P >= a
    BY <1>1
  <2> QED
    BY <1>3, <1>6, <2>1
<1>10. ASSUME NEW i \in 0..P
       PROVE  h[i] <= h[P]
  <2>1. g[i] \in Nat /\ g[P] \in Nat /\ g[i] <= g[P]
    BY <1>1, <1>3
  <2> QED
    BY <1>2, <1>6, <1>9, <2>1
<1>11. Owes(h, q)
  BY <1>7, <1>8, <1>9, <1>10 DEF Owes, P
<1> QED
  BY <1>9, <1>11 DEF P, n, q

\* Nothing is owed by agents that have not begun.
LEMMA OwedByNone ==
    \E g : Owes(g, [a \in Agents |-> NoUsage]) /\ \A i \in 0..Population : g[i] = 0
<1> DEFINE g == [i \in 0..Population |-> 0]
           r == [a \in Agents |-> NoUsage]
<1>1. Population \in Nat /\ Agents = 1..Population
  BY PopulationAssumption DEF Agents
<1>2. \A a \in 1..Population : r[a].tokens = 0
  BY <1>1 DEF NoUsage
<1> HIDE DEF r
<1>3. Owes(g, r)
  BY <1>1, <1>2 DEF Owes
<1>4. \A i \in 0..Population : g[i] = 0
  OBVIOUS
<1> QED
  BY <1>3, <1>4 DEF r

\* The sums are numbers, and none counts more than the whole.
LEMMA SumFacts ==
    ASSUME TypeOK, NEW f, NEW g, Sums(f, rows), Owes(g, returned)
    PROVE  /\ f[Len(rows)] \in Nat /\ g[Population] \in Nat /\ g[collected] \in Nat
           /\ g[collected] <= g[Population] /\ g[0] = 0 /\ f[0] = 0
           /\ f[replayed] \in Nat /\ f[replayed] <= f[Len(rows)]
           /\ runTokens \in Nat /\ billedTokens \in Nat /\ interrupted \in BOOLEAN
           /\ Population \in Nat
<1>1. /\ Len(rows) \in Nat /\ replayed \in 0..Len(rows) /\ collected \in 0..Population
      /\ Population \in Nat
  BY PopulationAssumption DEF TypeOK
<1>2. Len(rows) \in 0..Len(rows) /\ Population \in 0..Population
  BY <1>1
<1> QED
  BY <1>1, <1>2 DEF TypeOK, Sums, Owes

LEMMA StepKeepsSpend ==
    ASSUME TypeOK, SpendInv, [Next]_vars
    PROVE  SpendInv'
<1>1. PICK f, g : Sums(f, rows) /\ Owes(g, returned) /\ Balanced(f, g)
  BY DEF SpendInv
<1>2. /\ f[Len(rows)] \in Nat /\ g[Population] \in Nat /\ g[collected] \in Nat
      /\ g[collected] <= g[Population] /\ g[0] = 0 /\ f[0] = 0
      /\ f[replayed] \in Nat /\ f[replayed] <= f[Len(rows)]
      /\ runTokens \in Nat /\ billedTokens \in Nat /\ interrupted \in BOOLEAN
      /\ Population \in Nat
  BY <1>1, SumFacts
<1>e. EmptyPool => \E h : Owes(h, returned') /\ h[Population] = 0 /\ h[0] = 0
  <2>1. PICK h : Owes(h, [a \in Agents |-> NoUsage]) /\ \A i \in 0..Population : h[i] = 0
    BY OwedByNone
  <2>2. 0 \in 0..Population /\ Population \in 0..Population
    BY <1>2
  <2> QED
    BY <2>1, <2>2 DEF EmptyPool
<1>3. CASE StartRound
  <2>1. /\ UNCHANGED <<runTokens, rows, billedTokens, interrupted>> /\ EmptyPool
        /\ phase = "idle" /\ phase' = "run"
    BY <1>3 DEF StartRound, history
  <2>2. PICK h : Owes(h, returned') /\ h[Population] = 0 /\ h[0] = 0
    BY <2>1, <1>e
  <2>3. collected' = 0 /\ \A a \in Agents : returned'[a].tokens = 0
    BY <2>1 DEF EmptyPool, NoUsage
  <2>4. Balanced(f, h)'
    BY <1>1, <1>2, <2>1, <2>2, <2>3 DEF Balanced
  <2> QED
    BY <1>1, <2>1, <2>2, <2>4 DEF SpendInv
<1>4. CASE Dispatch \/ Skip
  <2>1. /\ UNCHANGED <<runTokens, rows, billedTokens, interrupted, phase, returned, collected,
                       replayed>>
        /\ phase = "run" /\ cursor' = cursor + 1
        /\ inFlight' = inFlight \/ inFlight' = inFlight \cup {cursor}
    BY <1>4 DEF Dispatch, Skip, Pull, tracker, history
  <2>2. \A a \in Agents : a \in inFlight' \/ a >= cursor' => returned[a].tokens = 0
    <3>1. cursor \in Nat /\ Agents \subseteq Nat
      BY DEF TypeOK, Agents
    <3>2. \A a \in Agents : a \in inFlight' \/ a >= cursor' => a \in inFlight \/ a >= cursor
      BY <2>1, <3>1
    <3> QED
      BY <1>1, <2>1, <3>2 DEF Balanced
  <2>3. Balanced(f, g)'
    BY <1>1, <2>1, <2>2 DEF Balanced
  <2> QED
    BY <1>1, <2>1, <2>3 DEF SpendInv
<1>5. CASE EndRun
  <2>1. /\ UNCHANGED <<runTokens, rows, billedTokens, interrupted, returned, collected>>
        /\ phase = "run" /\ phase' = "collect"
    BY <1>5 DEF EndRun, tracker, pool, history
  <2>2. Balanced(f, g)'
    BY <1>1, <2>1 DEF Balanced
  <2> QED
    BY <1>1, <2>1, <2>2 DEF SpendInv
<1>6. CASE Collect
  <2> DEFINE a == collected + 1
             row == [round |-> round, agent |-> a, model |-> genomeModel[a],
                     usage |-> returned[a]]
  <2>1. /\ UNCHANGED <<runTokens, billedTokens, interrupted, phase, returned>>
        /\ rows' = Append(rows, row) /\ collected' = a /\ phase = "collect"
        /\ collected < Population
    BY <1>6 DEF Collect, tracker, history
  <2>2. a \in Agents /\ collected \in Nat
    BY <2>1, PopulationAssumption DEF TypeOK, Agents
  <2>3. row \in Rows /\ row.usage = returned[a]
    BY <2>2 DEF Rows, TypeOK
  <2>4. g[a] = g[collected] + returned[a].tokens /\ returned[a].tokens \in Nat
    <3>1. a \in 1..Population /\ a - 1 = collected
      BY <2>2 DEF Agents
    <3> QED
      BY <1>1, <2>2, <3>1 DEF Owes, TypeOK, Envelopes
  <2> HIDE DEF row, a
  <2>5. rows \in Seq(Rows)
    BY DEF TypeOK
  <2>6. PICK h : /\ Sums(h, Append(rows, row))
                 /\ h[Len(Append(rows, row))] = f[Len(rows)] + row.usage.tokens
    BY <1>1, <2>3, <2>5, SumAppended
  <2>7. Sums(h, rows') /\ h[Len(rows')] = f[Len(rows)] + returned[a].tokens
    BY <2>1, <2>3, <2>6
  <2>8. h[Len(rows')] + (g[Population] - g[a]) = f[Len(rows)] + (g[Population] - g[collected])
    BY <1>2, <2>4, <2>7
  <2>9. h[Len(rows')] <= billedTokens
    <3>1. f[Len(rows)] + (g[Population] - g[collected]) <= billedTokens
      BY <1>1, <2>1 DEF Balanced
    <3>2. g[a] <= g[Population] /\ g[a] \in Nat
      <4>1. a \in 0..Population
        BY <2>2 DEF Agents
      <4> QED
        BY <1>1, <4>1 DEF Owes
    <3> QED
      BY <1>2, <2>4, <2>7, <2>8, <3>1, <3>2
  <2>10. Balanced(h, g)'
    BY <1>1, <2>1, <2>8, <2>9 DEF Balanced
  <2> QED
    BY <1>1, <2>1, <2>7, <2>10 DEF SpendInv
<1>7. CASE EndRound \/ FailCollect
  <2>1. /\ UNCHANGED <<runTokens, rows, billedTokens, returned, collected>>
        /\ phase = "collect" /\ phase' = "idle"
        /\ \/ interrupted' = interrupted /\ collected = Population
           \/ interrupted'
    BY <1>7 DEF EndRound, FailCollect, tracker, pool, history
  <2>2. f[Len(rows)] <= billedTokens
    BY <1>1 DEF Balanced
  <2>3. ~interrupted' => f[Len(rows)] = billedTokens /\ runTokens = billedTokens
    BY <1>1, <1>2, <2>1 DEF Balanced
  <2>4. Balanced(f, g)'
    BY <1>1, <2>1, <2>2, <2>3 DEF Balanced
  <2> QED
    BY <1>1, <2>1, <2>4 DEF SpendInv
<1>8. ASSUME NEW a \in Agents, Lose(a)
      PROVE  SpendInv'
  <2>1. /\ UNCHANGED <<runTokens, rows, billedTokens, interrupted, phase, returned, collected,
                       cursor>>
        /\ phase = "run" /\ inFlight' \subseteq inFlight
    BY <1>8 DEF Lose, tracker, history
  <2>2. Balanced(f, g)'
    BY <1>1, <2>1 DEF Balanced
  <2> QED
    BY <1>1, <2>1, <2>2 DEF SpendInv
<1>9. ASSUME NEW a \in Agents, NEW usage \in Usages, Record(a, usage)
      PROVE  SpendInv'
  <2>1. /\ UNCHANGED <<rows, interrupted, phase, collected, cursor>> /\ phase = "run"
        /\ a \in inFlight /\ inFlight' = inFlight \ {a}
        /\ returned' = [returned EXCEPT ![a] = usage]
        /\ runTokens' = runTokens + usage.tokens /\ billedTokens' = billedTokens + usage.tokens
    BY <1>9 DEF Record, Bill
  <2>2. usage \in Envelopes /\ usage.tokens \in Nat /\ returned \in [Agents -> Envelopes]
    BY UsagesAssumption DEF TypeOK, Envelopes
  <2>3. returned[a].tokens = 0 /\ collected = 0
    BY <1>1, <2>1 DEF Balanced
  <2>4. PICK h : Owes(h, returned') /\ h[Population] = g[Population] + usage.tokens
    <3> DEFINE r == returned
               n == usage.tokens
    <3>1. r \in [Agents -> Envelopes] /\ r[a].tokens = 0 /\ usage \in Envelopes /\ Owes(g, r)
      BY <1>1, <2>2, <2>3
    <3>2. returned' = [r EXCEPT ![a] = usage]
      BY <2>1
    <3> HIDE DEF r
    <3>3. \E h : Owes(h, [r EXCEPT ![a] = usage]) /\ h[Population] = g[Population] + usage.tokens
      BY <3>1, OwedRaised, Zenon
    <3> QED
      BY <3>2, <3>3
  <2>5. h[0] = 0
    BY <2>4 DEF Owes
  <2>6. \A x \in Agents : x \in inFlight' \/ x >= cursor' => returned'[x].tokens = 0
    <3>1. a < cursor /\ cursor \in Nat
      BY <2>1 DEF TypeOK, Agents
    <3>2. ASSUME NEW x \in Agents, x \in inFlight' \/ x >= cursor'
          PROVE  x # a /\ (x \in inFlight \/ x >= cursor)
      BY <2>1, <3>1, <3>2 DEF Agents
    <3> QED
      BY <1>1, <2>1, <2>2, <3>2 DEF Balanced
  <2>7. /\ runTokens' <= billedTokens' /\ f[Len(rows)] <= billedTokens'
        /\ f[Len(rows)] + (h[Population] - h[0]) <= billedTokens'
        /\ ~interrupted => /\ f[Len(rows)] + (h[Population] - h[0]) = billedTokens'
                           /\ runTokens' = billedTokens'
    <3>1. /\ runTokens <= billedTokens /\ f[Len(rows)] <= billedTokens
          /\ f[Len(rows)] + (g[Population] - g[0]) <= billedTokens
          /\ ~interrupted => /\ f[Len(rows)] + (g[Population] - g[0]) = billedTokens
                             /\ runTokens = billedTokens
      BY <1>1, <2>1, <2>3 DEF Balanced
    <3>2. /\ runTokens' = runTokens + usage.tokens /\ billedTokens' = billedTokens + usage.tokens
          /\ interrupted' = interrupted
      BY <2>1, <2>2
    <3>3. /\ h[Population] = g[Population] + usage.tokens /\ h[0] = 0 /\ g[0] = 0
          /\ usage.tokens \in Nat /\ f[Len(rows)] \in Nat /\ g[Population] \in Nat
          /\ runTokens \in Nat /\ billedTokens \in Nat
      BY <1>2, <2>2, <2>4, <2>5
    <3> QED
      BY <3>1, <3>2, <3>3
  <2>8. Balanced(f, h)'
    BY <2>1, <2>3, <2>6, <2>7 DEF Balanced
  <2> QED
    BY <1>1, <2>1, <2>4, <2>8 DEF SpendInv
<1>10. ASSUME NEW p \in Patches, Reconfigure(p) \/ PatchStored(p)
       PROVE  SpendInv'
  <2>1. UNCHANGED <<runTokens, rows, billedTokens, interrupted, phase, returned, collected,
                    cursor, inFlight, replayed>>
    BY <1>10 DEF Reconfigure, PatchStored, tracker, pool, history
  <2>2. Balanced(f, g)'
    BY <1>1, <2>1 DEF Balanced
  <2> QED
    BY <1>1, <2>1, <2>2 DEF SpendInv
<1>11. ASSUME NEW a \in Replaceable, NEW m \in Models, ReplaceAgent(a, m)
       PROVE  SpendInv'
  <2>1. UNCHANGED <<runTokens, rows, billedTokens, interrupted, phase, returned, collected,
                    cursor, inFlight, replayed>>
    BY <1>11 DEF ReplaceAgent, tracker, history
  <2>2. Balanced(f, g)'
    BY <1>1, <2>1 DEF Balanced
  <2> QED
    BY <1>1, <2>1, <2>2 DEF SpendInv
<1>12. CASE Crash
  <2>1. /\ UNCHANGED <<rows, billedTokens>> /\ EmptyPool /\ runTokens' = 0 /\ phase' = "down"
        /\ \/ phase = "idle" /\ interrupted' = interrupted
           \/ interrupted'
    BY <1>2, <1>12 DEF Crash, FreshTracker
  <2>2. PICK h : Owes(h, returned')
    BY <2>1, <1>e
  <2>3. Balanced(f, h)'
    BY <1>1, <1>2, <2>1 DEF Balanced
  <2> QED
    BY <1>1, <2>1, <2>2, <2>3 DEF SpendInv
<1>13. CASE Attach
  <2>1. /\ UNCHANGED <<rows, billedTokens, interrupted, returned>>
        /\ runTokens' = 0 /\ replayed' = 0 /\ phase = "down" /\ phase' = "replay"
    BY <1>13 DEF Attach, FreshTracker, pool, history
  <2>2. Balanced(f, g)'
    BY <1>1, <1>2, <2>1 DEF Balanced
  <2> QED
    BY <1>1, <2>1, <2>2 DEF SpendInv
<1>14. CASE Replay
  <2> DEFINE row == rows[replayed + 1]
  <2>1. /\ UNCHANGED <<rows, billedTokens, interrupted, returned, phase>>
        /\ runTokens' = runTokens + row.usage.tokens /\ replayed' = replayed + 1
        /\ phase = "replay" /\ replayed < Len(rows)
    BY <1>14 DEF Replay, Bill, pool, history
  <2>2. /\ replayed + 1 \in 1..Len(rows) /\ replayed + 1 \in 0..Len(rows)
        /\ (replayed + 1) - 1 = replayed
    BY <2>1 DEF TypeOK
  <2>3. /\ f[replayed + 1] = f[replayed] + row.usage.tokens
        /\ f[replayed + 1] <= f[Len(rows)] /\ f[replayed + 1] \in Nat
    BY <1>1, <2>2 DEF Sums
  <2>4. runTokens' = f[replayed'] /\ runTokens' <= billedTokens
    BY <1>1, <1>2, <2>1, <2>3 DEF Balanced
  <2>5. Balanced(f, g)'
    BY <1>1, <2>1, <2>4 DEF Balanced
  <2> QED
    BY <1>1, <2>1, <2>5 DEF SpendInv
<1>15. CASE Attached
  <2>1. /\ UNCHANGED <<rows, billedTokens, interrupted, returned, runTokens>>
        /\ phase = "replay" /\ phase' = "idle" /\ replayed = Len(rows)
    BY <1>15 DEF Attached, tracker, pool, history
  <2>2. Balanced(f, g)'
    BY <1>1, <2>1 DEF Balanced
  <2> QED
    BY <1>1, <2>1, <2>2 DEF SpendInv
<1>16. CASE UNCHANGED vars
  <2>1. UNCHANGED <<runTokens, rows, billedTokens, interrupted, phase, returned, collected,
                    cursor, inFlight, replayed>>
    BY <1>16 DEF vars, tracker, pool, history
  <2>2. Balanced(f, g)'
    BY <1>1, <2>1 DEF Balanced
  <2> QED
    BY <1>1, <2>1, <2>2 DEF SpendInv
<1> QED
  BY <1>3, <1>4, <1>5, <1>6, <1>7, <1>8, <1>9, <1>10, <1>11, <1>12, <1>13, <1>14, <1>15, <1>16
     DEF Next

LEMMA InitSpends ==
    ASSUME Init
    PROVE  SpendInv
<1>1. PICK g : Owes(g, [a \in Agents |-> NoUsage])
  BY OwedByNone
<1> DEFINE f == [i \in 0..0 |-> 0]
<1>2. /\ rows = <<>> /\ returned = [a \in Agents |-> NoUsage] /\ runTokens = 0
      /\ billedTokens = 0 /\ phase = "idle"
  BY DEF Init
<1>3. Len(rows) = 0 /\ f[0] = 0
  BY <1>2
<1>4. Sums(f, rows)
  BY <1>3 DEF Sums
<1> HIDE DEF f
<1>5. Balanced(f, g)
  BY <1>2, <1>3 DEF Balanced
<1> QED
  BY <1>1, <1>2, <1>4, <1>5 DEF SpendInv

(* A restart neither forgets nor repeats token spend: what a tracker holds   *)
(* between rounds never exceeds what was recorded, and is exactly that while *)
(* no round was cut off between a record and its row.                        *)
THEOREM ReplayIsExact == Spec => []ReplayRebuildsTokens
<1>1. Init => SpendInv
  BY InitSpends
<1>2. TypeOK /\ SpendInv /\ [Next]_vars => SpendInv'
  BY StepKeepsSpend
<1>3. TypeOK /\ SpendInv => ReplayRebuildsTokens
  BY DEF SpendInv, Balanced, ReplayRebuildsTokens
<1> QED
  BY <1>1, <1>2, <1>3, TypeCorrect, PTL DEF Spec
=============================================================================
