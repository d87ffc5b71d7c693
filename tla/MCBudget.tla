------------------------------ MODULE MCBudget ------------------------------
(* Budget on a small tournament: three agents, two workers, two models, one  *)
(* of which gets its price only by a PATCH that also revises the other's.    *)
EXTENDS Budget

CONSTANTS m1, m2

MCModels == {m1, m2}

\* A run cap two envelopes reach, a round cap one offender reaches.
MCConfig ==
    [maxRunTokens |-> 5, maxRoundTokens |-> 3, maxAgentTokens |-> 2,
     maxRunUsd |-> 5, maxRoundUsd |-> Unlimited, maxAgentUsd |-> 2,
     pricing |-> [m \in MCModels |-> IF m = m1 THEN 1 ELSE NoPrice], roster |-> {m1}]

\* Lift the token caps, add m2 with its price and revise m1's; tighten the caps and
\* ask for both models, which is refused under a dollar cap while m2 has no price.
MCPatches ==
    {[caps |-> [maxRunTokens |-> Unlimited, maxRoundTokens |-> Unlimited, maxAgentTokens |-> 2],
      pricing |-> [m \in MCModels |-> IF m = m1 THEN 0 ELSE 2], roster |-> {m2}],
     [caps |-> [maxRunTokens |-> 2, maxRoundTokens |-> 3, maxAgentTokens |-> 2],
      pricing |-> [m \in MCModels |-> NoPrice], roster |-> {m1, m2}]}

\* A worker within its caps, and one that breaks the token cap.
MCUsages == {[tokens |-> 2, reported |-> 0], [tokens |-> 3, reported |-> 1]}
=============================================================================
