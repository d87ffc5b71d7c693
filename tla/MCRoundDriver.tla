--------------------------- MODULE MCRoundDriver ---------------------------
(* RoundDriver with workers in one container, or in one each. *)
EXTENDS RoundDriver

Shared == [a \in Agents |-> 1]
Alone == [a \in Agents |-> a]

SharedOrAlone ==
    {[protected |-> FALSE, survivors |-> FALSE, shard |-> shard] : shard \in {Shared, Alone}}

\* An unprotected container outlives the process and is adopted by name.
Adopted == {[protected |-> FALSE, survivors |-> TRUE, shard |-> Alone]}

\* ... a protected one outlives it and is recreated; or the host went down with it.
AnySetup ==
    {[protected |-> TRUE, survivors |-> TRUE, shard |-> Alone],
     [protected |-> FALSE, survivors |-> FALSE, shard |-> Alone]}
=============================================================================
