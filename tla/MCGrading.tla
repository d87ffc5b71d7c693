------------------------------ MODULE MCGrading ------------------------------
(* Three agents judged in one call, or after that has failed in two batches  *)
(* with a final between them; when one of them has nothing to grade, in one  *)
(* batch, which needs no final.  The first agent is followed in what it does. *)
EXTENDS Grading

MCAgents == 1..3
MCActors == {1}
MCSettings == {[mode |-> "auto", singleMax |-> 3, batchSize |-> 2]}
=============================================================================
