------------------------------ MODULE MCLineage ------------------------------
(* Lineage with three founders, settings at and around the edges of the bands. *)
EXTENDS Lineage, TLC

Settings(elite, top, bottom, cross, floor) ==
    [elite |-> elite, top |-> top, bottom |-> bottom, cross |-> cross, floor |-> floor]

\* Of three agents: two in the top band and one culled, with and without the floor;
\* one and two; an elite of both; halves; and an elite that settings must refuse.
EdgeConfigs ==
    {Settings(1, 67, 34, 100, FALSE), Settings(1, 67, 34, 0, TRUE),
     Settings(1, 30, 70, 100, TRUE), Settings(2, 67, 70, 50, TRUE),
     Settings(1, 50, 50, 50, TRUE), Settings(2, 50, 50, 0, FALSE)}

FounderSymmetry == Permutations(Founders)
=============================================================================
