----------------------------- MODULE Subsequences -----------------------------
(***************************************************************************)
(* Parts of a sequence and parts of a function, by the elements they keep. *)
(* They are given by sets, not by predicates, so that facts about them can *)
(* be stated once.                                                         *)
(***************************************************************************)
EXTENDS Naturals, Sequences

\* The elements of s that are in S, in their order: SelectSeq of membership.
Among(s, S) ==
    LET kept[n \in 0..Len(s)] ==
            IF n = 0 THEN <<>>
            ELSE IF s[n] \in S THEN Append(kept[n - 1], s[n]) ELSE kept[n - 1]
    IN  kept[Len(s)]

\* f, and g where f is not defined.
Extended(f, g) ==
    [x \in DOMAIN f \cup DOMAIN g |-> IF x \in DOMAIN f THEN f[x] ELSE g[x]]
=============================================================================
