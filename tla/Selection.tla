------------------------------ MODULE Selection ------------------------------
(***************************************************************************)
(* planSelection (core/selection.ts): which of a ranked population are     *)
(* kept, changed and replaced.  A ranking is a sequence of agents, best    *)
(* first.  Shares are whole percents; the quotients are rounded down, as   *)
(* Math.floor does with n * pct.                                           *)
(***************************************************************************)
EXTENDS Integers, Sequences, SequencesExt

SelectionConfig ==
    [elite : Nat, top : 0..100, bottom : 0..100, cross : 0..100, floor : BOOLEAN]

Least(a, b) == IF a < b THEN a ELSE b
Greatest(a, b) == IF a < b THEN b ELSE a
Share(n, pct) == (n * pct) \div 100

\* The top band is never empty, and does not stretch for the elite.
TopCount(n, cfg) == Greatest(1, Share(n, cfg.top))

\* An elite larger than the top band is an error.
Accepts(n, cfg) == cfg.elite <= TopCount(n, cfg)

\* Mutant: the bottom share may reach into the top band.
BottomCountUncapped(n, cfg) == Least(Share(n, cfg.bottom), n)

\* Culling stops short of the top band.
BottomCount(n, cfg) == Least(Share(n, cfg.bottom), Greatest(0, n - TopCount(n, cfg)))

TopBand(ranked, cfg) == SubSeq(ranked, 1, TopCount(Len(ranked), cfg))

\* The bands before the diversity floor.
Bands(ranked, cfg) ==
    LET n == Len(ranked)
        elite == Least(cfg.elite, n)
        kept == n - BottomCount(n, cfg)
    IN  [elite |-> SubSeq(ranked, 1, elite),
         survivors |-> SubSeq(ranked, elite + 1, kept),
         culled |-> SubSeq(ranked, kept + 1, n)]

\* Whom the floor may rescue, by place among the culled.  Which of them is the most
\* distinct depends on the words of the strategies, which are not followed; every agent of
\* a round has one.
Rescuable(bands, cfg) ==
    IF cfg.floor /\ bands.culled # <<>> /\ bands.survivors # <<>>
    THEN DOMAIN bands.culled ELSE {}

\* Mutant: the rescued agent is kept and replaced all the same.
RescueKeepingCulled(bands, i) ==
    [bands EXCEPT !.survivors = Append(Front(@), bands.culled[i])]

\* The rescued agent takes the place of the last survivor, who is culled instead.
Rescue(bands, i) ==
    [bands EXCEPT
       !.survivors = Append(Front(@), bands.culled[i]),
       !.culled = Append(RemoveAt(@, i), Last(bands.survivors))]

\* Replacements are derived from the final cull: the first slots are crossovers of two
\* neighbours of the top band, the others clones of its members in turn.
Plan(bands, ranked, cfg, rescued) ==
    LET parents == TopBand(ranked, cfg)
        parent(k) == parents[(k % Len(parents)) + 1]
        culled == bands.culled
        crossed == IF Len(parents) < 2 THEN 0 ELSE Share(Len(culled), cfg.cross)
    IN  [elite |-> bands.elite, survivors |-> bands.survivors, culled |-> culled,
         crossovers |-> [i \in 1..crossed |->
           [a |-> parent(2 * (i - 1)), b |-> parent(2 * (i - 1) + 1), replaces |-> culled[i]]],
         clones |-> [i \in 1..(Len(culled) - crossed) |->
           [parent |-> parent(crossed + i - 1), replaces |-> culled[crossed + i]]],
         rescued |-> rescued]

\* planSelection: the plans the strategies may lead to.
Plans(ranked, cfg) ==
    LET bands == Bands(ranked, cfg)
    IN  IF Rescuable(bands, cfg) = {} THEN {Plan(bands, ranked, cfg, {})}
        ELSE {Plan(Rescue(bands, i), ranked, cfg, {bands.culled[i]}) :
                  i \in Rescuable(bands, cfg)}
=============================================================================
