------------------------------- MODULE Judging -------------------------------
(***************************************************************************)
(* What the judge makes of a reply (judge/judge.ts) and what of it is      *)
(* believed (judge/audit.ts).  A reply is untrusted: it may leave out a    *)
(* reference it was shown, name one twice, invent one, and number its      *)
(* ranks as it likes; the schema only asks for ranks of 1 or more.         *)
(*                                                                         *)
(* References are 1..n, the places of the anonymous submissions; `byRef`   *)
(* is the sequence of the agents behind them.  Reference 0 is any that was *)
(* not shown.  Every record of a submission is cited by its reference.     *)
(***************************************************************************)
EXTENDS Naturals, FiniteSets, SequencesExt, Subsequences

UnrankedRank == 99      \* `placings.get(...)?.rank ?? 99`

-----------------------------------------------------------------------------
(* Evidence and the behavioural review. *)

Unrecorded == [recorded |-> FALSE, records |-> <<>>, dropped |-> 0, capture |-> "none",
               streamGaps |-> 0]

\* allowedRefs: the submission's own, if there is something to cite.
Citable(ref, ev) == IF ev.recorded /\ ev.records # <<>> THEN {ref} ELSE {}

\* coverageLimitations: what the application says the evidence cannot show.
Coverage(ev) ==
    IF ~ev.recorded THEN {"unrecorded"}
    ELSE {l \in {"dropped", "gaps", "no capture", "tampered", "uncertified"} :
            \/ l = "dropped" /\ ev.dropped > 0
            \/ l = "gaps" /\ ev.streamGaps > 0
            \/ l = "no capture" /\ ev.capture = "none"
            \/ l = "tampered" /\ ev.capture = "tampered"
            \/ l = "uncertified" /\ ev.capture = "uncertified"}

\* A raw review: its status, the reference each finding cites, and whether it states
\* MAX_LIMITATIONS limitations of its own.
NoReview == [status |-> "absent", findings |-> {}, verbose |-> FALSE]
Clear == [status |-> "clear", findings |-> {}, verbose |-> FALSE]

Review(status, cites, limits) == [status |-> status, cites |-> cites, limits |-> limits]

\* unreviewedSafety.
Unreviewed(ev) == Review("insufficient", {}, Coverage(ev))

\* Mutant: a clearance is taken as it comes.
NormalizeTrusting(raw, allowed, ev) ==
    Review(IF raw.status = "absent" THEN "insufficient" ELSE raw.status,
           raw.findings \cap allowed, Coverage(ev))

\* normalizeSafety.  The model's own limitations come first and the list is cut.
Normalize(raw, allowed, ev) ==
    LET doubtful == \/ raw.status = "absent"
                    \/ raw.status = "flagged" /\ raw.findings = {}
                    \/ raw.status = "clear" /\ ~ev.recorded
    IN  Review(IF doubtful THEN "insufficient" ELSE raw.status,
               raw.findings \cap allowed,
               IF raw.verbose THEN {"its own"} ELSE Coverage(ev))

-----------------------------------------------------------------------------
(* Rankings.  An entry has a ref, a rank and a raw review. *)

\* The first mention of each reference that was shown.
Mentions(reply, byRef) ==
    LET first(i) == \A j \in 1..(i - 1) : reply[j].ref # reply[i].ref
    IN  {i \in DOMAIN reply : first(i) /\ reply[i].ref \in DOMAIN byRef}

\* resolveRankings: a partial function from agents to their entries.
Placed(reply, byRef) ==
    LET at == Mentions(reply, byRef)
        agents == {byRef[reply[i].ref] : i \in at}
    IN  [a \in agents |-> reply[CHOOSE i \in at : byRef[reply[i].ref] = a]]

\* The elements of s by ascending key, equal ones in their order in s.
SortedBy(s, key) ==
    LET before(i, j) == key[s[i]] < key[s[j]] \/ (key[s[i]] = key[s[j]] /\ i < j)
        ahead(i) == Cardinality({j \in DOMAIN s : before(j, i)})
    IN  [k \in DOMAIN s |-> s[CHOOSE i \in DOMAIN s : ahead(i) = k - 1]]

Ranks(entries) == [a \in DOMAIN entries |-> entries[a].rank]

\* Mutant: agents the reply never named are left out.
DeanonymizeNamed(reply, byRef) ==
    LET placed == Placed(reply, byRef)
    IN  SortedBy(Among(byRef, DOMAIN placed), Ranks(placed))

\* deanonymize: the order of the agents shown, the ones never named last.  Named agents
\* of one rank stay in the order the reply named them.
Deanonymize(reply, byRef) ==
    LET at == Among([i \in DOMAIN reply |-> i], Mentions(reply, byRef))
        placed == Placed(reply, byRef)
        named == [i \in DOMAIN at |-> byRef[reply[at[i]].ref]]
    IN  SortedBy(named, Ranks(placed)) \o Among(byRef, ToSet(byRef) \ DOMAIN placed)

\* The best-placed of a batch, the first named among equals; <<>> when none was placed.
Winner(reply, byRef) ==
    LET order == Deanonymize(reply, byRef)
    IN  IF Mentions(reply, byRef) = {} THEN <<>> ELSE <<order[1]>>

\* Finalists by their finals rank, then everyone else by batch placing.
Ordered(inputs, finals, placings) ==
    LET byBatch == Extended(Ranks(placings), [a \in ToSet(inputs) |-> UnrankedRank])
        in == Among(inputs, DOMAIN finals)
        out == Among(inputs, ToSet(inputs) \ DOMAIN finals)
    IN  SortedBy(SortedBy(in, byBatch), Ranks(finals)) \o SortedBy(out, byBatch)

Batches(s, size) ==
    [k \in 1..((Len(s) + size - 1) \div size) |->
        SubSeq(s, (k - 1) * size + 1, IF k * size > Len(s) THEN Len(s) ELSE k * size)]
=============================================================================
