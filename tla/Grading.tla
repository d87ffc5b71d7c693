------------------------------- MODULE Grading -------------------------------
(***************************************************************************)
(* A round from its first act to its verdict: the audit of RoundAudit is   *)
(* sealed and handed to Judge.score, whose replies Judging interprets, and *)
(* a completed round may be judged again from what was stored.  From       *)
(* engine/driver.ts (the judge boundary), judge/judge.ts and the rejudge   *)
(* request of server/api.ts.                                               *)
(*                                                                         *)
(* Submissions, rationales and criteria are left out; a score is "awarded" *)
(* by the model, derived from a "placing", or 0 for "none".  Who wins a    *)
(* reply is decided by who stands behind which reference, so a well-formed *)
(* reply ranks reference i as i; and since any agent may be the one that   *)
(* fails or acts, batches are cut from the agents in order.                *)
(***************************************************************************)
EXTENDS RoundAudit, Judging

CONSTANTS
    Settings,       \* judge settings a run can have
    ReviewBatch,    \* REVIEW_BATCH
    MaxGraded       \* bound: rounds that are judged; a later one is only observed

ASSUME JudgeAssumption ==
    /\ Settings \subseteq [mode : {"auto", "single_call", "batched_finals"},
                           singleMax : Nat \ {0}, batchSize : Nat \ {0}]
    /\ {ReviewBatch, MaxGraded} \subseteq Nat \ {0}

Attempts == 3   \* withRetry

VARIABLES
    setting,    \* config.judge: mode, singleCallMaxPopulation, batchSize
    phase,      \* where the round, or its judging again, stands
    kind,       \* "original" or "preview"
    status,     \* which submissions there is something to grade in
    evidence,   \* what each agent is judged by
    mode,       \* the strategy being tried
    attempt,    \* its failed attempts so far
    todo,       \* review chunks or batches not yet put to the model
    reviews,    \* behavioural reviews of attempts with nothing to grade
    placings,   \* placings of the batches ranked so far
    winners,    \* the best of each of them
    verdict,    \* `scores`, best first
    gradedOn    \* history: the records each round was judged by, as its envelope says

judgeVars == <<mode, attempt, todo, reviews, placings, winners>>
vars == <<auditVars, setting, phase, kind, status, evidence, judgeVars, verdict, gradedOn>>

Everyone == [a \in Agents |-> a]
Submitted(st) == {a \in Agents : st[a] = "ok"}
Inputs == Among(Everyone, Submitted(status))
Rest == Among(Everyone, Agents \ Submitted(status))
None == <<>>

TypeOK ==
    /\ AuditTypeOK
    /\ setting \in Settings
    /\ phase \in {"idle", "collecting", "reviewing", "scoring", "graded", "failed"}
    /\ kind \in {"original", "preview"}
    /\ status \in [Agents -> {"ok", "failed"}]
    /\ DOMAIN evidence = Agents
    /\ mode \in {"none", "single_call", "batched_finals"} /\ attempt \in 0..(Attempts - 1)
    /\ DOMAIN reviews \cap Submitted(status) = {} /\ DOMAIN reviews \subseteq Agents
    /\ DOMAIN placings \subseteq Submitted(status)
    /\ ToSet(winners) \subseteq DOMAIN placings
    /\ DOMAIN gradedOn \subseteq 1..round

NoEvidence == [a \in Agents |-> Unrecorded]
NothingAsked ==
    /\ mode' = "none" /\ attempt' = 0 /\ todo' = None
    /\ reviews' = None /\ placings' = None /\ winners' = None

Init ==
    /\ AuditInit
    /\ setting \in Settings
    /\ phase = "idle" /\ kind = "original"
    /\ status = [a \in Agents |-> "ok"] /\ evidence = NoEvidence
    /\ mode = "none" /\ attempt = 0 /\ todo = None
    /\ reviews = None /\ placings = None /\ winners = None
    /\ verdict = None /\ gradedOn = None

-----------------------------------------------------------------------------
(* The engine up to the judging boundary. *)

StartRound ==
    /\ phase \in {"idle", "graded", "failed"}
    /\ BeginRound
    /\ phase' = "collecting" /\ kind' = "original"
    /\ status' = [a \in Agents |-> "ok"] /\ evidence' = NoEvidence /\ verdict' = None
    /\ NothingAsked
    /\ UNCHANGED <<setting, gradedOn>>

RecordsOf(records, a) == Among(records, {d \in Drafts : d.agent = a})

\* evidenceFromAudit, from the frozen set or from one read back.
EvidenceOf(view, a) ==
    IF ~view.frozen THEN Unrecorded
    ELSE [recorded |-> TRUE,
          records |-> RecordsOf(view.records, a),
          dropped |-> view.row.dropped[a], capture |-> view.row.capture[a],
          streamGaps |-> view.row.streamGaps]

\* The envelope of a round keeps the evidence it was judged by.
Envelope(r, view) == [x \in {r} |-> view.records]

Chunked(s) == Batches(s, ReviewBatch)

\* score() reviews the attempts with nothing to grade first, those with evidence.
StartReview(st, ev) ==
    /\ status' = st /\ evidence' = ev
    /\ phase' = "reviewing"
    /\ mode' = "none" /\ attempt' = 0 /\ reviews' = None /\ placings' = None /\ winners' = None
    /\ todo' = Chunked(Among(Everyone, {a \in Agents \ Submitted(st) : ev[a].recorded}))

CaptureOf(st) == [a \in Agents |-> IF st[a] = "ok" THEN "verified" ELSE "none"]

\* The audit is sealed and read back, and every input gets its share.
Freeze ==
    /\ phase = "collecting" /\ round <= MaxGraded
    /\ \E st \in [Agents -> {"ok", "failed"}] :
         \/ /\ ~audited
            /\ StartReview(st, NoEvidence)
            /\ UNCHANGED <<spent, coll, rows, gradedOn>>
         \/ /\ audited
            /\ \E capture \in {CaptureOf(st)} \cup
                              {[CaptureOf(st) EXCEPT ![a] = c] : a \in Agents, c \in Captures},
                  lost \in {{}} \cup {{Draft(a, what, "unknown")} :
                                        a \in Actors, what \in {"tool", "permission"}} :
                 LET odd == Cardinality(lost) + (IF capture = CaptureOf(st) THEN 0 ELSE 1)
                     b == SealBook(Book, capture, lost)
                     view == Read(b.rows, round)
                 IN  /\ Surprise(odd)
                     /\ Note(b)
                     /\ StartReview(st, [a \in Agents |-> EvidenceOf(view, a)])
                     /\ gradedOn' = Extended(gradedOn, Envelope(round, view))
    /\ UNCHANGED <<audited, round, world, stream, blind, setting, kind, verdict>>

-----------------------------------------------------------------------------
(* Replies. *)

Entry(i) == [ref |-> i, rank |-> i, review |-> Clear]
WellFormed(n) == [i \in 1..n |-> Entry(i)]

OddReviews(i, n) ==
    {NoReview, [Clear EXCEPT !.verbose = TRUE]} \cup
    {[status |-> "flagged", findings |-> cited, verbose |-> FALSE] :
        cited \in {{}, {i}, {0}, {(i % n) + 1}}}

NumberedHigh(n) == [i \in 1..n |-> [Entry(i) EXCEPT !.rank = UnrankedRank + i]]

\* One entry of a reply is not as it should be, or one is missing and ranks are numbered
\* from 100, or the reply is empty: two surprises.
OddReplies(n) ==
    {<<>>} \cup {RemoveAt(NumberedHigh(n), i) : i \in 1..n} \cup
    UNION {{RemoveAt(WellFormed(n), i)} \cup
           {[WellFormed(n) EXCEPT ![i].ref = r] : r \in (0..n) \ {i}} \cup
           {[WellFormed(n) EXCEPT ![i].rank = 1]} \cup
           {[WellFormed(n) EXCEPT ![i].review = v] : v \in OddReviews(i, n)} : i \in 1..n}

Orders(s) == {order \in [DOMAIN s -> ToSet(s)] : IsInjective(order)}

\* What gets past the extraction of the JSON, its schema and one repair.
Replies(n, odd) == IF odd THEN OddReplies(n) ELSE {WellFormed(n)}

\* One call of the model, answered: `byRef` is the anonymous order.
Answered(s, Use(_, _)) ==
    \E odd \in BOOLEAN :
        /\ IF odd THEN Surprise(2) ELSE UNCHANGED spent
        /\ \E byRef \in Orders(s), reply \in Replies(Len(s), odd) : Use(reply, byRef)

\* What is kept of a citation names the agent behind it.
Assessed(entry, a, byRef) ==
    LET review == Normalize(entry.review, Citable(entry.ref, evidence[a]), evidence[a])
    IN  [review EXCEPT !.cites = {byRef[ref] : ref \in @ \cap DOMAIN byRef}]

-----------------------------------------------------------------------------
(* score().  *)

Graded(a, how, rank, review) == [agent |-> a, how |-> how, rank |-> rank, review |-> review]
FailedScore(a) ==
    Graded(a, "none", 0, IF a \in DOMAIN reviews THEN reviews[a] ELSE Unreviewed(evidence[a]))

\* Failed submissions are appended last.
Appended(scores) == LET rest == Rest IN scores \o [i \in DOMAIN rest |-> FailedScore(rest[i])]

Finish(scores) ==
    /\ verdict' = Appended(scores)
    /\ phase' = "graded"
    /\ NothingAsked
    /\ UNCHANGED gradedOn

Rank(strategy) ==
    /\ mode' = strategy /\ attempt' = 0
    /\ placings' = None /\ winners' = None
    /\ todo' = IF strategy = "single_call" THEN <<Inputs>> ELSE Batches(Inputs, setting.batchSize)
    /\ phase' = "scoring"
    /\ UNCHANGED <<reviews, verdict, gradedOn>>

Chosen ==
    IF setting.mode # "auto" THEN setting.mode
    ELSE IF Len(Inputs) <= setting.singleMax THEN "single_call" ELSE "batched_finals"

\* One chunk of failed attempts; a failed call leaves it unreviewed.
ReviewFailed ==
    /\ phase = "reviewing" /\ todo # None
    /\ todo' = Tail(todo)
    /\ \/ UNCHANGED <<spent, reviews>>
       \/ Answered(todo[1], LAMBDA reply, byRef :
            LET placed == Placed(reply, byRef)
            IN  reviews' = Extended(reviews, [a \in DOMAIN placed |->
                                                 Assessed(placed[a], a, byRef)]))
    /\ UNCHANGED <<audited, round, world, stream, blind, coll, rows, setting, phase, kind,
                   status, evidence, mode, attempt, placings, winners, verdict, gradedOn>>

ReviewsDone ==
    /\ phase = "reviewing" /\ todo = None
    /\ IF Inputs = None THEN Finish(None) ELSE Rank(Chosen)
    /\ UNCHANGED <<auditVars, setting, kind, status, evidence>>

ScoreSingleCall ==
    /\ phase = "scoring" /\ mode = "single_call"
    /\ Answered(Inputs, LAMBDA reply, byRef :
         LET placed == Placed(reply, byRef)
             order == Deanonymize(reply, byRef)
         IN  Finish([i \in DOMAIN order |->
                LET a == order[i]
                IN  IF a \in DOMAIN placed THEN Graded(a, "awarded", 0, Assessed(placed[a], a, byRef))
                    ELSE Graded(a, "none", 0, Unreviewed(evidence[a]))]))
    /\ UNCHANGED <<audited, round, world, stream, blind, coll, rows, setting, kind, status,
                   evidence>>

\* One batch: its placings, and its best-ranked entry as a finalist.
ScoreBatch ==
    /\ phase = "scoring" /\ mode = "batched_finals" /\ todo # None
    /\ todo' = Tail(todo)
    /\ Answered(todo[1], LAMBDA reply, byRef :
         LET placed == Placed(reply, byRef)
         IN  /\ placings' = Extended(placings, [a \in DOMAIN placed |->
                    [rank |-> placed[a].rank, review |-> Assessed(placed[a], a, byRef)]])
             /\ winners' = winners \o Winner(reply, byRef))
    /\ UNCHANGED <<audited, round, world, stream, blind, coll, rows, setting, phase, kind,
                   status, evidence, mode, attempt, reviews, verdict, gradedOn>>

\* An agent some call ranked is scored by its position, by its batch review first.
PlacedScore(a) ==
    IF a \in DOMAIN placings THEN Graded(a, "placing", placings[a].rank, placings[a].review)
    ELSE Graded(a, "none", 0, Unreviewed(evidence[a]))

\* The finalists are ranked once more unless there is but one.
ScoreFinals ==
    /\ phase = "scoring" /\ mode = "batched_finals" /\ todo = None
    /\ LET scored(finals) ==
               LET order == Ordered(Inputs, finals, placings)
               IN  [i \in DOMAIN order |-> PlacedScore(order[i])]
       IN  IF Len(winners) > 1
           THEN Answered(winners, LAMBDA reply, byRef : Finish(scored(Placed(reply, byRef))))
           ELSE Finish(scored([a \in ToSet(winners) |-> [rank |-> 1]])) /\ UNCHANGED spent
    /\ UNCHANGED <<audited, round, world, stream, blind, coll, rows, setting, kind, status,
                   evidence>>

\* A failed call ends the attempt.  The strategy is begun again, with the same batches;
\* a single call falls back to batches; batches fail the round, a preview only itself.
CallFails ==
    /\ phase = "scoring" /\ (todo # None \/ Len(winners) > 1)
    /\ \/ /\ attempt < Attempts - 1 /\ attempt' = attempt + 1
          /\ todo' = IF mode = "single_call" THEN <<Inputs>> ELSE Batches(Inputs, setting.batchSize)
          /\ placings' = None /\ winners' = None
          /\ UNCHANGED <<phase, mode, reviews, verdict, gradedOn>>
       \/ attempt = Attempts - 1 /\ mode = "single_call" /\ Rank("batched_finals")
       \/ /\ attempt = Attempts - 1 /\ mode = "batched_finals"
          /\ phase' = IF kind = "original" THEN "failed" ELSE "graded"
          /\ NothingAsked
          /\ UNCHANGED <<verdict, gradedOn>>
    /\ UNCHANGED <<auditVars, setting, kind, status, evidence>>

\* A completed round is judged again, by what readRoundAudit returns.  Nothing is stored.
Rejudge ==
    /\ phase = "graded" /\ kind = "original"
    /\ kind' = "preview" /\ verdict' = None
    /\ StartReview(status, [a \in Agents |-> EvidenceOf(Read(rows, round), a)])
    /\ UNCHANGED <<auditVars, setting, gradedOn>>

\* The end of the process.  A round in work is failed at the next start.
Crash ==
    /\ phase # "idle" /\ coll.round # 0
    /\ Surprise(1)
    /\ CollectorLost
    /\ phase' = IF phase = "graded" \/ kind = "preview" THEN "graded" ELSE "failed"
    /\ verdict' = IF kind = "preview" THEN None ELSE verdict
    /\ NothingAsked
    /\ UNCHANGED <<setting, kind, status, evidence, gradedOn>>

Observing == (Acts \/ Stream) /\ UNCHANGED <<setting, phase, kind, status, evidence, judgeVars,
                                             verdict, gradedOn>>
Deciding ==
    \/ Freeze \/ ReviewFailed \/ ReviewsDone
    \/ ScoreSingleCall \/ ScoreBatch \/ ScoreFinals \/ CallFails
Next == StartRound \/ Observing \/ Deciding \/ Rejudge \/ Crash

Spec == Init /\ [][Next]_vars

-----------------------------------------------------------------------------
(* Properties. *)

(* What a round was graded on is what its audit shows ever after, under a    *)
(* digest that still matches, and what it is graded on again, whatever is    *)
(* observed later, in whichever round, and whatever ends or starts (freeze,  *)
(* persist's late rows, readRoundAudit, the envelope and rejudge).           *)
SealedForGood ==
    /\ \A r \in DOMAIN gradedOn :
         LET view == Read(rows, r)
         IN  view.frozen /\ DigestMatches(view) /\ view.records = gradedOn[r]
    /\ phase \in {"reviewing", "scoring"} /\ audited =>
         \A a \in Agents :
            evidence[a].records = RecordsOf(gradedOn[round], a)

(* Sealing accounts for what each agent did: a tool call or a permission     *)
(* request that happened is in the sealed set once, with its true outcome or *)
(* as unknown; or the agent's coverage counts dropped records, or the round  *)
(* counts a gap of the stream.  Only a stream that was closed cleanly, or    *)
(* was down already when the round began, is counted nowhere (the bridge     *)
(* announces neither to record and freeze).                                  *)
Truth(state) ==
    CASE state \in {"running", "asked"} -> {"unknown"}
      [] state = "error" -> {"failed", "unknown"}
      [] OTHER -> {state, "unknown"}
AccountsFor(ev, what, state) ==
    LET kept == Among(ev.records, {d \in Drafts : d.what = what})
    IN  \/ ev.dropped > 0 \/ ev.streamGaps > 0 \/ blind
        \/ state = "none" /\ kept = <<>>
        \/ Len(kept) = 1 /\ kept[1].outcome \in Truth(state)
SealingAccounts ==
    [][phase = "collecting" /\ phase' = "reviewing" /\ audited =>
         \A a \in Agents : /\ AccountsFor(evidence'[a], "tool", tool[a])
                           /\ AccountsFor(evidence'[a], "permission", permission[a])]_vars

(* Every agent of the round is in the verdict exactly once; what produced no *)
(* submission comes last; what no call ranked is given nothing for its place *)
(* and stands behind everything some call ranked, unless the model gives     *)
(* a rank of 99 or more, which scoreBatched takes for no rank (score,        *)
(* deanonymize, scoreBatched).                                               *)
Standing(g) == IF g.how # "none" THEN 1 ELSE IF status[g.agent] = "ok" THEN 2 ELSE 3
VerdictIsWhole ==
    verdict # None =>
        /\ Len(verdict) = Cardinality(Agents) /\ {g.agent : g \in ToSet(verdict)} = Agents
        /\ \A i, j \in DOMAIN verdict :
             i < j => \/ Standing(verdict[i]) <= Standing(verdict[j])
                      \/ Standing(verdict[i]) = 2 /\ verdict[j].rank >= UnrankedRank

(* A review says no more than its evidence: it cites that agent's own        *)
(* records only; it clears nobody whose round was not recorded, or whom no   *)
(* reply named; and beside a clearance stands every loss the evidence admits *)
(* to, unless the model's own limitations filled the list (normalizeSafety,  *)
(* coverageLimitations, unreviewedSafety, reviewAttempts).                   *)
ReviewsAreGrounded ==
    \A g \in ToSet(verdict) :
        LET ev == evidence[g.agent]
        IN  /\ g.review.cites \subseteq {g.agent}
            /\ g.review.cites # {} => ev.records # <<>>
            /\ g.review.status = "clear" =>
                 /\ ev.recorded
                 /\ g.how # "none" \/ status[g.agent] # "ok"
                 /\ Coverage(ev) \subseteq g.review.limits \/ g.review.limits = {"its own"}
=============================================================================
