------------------------------ MODULE RoundAudit ------------------------------
(***************************************************************************)
(* The behavioural record of a round: what an agent does on its OpenCode   *)
(* server (external), the event stream that reports it                     *)
(* (server/event-bridge.ts), and the collector that writes it down, seals  *)
(* it before judging and reads it back (engine/audit.ts).                  *)
(*                                                                         *)
(* A round has one tool call and one permission request per agent; a call  *)
(* that a rule refused is one that failed.                                 *)
(* Summaries, redaction and sizes are left out: the three limits of the    *)
(* collector are counted in records, and a digest is the sequence of the   *)
(* records it was computed from.                                           *)
(***************************************************************************)
EXTENDS Naturals, FiniteSets, SequencesExt, Subsequences

CONSTANTS
    Agents,         \* 1..n, in the order of `prepared`
    Actors,         \* bound: the agents whose acts are followed
    MaxPerAgent,    \* maxRecordsPerAgent, and maxBytesPerAgent for its part
    MaxPerRound,    \* maxBytesPerRound
    MaxRounds,      \* bound: rounds
    MaxSurprises    \* bound: acts, losses and odd replies in all rounds together

ASSUME AgentsAssumption ==
    IsFiniteSet(Agents) /\ Agents = 1..Cardinality(Agents) /\ Actors \subseteq Agents
ASSUME LimitsAssumption ==
    {MaxPerAgent, MaxPerRound, MaxRounds, MaxSurprises} \subseteq Nat \ {0}

Run == 0                        \* the agent of a run-level record
Owners == Agents \cup {Run}
ToolStates == {"none", "running", "completed", "error"}
PermissionStates == {"none", "asked", "allowed", "denied"}
Settled == {"completed", "error"}
Outcomes == {"allowed", "denied", "completed", "failed", "unknown"}
Whats == {"tool", "permission", "file", "failure", "integrity", "gap"}

VARIABLES
    audited,    \* whether the engine was given a collector
    spent,      \* how much of MaxSurprises has happened
    round,      \* the round the driver works on
    tool,       \* external: each agent's tool call
    permission, \* external: each agent's permission request
    edited,     \* external: agents that edited a file
    stream,     \* the bridge's subscription
    blind,      \* history: the stream was down unannounced during the round
    coll,       \* `current.get(runId)`
    rows        \* the events table: evidence, late evidence, frozen sets

world == <<tool, permission, edited>>
auditVars == <<audited, spent, round, world, stream, blind, coll, rows>>

Fresh(r) ==
    [round |-> r, frozen |-> FALSE, streamGaps |-> 0, runDropped |-> 0, total |-> 0,
     kept |-> [a \in Agents |-> 0], dropped |-> [a \in Agents |-> 0],
     open |-> <<>>, settled |-> {}, pending |-> <<>>]
NoCollector == Fresh(0)

Draft(agent, what, outcome) == [agent |-> agent, what |-> what, outcome |-> outcome]
Drafts == [agent : Owners, what : Whats, outcome : Outcomes]

AuditTypeOK ==
    /\ audited \in BOOLEAN /\ spent \in 0..MaxSurprises /\ round \in 0..MaxRounds
    /\ tool \in [Agents -> ToolStates] /\ permission \in [Agents -> PermissionStates]
    /\ edited \subseteq Agents
    /\ stream \in {"up", "refused", "closed"} /\ blind \in BOOLEAN
    /\ coll.round \in 0..MaxRounds /\ coll.frozen \in BOOLEAN
    /\ coll.settled \subseteq Agents
    /\ ToSet(coll.open) \cup ToSet(coll.pending) \subseteq Agents
    /\ IsInjective(coll.open) /\ IsInjective(coll.pending)
    /\ \A a \in Agents : coll.kept[a] \in 0..coll.total /\ coll.dropped[a] \in Nat
    /\ \A i \in DOMAIN rows :
         /\ rows[i].type \in {"evidence", "late", "frozen"} /\ rows[i].round \in 1..MaxRounds
         /\ rows[i].type # "frozen" => rows[i].draft \in Drafts

AuditInit ==
    /\ audited \in BOOLEAN /\ spent = 0 /\ round = 0
    /\ tool = [a \in Agents |-> "none"] /\ permission = [a \in Agents |-> "none"]
    /\ edited = {}
    /\ stream = "up" /\ blind = FALSE
    /\ coll = NoCollector /\ rows = <<>>

Surprise(n) == spent + n <= MaxSurprises /\ spent' = spent + n

-----------------------------------------------------------------------------
(* persist.  A book is the collector together with the table it writes to. *)

Book == [coll |-> coll, rows |-> rows]

OverLimit(c, agent) ==
    \/ agent # Run /\ c.kept[agent] >= MaxPerAgent
    \/ c.total >= MaxPerRound

\* Mutant: only run-level records that were not kept are counted.
RefuseSilently(b, agent) ==
    IF agent = Run THEN [b EXCEPT !.coll.runDropped = @ + 1] ELSE b

Refuse(b, agent) ==
    IF agent = Run THEN [b EXCEPT !.coll.runDropped = @ + 1]
    ELSE [b EXCEPT !.coll.dropped[agent] = @ + 1]

Write(b, d) ==
    LET type == IF b.coll.frozen THEN "late" ELSE "evidence"
        c == [b.coll EXCEPT !.total = @ + 1]
    IN  [coll |-> IF d.agent = Run THEN c ELSE [c EXCEPT !.kept[d.agent] = @ + 1],
         rows |-> Append(b.rows, [type |-> type, round |-> c.round, draft |-> d])]

\* `lost` holds the drafts whose write fails.
Persist(b, d, lost) ==
    IF OverLimit(b.coll, d.agent) \/ d \in lost THEN Refuse(b, d.agent) ELSE Write(b, d)
PersistUncapped(b, d, lost) ==
    IF d \in lost THEN Refuse(b, d.agent) ELSE Write(b, d)

-----------------------------------------------------------------------------
(* apply: what one event does to the book. *)

Closed(s, a) == Among(s, Agents \ {a})

\* Mutant: every update of a call that has not settled opens it.
ToolEventReopening(b, a, status, lost) ==
    IF status \in Settled
    THEN Persist([b EXCEPT !.coll.open = Closed(@, a)],
                 Draft(a, "tool", IF status = "completed" THEN "completed" ELSE "failed"), lost)
    ELSE [b EXCEPT !.coll.open = Append(@, a)]

ToolEvent(b, a, status, lost) ==
    LET c == b.coll
    IN  IF a \in c.settled THEN b
        ELSE IF status \in Settled
        THEN Persist([b EXCEPT !.coll.open = Closed(@, a), !.coll.settled = @ \cup {a}],
                     Draft(a, "tool", IF status = "completed" THEN "completed" ELSE "failed"),
                     lost)
        ELSE IF Contains(c.open, a) THEN b
        ELSE [b EXCEPT !.coll.open = Append(@, a)]

PermissionEvent(b, a, state, lost) ==
    IF state = "asked" THEN
        IF Contains(b.coll.pending, a) THEN b
        ELSE [b EXCEPT !.coll.pending = Append(@, a)]
    ELSE Persist([b EXCEPT !.coll.pending = Closed(@, a)], Draft(a, "permission", state), lost)

Note(b) == coll' = b.coll /\ rows' = b.rows

\* record() drops what arrives while no round of the run is collected.
Recorded(b) ==
    IF coll.round = 0 THEN UNCHANGED <<coll, rows>> ELSE Note(b)

\* The book after one event.  The write of its record may fail, which is a surprise of its
\* own.
Observe(kept, unwritten) ==
    \/ Surprise(1) /\ Recorded(kept)
    \/ Surprise(2) /\ unwritten # kept /\ Recorded(unwritten)

\* An act on the server reaches the collector only while the stream is up.
Reported(kept, unwritten) ==
    IF stream = "up" THEN Observe(kept, unwritten)
    ELSE Surprise(1) /\ UNCHANGED <<coll, rows>>

ToolMoves(a, to) ==
    /\ round > 0
    /\ <<tool[a], to>> \in {<<"none", "running">>, <<"running", "completed">>,
                            <<"running", "error">>}
    /\ tool' = [tool EXCEPT ![a] = to]
    /\ LET d == Draft(a, "tool", IF to = "completed" THEN "completed" ELSE "failed")
       IN  Reported(ToolEvent(Book, a, to, {}), ToolEvent(Book, a, to, {d}))
    /\ UNCHANGED <<audited, round, permission, edited, stream, blind>>

\* The stream may report the same state of a tool call any number of times.
ToolReportedAgain(a) ==
    /\ stream = "up" /\ tool[a] # "none" /\ coll.round # 0
    /\ ToolEvent(Book, a, tool[a], {}) # Book
    /\ Note(ToolEvent(Book, a, tool[a], {}))
    /\ Surprise(1)
    /\ UNCHANGED <<audited, round, world, stream, blind>>

PermissionMoves(a, to) ==
    /\ round > 0
    /\ <<permission[a], to>> \in {<<"none", "asked">>, <<"asked", "allowed">>,
                                  <<"asked", "denied">>}
    /\ permission' = [permission EXCEPT ![a] = to]
    /\ LET d == Draft(a, "permission", to)
       IN  Reported(PermissionEvent(Book, a, to, {}), PermissionEvent(Book, a, to, {d}))
    /\ UNCHANGED <<audited, round, tool, edited, stream, blind>>

FileEdited(a) ==
    /\ round > 0 /\ a \notin edited
    /\ edited' = edited \cup {a}
    /\ LET d == Draft(a, "file", "completed")
       IN  Reported(Persist(Book, d, {}), Persist(Book, d, {d}))
    /\ UNCHANGED <<audited, round, tool, permission, stream, blind>>

\* agent.status `failed` comes from the engine, and counts for its own round only.
AttemptFailed(a, idx) ==
    /\ idx = coll.round /\ idx > 0
    /\ LET d == Draft(a, "failure", "failed")
       IN  Observe(Persist(Book, d, {}), Persist(Book, d, {d}))
    /\ UNCHANGED <<audited, round, world, stream, blind>>

-----------------------------------------------------------------------------
(* The subscription.  An error is announced by bridge.status, a clean end   *)
(* of the stream is not: the bridge only subscribes again.                  *)

Gap(b) == Persist([b EXCEPT !.coll.streamGaps = @ + 1], Draft(Run, "gap", "unknown"), {})

StreamRefused ==
    /\ stream' = "refused"
    /\ Surprise(1)
    /\ Recorded(Gap(Book))
    /\ UNCHANGED <<audited, round, world, blind>>

StreamClosed ==
    /\ stream = "up" /\ stream' = "closed"
    /\ blind' = TRUE
    /\ Surprise(1)
    /\ UNCHANGED <<audited, round, world, coll, rows>>

Resubscribed ==
    /\ stream # "up" /\ stream' = "up"
    /\ UNCHANGED <<audited, spent, round, world, blind, coll, rows>>

-----------------------------------------------------------------------------
(* Rounds.  A new round starts once every session of the last one is known *)
(* to have stopped (see OpenCodeRunner), so nothing of it acts any more.   *)

BeginRound ==
    /\ round < MaxRounds /\ round' = round + 1
    /\ coll' = IF audited THEN Fresh(round + 1) ELSE NoCollector
    /\ tool' = [a \in Agents |-> "none"] /\ permission' = [a \in Agents |-> "none"]
    /\ edited' = {}
    /\ blind' = (stream # "up")
    /\ UNCHANGED <<audited, spent, stream, rows>>

\* The end of the process: the collector was only in memory.
CollectorLost ==
    /\ coll' = NoCollector
    /\ stream' = "up"
    /\ UNCHANGED <<audited, round, world, blind, rows>>

-----------------------------------------------------------------------------
(* freeze and readRoundAudit. *)

RowsOf(table, r, type) ==
    Among(table, {row \in ToSet(table) : row.round = r /\ row.type = type})
DraftsOf(table) == [i \in DOMAIN table |-> table[i].draft]

PersistAll(b, drafts, lost) ==
    LET after[n \in 0..Len(drafts)] ==
            IF n = 0 THEN b ELSE Persist(after[n - 1], drafts[n], lost)
    IN  after[Len(drafts)]

\* What is still open is written as unknown, within the limits.
Unknown(agents, what) == [i \in DOMAIN agents |-> Draft(agents[i], what, "unknown")]
SettleOpen(b, lost) ==
    LET unknown == Unknown(b.coll.open, "tool") \o Unknown(b.coll.pending, "permission")
    IN  [PersistAll(b, unknown, lost) EXCEPT !.coll.open = <<>>, !.coll.pending = <<>>]

Captures == {"none", "uncertified", "verified", "tampered"}
Integrity(capture) ==
    CASE capture = "verified" -> "completed"
      [] capture = "tampered" -> "failed"
      [] OTHER -> "unknown"

\* Outside the limits: the capture of each agent, and what was not kept.
CoverAgent(b, a, capture, lost) ==
    LET c == PersistUncapped(b, Draft(a, "integrity", Integrity(capture[a])), lost)
    IN  IF c.coll.dropped[a] = 0 THEN c ELSE PersistUncapped(c, Draft(a, "gap", "unknown"), lost)
CoveredAgents(b, capture, lost) ==
    LET upTo[a \in 0..Cardinality(Agents)] ==
            IF a = 0 THEN b ELSE CoverAgent(upTo[a - 1], a, capture, lost)
    IN  upTo[Cardinality(Agents)]
AddCoverage(b, capture, lost) ==
    LET agents == CoveredAgents(b, capture, lost)
    IN  IF agents.coll.runDropped = 0 THEN agents
        ELSE PersistUncapped(agents, Draft(Run, "gap", "unknown"), lost)

\* Ids of rows are their places in the table.
LastOf(table, r, type) ==
    LET at == {i \in DOMAIN table : table[i].round = r /\ table[i].type = type}
    IN  IF at = {} THEN 0 ELSE CHOOSE i \in at : \A j \in at : j <= i

\* The evidence of round r among the first `through` rows.
Included(table, r, through) ==
    DraftsOf(RowsOf(SubSeq(table, 1, through), r, "evidence"))

Frozen(b, r, capture) ==
    LET through == LastOf(b.rows, r, "evidence")
    IN  [type |-> "frozen", round |-> r, through |-> through,
         digest |-> Included(b.rows, r, through),
         dropped |-> b.coll.dropped, capture |-> capture,
         streamGaps |-> b.coll.streamGaps]

SealBook(b, capture, lost) ==
    LET filled == AddCoverage(SettleOpen(b, lost), capture, lost)
    IN  [coll |-> [filled.coll EXCEPT !.frozen = TRUE],
         rows |-> Append(filled.rows, Frozen(filled, b.coll.round, capture))]

\* Mutant: the view lists everything collected for the round as its evidence.
ReadAll(table, r) ==
    LET at == LastOf(table, r, "frozen")
    IN  [frozen |-> at # 0,
         records |-> DraftsOf(Among(table, {row \in ToSet(table) :
                                               row.round = r /\ row.type # "frozen"})),
         row |-> IF at = 0 THEN <<>> ELSE table[at]]

\* readRoundAudit; `row` means something only when `frozen`.
Read(table, r) ==
    LET at == LastOf(table, r, "frozen")
    IN  [frozen |-> at # 0,
         records |-> IF at = 0 THEN DraftsOf(RowsOf(table, r, "evidence"))
                     ELSE Included(table, r, table[at].through),
         row |-> IF at = 0 THEN <<>> ELSE table[at]]
DigestMatches(view) == view.records = view.row.digest

Acts ==
    \E a \in Actors :
        \/ \E to \in ToolStates : ToolMoves(a, to)
        \/ ToolReportedAgain(a)
        \/ \E to \in PermissionStates : PermissionMoves(a, to)
        \/ FileEdited(a)
        \/ AttemptFailed(a, round)
Stream == StreamRefused \/ StreamClosed \/ Resubscribed
=============================================================================
