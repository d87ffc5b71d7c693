----------------------------- MODULE RunLifecycle -----------------------------
(***************************************************************************)
(* Runs of a dashboard process from the request that composes them to the  *)
(* stop, the shutdown or the crash that ends them: the handlers of         *)
(* server/api.ts that create, resume and stop a run, composeRun with its   *)
(* failures (server/compose-run.ts), the registry (runs.ts), the manager's *)
(* refusals (run-manager.ts), the sweep of a new docker run, and shutdown  *)
(* (create-dashboard.ts).                                                  *)
(*                                                                         *)
(* A composition is named by the request that made it, and holds a         *)
(* reservation, a host server and a relay grant until it is cleaned up.    *)
(* All runs are protected docker runs.  What happens inside a round is     *)
(* RoundDriver, and inside its containers DockerSandbox: here a run has    *)
(* containers or not, by its name alone.                                   *)
(***************************************************************************)
EXTENDS Naturals, FiniteSets, FiniteSetsExt, Sequences

CONSTANTS
    Runs,        \* runs there are and may be
    Persisted,   \* those an earlier process left behind
    MaxRequests, \* bound: requests that create, resume or stop a run
    MaxCrashes   \* bound: times the process dies

ASSUME LifecycleAssumption ==
    Persisted \subseteq Runs /\ 0 \notin Runs /\ {MaxRequests, MaxCrashes} \subseteq Nat

Requests == 1..MaxRequests
Nobody == 0
Leftover == MaxRequests + 1
Holdings == {"reservation", "server", "grant"}

VARIABLES
    status,     \* the run's row: "none", "active" or "stopped"
    registry,   \* RunRegistry: the composition that serves a run
    request,    \* each request: its run, the composition it works on, where it stands
    holds,      \* what each composition holds
    busy,       \* compositions whose manager has a round in flight
    disposing,  \* compositions whose manager refuses rounds
    carrying,   \* whose containers wear a run's name
    spared,     \* runs the sweep of a request takes for live
    found,      \* runs whose containers it has still to remove
    told,       \* history: compositions the sweep was told of, or had to be
    shutdown,   \* where the shutdown stands, what it disposes of, and what is left
    crashes,    \* the bounded counter
    revived,    \* history: compositions registered for a run that was stopped before
    contested   \* history: those of a run resumed while it was being created

vars == <<status, registry, request, holds, busy, disposing, carrying, spared, found, told, shutdown,
          crashes, revived, contested>>
sweepVars == <<spared, found, told>>
historyVars == <<revived, contested>>

Composing == {"reserve", "server", "grant", "image"}
Sweeping == {"listing", "removing"}
Undoing == {"losing", "failing"}
Stopping == {"waiting", "cleaning"}

TypeOK ==
    /\ status \in [Runs -> {"none", "active", "stopped"}]
    /\ registry \in [Runs -> {Nobody} \cup Requests]
    /\ request \in [Requests -> [run : Runs \cup {Nobody}, on : {Nobody} \cup Requests,
                                 at : Composing \cup Sweeping \cup Undoing \cup Stopping
                                        \cup {"unused", "done"}]]
    /\ holds \in [Requests -> SUBSET Holdings]
    /\ busy \subseteq Requests /\ disposing \subseteq Requests
    /\ carrying \in [Runs -> {Nobody, Leftover} \cup Requests]
    /\ spared \in [Requests -> SUBSET Runs] /\ found \in [Requests -> SUBSET Runs]
    /\ told \in [Requests -> SUBSET Requests]
    /\ shutdown.at \in {"up", "next", "waiting", "cleaning", "closing", "exited"}
    /\ shutdown.list \subseteq Requests /\ shutdown.todo \subseteq shutdown.list
    /\ shutdown.on \in {Nobody} \cup Requests
    /\ crashes \in 0..MaxCrashes /\ revived \cup contested \subseteq Requests
    /\ \A r \in Runs : registry[r] # Nobody => request[registry[r]].run = r

Init ==
    /\ status = [r \in Runs |-> IF r \in Persisted THEN "active" ELSE "none"]
    /\ registry = [r \in Runs |-> Nobody]
    /\ request = [q \in Requests |-> [run |-> Nobody, on |-> Nobody, at |-> "unused"]]
    /\ holds = [q \in Requests |-> {}] /\ busy = {} /\ disposing = {}
    /\ carrying \in {f \in [Runs -> {Nobody, Leftover}] :
                        \A r \in Runs \ Persisted : f[r] = Nobody}
    /\ spared = [q \in Requests |-> {}] /\ found = [q \in Requests |-> {}]
    /\ told = [q \in Requests |-> {}]
    /\ shutdown = [at |-> "up", list |-> {}, todo |-> {}, on |-> Nobody]
    /\ crashes = 0 /\ revived = {} /\ contested = {}

Up == shutdown.at # "exited"
Accepting == shutdown.at \notin {"closing", "exited"}
IsNext(q) == request[q].at = "unused" /\ \A p \in 1..(q - 1) : request[p].at # "unused"
Goes(q, at) == request' = [request EXCEPT ![q].at = at]

\* A request that leaves no composition behind is forgotten.
Ended == [run |-> Nobody, on |-> Nobody, at |-> "done"]
Ends(q) == request' = [request EXCEPT ![q] = Ended]

-----------------------------------------------------------------------------
(* Rounds *)

\* The run's row with its new status: runs.create and runs.setStatus.
Row(r, s) == [status EXCEPT ![r] = s]

\* RunManager.startRound on a composition, refused while it is disposed of or has a round in
\* flight.
StartRoundOn(c) == busy' = busy \cup ({c} \ disposing)

\* The first containers of a round: what wears the run's name is adopted or replaced.
Provision(c) ==
    /\ Up /\ c \in busy
    /\ carrying' = [carrying EXCEPT ![request[c].run] = c]
    /\ UNCHANGED <<status, registry, request, holds, busy, disposing, sweepVars, shutdown,
                   crashes, historyVars>>

\* What wears a run's name once the containers of c are gone.
Cleared(c) == [carrying EXCEPT ![request[c].run] = IF @ = c THEN Nobody ELSE @]

\* releasePopulation, which retains what it cannot remove.
EndRound(c) ==
    /\ Up /\ c \in busy
    /\ busy' = busy \ {c}
    /\ carrying' \in {carrying, Cleared(c)}
    /\ UNCHANGED <<status, registry, request, holds, disposing, sweepVars, shutdown, crashes,
                   historyVars>>

-----------------------------------------------------------------------------
(* composeRun *)

Stage(i) == <<"reserve", "server", "grant", "image">>[i]
Gains(i) == IF i = 4 THEN {} ELSE {<<"reservation", "server", "grant">>[i]}

\* The next await of the composition is over.
Compose(q) ==
    /\ Up
    /\ \E i \in 1..3 :
        /\ request[q].at = Stage(i)
        /\ holds' = [holds EXCEPT ![q] = @ \cup Gains(i)]
        /\ Goes(q, Stage(i + 1))
    /\ UNCHANGED <<status, registry, busy, disposing, carrying, sweepVars, shutdown, crashes,
                   historyVars>>

\* A protected run the relay cannot carry, a folder or file that is not there, capacity
\* refused: nothing has been taken.
ComposeRefused(q) ==
    /\ Up /\ request[q].at = "reserve" /\ Ends(q)
    /\ UNCHANGED <<status, registry, holds, busy, disposing, carrying, sweepVars, shutdown,
                   crashes, historyVars>>

\* No server, no usable model, no image: all that was taken is given back.
ComposeFails(q) ==
    /\ Up /\ request[q].at \in Composing \ {"reserve"}
    /\ holds' = [holds EXCEPT ![q] = {}] /\ Ends(q)
    /\ UNCHANGED <<status, registry, busy, disposing, carrying, sweepVars, shutdown, crashes,
                   historyVars>>

Register(q, r) ==
    /\ registry' = [registry EXCEPT ![r] = q]
    /\ revived' = IF status[r] = "stopped" THEN revived \cup {q} ELSE revived

-----------------------------------------------------------------------------
(* POST /runs *)

Create(q) ==
    /\ Accepting /\ IsNext(q) /\ Goes(q, "reserve")
    /\ UNCHANGED <<status, registry, holds, busy, disposing, carrying, sweepVars, shutdown,
                   crashes, historyVars>>

Registered == {r \in Runs : registry[r] # Nobody}

\* The compositions that serve a run.
Serving == {registry[r] : r \in Registered}

\* Mutant: the sweep is told of compositions, not of runs.
LiveRecords == {registry[r] : r \in Runs}
Live == Registered

\* createRun writes the row; then the sweep is told which runs are live.
Created(q) ==
    /\ Up /\ request[q].at = "image" /\ request[q].run = Nobody
    /\ \E r \in Runs :
        /\ status[r] = "none"
        /\ status' = Row(r, "active")
        /\ request' = [request EXCEPT ![q].run = r, ![q].at = "listing"]
        /\ spared' = [spared EXCEPT ![q] = Live \cup {r}]
    /\ told' = [told EXCEPT ![q] = (Serving \cup busy) \ contested]
    /\ UNCHANGED <<registry, holds, busy, disposing, carrying, found, shutdown, crashes,
                   historyVars>>

\* The engine refuses the spec: the composition is cleaned up.
CreateFails(q) ==
    /\ Up /\ request[q].at = "image" /\ request[q].run = Nobody
    /\ Goes(q, "failing")
    /\ UNCHANGED <<status, registry, holds, busy, disposing, carrying, sweepVars, shutdown,
                   crashes, historyVars>>

\* sweepOrphanContainers: the names are listed once, and removed one by one.
List(q) ==
    /\ Up /\ request[q].at = "listing"
    /\ found' = [found EXCEPT ![q] = {r \in Runs : carrying[r] # Nobody} \ spared[q]]
    /\ spared' = [spared EXCEPT ![q] = {}]
    /\ Goes(q, "removing")
    /\ UNCHANGED <<status, registry, holds, busy, disposing, carrying, told, shutdown, crashes,
                   historyVars>>

Sweep(q, r) ==
    /\ Up /\ r \in found[q]
    /\ found' = [found EXCEPT ![q] = @ \ {r}]
    /\ carrying' = [carrying EXCEPT ![r] = Nobody]
    /\ UNCHANGED <<status, registry, request, holds, busy, disposing, spared, told, shutdown,
                   crashes, historyVars>>

\* Only after the sweep does the run enter the registry, whoever resumed it meanwhile.
Swept(q) ==
    /\ Up /\ request[q].at = "removing" /\ found[q] = {}
    /\ Register(q, request[q].run)
    /\ contested' = contested \cup ({registry[request[q].run]} \ {Nobody})
                             \cup (IF status[request[q].run] = "stopped" THEN {q} ELSE {})
    /\ told' = [told EXCEPT ![q] = {}]
    /\ Goes(q, "done")
    /\ UNCHANGED <<status, holds, busy, disposing, carrying, spared, found, shutdown, crashes>>

-----------------------------------------------------------------------------
(* POST /runs/:id/rounds, which resumes a run this process does not know *)

PostRound(q, r) ==
    /\ Accepting /\ IsNext(q) /\ status[r] = "active"
    /\ IF registry[r] # Nobody
       THEN /\ StartRoundOn(registry[r])
            /\ Goes(q, "done")
       ELSE /\ request' = [request EXCEPT ![q].run = r, ![q].at = "reserve"]
            /\ UNCHANGED busy
    /\ UNCHANGED <<status, registry, holds, disposing, carrying, sweepVars, shutdown, crashes,
                   historyVars>>

\* Mutant: the resume does not look again.
RegistersAlways(q) == TRUE

\* Another request may have registered the run meanwhile; its composition wins.
Registers(q) == registry[request[q].run] = Nobody

Resumed(q) ==
    /\ Up /\ request[q].at = "image" /\ request[q].run # Nobody
    /\ IF Registers(q)
       THEN /\ Register(q, request[q].run)
            /\ StartRoundOn(q)
            /\ Goes(q, "done")
       ELSE /\ request' = [request EXCEPT ![q].at = "losing",
                                          ![q].on = registry[request[q].run]]
            /\ UNCHANGED <<registry, busy, revived>>
    /\ UNCHANGED <<status, holds, disposing, carrying, sweepVars, shutdown, crashes, contested>>

\* The stored spend cannot be replayed: the composition is cleaned up.
ResumeFails(q) ==
    /\ Up /\ request[q].at = "image" /\ request[q].run # Nobody
    /\ Goes(q, "failing")
    /\ UNCHANGED <<status, registry, holds, busy, disposing, carrying, sweepVars, shutdown,
                   crashes, historyVars>>

\* The loser's cleanup is over, and the round starts, if it may, on the winner.
Lost(q) ==
    /\ Up /\ request[q].at \in Undoing
    /\ holds' = [holds EXCEPT ![q] = {}]
    /\ IF request[q].at = "losing" THEN StartRoundOn(request[q].on) ELSE UNCHANGED busy
    /\ Ends(q)
    /\ UNCHANGED <<status, registry, disposing, carrying, sweepVars, shutdown, crashes, historyVars>>

-----------------------------------------------------------------------------
(* DELETE /runs/:id, and disposeRunRecord *)

\* Mutant: the run leaves the registry before its last round has ended.
DelistedEarly(r) == [registry EXCEPT ![r] = Nobody]
Delisted(r) == registry

\* The stop is written before anything is waited for.
Stop(q, r) ==
    /\ Accepting /\ IsNext(q) /\ status[r] = "active" /\ registry[r] # Nobody
    /\ status' = Row(r, "stopped")
    /\ disposing' = disposing \cup {registry[r]}
    /\ request' = [request EXCEPT ![q] = [run |-> r, on |-> registry[r], at |-> "waiting"]]
    /\ registry' = Delisted(r)
    /\ UNCHANGED <<holds, busy, carrying, sweepVars, shutdown, crashes, historyVars>>

\* The round has ended: the engine's disposal removes the containers, as far as they go, and
\* with it over the cleanup begins, by revoking the grant,
Idle(c) ==
    /\ c \notin busy
    /\ carrying' \in {carrying, Cleared(c)}
    /\ holds' = [holds EXCEPT ![c] = @ \ {"grant"}]

\* and goes on with what is left of the containers, the server and the reservation.
Cleaned(c) ==
    /\ holds' = [holds EXCEPT ![c] = {}]
    /\ carrying' = Cleared(c)

StopWaited(q) ==
    /\ Up /\ request[q].at = "waiting" /\ Idle(request[q].on) /\ Goes(q, "cleaning")
    /\ UNCHANGED <<status, registry, busy, disposing, sweepVars, shutdown, crashes, historyVars>>

\* Only now does the run leave the registry.
Stopped(q) ==
    /\ Up /\ request[q].at = "cleaning" /\ Cleaned(request[q].on) /\ Ends(q)
    /\ registry' = [registry EXCEPT ![request[q].run] = Nobody]
    /\ UNCHANGED <<status, busy, disposing, sweepVars, shutdown, crashes, historyVars>>

-----------------------------------------------------------------------------
(* shutdown of the dashboard *)

\* The records to dispose of are those registered now; requests are still accepted.
Shutdown ==
    /\ shutdown.at = "up"
    /\ shutdown' = [at |-> "next", list |-> Serving, todo |-> Serving, on |-> Nobody]
    /\ UNCHANGED <<status, registry, request, holds, busy, disposing, carrying, sweepVars,
                   crashes, historyVars>>

DisposeNext ==
    /\ shutdown.at = "next"
    /\ \E c \in shutdown.todo :
        /\ shutdown' = [shutdown EXCEPT !.at = "waiting", !.on = c, !.todo = @ \ {c}]
        /\ disposing' = disposing \cup {c}
    /\ UNCHANGED <<status, registry, request, holds, busy, carrying, sweepVars, crashes,
                   historyVars>>

ShutdownWaited ==
    /\ shutdown.at = "waiting" /\ Idle(shutdown.on)
    /\ shutdown' = [shutdown EXCEPT !.at = "cleaning"]
    /\ UNCHANGED <<status, registry, request, busy, disposing, sweepVars, crashes, historyVars>>

ShutdownCleaned ==
    /\ shutdown.at = "cleaning" /\ Cleaned(shutdown.on)
    /\ shutdown' = [shutdown EXCEPT !.at = "next", !.on = Nobody]
    /\ UNCHANGED <<status, registry, request, busy, disposing, sweepVars, crashes, historyVars>>

\* The server closes: what is under way is answered, nothing else is taken.
Close ==
    /\ shutdown.at = "next" /\ shutdown.todo = {}
    /\ shutdown' = [shutdown EXCEPT !.at = "closing"]
    /\ UNCHANGED <<status, registry, request, holds, busy, disposing, carrying, sweepVars,
                   crashes, historyVars>>

Exit ==
    /\ shutdown.at = "closing" /\ \A q \in Requests : request[q].at \in {"unused", "done"}
    /\ shutdown' = [shutdown EXCEPT !.at = "exited"]
    /\ UNCHANGED <<status, registry, request, holds, busy, disposing, carrying, sweepVars,
                   crashes, historyVars>>

\* The process dies and another one starts: containers survive it, and the rows.
Crash ==
    /\ Up /\ crashes < MaxCrashes /\ crashes' = crashes + 1
    /\ registry' = [r \in Runs |-> Nobody]
    /\ request' = [q \in Requests |->
            IF request[q].at = "unused" THEN request[q] ELSE Ended]
    /\ holds' = [q \in Requests |-> {}] /\ busy' = {} /\ disposing' = {}
    /\ carrying' = [r \in Runs |-> IF carrying[r] = Nobody THEN Nobody ELSE Leftover]
    /\ spared' = [q \in Requests |-> {}] /\ found' = [q \in Requests |-> {}]
    /\ told' = [q \in Requests |-> {}]
    /\ shutdown' = [at |-> "up", list |-> {}, todo |-> {}, on |-> Nobody]
    /\ revived' = {} /\ contested' = {}
    /\ UNCHANGED status

Next ==
    \/ \E q \in Requests :
        \/ Create(q) \/ Compose(q) \/ ComposeRefused(q) \/ ComposeFails(q)
        \/ Created(q) \/ CreateFails(q)
        \/ List(q) \/ Swept(q) \/ Resumed(q) \/ ResumeFails(q) \/ Lost(q)
        \/ StopWaited(q) \/ Stopped(q) \/ Provision(q) \/ EndRound(q)
        \/ \E r \in Runs : Sweep(q, r) \/ PostRound(q, r) \/ Stop(q, r)
    \/ Shutdown \/ DisposeNext \/ ShutdownWaited \/ ShutdownCleaned \/ Close \/ Exit \/ Crash

Spec == Init /\ [][Next]_vars

-----------------------------------------------------------------------------
(* Properties *)

\* Somebody will give back what composition c holds: the request that makes or unmakes it,
\* whoever disposes of it, or a later stop of its run, which only a run that is not stopped
\* already can get.
Reachable(c) ==
    \/ request[c].at \in Composing \cup Sweeping \cup Undoing
    \/ \E q \in Requests : request[q].at \in Stopping /\ request[q].on = c
    \/ shutdown.on = c
    \/ /\ registry[request[c].run] = c
       /\ status[request[c].run] = "active" \/ c \in revived

\* No composition is lost while it holds a reservation, a server, a grant or containers,
\* however creations, resumes, stops and a shutdown interleave; and when the process exits,
\* every run that was registered at the shutdown has given everything back.  Three things
\* are let pass.  A run resumed while it is being created has two compositions, of which the
\* registry keeps the later and nobody disposes of the other (contested).  What registers
\* after the shutdown's list is not disposed of, though shutdown "releases everything this
\* composition root owns" (create-dashboard.ts).  And a resume that outlasts a stop revives
\* the stopped run, out of reach of another stop (revived).
NothingOrphaned ==
    /\ \A c \in Requests : holds[c] # {} /\ Up => Reachable(c) \/ c \in contested
    /\ \A r \in Runs : carrying[r] \in Requests => holds[carrying[r]] # {}
    /\ shutdown.at = "exited" => \A c \in shutdown.list : holds[c] = {} /\ c \notin busy

\* A round in flight loses its containers to nothing but a sweep that was told of the live
\* runs before the round's composition was registered.  Whatever served a run when the sweep
\* was told, or had a round in flight, is spared until the sweep has ended: through the end
\* and the start of rounds, a stop that waits for its round, and removals that go by names
\* listed long before (sweepOrphanContainers; disposeRunRecord, before registry.delete).
\* What is resumed after the telling is not: its containers wear a name that is no live run's
\* in the sweep's eyes, though a sweep "can never destroy that run -- or any other live run
\* on the host" (sweep.ts).  Nor is a contested run: the stop of one composition takes the
\* other out of the registry.
SparesTheLiving ==
    [][\A r \in Runs :
         LET c == carrying[r]
         IN  c \in busy \cap busy' /\ carrying'[r] = Nobody =>
               \E q \in Requests : r \in found[q] \ found'[q] /\ c \notin told[q]]_vars
=============================================================================
