-------------------------- MODULE RunLifecycleProofs --------------------------
(***************************************************************************)
(* What RunLifecycle promises for any number of runs, requests and crashes.*)
(***************************************************************************)
EXTENDS RunLifecycle, TLAPS

Ats == Composing \cup Sweeping \cup Undoing \cup Stopping \cup {"unused", "done"}
RequestType == [run : Runs \cup {Nobody}, on : {Nobody} \cup Requests, at : Ats]
ShutdownType == [at : {"up", "next", "waiting", "cleaning", "closing", "exited"},
                 list : SUBSET Requests, todo : SUBSET Requests, on : {Nobody} \cup Requests]

\* TypeOK, variable by variable.
RowsTyped == status \in [Runs -> {"none", "active", "stopped"}]
RegistryTyped == registry \in [Runs -> {Nobody} \cup Requests]
RequestTyped == request \in [Requests -> RequestType]
HoldsTyped == holds \in [Requests -> SUBSET Holdings]
CarryingTyped == carrying \in [Runs -> {Nobody, Leftover} \cup Requests]
SweepTyped ==
    /\ spared \in [Requests -> SUBSET Runs] /\ found \in [Requests -> SUBSET Runs]
    /\ told \in [Requests -> SUBSET Requests]
ShutdownTyped == shutdown \in ShutdownType /\ shutdown.todo \subseteq shutdown.list
SetsTyped ==
    /\ busy \subseteq Requests /\ disposing \subseteq Requests
    /\ revived \subseteq Requests /\ contested \subseteq Requests
    /\ crashes \in 0..MaxCrashes
RunsTyped == \A r \in Runs : registry[r] # Nobody => request[registry[r]].run = r

Typed ==
    /\ RowsTyped /\ RegistryTyped /\ RequestTyped /\ HoldsTyped /\ CarryingTyped
    /\ SweepTyped /\ ShutdownTyped /\ SetsTyped /\ RunsTyped

\* The manager of c still serves its run, unless two compositions do.
Served(c) == registry[request[c].run] = c \/ c \in contested

\* c is a composition that has been handed out, of run r.
HandedOut(c, r) == request[c].at = "done" /\ request[c].run = r /\ r \in Runs

\* What a composition holds at each stage of its making, and that it is for a run that has a
\* row.
StagesInv ==
    \A q \in Requests :
        /\ request[q].at \in {"unused", "reserve"} \cup Stopping => holds[q] = {}
        /\ request[q].at \in {"server", "grant", "image"} \cup Sweeping
             => "reservation" \in holds[q]
        /\ request[q].at \in Sweeping => request[q].run \in Runs
        /\ request[q].run \in Runs => status[request[q].run] # "none"

\* A registered composition can be given a round, or refuses it.
ServiceInv ==
    \A r \in Runs :
        registry[r] # Nobody =>
            /\ HandedOut(registry[r], r)
            /\ registry[r] \in disposing \/ "reservation" \in holds[registry[r]]

\* So can the one whose start a lost resume has still to ask for.
LosersInv ==
    \A q \in Requests :
        request[q].at = "losing" =>
            LET c == request[q].on
            IN  /\ c # Nobody /\ HandedOut(c, request[c].run)
                /\ c \in disposing \/ ("reservation" \in holds[c] /\ Served(c))

\* A round runs on a composition that is registered and holds its reservation.
RoundsInv ==
    \A c \in busy :
        HandedOut(c, request[c].run) /\ "reservation" \in holds[c] /\ Served(c)

\* One stop at most is under way for a run, and no round starts behind its back.
StopsInv ==
    \A q \in Requests :
        request[q].at \in Stopping =>
            LET c == request[q].on
                r == request[q].run
            IN  /\ c # Nobody /\ HandedOut(c, r) /\ c \in disposing
                /\ request[q].at = "cleaning" => c \notin busy
                /\ status[r] = "stopped" /\ registry[r] \in {c} \cup contested
                /\ \A p \in Requests :
                     request[p].at \in Stopping /\ request[p].run = r => p = q

\* A shutdown disposes of what it listed, one by one.
ShutdownInv ==
    /\ shutdown.at \in {"waiting", "cleaning"} <=> shutdown.on # Nobody
    /\ shutdown.at \in {"closing", "exited"} => shutdown.todo = {}
    /\ shutdown.on # Nobody =>
         /\ shutdown.on \in disposing \cap shutdown.list
         /\ shutdown.at = "cleaning" => shutdown.on \notin busy
    /\ \A c \in shutdown.list :
         /\ HandedOut(c, request[c].run)
         /\ c \in shutdown.todo \/ c = shutdown.on
            \/ (holds[c] = {} /\ c \notin busy /\ c \in disposing)

\* Containers wear the name of the run they were made for, within its reservation.
CarriedInv ==
    \A r \in Runs :
        carrying[r] \in Requests =>
            HandedOut(carrying[r], r) /\ "reservation" \in holds[carrying[r]]

\* No name a sweep has found is that of a run it was told of: those it has to spare are, until
\* it has listed what there is.
SweepsInv ==
    \A q \in Requests :
        /\ request[q].at # "removing" => found[q] = {}
        /\ \A c \in told[q] :
             /\ HandedOut(c, request[c].run) /\ request[c].run \notin found[q]
             /\ request[q].at = "listing" => request[c].run \in spared[q]

\* What is held can be given back: the first part of NothingOrphaned.
ReachInv == \A c \in Requests : holds[c] # {} => Reachable(c) \/ c \in contested

LifecycleInv ==
    /\ Typed /\ StagesInv /\ ServiceInv /\ LosersInv /\ RoundsInv /\ StopsInv /\ ShutdownInv
    /\ CarriedInv /\ SweepsInv /\ ReachInv

-----------------------------------------------------------------------------
(* What the operators of the steps do. *)

LEMMA Names ==
    /\ Nobody \notin Requests /\ Leftover \notin Requests /\ Nobody \notin Runs
    /\ Nobody # Leftover
  BY LifecycleAssumption DEF Nobody, Leftover, Requests

LEMMA TypedMeansTypeOK == Typed => TypeOK
<1> SUFFICES ASSUME Typed PROVE TypeOK
  OBVIOUS
<1>1. /\ shutdown.at \in {"up", "next", "waiting", "cleaning", "closing", "exited"}
      /\ shutdown.list \subseteq Requests /\ shutdown.todo \subseteq shutdown.list
      /\ shutdown.on \in {Nobody} \cup Requests
  BY DEF Typed, ShutdownTyped, ShutdownType
<1>2. request \in [Requests -> [run : Runs \cup {Nobody}, on : {Nobody} \cup Requests,
                                 at : Composing \cup Sweeping \cup Undoing \cup Stopping
                                        \cup {"unused", "done"}]]
  BY DEF Typed, RequestTyped, RequestType, Ats
<1> QED
  BY <1>1, <1>2 DEF Typed, RowsTyped, RegistryTyped, HoldsTyped, CarryingTyped, SweepTyped,
                    SetsTyped, RunsTyped, TypeOK

\* Who waits for a composition, waits for one.
Awaited ==
    /\ \A q \in Requests : request[q].at \in Stopping \cup {"losing"} => request[q].on \in Requests
    /\ shutdown.at \in {"waiting", "cleaning"} => shutdown.on \in Requests

LEMMA AwaitedIsNamed == LifecycleInv => Awaited
<1>1. Typed => /\ \A q \in Requests : request[q].on \in {Nobody} \cup Requests
               /\ shutdown.on \in {Nobody} \cup Requests
  BY DEF Typed, RequestTyped, RequestType, ShutdownTyped, ShutdownType
<1> QED
  BY <1>1 DEF LifecycleInv, StopsInv, LosersInv, ShutdownInv, Awaited

LEMMA NextIsUnused == ASSUME NEW q \in Requests, IsNext(q) PROVE request[q].at = "unused"
  BY DEF IsNext

\* What a request that moves on keeps.
LEMMA GoesKeeps ==
    ASSUME Typed, NEW q \in Requests, NEW at, Goes(q, at)
    PROVE  /\ request'[q].at = at
           /\ \A p \in Requests : request'[p].run = request[p].run
           /\ \A p \in Requests : request'[p].on = request[p].on
           /\ \A p \in Requests : p # q => request'[p].at = request[p].at
  BY DEF Goes, Typed, RequestTyped, RequestType

LEMMA GoesTyped ==
    ASSUME Typed, NEW q \in Requests, NEW at \in Ats, Goes(q, at) PROVE RequestTyped'
  BY DEF Goes, Typed, RequestTyped, RequestType

\* A request that ends forgets what it was about.
LEMMA EndsKeeps ==
    ASSUME Typed, NEW q \in Requests, Ends(q)
    PROVE  /\ request'[q].at = "done" /\ request'[q].run = Nobody /\ request'[q].on = Nobody
           /\ \A p \in Requests : p # q => request'[p].run = request[p].run
           /\ \A p \in Requests : p # q => request'[p].on = request[p].on
           /\ \A p \in Requests : p # q => request'[p].at = request[p].at
  BY DEF Ends, Ended, Typed, RequestTyped, RequestType

LEMMA EndsTyped == ASSUME Typed, NEW q \in Requests, Ends(q) PROVE RequestTyped'
  BY DEF Ends, Ended, Typed, RequestTyped, RequestType, Ats

LEMMA RecordKeeps ==
    ASSUME NEW x \in RequestType, NEW at, NEW on
    PROVE  /\ [x EXCEPT !.at = at, !.on = on].at = at
           /\ [x EXCEPT !.at = at, !.on = on].run = x.run
  BY DEF RequestType

LEMMA Moves == {"done", "reserve", "server", "grant", "image", "removing", "failing", "cleaning",
                "listing", "losing", "waiting"} \subseteq Ats
  BY DEF Ats, Composing, Sweeping, Undoing, Stopping

\* One await of a composition.
LEMMA ComposeGains ==
    ASSUME Typed, NEW q \in Requests, Compose(q)
    PROVE  /\ request[q].at \in {"reserve", "server", "grant"}
           /\ \E at \in {"server", "grant", "image"} : Goes(q, at)
           /\ HoldsTyped'
           /\ holds[q] \subseteq holds'[q]
           /\ request[q].at = "reserve" => "reservation" \in holds'[q]
           /\ \A p \in Requests : p # q => holds'[p] = holds[p]
           /\ UNCHANGED <<status, registry, busy, disposing, carrying, shutdown, historyVars>>
<1>0. UNCHANGED <<status, registry, busy, disposing, carrying, shutdown, historyVars>>
  BY DEF Compose
<1> PICK i \in 1..3 : /\ request[q].at = Stage(i) /\ Goes(q, Stage(i + 1))
                      /\ holds' = [holds EXCEPT ![q] = @ \cup Gains(i)]
  BY DEF Compose
<1>1. Gains(i) \subseteq Holdings /\ (Stage(i) = "reserve" => "reservation" \in Gains(i))
  <2>1. CASE i = 1
    BY <2>1 DEF Gains, Stage, Holdings
  <2>2. CASE i = 2
    BY <2>2 DEF Gains, Stage, Holdings
  <2>3. CASE i = 3
    BY <2>3 DEF Gains, Stage, Holdings
  <2> QED
    BY <2>1, <2>2, <2>3
<1>2. Stage(i) \in {"reserve", "server", "grant"} /\ Stage(i + 1) \in {"server", "grant", "image"}
  <2>1. CASE i = 1
    BY <2>1 DEF Stage
  <2>2. CASE i = 2
    BY <2>2 DEF Stage
  <2>3. CASE i = 3
    BY <2>3 DEF Stage
  <2> QED
    BY <2>1, <2>2, <2>3
<1> QED
  BY <1>0, <1>1, <1>2 DEF Typed, HoldsTyped

\* A composition is given a round only if it is neither disposed of nor in one.
LEMMA StartsAtMost ==
    ASSUME Typed, NEW c \in Requests, StartRoundOn(c)
    PROVE  /\ busy' \subseteq Requests
           /\ busy' = busy \/ (busy' = busy \cup {c} /\ c \notin disposing)
  BY LifecycleAssumption DEF Typed, SetsTyped, StartRoundOn

\* What the removal of containers leaves where it is.
LEMMA ClearedTakes ==
    ASSUME Typed, NEW c \in Requests, carrying' \in {carrying, Cleared(c)}
    PROVE  /\ CarryingTyped'
           /\ \A r \in Runs : carrying'[r] \in Requests => carrying'[r] = carrying[r]
           /\ \A r \in Runs : carrying[r] # c => carrying'[r] = carrying[r]
<1>1. \A r \in Runs : carrying'[r] \in {carrying[r]} \cup (IF carrying[r] = c THEN {Nobody} ELSE {})
  BY DEF Cleared, Typed, CarryingTyped
<1>2. CarryingTyped'
  BY DEF Cleared, Typed, CarryingTyped
<1> QED
  BY <1>1, <1>2, Names

\* What cleaning up takes away.
LEMMA CleanedTakes ==
    ASSUME Typed, NEW c \in Requests, Cleaned(c)
    PROVE  /\ HoldsTyped' /\ CarryingTyped'
           /\ holds'[c] = {}
           /\ \A p \in Requests : p # c => holds'[p] = holds[p]
           /\ \A r \in Runs : carrying'[r] \in Requests => carrying'[r] = carrying[r]
           /\ \A r \in Runs : carrying[r] # c => carrying'[r] = carrying[r]
           /\ request[c].run \in Runs => carrying'[request[c].run] # c
<1>1. HoldsTyped' /\ holds'[c] = {} /\ \A p \in Requests : p # c => holds'[p] = holds[p]
  BY DEF Cleaned, Typed, HoldsTyped
<1>2. request[c].run \in Runs => carrying'[request[c].run] # c
  BY Names DEF Cleaned, Cleared, Typed, CarryingTyped
<1> QED
  BY <1>1, <1>2, ClearedTakes DEF Cleaned

\* A composition that has done its last round keeps all but its grant and containers.
LEMMA IdleTakes ==
    ASSUME Typed, NEW c \in Requests, Idle(c)
    PROVE  /\ c \notin busy /\ HoldsTyped' /\ CarryingTyped'
           /\ \A p \in Requests : holds'[p] \subseteq holds[p]
           /\ \A p \in Requests : "reservation" \in holds[p] => "reservation" \in holds'[p]
           /\ \A r \in Runs : carrying'[r] \in Requests => carrying'[r] = carrying[r]
           /\ \A r \in Runs : carrying[r] # c => carrying'[r] = carrying[r]
<1>1. /\ c \notin busy /\ HoldsTyped'
      /\ \A p \in Requests : holds'[p] \subseteq holds[p]
      /\ \A p \in Requests : "reservation" \in holds[p] => "reservation" \in holds'[p]
  BY DEF Idle, Typed, HoldsTyped
<1> QED
  BY <1>1, ClearedTakes DEF Idle

-----------------------------------------------------------------------------
(* Each step keeps each part of the invariant. *)

LEMMA RowsTypedStep == LifecycleInv /\ [Next]_vars => RowsTyped'
<1> SUFFICES ASSUME LifecycleInv, [Next]_vars PROVE RowsTyped'
  OBVIOUS
<1>0. Typed /\ Awaited
  BY AwaitedIsNamed DEF LifecycleInv
<1>1. ASSUME NEW q \in Requests, Create(q) PROVE RowsTyped'
  BY <1>1, <1>0 DEF Typed, RowsTyped, Create, sweepVars, historyVars
<1>2. ASSUME NEW q \in Requests, Compose(q) PROVE RowsTyped'
  BY <1>2, <1>0 DEF Typed, RowsTyped, Compose, sweepVars, historyVars
<1>3. ASSUME NEW q \in Requests, ComposeRefused(q) PROVE RowsTyped'
  BY <1>3, <1>0 DEF Typed, RowsTyped, ComposeRefused, sweepVars, historyVars
<1>4. ASSUME NEW q \in Requests, ComposeFails(q) PROVE RowsTyped'
  BY <1>4, <1>0 DEF Typed, RowsTyped, ComposeFails, sweepVars, historyVars
<1>5. ASSUME NEW q \in Requests, Created(q) PROVE RowsTyped'
  BY <1>5, <1>0 DEF Typed, RowsTyped, Created, Row, historyVars
<1>6. ASSUME NEW q \in Requests, CreateFails(q) PROVE RowsTyped'
  BY <1>6, <1>0 DEF Typed, RowsTyped, CreateFails, sweepVars, historyVars
<1>7. ASSUME NEW q \in Requests, List(q) PROVE RowsTyped'
  BY <1>7, <1>0 DEF Typed, RowsTyped, List, historyVars
<1>8. ASSUME NEW q \in Requests, Swept(q) PROVE RowsTyped'
  BY <1>8, <1>0 DEF Typed, RowsTyped, Swept, Register
<1>9. ASSUME NEW q \in Requests, Resumed(q) PROVE RowsTyped'
  BY <1>9, <1>0 DEF Typed, RowsTyped, Resumed, Registers, Register, sweepVars
<1>10. ASSUME NEW q \in Requests, ResumeFails(q) PROVE RowsTyped'
  BY <1>10, <1>0 DEF Typed, RowsTyped, ResumeFails, sweepVars, historyVars
<1>11. ASSUME NEW q \in Requests, Lost(q) PROVE RowsTyped'
  BY <1>11, <1>0 DEF Typed, RowsTyped, Lost, sweepVars, historyVars
<1>12. ASSUME NEW q \in Requests, StopWaited(q) PROVE RowsTyped'
  BY <1>12, <1>0 DEF Typed, RowsTyped, StopWaited, sweepVars, historyVars
<1>13. ASSUME NEW q \in Requests, Stopped(q) PROVE RowsTyped'
  BY <1>13, <1>0 DEF Typed, RowsTyped, Stopped, sweepVars, historyVars
<1>14. ASSUME NEW q \in Requests, Provision(q) PROVE RowsTyped'
  BY <1>14, <1>0 DEF Typed, RowsTyped, Provision, sweepVars, historyVars
<1>15. ASSUME NEW q \in Requests, EndRound(q) PROVE RowsTyped'
  BY <1>15, <1>0 DEF Typed, RowsTyped, EndRound, sweepVars, historyVars
<1>16. ASSUME NEW q \in Requests, NEW r \in Runs, Sweep(q, r) PROVE RowsTyped'
  BY <1>16, <1>0 DEF Typed, RowsTyped, Sweep, historyVars
<1>17. ASSUME NEW q \in Requests, NEW r \in Runs, PostRound(q, r) PROVE RowsTyped'
  BY <1>17, <1>0 DEF Typed, RowsTyped, PostRound, sweepVars, historyVars
<1>18. ASSUME NEW q \in Requests, NEW r \in Runs, Stop(q, r) PROVE RowsTyped'
  BY <1>18, <1>0 DEF Typed, RowsTyped, Stop, Row, Delisted, sweepVars, historyVars
<1>19. ASSUME Shutdown PROVE RowsTyped'
  BY <1>19, <1>0 DEF Typed, RowsTyped, Shutdown, sweepVars, historyVars
<1>20. ASSUME DisposeNext PROVE RowsTyped'
  BY <1>20, <1>0 DEF Typed, RowsTyped, DisposeNext, sweepVars, historyVars
<1>21. ASSUME ShutdownWaited PROVE RowsTyped'
  BY <1>21, <1>0 DEF Typed, RowsTyped, ShutdownWaited, sweepVars, historyVars
<1>22. ASSUME ShutdownCleaned PROVE RowsTyped'
  BY <1>22, <1>0 DEF Typed, RowsTyped, ShutdownCleaned, sweepVars, historyVars
<1>23. ASSUME Close PROVE RowsTyped'
  BY <1>23, <1>0 DEF Typed, RowsTyped, Close, sweepVars, historyVars
<1>24. ASSUME Exit PROVE RowsTyped'
  BY <1>24, <1>0 DEF Typed, RowsTyped, Exit, sweepVars, historyVars
<1>25. ASSUME Crash PROVE RowsTyped'
  BY <1>25, <1>0 DEF Typed, RowsTyped, Crash
<1>26. ASSUME UNCHANGED vars PROVE RowsTyped'
  BY <1>26, <1>0 DEF Typed, RowsTyped, vars, sweepVars, historyVars
<1> QED
  BY <1>1, <1>2, <1>3, <1>4, <1>5, <1>6, <1>7, <1>8, <1>9, <1>10, <1>11, <1>12, <1>13, <1>14,
     <1>15, <1>16, <1>17, <1>18, <1>19, <1>20, <1>21, <1>22, <1>23, <1>24, <1>25, <1>26 DEF Next

LEMMA RegistryTypedStep == LifecycleInv /\ [Next]_vars => RegistryTyped'
<1> SUFFICES ASSUME LifecycleInv, [Next]_vars PROVE RegistryTyped'
  OBVIOUS
<1>0. Typed /\ Awaited
  BY AwaitedIsNamed DEF LifecycleInv
<1>1. ASSUME NEW q \in Requests, Create(q) PROVE RegistryTyped'
  BY <1>1, <1>0 DEF Typed, RegistryTyped, Create, sweepVars, historyVars
<1>2. ASSUME NEW q \in Requests, Compose(q) PROVE RegistryTyped'
  BY <1>2, <1>0 DEF Typed, RegistryTyped, Compose, sweepVars, historyVars
<1>3. ASSUME NEW q \in Requests, ComposeRefused(q) PROVE RegistryTyped'
  BY <1>3, <1>0 DEF Typed, RegistryTyped, ComposeRefused, sweepVars, historyVars
<1>4. ASSUME NEW q \in Requests, ComposeFails(q) PROVE RegistryTyped'
  BY <1>4, <1>0 DEF Typed, RegistryTyped, ComposeFails, sweepVars, historyVars
<1>5. ASSUME NEW q \in Requests, Created(q) PROVE RegistryTyped'
  BY <1>5, <1>0 DEF Typed, RegistryTyped, Created, Row, historyVars
<1>6. ASSUME NEW q \in Requests, CreateFails(q) PROVE RegistryTyped'
  BY <1>6, <1>0 DEF Typed, RegistryTyped, CreateFails, sweepVars, historyVars
<1>7. ASSUME NEW q \in Requests, List(q) PROVE RegistryTyped'
  BY <1>7, <1>0 DEF Typed, RegistryTyped, List, historyVars
<1>8. ASSUME NEW q \in Requests, Swept(q) PROVE RegistryTyped'
  BY <1>8, <1>0 DEF Typed, RegistryTyped, Swept, Register
<1>9. ASSUME NEW q \in Requests, Resumed(q) PROVE RegistryTyped'
  BY <1>9, <1>0 DEF Typed, RegistryTyped, Resumed, Registers, Register, sweepVars
<1>10. ASSUME NEW q \in Requests, ResumeFails(q) PROVE RegistryTyped'
  BY <1>10, <1>0 DEF Typed, RegistryTyped, ResumeFails, sweepVars, historyVars
<1>11. ASSUME NEW q \in Requests, Lost(q) PROVE RegistryTyped'
  BY <1>11, <1>0 DEF Typed, RegistryTyped, Lost, sweepVars, historyVars
<1>12. ASSUME NEW q \in Requests, StopWaited(q) PROVE RegistryTyped'
  BY <1>12, <1>0 DEF Typed, RegistryTyped, StopWaited, sweepVars, historyVars
<1>13. ASSUME NEW q \in Requests, Stopped(q) PROVE RegistryTyped'
  BY <1>13, <1>0 DEF Typed, RegistryTyped, Stopped, sweepVars, historyVars
<1>14. ASSUME NEW q \in Requests, Provision(q) PROVE RegistryTyped'
  BY <1>14, <1>0 DEF Typed, RegistryTyped, Provision, sweepVars, historyVars
<1>15. ASSUME NEW q \in Requests, EndRound(q) PROVE RegistryTyped'
  BY <1>15, <1>0 DEF Typed, RegistryTyped, EndRound, sweepVars, historyVars
<1>16. ASSUME NEW q \in Requests, NEW r \in Runs, Sweep(q, r) PROVE RegistryTyped'
  BY <1>16, <1>0 DEF Typed, RegistryTyped, Sweep, historyVars
<1>17. ASSUME NEW q \in Requests, NEW r \in Runs, PostRound(q, r) PROVE RegistryTyped'
  BY <1>17, <1>0 DEF Typed, RegistryTyped, PostRound, sweepVars, historyVars
<1>18. ASSUME NEW q \in Requests, NEW r \in Runs, Stop(q, r) PROVE RegistryTyped'
  BY <1>18, <1>0 DEF Typed, RegistryTyped, Stop, Row, Delisted, sweepVars, historyVars
<1>19. ASSUME Shutdown PROVE RegistryTyped'
  BY <1>19, <1>0 DEF Typed, RegistryTyped, Shutdown, sweepVars, historyVars
<1>20. ASSUME DisposeNext PROVE RegistryTyped'
  BY <1>20, <1>0 DEF Typed, RegistryTyped, DisposeNext, sweepVars, historyVars
<1>21. ASSUME ShutdownWaited PROVE RegistryTyped'
  BY <1>21, <1>0 DEF Typed, RegistryTyped, ShutdownWaited, sweepVars, historyVars
<1>22. ASSUME ShutdownCleaned PROVE RegistryTyped'
  BY <1>22, <1>0 DEF Typed, RegistryTyped, ShutdownCleaned, sweepVars, historyVars
<1>23. ASSUME Close PROVE RegistryTyped'
  BY <1>23, <1>0 DEF Typed, RegistryTyped, Close, sweepVars, historyVars
<1>24. ASSUME Exit PROVE RegistryTyped'
  BY <1>24, <1>0 DEF Typed, RegistryTyped, Exit, sweepVars, historyVars
<1>25. ASSUME Crash PROVE RegistryTyped'
  BY <1>25, <1>0 DEF Typed, RegistryTyped, Crash
<1>26. ASSUME UNCHANGED vars PROVE RegistryTyped'
  BY <1>26, <1>0 DEF Typed, RegistryTyped, vars, sweepVars, historyVars
<1> QED
  BY <1>1, <1>2, <1>3, <1>4, <1>5, <1>6, <1>7, <1>8, <1>9, <1>10, <1>11, <1>12, <1>13, <1>14,
     <1>15, <1>16, <1>17, <1>18, <1>19, <1>20, <1>21, <1>22, <1>23, <1>24, <1>25, <1>26 DEF Next

LEMMA RequestTypedStep == LifecycleInv /\ [Next]_vars => RequestTyped'
<1> SUFFICES ASSUME LifecycleInv, [Next]_vars PROVE RequestTyped'
  OBVIOUS
<1>0. Typed /\ Awaited
  BY AwaitedIsNamed DEF LifecycleInv
<1>1. ASSUME NEW q \in Requests, Create(q) PROVE RequestTyped'
  BY <1>1, <1>0, GoesTyped, Moves DEF Typed, RequestTyped, Create, sweepVars, historyVars
<1>2. ASSUME NEW q \in Requests, Compose(q) PROVE RequestTyped'
  BY <1>2, <1>0, GoesTyped, Moves, ComposeGains DEF Typed, RequestTyped, Compose, sweepVars,
     historyVars
<1>3. ASSUME NEW q \in Requests, ComposeRefused(q) PROVE RequestTyped'
  BY <1>3, <1>0, EndsTyped, Moves DEF Typed, RequestTyped, ComposeRefused, sweepVars, historyVars
<1>4. ASSUME NEW q \in Requests, ComposeFails(q) PROVE RequestTyped'
  BY <1>4, <1>0, EndsTyped, Moves DEF Typed, RequestTyped, ComposeFails, sweepVars, historyVars
<1>5. ASSUME NEW q \in Requests, Created(q) PROVE RequestTyped'
  BY <1>5, <1>0, Names DEF Typed, RequestTyped, RegistryTyped, RequestType, Ats, Composing,
     Sweeping, Undoing, Stopping, Created, Row, historyVars
<1>6. ASSUME NEW q \in Requests, CreateFails(q) PROVE RequestTyped'
  BY <1>6, <1>0, GoesTyped, Moves DEF Typed, RequestTyped, CreateFails, sweepVars, historyVars
<1>7. ASSUME NEW q \in Requests, List(q) PROVE RequestTyped'
  BY <1>7, <1>0, GoesTyped, Moves DEF Typed, RequestTyped, List, historyVars
<1>8. ASSUME NEW q \in Requests, Swept(q) PROVE RequestTyped'
  BY <1>8, <1>0, GoesTyped, Moves DEF Typed, RequestTyped, Swept, Register
<1>9. ASSUME NEW q \in Requests, Resumed(q) PROVE RequestTyped'
  BY <1>9, <1>0, GoesTyped, Moves, Names DEF Typed, RequestTyped, RegistryTyped, RequestType,
     Ats, Composing, Sweeping, Undoing, Stopping, Resumed, Registers, Register, sweepVars
<1>10. ASSUME NEW q \in Requests, ResumeFails(q) PROVE RequestTyped'
  BY <1>10, <1>0, GoesTyped, Moves DEF Typed, RequestTyped, ResumeFails, sweepVars, historyVars
<1>11. ASSUME NEW q \in Requests, Lost(q) PROVE RequestTyped'
  BY <1>11, <1>0, EndsTyped, Moves DEF Typed, RequestTyped, Lost, sweepVars, historyVars,
     Awaited
<1>12. ASSUME NEW q \in Requests, StopWaited(q) PROVE RequestTyped'
  BY <1>12, <1>0, GoesTyped, Moves DEF Typed, RequestTyped, StopWaited, sweepVars, historyVars,
     Awaited, Stopping
<1>13. ASSUME NEW q \in Requests, Stopped(q) PROVE RequestTyped'
  BY <1>13, <1>0, EndsTyped, Moves DEF Typed, RequestTyped, Stopped, sweepVars, historyVars,
     Awaited, Stopping
<1>14. ASSUME NEW q \in Requests, Provision(q) PROVE RequestTyped'
  BY <1>14, <1>0 DEF Typed, RequestTyped, Provision, sweepVars, historyVars
<1>15. ASSUME NEW q \in Requests, EndRound(q) PROVE RequestTyped'
  BY <1>15, <1>0 DEF Typed, RequestTyped, EndRound, sweepVars, historyVars
<1>16. ASSUME NEW q \in Requests, NEW r \in Runs, Sweep(q, r) PROVE RequestTyped'
  BY <1>16, <1>0 DEF Typed, RequestTyped, Sweep, historyVars
<1>17. ASSUME NEW q \in Requests, NEW r \in Runs, PostRound(q, r) PROVE RequestTyped'
  BY <1>17, <1>0, GoesTyped, Moves, Names DEF Typed, RequestTyped, RegistryTyped, RequestType,
     Ats, Composing, Sweeping, Undoing, Stopping, PostRound, sweepVars, historyVars
<1>18. ASSUME NEW q \in Requests, NEW r \in Runs, Stop(q, r) PROVE RequestTyped'
  BY <1>18, <1>0, Names DEF Typed, RequestTyped, RegistryTyped, RequestType, Ats, Composing,
     Sweeping, Undoing, Stopping, Stop, Row, Delisted, sweepVars, historyVars
<1>19. ASSUME Shutdown PROVE RequestTyped'
  BY <1>19, <1>0 DEF Typed, RequestTyped, Shutdown, sweepVars, historyVars
<1>20. ASSUME DisposeNext PROVE RequestTyped'
  BY <1>20, <1>0 DEF Typed, RequestTyped, DisposeNext, sweepVars, historyVars
<1>21. ASSUME ShutdownWaited PROVE RequestTyped'
  BY <1>21, <1>0 DEF Typed, RequestTyped, ShutdownWaited, sweepVars, historyVars
<1>22. ASSUME ShutdownCleaned PROVE RequestTyped'
  BY <1>22, <1>0 DEF Typed, RequestTyped, ShutdownCleaned, sweepVars, historyVars
<1>23. ASSUME Close PROVE RequestTyped'
  BY <1>23, <1>0 DEF Typed, RequestTyped, Close, sweepVars, historyVars
<1>24. ASSUME Exit PROVE RequestTyped'
  BY <1>24, <1>0 DEF Typed, RequestTyped, Exit, sweepVars, historyVars
<1>25. ASSUME Crash PROVE RequestTyped'
  BY <1>25, <1>0, Names DEF Typed, RequestTyped, RegistryTyped, RequestType, Ats, Composing,
     Sweeping, Undoing, Stopping, Crash, Ended
<1>26. ASSUME UNCHANGED vars PROVE RequestTyped'
  BY <1>26, <1>0 DEF Typed, RequestTyped, vars, sweepVars, historyVars
<1> QED
  BY <1>1, <1>2, <1>3, <1>4, <1>5, <1>6, <1>7, <1>8, <1>9, <1>10, <1>11, <1>12, <1>13, <1>14,
     <1>15, <1>16, <1>17, <1>18, <1>19, <1>20, <1>21, <1>22, <1>23, <1>24, <1>25, <1>26 DEF Next

LEMMA HoldsTypedStep == LifecycleInv /\ [Next]_vars => HoldsTyped'
<1> SUFFICES ASSUME LifecycleInv, [Next]_vars PROVE HoldsTyped'
  OBVIOUS
<1>0. Typed /\ Awaited
  BY AwaitedIsNamed DEF LifecycleInv
<1>1. ASSUME NEW q \in Requests, Create(q) PROVE HoldsTyped'
  BY <1>1, <1>0 DEF Typed, HoldsTyped, Create, sweepVars, historyVars
<1>2. ASSUME NEW q \in Requests, Compose(q) PROVE HoldsTyped'
  BY <1>2, <1>0, ComposeGains DEF Typed, HoldsTyped, Compose, sweepVars, historyVars
<1>3. ASSUME NEW q \in Requests, ComposeRefused(q) PROVE HoldsTyped'
  BY <1>3, <1>0 DEF Typed, HoldsTyped, ComposeRefused, sweepVars, historyVars
<1>4. ASSUME NEW q \in Requests, ComposeFails(q) PROVE HoldsTyped'
  BY <1>4, <1>0 DEF Typed, HoldsTyped, ComposeFails, sweepVars, historyVars
<1>5. ASSUME NEW q \in Requests, Created(q) PROVE HoldsTyped'
  BY <1>5, <1>0 DEF Typed, HoldsTyped, Created, Row, historyVars
<1>6. ASSUME NEW q \in Requests, CreateFails(q) PROVE HoldsTyped'
  BY <1>6, <1>0 DEF Typed, HoldsTyped, CreateFails, sweepVars, historyVars
<1>7. ASSUME NEW q \in Requests, List(q) PROVE HoldsTyped'
  BY <1>7, <1>0 DEF Typed, HoldsTyped, List, historyVars
<1>8. ASSUME NEW q \in Requests, Swept(q) PROVE HoldsTyped'
  BY <1>8, <1>0 DEF Typed, HoldsTyped, Swept, Register
<1>9. ASSUME NEW q \in Requests, Resumed(q) PROVE HoldsTyped'
  BY <1>9, <1>0 DEF Typed, HoldsTyped, Resumed, Registers, Register, sweepVars
<1>10. ASSUME NEW q \in Requests, ResumeFails(q) PROVE HoldsTyped'
  BY <1>10, <1>0 DEF Typed, HoldsTyped, ResumeFails, sweepVars, historyVars
<1>11. ASSUME NEW q \in Requests, Lost(q) PROVE HoldsTyped'
  BY <1>11, <1>0 DEF Typed, HoldsTyped, Lost, sweepVars, historyVars
<1>12. ASSUME NEW q \in Requests, StopWaited(q) PROVE HoldsTyped'
  BY <1>12, <1>0, IdleTakes DEF Typed, HoldsTyped, StopWaited, sweepVars, historyVars, Awaited,
     Stopping
<1>13. ASSUME NEW q \in Requests, Stopped(q) PROVE HoldsTyped'
  BY <1>13, <1>0, CleanedTakes DEF Typed, HoldsTyped, Stopped, sweepVars, historyVars, Awaited,
     Stopping
<1>14. ASSUME NEW q \in Requests, Provision(q) PROVE HoldsTyped'
  BY <1>14, <1>0 DEF Typed, HoldsTyped, Provision, sweepVars, historyVars
<1>15. ASSUME NEW q \in Requests, EndRound(q) PROVE HoldsTyped'
  BY <1>15, <1>0 DEF Typed, HoldsTyped, EndRound, sweepVars, historyVars
<1>16. ASSUME NEW q \in Requests, NEW r \in Runs, Sweep(q, r) PROVE HoldsTyped'
  BY <1>16, <1>0 DEF Typed, HoldsTyped, Sweep, historyVars
<1>17. ASSUME NEW q \in Requests, NEW r \in Runs, PostRound(q, r) PROVE HoldsTyped'
  BY <1>17, <1>0 DEF Typed, HoldsTyped, PostRound, sweepVars, historyVars
<1>18. ASSUME NEW q \in Requests, NEW r \in Runs, Stop(q, r) PROVE HoldsTyped'
  BY <1>18, <1>0 DEF Typed, HoldsTyped, Stop, Row, Delisted, sweepVars, historyVars
<1>19. ASSUME Shutdown PROVE HoldsTyped'
  BY <1>19, <1>0 DEF Typed, HoldsTyped, Shutdown, sweepVars, historyVars
<1>20. ASSUME DisposeNext PROVE HoldsTyped'
  BY <1>20, <1>0 DEF Typed, HoldsTyped, DisposeNext, sweepVars, historyVars
<1>21. ASSUME ShutdownWaited PROVE HoldsTyped'
  BY <1>21, <1>0, IdleTakes DEF Typed, HoldsTyped, ShutdownWaited, sweepVars, historyVars, Awaited
<1>22. ASSUME ShutdownCleaned PROVE HoldsTyped'
  BY <1>22, <1>0, CleanedTakes DEF Typed, HoldsTyped, ShutdownCleaned, sweepVars, historyVars,
     Awaited
<1>23. ASSUME Close PROVE HoldsTyped'
  BY <1>23, <1>0 DEF Typed, HoldsTyped, Close, sweepVars, historyVars
<1>24. ASSUME Exit PROVE HoldsTyped'
  BY <1>24, <1>0 DEF Typed, HoldsTyped, Exit, sweepVars, historyVars
<1>25. ASSUME Crash PROVE HoldsTyped'
  BY <1>25, <1>0 DEF Typed, HoldsTyped, Crash
<1>26. ASSUME UNCHANGED vars PROVE HoldsTyped'
  BY <1>26, <1>0 DEF Typed, HoldsTyped, vars, sweepVars, historyVars
<1> QED
  BY <1>1, <1>2, <1>3, <1>4, <1>5, <1>6, <1>7, <1>8, <1>9, <1>10, <1>11, <1>12, <1>13, <1>14,
     <1>15, <1>16, <1>17, <1>18, <1>19, <1>20, <1>21, <1>22, <1>23, <1>24, <1>25, <1>26 DEF Next

LEMMA CarryingTypedStep == LifecycleInv /\ [Next]_vars => CarryingTyped'
<1> SUFFICES ASSUME LifecycleInv, [Next]_vars PROVE CarryingTyped'
  OBVIOUS
<1>0. Typed /\ Awaited
  BY AwaitedIsNamed DEF LifecycleInv
<1>1. ASSUME NEW q \in Requests, Create(q) PROVE CarryingTyped'
  BY <1>1, <1>0 DEF Typed, CarryingTyped, Create, sweepVars, historyVars
<1>2. ASSUME NEW q \in Requests, Compose(q) PROVE CarryingTyped'
  BY <1>2, <1>0 DEF Typed, CarryingTyped, Compose, sweepVars, historyVars
<1>3. ASSUME NEW q \in Requests, ComposeRefused(q) PROVE CarryingTyped'
  BY <1>3, <1>0 DEF Typed, CarryingTyped, ComposeRefused, sweepVars, historyVars
<1>4. ASSUME NEW q \in Requests, ComposeFails(q) PROVE CarryingTyped'
  BY <1>4, <1>0 DEF Typed, CarryingTyped, ComposeFails, sweepVars, historyVars
<1>5. ASSUME NEW q \in Requests, Created(q) PROVE CarryingTyped'
  BY <1>5, <1>0 DEF Typed, CarryingTyped, Created, Row, historyVars
<1>6. ASSUME NEW q \in Requests, CreateFails(q) PROVE CarryingTyped'
  BY <1>6, <1>0 DEF Typed, CarryingTyped, CreateFails, sweepVars, historyVars
<1>7. ASSUME NEW q \in Requests, List(q) PROVE CarryingTyped'
  BY <1>7, <1>0 DEF Typed, CarryingTyped, List, historyVars
<1>8. ASSUME NEW q \in Requests, Swept(q) PROVE CarryingTyped'
  BY <1>8, <1>0 DEF Typed, CarryingTyped, Swept, Register
<1>9. ASSUME NEW q \in Requests, Resumed(q) PROVE CarryingTyped'
  BY <1>9, <1>0 DEF Typed, CarryingTyped, Resumed, Registers, Register, sweepVars
<1>10. ASSUME NEW q \in Requests, ResumeFails(q) PROVE CarryingTyped'
  BY <1>10, <1>0 DEF Typed, CarryingTyped, ResumeFails, sweepVars, historyVars
<1>11. ASSUME NEW q \in Requests, Lost(q) PROVE CarryingTyped'
  BY <1>11, <1>0 DEF Typed, CarryingTyped, Lost, sweepVars, historyVars
<1>12. ASSUME NEW q \in Requests, StopWaited(q) PROVE CarryingTyped'
  BY <1>12, <1>0, IdleTakes DEF Stopping, StopWaited, Awaited
<1>13. ASSUME NEW q \in Requests, Stopped(q) PROVE CarryingTyped'
  BY <1>13, <1>0, CleanedTakes DEF Typed, CarryingTyped, Stopped, sweepVars, historyVars,
     Awaited, Stopping
<1>14. ASSUME NEW q \in Requests, Provision(q) PROVE CarryingTyped'
  BY <1>14, <1>0 DEF Typed, CarryingTyped, Provision, sweepVars, historyVars
<1>15. ASSUME NEW q \in Requests, EndRound(q) PROVE CarryingTyped'
  BY <1>15, <1>0, ClearedTakes DEF EndRound
<1>16. ASSUME NEW q \in Requests, NEW r \in Runs, Sweep(q, r) PROVE CarryingTyped'
  BY <1>16, <1>0 DEF Typed, CarryingTyped, Sweep, historyVars
<1>17. ASSUME NEW q \in Requests, NEW r \in Runs, PostRound(q, r) PROVE CarryingTyped'
  BY <1>17, <1>0 DEF Typed, CarryingTyped, PostRound, sweepVars, historyVars
<1>18. ASSUME NEW q \in Requests, NEW r \in Runs, Stop(q, r) PROVE CarryingTyped'
  BY <1>18, <1>0 DEF Typed, CarryingTyped, Stop, Row, Delisted, sweepVars, historyVars
<1>19. ASSUME Shutdown PROVE CarryingTyped'
  BY <1>19, <1>0 DEF Typed, CarryingTyped, Shutdown, sweepVars, historyVars
<1>20. ASSUME DisposeNext PROVE CarryingTyped'
  BY <1>20, <1>0 DEF Typed, CarryingTyped, DisposeNext, sweepVars, historyVars
<1>21. ASSUME ShutdownWaited PROVE CarryingTyped'
  BY <1>21, <1>0, IdleTakes DEF ShutdownWaited, Awaited
<1>22. ASSUME ShutdownCleaned PROVE CarryingTyped'
  BY <1>22, <1>0, CleanedTakes DEF Typed, CarryingTyped, ShutdownCleaned, sweepVars,
     historyVars, Awaited
<1>23. ASSUME Close PROVE CarryingTyped'
  BY <1>23, <1>0 DEF Typed, CarryingTyped, Close, sweepVars, historyVars
<1>24. ASSUME Exit PROVE CarryingTyped'
  BY <1>24, <1>0 DEF Typed, CarryingTyped, Exit, sweepVars, historyVars
<1>25. ASSUME Crash PROVE CarryingTyped'
  BY <1>25, <1>0 DEF Typed, CarryingTyped, Crash
<1>26. ASSUME UNCHANGED vars PROVE CarryingTyped'
  BY <1>26, <1>0 DEF Typed, CarryingTyped, vars, sweepVars, historyVars
<1> QED
  BY <1>1, <1>2, <1>3, <1>4, <1>5, <1>6, <1>7, <1>8, <1>9, <1>10, <1>11, <1>12, <1>13, <1>14,
     <1>15, <1>16, <1>17, <1>18, <1>19, <1>20, <1>21, <1>22, <1>23, <1>24, <1>25, <1>26 DEF Next

LEMMA SweepTypedStep == LifecycleInv /\ [Next]_vars => SweepTyped'
<1> SUFFICES ASSUME LifecycleInv, [Next]_vars PROVE SweepTyped'
  OBVIOUS
<1>0. Typed /\ Awaited
  BY AwaitedIsNamed DEF LifecycleInv
<1>1. ASSUME NEW q \in Requests, Create(q) PROVE SweepTyped'
  BY <1>1, <1>0 DEF Typed, SweepTyped, Create, sweepVars, historyVars
<1>2. ASSUME NEW q \in Requests, Compose(q) PROVE SweepTyped'
  BY <1>2, <1>0 DEF Typed, SweepTyped, Compose, sweepVars, historyVars
<1>3. ASSUME NEW q \in Requests, ComposeRefused(q) PROVE SweepTyped'
  BY <1>3, <1>0 DEF Typed, SweepTyped, ComposeRefused, sweepVars, historyVars
<1>4. ASSUME NEW q \in Requests, ComposeFails(q) PROVE SweepTyped'
  BY <1>4, <1>0 DEF Typed, SweepTyped, ComposeFails, sweepVars, historyVars
<1>5. ASSUME NEW q \in Requests, Created(q) PROVE SweepTyped'
  BY <1>5, <1>0, Names DEF Typed, SweepTyped, SetsTyped, RegistryTyped, Created, Live, Serving,
     Registered
<1>6. ASSUME NEW q \in Requests, CreateFails(q) PROVE SweepTyped'
  BY <1>6, <1>0 DEF Typed, SweepTyped, CreateFails, sweepVars, historyVars
<1>7. ASSUME NEW q \in Requests, List(q) PROVE SweepTyped'
  BY <1>7, <1>0 DEF Typed, SweepTyped, List, historyVars
<1>8. ASSUME NEW q \in Requests, Swept(q) PROVE SweepTyped'
  BY <1>8, <1>0 DEF Typed, SweepTyped, Swept, Register
<1>9. ASSUME NEW q \in Requests, Resumed(q) PROVE SweepTyped'
  BY <1>9, <1>0 DEF Typed, SweepTyped, Resumed, Registers, Register, sweepVars
<1>10. ASSUME NEW q \in Requests, ResumeFails(q) PROVE SweepTyped'
  BY <1>10, <1>0 DEF Typed, SweepTyped, ResumeFails, sweepVars, historyVars
<1>11. ASSUME NEW q \in Requests, Lost(q) PROVE SweepTyped'
  BY <1>11, <1>0 DEF Typed, SweepTyped, Lost, sweepVars, historyVars
<1>12. ASSUME NEW q \in Requests, StopWaited(q) PROVE SweepTyped'
  BY <1>12, <1>0 DEF Typed, SweepTyped, StopWaited, sweepVars, historyVars
<1>13. ASSUME NEW q \in Requests, Stopped(q) PROVE SweepTyped'
  BY <1>13, <1>0 DEF Typed, SweepTyped, Stopped, sweepVars, historyVars
<1>14. ASSUME NEW q \in Requests, Provision(q) PROVE SweepTyped'
  BY <1>14, <1>0 DEF Typed, SweepTyped, Provision, sweepVars, historyVars
<1>15. ASSUME NEW q \in Requests, EndRound(q) PROVE SweepTyped'
  BY <1>15, <1>0 DEF Typed, SweepTyped, EndRound, sweepVars, historyVars
<1>16. ASSUME NEW q \in Requests, NEW r \in Runs, Sweep(q, r) PROVE SweepTyped'
  BY <1>16, <1>0 DEF Typed, SweepTyped, Sweep, historyVars
<1>17. ASSUME NEW q \in Requests, NEW r \in Runs, PostRound(q, r) PROVE SweepTyped'
  BY <1>17, <1>0 DEF Typed, SweepTyped, PostRound, sweepVars, historyVars
<1>18. ASSUME NEW q \in Requests, NEW r \in Runs, Stop(q, r) PROVE SweepTyped'
  BY <1>18, <1>0 DEF Typed, SweepTyped, Stop, Row, Delisted, sweepVars, historyVars
<1>19. ASSUME Shutdown PROVE SweepTyped'
  BY <1>19, <1>0 DEF Typed, SweepTyped, Shutdown, sweepVars, historyVars
<1>20. ASSUME DisposeNext PROVE SweepTyped'
  BY <1>20, <1>0 DEF Typed, SweepTyped, DisposeNext, sweepVars, historyVars
<1>21. ASSUME ShutdownWaited PROVE SweepTyped'
  BY <1>21, <1>0 DEF Typed, SweepTyped, ShutdownWaited, sweepVars, historyVars
<1>22. ASSUME ShutdownCleaned PROVE SweepTyped'
  BY <1>22, <1>0 DEF Typed, SweepTyped, ShutdownCleaned, sweepVars, historyVars
<1>23. ASSUME Close PROVE SweepTyped'
  BY <1>23, <1>0 DEF Typed, SweepTyped, Close, sweepVars, historyVars
<1>24. ASSUME Exit PROVE SweepTyped'
  BY <1>24, <1>0 DEF Typed, SweepTyped, Exit, sweepVars, historyVars
<1>25. ASSUME Crash PROVE SweepTyped'
  BY <1>25, <1>0 DEF Typed, SweepTyped, Crash
<1>26. ASSUME UNCHANGED vars PROVE SweepTyped'
  BY <1>26, <1>0 DEF Typed, SweepTyped, vars, sweepVars, historyVars
<1> QED
  BY <1>1, <1>2, <1>3, <1>4, <1>5, <1>6, <1>7, <1>8, <1>9, <1>10, <1>11, <1>12, <1>13, <1>14,
     <1>15, <1>16, <1>17, <1>18, <1>19, <1>20, <1>21, <1>22, <1>23, <1>24, <1>25, <1>26 DEF Next

LEMMA ShutdownTypedStep == LifecycleInv /\ [Next]_vars => ShutdownTyped'
<1> SUFFICES ASSUME LifecycleInv, [Next]_vars PROVE ShutdownTyped'
  OBVIOUS
<1>0. Typed /\ Awaited
  BY AwaitedIsNamed DEF LifecycleInv
<1>1. ASSUME NEW q \in Requests, Create(q) PROVE ShutdownTyped'
  BY <1>1, <1>0 DEF Typed, ShutdownTyped, Create, sweepVars, historyVars
<1>2. ASSUME NEW q \in Requests, Compose(q) PROVE ShutdownTyped'
  BY <1>2, <1>0 DEF Typed, ShutdownTyped, Compose, sweepVars, historyVars
<1>3. ASSUME NEW q \in Requests, ComposeRefused(q) PROVE ShutdownTyped'
  BY <1>3, <1>0 DEF Typed, ShutdownTyped, ComposeRefused, sweepVars, historyVars
<1>4. ASSUME NEW q \in Requests, ComposeFails(q) PROVE ShutdownTyped'
  BY <1>4, <1>0 DEF Typed, ShutdownTyped, ComposeFails, sweepVars, historyVars
<1>5. ASSUME NEW q \in Requests, Created(q) PROVE ShutdownTyped'
  BY <1>5, <1>0 DEF Typed, ShutdownTyped, Created, Row, historyVars
<1>6. ASSUME NEW q \in Requests, CreateFails(q) PROVE ShutdownTyped'
  BY <1>6, <1>0 DEF Typed, ShutdownTyped, CreateFails, sweepVars, historyVars
<1>7. ASSUME NEW q \in Requests, List(q) PROVE ShutdownTyped'
  BY <1>7, <1>0 DEF Typed, ShutdownTyped, List, historyVars
<1>8. ASSUME NEW q \in Requests, Swept(q) PROVE ShutdownTyped'
  BY <1>8, <1>0 DEF Typed, ShutdownTyped, Swept, Register
<1>9. ASSUME NEW q \in Requests, Resumed(q) PROVE ShutdownTyped'
  BY <1>9, <1>0 DEF Typed, ShutdownTyped, Resumed, Registers, Register, sweepVars
<1>10. ASSUME NEW q \in Requests, ResumeFails(q) PROVE ShutdownTyped'
  BY <1>10, <1>0 DEF Typed, ShutdownTyped, ResumeFails, sweepVars, historyVars
<1>11. ASSUME NEW q \in Requests, Lost(q) PROVE ShutdownTyped'
  BY <1>11, <1>0 DEF Typed, ShutdownTyped, Lost, sweepVars, historyVars
<1>12. ASSUME NEW q \in Requests, StopWaited(q) PROVE ShutdownTyped'
  BY <1>12, <1>0 DEF Typed, ShutdownTyped, StopWaited, sweepVars, historyVars
<1>13. ASSUME NEW q \in Requests, Stopped(q) PROVE ShutdownTyped'
  BY <1>13, <1>0 DEF Typed, ShutdownTyped, Stopped, sweepVars, historyVars
<1>14. ASSUME NEW q \in Requests, Provision(q) PROVE ShutdownTyped'
  BY <1>14, <1>0 DEF Typed, ShutdownTyped, Provision, sweepVars, historyVars
<1>15. ASSUME NEW q \in Requests, EndRound(q) PROVE ShutdownTyped'
  BY <1>15, <1>0 DEF Typed, ShutdownTyped, EndRound, sweepVars, historyVars
<1>16. ASSUME NEW q \in Requests, NEW r \in Runs, Sweep(q, r) PROVE ShutdownTyped'
  BY <1>16, <1>0 DEF Typed, ShutdownTyped, Sweep, historyVars
<1>17. ASSUME NEW q \in Requests, NEW r \in Runs, PostRound(q, r) PROVE ShutdownTyped'
  BY <1>17, <1>0 DEF Typed, ShutdownTyped, PostRound, sweepVars, historyVars
<1>18. ASSUME NEW q \in Requests, NEW r \in Runs, Stop(q, r) PROVE ShutdownTyped'
  BY <1>18, <1>0 DEF Typed, ShutdownTyped, Stop, Row, Delisted, sweepVars, historyVars
<1>19. ASSUME Shutdown PROVE ShutdownTyped'
  <2>1. Serving \subseteq Requests
    BY <1>0, Names DEF Typed, RegistryTyped, Serving, Registered
  <2> QED
    BY <1>19, <2>1 DEF ShutdownTyped, ShutdownType, Shutdown
<1>20. ASSUME DisposeNext PROVE ShutdownTyped'
  BY <1>20, <1>0, Names DEF Typed, ShutdownTyped, ShutdownType, RegistryTyped, DisposeNext,
     sweepVars, historyVars
<1>21. ASSUME ShutdownWaited PROVE ShutdownTyped'
  BY <1>21, <1>0, Names DEF Typed, ShutdownTyped, Awaited, Stopping, ShutdownType,
     RegistryTyped, ShutdownWaited, sweepVars, historyVars
<1>22. ASSUME ShutdownCleaned PROVE ShutdownTyped'
  BY <1>22, <1>0, Names DEF Typed, ShutdownTyped, Awaited, Stopping, ShutdownType,
     RegistryTyped, ShutdownCleaned, sweepVars, historyVars
<1>23. ASSUME Close PROVE ShutdownTyped'
  BY <1>23, <1>0, Names DEF Typed, ShutdownTyped, ShutdownType, RegistryTyped, Close, sweepVars,
     historyVars
<1>24. ASSUME Exit PROVE ShutdownTyped'
  BY <1>24, <1>0, Names DEF Typed, ShutdownTyped, ShutdownType, RegistryTyped, Exit, sweepVars,
     historyVars
<1>25. ASSUME Crash PROVE ShutdownTyped'
  BY <1>25, <1>0, Names DEF Typed, ShutdownTyped, ShutdownType, RegistryTyped, Crash
<1>26. ASSUME UNCHANGED vars PROVE ShutdownTyped'
  BY <1>26, <1>0 DEF Typed, ShutdownTyped, vars, sweepVars, historyVars
<1> QED
  BY <1>1, <1>2, <1>3, <1>4, <1>5, <1>6, <1>7, <1>8, <1>9, <1>10, <1>11, <1>12, <1>13, <1>14,
     <1>15, <1>16, <1>17, <1>18, <1>19, <1>20, <1>21, <1>22, <1>23, <1>24, <1>25, <1>26 DEF Next

LEMMA SetsTypedStep == LifecycleInv /\ [Next]_vars => SetsTyped'
<1> SUFFICES ASSUME LifecycleInv, [Next]_vars PROVE SetsTyped'
  OBVIOUS
<1>0. Typed /\ Awaited
  BY AwaitedIsNamed DEF LifecycleInv
<1>1. ASSUME NEW q \in Requests, Create(q) PROVE SetsTyped'
  BY <1>1, <1>0 DEF Typed, SetsTyped, Create, sweepVars, historyVars
<1>2. ASSUME NEW q \in Requests, Compose(q) PROVE SetsTyped'
  BY <1>2, <1>0 DEF Typed, SetsTyped, Compose, sweepVars, historyVars
<1>3. ASSUME NEW q \in Requests, ComposeRefused(q) PROVE SetsTyped'
  BY <1>3, <1>0 DEF Typed, SetsTyped, ComposeRefused, sweepVars, historyVars
<1>4. ASSUME NEW q \in Requests, ComposeFails(q) PROVE SetsTyped'
  BY <1>4, <1>0 DEF Typed, SetsTyped, ComposeFails, sweepVars, historyVars
<1>5. ASSUME NEW q \in Requests, Created(q) PROVE SetsTyped'
  BY <1>5, <1>0 DEF Typed, SetsTyped, Created, Row, historyVars
<1>6. ASSUME NEW q \in Requests, CreateFails(q) PROVE SetsTyped'
  BY <1>6, <1>0 DEF Typed, SetsTyped, CreateFails, sweepVars, historyVars
<1>7. ASSUME NEW q \in Requests, List(q) PROVE SetsTyped'
  BY <1>7, <1>0 DEF Typed, SetsTyped, List, historyVars
<1>8. ASSUME NEW q \in Requests, Swept(q) PROVE SetsTyped'
  <2>1. registry[request[q].run] \in Requests \cup {Nobody} \/ request[q].run \notin Runs
    BY <1>0 DEF Typed, RegistryTyped
  <2>2. request[q].run \in Runs
    BY <1>8 DEF LifecycleInv, StagesInv, Swept, Sweeping
  <2> QED
    BY <1>8, <1>0, <2>1, <2>2 DEF Typed, SetsTyped, Swept, Register
<1>9. ASSUME NEW q \in Requests, Resumed(q) PROVE SetsTyped'
  BY <1>9, <1>0, StartsAtMost DEF Typed, SetsTyped, Resumed, Registers, Register, sweepVars
<1>10. ASSUME NEW q \in Requests, ResumeFails(q) PROVE SetsTyped'
  BY <1>10, <1>0 DEF Typed, SetsTyped, ResumeFails, sweepVars, historyVars
<1>11. ASSUME NEW q \in Requests, Lost(q) PROVE SetsTyped'
  BY <1>11, <1>0, StartsAtMost DEF Typed, SetsTyped, Lost, sweepVars, historyVars, Awaited
<1>12. ASSUME NEW q \in Requests, StopWaited(q) PROVE SetsTyped'
  BY <1>12, <1>0 DEF Typed, SetsTyped, StopWaited, sweepVars, historyVars
<1>13. ASSUME NEW q \in Requests, Stopped(q) PROVE SetsTyped'
  BY <1>13, <1>0 DEF Typed, SetsTyped, Stopped, sweepVars, historyVars
<1>14. ASSUME NEW q \in Requests, Provision(q) PROVE SetsTyped'
  BY <1>14, <1>0 DEF Typed, SetsTyped, Provision, sweepVars, historyVars
<1>15. ASSUME NEW q \in Requests, EndRound(q) PROVE SetsTyped'
  BY <1>15, <1>0 DEF Typed, SetsTyped, EndRound, sweepVars, historyVars
<1>16. ASSUME NEW q \in Requests, NEW r \in Runs, Sweep(q, r) PROVE SetsTyped'
  BY <1>16, <1>0 DEF Typed, SetsTyped, Sweep, historyVars
<1>17. ASSUME NEW q \in Requests, NEW r \in Runs, PostRound(q, r) PROVE SetsTyped'
  BY <1>17, <1>0, StartsAtMost, Names DEF Typed, SetsTyped, RequestTyped, RequestType,
     RegistryTyped, PostRound, sweepVars, historyVars
<1>18. ASSUME NEW q \in Requests, NEW r \in Runs, Stop(q, r) PROVE SetsTyped'
  BY <1>18, <1>0, Names DEF Typed, SetsTyped, RegistryTyped, RequestTyped, RequestType, Stop,
     Row, Delisted, sweepVars, historyVars
<1>19. ASSUME Shutdown PROVE SetsTyped'
  BY <1>19, <1>0 DEF Typed, SetsTyped, Shutdown, sweepVars, historyVars
<1>20. ASSUME DisposeNext PROVE SetsTyped'
  BY <1>20, <1>0, Names DEF Typed, SetsTyped, RegistryTyped, RequestTyped, RequestType,
     ShutdownTyped, ShutdownType, DisposeNext, sweepVars, historyVars
<1>21. ASSUME ShutdownWaited PROVE SetsTyped'
  BY <1>21, <1>0 DEF Typed, SetsTyped, ShutdownWaited, sweepVars, historyVars
<1>22. ASSUME ShutdownCleaned PROVE SetsTyped'
  BY <1>22, <1>0 DEF Typed, SetsTyped, ShutdownCleaned, sweepVars, historyVars
<1>23. ASSUME Close PROVE SetsTyped'
  BY <1>23, <1>0 DEF Typed, SetsTyped, Close, sweepVars, historyVars
<1>24. ASSUME Exit PROVE SetsTyped'
  BY <1>24, <1>0 DEF Typed, SetsTyped, Exit, sweepVars, historyVars
<1>25. ASSUME Crash PROVE SetsTyped'
  BY <1>25, <1>0, Names, LifecycleAssumption DEF Typed, SetsTyped, RegistryTyped, RequestTyped,
     RequestType, Crash, sweepVars, historyVars
<1>26. ASSUME UNCHANGED vars PROVE SetsTyped'
  BY <1>26, <1>0 DEF Typed, SetsTyped, vars, sweepVars, historyVars
<1> QED
  BY <1>1, <1>2, <1>3, <1>4, <1>5, <1>6, <1>7, <1>8, <1>9, <1>10, <1>11, <1>12, <1>13, <1>14,
     <1>15, <1>16, <1>17, <1>18, <1>19, <1>20, <1>21, <1>22, <1>23, <1>24, <1>25, <1>26 DEF Next

LEMMA RunsTypedStep == LifecycleInv /\ [Next]_vars => RunsTyped'
<1> SUFFICES ASSUME LifecycleInv, [Next]_vars PROVE RunsTyped'
  OBVIOUS
<1>0. Typed /\ Awaited /\ \A r \in Runs : registry[r] # Nobody => request[registry[r]].at = "done"
  BY AwaitedIsNamed DEF LifecycleInv, ServiceInv, HandedOut
<1>1. ASSUME NEW q \in Requests, Create(q) PROVE RunsTyped'
  BY <1>1, <1>0, GoesKeeps, NextIsUnused, Names DEF Typed, RunsTyped, RegistryTyped,
     RequestTyped, RequestType, Ats, Composing, Sweeping, Undoing, Stopping, Create, sweepVars,
     historyVars
<1>2. ASSUME NEW q \in Requests, Compose(q) PROVE RunsTyped'
  BY <1>2, <1>0, GoesKeeps, Names DEF Typed, RunsTyped, RegistryTyped, RequestTyped,
     RequestType, Ats, Composing, Sweeping, Undoing, Stopping, Compose, sweepVars, historyVars
<1>3. ASSUME NEW q \in Requests, ComposeRefused(q) PROVE RunsTyped'
  BY <1>3, <1>0, EndsKeeps, Names DEF Typed, RunsTyped, RegistryTyped, RequestTyped,
     RequestType, Ats, Composing, Sweeping, Undoing, Stopping, ComposeRefused, sweepVars,
     historyVars
<1>4. ASSUME NEW q \in Requests, ComposeFails(q) PROVE RunsTyped'
  BY <1>4, <1>0, EndsKeeps, Names DEF Typed, RunsTyped, RegistryTyped, RequestTyped,
     RequestType, Ats, Composing, Sweeping, Undoing, Stopping, ComposeFails, sweepVars,
     historyVars
<1>5. ASSUME NEW q \in Requests, Created(q) PROVE RunsTyped'
  BY <1>5, <1>0, Names DEF Typed, RunsTyped, RegistryTyped, RequestTyped, RequestType, Ats,
     Composing, Sweeping, Undoing, Stopping, Created, Row, historyVars
<1>6. ASSUME NEW q \in Requests, CreateFails(q) PROVE RunsTyped'
  BY <1>6, <1>0, GoesKeeps, Names DEF Typed, RunsTyped, RegistryTyped, RequestTyped,
     RequestType, Ats, Composing, Sweeping, Undoing, Stopping, CreateFails, sweepVars,
     historyVars
<1>7. ASSUME NEW q \in Requests, List(q) PROVE RunsTyped'
  BY <1>7, <1>0, GoesKeeps, Names DEF Typed, RunsTyped, RegistryTyped, RequestTyped,
     RequestType, Ats, Composing, Sweeping, Undoing, Stopping, List, historyVars
<1>8. ASSUME NEW q \in Requests, Swept(q) PROVE RunsTyped'
  BY <1>8, <1>0, GoesKeeps, Names DEF Typed, RunsTyped, RegistryTyped, RequestTyped,
     RequestType, Ats, Composing, Sweeping, Undoing, Stopping, Swept, Register, sweepVars
<1>9. ASSUME NEW q \in Requests, Resumed(q) PROVE RunsTyped'
  BY <1>9, <1>0, GoesKeeps, Names DEF Typed, RunsTyped, RegistryTyped, RequestTyped,
     RequestType, Ats, Composing, Sweeping, Undoing, Stopping, Resumed, Registers, Register,
     sweepVars
<1>10. ASSUME NEW q \in Requests, ResumeFails(q) PROVE RunsTyped'
  BY <1>10, <1>0, GoesKeeps, Names DEF Typed, RunsTyped, RegistryTyped, RequestTyped,
     RequestType, Ats, Composing, Sweeping, Undoing, Stopping, ResumeFails, sweepVars,
     historyVars
<1>11. ASSUME NEW q \in Requests, Lost(q) PROVE RunsTyped'
  BY <1>11, <1>0, EndsKeeps, Names DEF Typed, RunsTyped, Awaited, Stopping, RegistryTyped,
     RequestTyped, RequestType, Ats, Composing, Sweeping, Undoing, Lost, sweepVars, historyVars
<1>12. ASSUME NEW q \in Requests, StopWaited(q) PROVE RunsTyped'
  BY <1>12, <1>0, GoesKeeps, Names DEF Typed, RunsTyped, Awaited, Stopping, RegistryTyped,
     RequestTyped, RequestType, Ats, Composing, Sweeping, Undoing, StopWaited, sweepVars,
     historyVars
<1>13. ASSUME NEW q \in Requests, Stopped(q) PROVE RunsTyped'
  BY <1>13, <1>0, EndsKeeps, Names DEF Typed, RunsTyped, Awaited, Stopping, RegistryTyped,
     RequestTyped, RequestType, Ats, Composing, Sweeping, Undoing, Stopped, sweepVars,
     historyVars
<1>14. ASSUME NEW q \in Requests, Provision(q) PROVE RunsTyped'
  BY <1>14, <1>0 DEF Typed, RunsTyped, Provision, sweepVars, historyVars
<1>15. ASSUME NEW q \in Requests, EndRound(q) PROVE RunsTyped'
  BY <1>15, <1>0 DEF Typed, RunsTyped, EndRound, sweepVars, historyVars
<1>16. ASSUME NEW q \in Requests, NEW r \in Runs, Sweep(q, r) PROVE RunsTyped'
  BY <1>16, <1>0 DEF Typed, RunsTyped, Sweep, historyVars
<1>17. ASSUME NEW q \in Requests, NEW r \in Runs, PostRound(q, r) PROVE RunsTyped'
  BY <1>17, <1>0, GoesKeeps, NextIsUnused, Names DEF Typed, RunsTyped, RegistryTyped,
     RequestTyped, RequestType, Ats, Composing, Sweeping, Undoing, Stopping, PostRound,
     sweepVars, historyVars
<1>18. ASSUME NEW q \in Requests, NEW r \in Runs, Stop(q, r) PROVE RunsTyped'
  BY <1>18, <1>0, NextIsUnused, Names
     DEF Typed, RunsTyped, RegistryTyped, RequestTyped, RequestType, Stop,
         Delisted, LifecycleInv, ServiceInv, HandedOut
<1>19. ASSUME Shutdown PROVE RunsTyped'
  BY <1>19, <1>0 DEF Typed, RunsTyped, Shutdown, sweepVars, historyVars
<1>20. ASSUME DisposeNext PROVE RunsTyped'
  BY <1>20, <1>0 DEF Typed, RunsTyped, DisposeNext, sweepVars, historyVars
<1>21. ASSUME ShutdownWaited PROVE RunsTyped'
  BY <1>21, <1>0 DEF Typed, RunsTyped, ShutdownWaited, sweepVars, historyVars
<1>22. ASSUME ShutdownCleaned PROVE RunsTyped'
  BY <1>22, <1>0 DEF Typed, RunsTyped, ShutdownCleaned, sweepVars, historyVars
<1>23. ASSUME Close PROVE RunsTyped'
  BY <1>23, <1>0 DEF Typed, RunsTyped, Close, sweepVars, historyVars
<1>24. ASSUME Exit PROVE RunsTyped'
  BY <1>24, <1>0 DEF Typed, RunsTyped, Exit, sweepVars, historyVars
<1>25. ASSUME Crash PROVE RunsTyped'
  BY <1>25, <1>0 DEF Typed, RunsTyped, Crash
<1>26. ASSUME UNCHANGED vars PROVE RunsTyped'
  BY <1>26, <1>0 DEF Typed, RunsTyped, vars, sweepVars, historyVars
<1> QED
  BY <1>1, <1>2, <1>3, <1>4, <1>5, <1>6, <1>7, <1>8, <1>9, <1>10, <1>11, <1>12, <1>13, <1>14,
     <1>15, <1>16, <1>17, <1>18, <1>19, <1>20, <1>21, <1>22, <1>23, <1>24, <1>25, <1>26 DEF Next

LEMMA TypedStep == LifecycleInv /\ [Next]_vars => Typed'
  BY RowsTypedStep, RegistryTypedStep, RequestTypedStep, HoldsTypedStep, CarryingTypedStep,
     SweepTypedStep, ShutdownTypedStep, SetsTypedStep, RunsTypedStep DEF Typed

LEMMA StagesInvStep == LifecycleInv /\ [Next]_vars => StagesInv'
<1> SUFFICES ASSUME LifecycleInv, [Next]_vars PROVE StagesInv'
  OBVIOUS
<1>0. Typed /\ StagesInv /\ StopsInv /\ ShutdownInv /\ LosersInv /\ Awaited
  BY AwaitedIsNamed DEF LifecycleInv
<1>1. ASSUME NEW q \in Requests, Create(q) PROVE StagesInv'
  BY <1>1, <1>0, GoesKeeps, NextIsUnused DEF StagesInv, HandedOut, Composing, Sweeping, Undoing,
     Stopping, Create, sweepVars, historyVars
<1>2. ASSUME NEW q \in Requests, Compose(q) PROVE StagesInv'
  BY <1>2, <1>0, GoesKeeps, ComposeGains DEF StagesInv, HandedOut, Composing, Sweeping, Undoing,
     Stopping, sweepVars, historyVars
<1>3. ASSUME NEW q \in Requests, ComposeRefused(q) PROVE StagesInv'
  BY <1>3, <1>0, EndsKeeps, Names DEF StagesInv, HandedOut, Composing, Sweeping, Undoing,
     Stopping,
     ComposeRefused, sweepVars, historyVars
<1>4. ASSUME NEW q \in Requests, ComposeFails(q) PROVE StagesInv'
  BY <1>4, <1>0, EndsKeeps, Names DEF StagesInv, HandedOut, Composing, Sweeping, Undoing,
     Stopping,
     ComposeFails, sweepVars, historyVars
<1>5. ASSUME NEW q \in Requests, Created(q) PROVE StagesInv'
  BY <1>5, <1>0, Names DEF Typed, RequestTyped, RequestType, RegistryTyped, StagesInv, StopsInv,
     ShutdownInv, HandedOut, Composing, Sweeping, Undoing, Stopping, Created, Row, historyVars
<1>6. ASSUME NEW q \in Requests, CreateFails(q) PROVE StagesInv'
  BY <1>6, <1>0, GoesKeeps DEF StagesInv, HandedOut, Composing, Sweeping, Undoing, Stopping,
     CreateFails, sweepVars, historyVars
<1>7. ASSUME NEW q \in Requests, List(q) PROVE StagesInv'
  BY <1>7, <1>0, GoesKeeps DEF StagesInv, HandedOut, Composing, Sweeping, Undoing, Stopping,
     List, historyVars
<1>8. ASSUME NEW q \in Requests, Swept(q) PROVE StagesInv'
  BY <1>8, <1>0, GoesKeeps DEF StagesInv, HandedOut, Composing, Sweeping, Undoing, Stopping,
     Swept, Register
<1>9. ASSUME NEW q \in Requests, Resumed(q) PROVE StagesInv'
  BY <1>9, <1>0, GoesKeeps, StartsAtMost, Names DEF Typed, RequestTyped, RequestType,
     RegistryTyped, StagesInv, StopsInv, ShutdownInv, HandedOut, Composing, Sweeping, Undoing,
     Stopping, Resumed, Registers, Register, sweepVars
<1>10. ASSUME NEW q \in Requests, ResumeFails(q) PROVE StagesInv'
  BY <1>10, <1>0, GoesKeeps DEF StagesInv, HandedOut, Composing, Sweeping, Undoing, Stopping,
     ResumeFails, sweepVars, historyVars
<1>11. ASSUME NEW q \in Requests, Lost(q) PROVE StagesInv'
  BY <1>11, <1>0, EndsKeeps, StartsAtMost, Names DEF StagesInv, HandedOut, Composing, Sweeping,
     Undoing, Stopping, Lost, sweepVars, historyVars, Awaited
<1>12. ASSUME NEW q \in Requests, StopWaited(q) PROVE StagesInv'
  BY <1>12, <1>0, GoesKeeps, IdleTakes DEF StagesInv, HandedOut, Composing, Sweeping, Undoing,
     Stopping, StopWaited, sweepVars, historyVars, Awaited
<1>13. ASSUME NEW q \in Requests, Stopped(q) PROVE StagesInv'
  BY <1>13, <1>0, EndsKeeps, CleanedTakes, Names DEF Typed, RequestTyped, RequestType,
     RegistryTyped, Awaited, StagesInv, StopsInv, ShutdownInv, HandedOut, Composing, Sweeping,
     Undoing, Stopping, Stopped, sweepVars, historyVars
<1>14. ASSUME NEW q \in Requests, Provision(q) PROVE StagesInv'
  BY <1>14, <1>0 DEF StagesInv, HandedOut, Composing, Sweeping, Undoing, Stopping, Provision,
     sweepVars, historyVars
<1>15. ASSUME NEW q \in Requests, EndRound(q) PROVE StagesInv'
  BY <1>15, <1>0 DEF StagesInv, HandedOut, Composing, Sweeping, Undoing, Stopping, EndRound,
     sweepVars, historyVars
<1>16. ASSUME NEW q \in Requests, NEW r \in Runs, Sweep(q, r) PROVE StagesInv'
  BY <1>16, <1>0 DEF StagesInv, HandedOut, Composing, Sweeping, Undoing, Stopping, Sweep,
     historyVars
<1>17. ASSUME NEW q \in Requests, NEW r \in Runs, PostRound(q, r) PROVE StagesInv'
  BY <1>17, <1>0, GoesKeeps, StartsAtMost, NextIsUnused, Names DEF Typed, RequestTyped,
     RequestType, RegistryTyped, StagesInv, StopsInv, ShutdownInv, HandedOut, Composing,
     Sweeping, Undoing, Stopping, PostRound, sweepVars, historyVars
<1>18. ASSUME NEW q \in Requests, NEW r \in Runs, Stop(q, r) PROVE StagesInv'
  BY <1>18, <1>0, NextIsUnused DEF StagesInv, HandedOut, Composing, Sweeping, Undoing, Stopping,
     Stop, Row, Delisted, sweepVars, historyVars
<1>19. ASSUME Shutdown PROVE StagesInv'
  BY <1>19, <1>0 DEF StagesInv, HandedOut, Composing, Sweeping, Undoing, Stopping, Shutdown,
     Registered, sweepVars, historyVars
<1>20. ASSUME DisposeNext PROVE StagesInv'
  BY <1>20, <1>0 DEF StagesInv, HandedOut, Composing, Sweeping, Undoing, Stopping, DisposeNext,
     sweepVars, historyVars
<1>21. ASSUME ShutdownWaited PROVE StagesInv'
  BY <1>21, <1>0, IdleTakes DEF StagesInv, HandedOut, Composing, Sweeping, Undoing, Stopping,
     ShutdownWaited, sweepVars, historyVars, Awaited
<1>22. ASSUME ShutdownCleaned PROVE StagesInv'
  BY <1>22, <1>0, CleanedTakes, Names DEF Typed, RequestTyped, RequestType, RegistryTyped,
     ShutdownType, Awaited, StagesInv, StopsInv, ShutdownInv, HandedOut, Composing, Sweeping,
     Undoing, Stopping, ShutdownCleaned, sweepVars, historyVars
<1>23. ASSUME Close PROVE StagesInv'
  BY <1>23, <1>0 DEF StagesInv, HandedOut, Composing, Sweeping, Undoing, Stopping, Close,
     sweepVars, historyVars
<1>24. ASSUME Exit PROVE StagesInv'
  BY <1>24, <1>0 DEF StagesInv, HandedOut, Composing, Sweeping, Undoing, Stopping, Exit,
     sweepVars, historyVars
<1>25. ASSUME Crash PROVE StagesInv'
  BY <1>25, <1>0, Names DEF Typed, RequestTyped, RequestType, RegistryTyped, StagesInv,
     StopsInv, ShutdownInv, HandedOut, Composing, Sweeping, Undoing, Stopping, Crash, Ended
<1>26. ASSUME UNCHANGED vars PROVE StagesInv'
  BY <1>26, <1>0 DEF StagesInv, HandedOut, Composing, Sweeping, Undoing, Stopping, vars,
     sweepVars, historyVars
<1> QED
  BY <1>1, <1>2, <1>3, <1>4, <1>5, <1>6, <1>7, <1>8, <1>9, <1>10, <1>11, <1>12, <1>13, <1>14,
     <1>15, <1>16, <1>17, <1>18, <1>19, <1>20, <1>21, <1>22, <1>23, <1>24, <1>25, <1>26 DEF Next

LEMMA ServiceInvStep == LifecycleInv /\ [Next]_vars => ServiceInv'
<1> SUFFICES ASSUME LifecycleInv, [Next]_vars PROVE ServiceInv'
  OBVIOUS
<1>0. Typed /\ StagesInv /\ ServiceInv /\ StopsInv /\ ShutdownInv /\ Awaited
  BY AwaitedIsNamed DEF LifecycleInv
<1>1. ASSUME NEW q \in Requests, Create(q) PROVE ServiceInv'
  BY <1>1, <1>0, GoesKeeps, NextIsUnused, Names DEF Typed, RequestTyped, RequestType,
     RegistryTyped, ServiceInv, StagesInv, StopsInv, ShutdownInv, HandedOut, Create, sweepVars,
     historyVars
<1>2. ASSUME NEW q \in Requests, Compose(q) PROVE ServiceInv'
  BY <1>2, <1>0, GoesKeeps, ComposeGains, Names DEF Typed, RequestTyped, RequestType,
     RegistryTyped, ServiceInv, StagesInv, StopsInv, ShutdownInv, HandedOut, sweepVars,
     historyVars
<1>3. ASSUME NEW q \in Requests, ComposeRefused(q) PROVE ServiceInv'
  BY <1>3, <1>0, EndsKeeps, Names DEF Typed, RequestTyped, RequestType, RegistryTyped,
     ServiceInv, StagesInv, StopsInv, ShutdownInv, HandedOut, ComposeRefused, sweepVars,
     historyVars
<1>4. ASSUME NEW q \in Requests, ComposeFails(q) PROVE ServiceInv'
  BY <1>4, <1>0, EndsKeeps, Names DEF Typed, RegistryTyped, RequestTyped, SetsTyped, RunsTyped,
     HoldsTyped, RowsTyped, CarryingTyped, ShutdownTyped, ServiceInv, StagesInv, StopsInv,
     ShutdownInv, HandedOut, Composing, Sweeping, Undoing, Stopping, ComposeFails, sweepVars,
     historyVars
<1>5. ASSUME NEW q \in Requests, Created(q) PROVE ServiceInv'
  BY <1>5, <1>0, Names DEF Typed, RequestTyped, RequestType, RegistryTyped, ServiceInv,
     StagesInv, StopsInv, ShutdownInv, HandedOut, Created, Row, historyVars
<1>6. ASSUME NEW q \in Requests, CreateFails(q) PROVE ServiceInv'
  BY <1>6, <1>0, GoesKeeps, Names DEF Typed, RequestTyped, RequestType, RegistryTyped,
     ServiceInv, StagesInv, StopsInv, ShutdownInv, HandedOut, CreateFails, sweepVars, historyVars
<1>7. ASSUME NEW q \in Requests, List(q) PROVE ServiceInv'
  BY <1>7, <1>0, GoesKeeps, Names DEF Typed, RequestTyped, RequestType, RegistryTyped,
     ServiceInv, StagesInv, StopsInv, ShutdownInv, HandedOut, List, historyVars
<1>8. ASSUME NEW q \in Requests, Swept(q) PROVE ServiceInv'
  BY <1>8, <1>0, GoesKeeps, Names DEF Typed, RegistryTyped, RequestTyped, SetsTyped, RunsTyped,
     HoldsTyped, RowsTyped, CarryingTyped, ShutdownTyped, RequestType, ServiceInv, StagesInv,
     StopsInv, ShutdownInv, HandedOut, Composing, Sweeping, Undoing, Stopping, Swept, Register,
     sweepVars, historyVars
<1>9. ASSUME NEW q \in Requests, Resumed(q) PROVE ServiceInv'
  BY <1>9, <1>0, GoesKeeps, StartsAtMost, Names DEF Typed, RequestTyped, RequestType,
     RegistryTyped, ServiceInv, StagesInv, StopsInv, ShutdownInv, HandedOut, Resumed, Registers,
     Register, sweepVars
<1>10. ASSUME NEW q \in Requests, ResumeFails(q) PROVE ServiceInv'
  BY <1>10, <1>0, GoesKeeps, Names DEF Typed, RequestTyped, RequestType, RegistryTyped,
     ServiceInv, StagesInv, StopsInv, ShutdownInv, HandedOut, ResumeFails, sweepVars, historyVars
<1>11. ASSUME NEW q \in Requests, Lost(q) PROVE ServiceInv'
  BY <1>11, <1>0, EndsKeeps, StartsAtMost, Names DEF Typed, RequestTyped, RequestType,
     RegistryTyped, Awaited, ServiceInv, StagesInv, StopsInv, ShutdownInv, HandedOut, Composing,
     Sweeping, Undoing, Stopping, Lost, sweepVars, historyVars
<1>12. ASSUME NEW q \in Requests, StopWaited(q) PROVE ServiceInv'
  BY <1>12, <1>0, GoesKeeps, IdleTakes, Names DEF Typed, RequestTyped, RequestType,
     RegistryTyped, Awaited, ServiceInv, StagesInv, StopsInv, ShutdownInv, HandedOut, Composing,
     Sweeping, Undoing, Stopping, StopWaited, sweepVars, historyVars
<1>13. ASSUME NEW q \in Requests, Stopped(q) PROVE ServiceInv'
  BY <1>13, <1>0, EndsKeeps, CleanedTakes, Names DEF Typed, RequestTyped, RequestType,
     RegistryTyped, Awaited, ServiceInv, StagesInv, StopsInv, ShutdownInv, HandedOut, Composing,
     Sweeping, Undoing, Stopping, Stopped, sweepVars, historyVars
<1>14. ASSUME NEW q \in Requests, Provision(q) PROVE ServiceInv'
  BY <1>14, <1>0 DEF ServiceInv, HandedOut, Provision, sweepVars, historyVars
<1>15. ASSUME NEW q \in Requests, EndRound(q) PROVE ServiceInv'
  BY <1>15, <1>0 DEF ServiceInv, HandedOut, EndRound, sweepVars, historyVars
<1>16. ASSUME NEW q \in Requests, NEW r \in Runs, Sweep(q, r) PROVE ServiceInv'
  BY <1>16, <1>0 DEF ServiceInv, HandedOut, Sweep, historyVars
<1>17. ASSUME NEW q \in Requests, NEW r \in Runs, PostRound(q, r) PROVE ServiceInv'
  BY <1>17, <1>0, GoesKeeps, StartsAtMost, NextIsUnused, Names DEF Typed, RequestTyped,
     RequestType, RegistryTyped, ServiceInv, StagesInv, StopsInv, ShutdownInv, HandedOut,
     PostRound, sweepVars, historyVars
<1>18. ASSUME NEW q \in Requests, NEW r \in Runs, Stop(q, r) PROVE ServiceInv'
  BY <1>18, <1>0, NextIsUnused DEF ServiceInv, HandedOut, Stop, Row, Delisted, sweepVars,
     historyVars
<1>19. ASSUME Shutdown PROVE ServiceInv'
  BY <1>19, <1>0 DEF ServiceInv, HandedOut, Shutdown, sweepVars, historyVars
<1>20. ASSUME DisposeNext PROVE ServiceInv'
  BY <1>20, <1>0 DEF ServiceInv, HandedOut, DisposeNext, sweepVars, historyVars
<1>21. ASSUME ShutdownWaited PROVE ServiceInv'
  BY <1>21, <1>0, IdleTakes, Names DEF Typed, RequestTyped, RequestType, RegistryTyped,
     ShutdownType, Awaited, ServiceInv, StagesInv, StopsInv, ShutdownInv, HandedOut,
     ShutdownWaited, sweepVars, historyVars
<1>22. ASSUME ShutdownCleaned PROVE ServiceInv'
  BY <1>22, <1>0, CleanedTakes, Names DEF Typed, RequestTyped, RequestType, RegistryTyped,
     ShutdownType, Awaited, ServiceInv, StagesInv, StopsInv, ShutdownInv, HandedOut,
     ShutdownCleaned, sweepVars, historyVars
<1>23. ASSUME Close PROVE ServiceInv'
  BY <1>23, <1>0 DEF ServiceInv, HandedOut, Close, sweepVars, historyVars
<1>24. ASSUME Exit PROVE ServiceInv'
  BY <1>24, <1>0 DEF ServiceInv, HandedOut, Exit, sweepVars, historyVars
<1>25. ASSUME Crash PROVE ServiceInv'
  BY <1>25, <1>0 DEF ServiceInv, HandedOut, Crash
<1>26. ASSUME UNCHANGED vars PROVE ServiceInv'
  BY <1>26, <1>0 DEF ServiceInv, HandedOut, vars, sweepVars, historyVars
<1> QED
  BY <1>1, <1>2, <1>3, <1>4, <1>5, <1>6, <1>7, <1>8, <1>9, <1>10, <1>11, <1>12, <1>13, <1>14,
     <1>15, <1>16, <1>17, <1>18, <1>19, <1>20, <1>21, <1>22, <1>23, <1>24, <1>25, <1>26 DEF Next

LEMMA LosersInvStep == LifecycleInv /\ [Next]_vars => LosersInv'
<1> SUFFICES ASSUME LifecycleInv, [Next]_vars PROVE LosersInv'
  OBVIOUS
<1>0. Typed /\ StagesInv /\ ServiceInv /\ LosersInv /\ StopsInv /\ ShutdownInv /\ Awaited
  BY AwaitedIsNamed DEF LifecycleInv
<1>1. ASSUME NEW q \in Requests, Create(q) PROVE LosersInv'
  BY <1>1, <1>0, GoesKeeps, NextIsUnused, Names DEF Typed, RequestTyped, RequestType,
     RegistryTyped, LosersInv, StagesInv, ServiceInv, StopsInv, ShutdownInv, HandedOut, Served,
     Create, sweepVars, historyVars
<1>2. ASSUME NEW q \in Requests, Compose(q) PROVE LosersInv'
  BY <1>2, <1>0, GoesKeeps, ComposeGains, Names DEF Typed, RequestTyped, RequestType,
     RegistryTyped, LosersInv, StagesInv, ServiceInv, StopsInv, ShutdownInv, HandedOut, Served,
     sweepVars, historyVars
<1>3. ASSUME NEW q \in Requests, ComposeRefused(q) PROVE LosersInv'
  BY <1>3, <1>0, EndsKeeps, Names DEF Typed, RequestTyped, RequestType, RegistryTyped,
     LosersInv, StagesInv, ServiceInv, StopsInv, ShutdownInv, HandedOut, Served, ComposeRefused,
     sweepVars, historyVars
<1>4. ASSUME NEW q \in Requests, ComposeFails(q) PROVE LosersInv'
  BY <1>4, <1>0, EndsKeeps, Names DEF Typed, RegistryTyped, RequestTyped, SetsTyped, RunsTyped,
     HoldsTyped, RowsTyped, CarryingTyped, ShutdownTyped, LosersInv, StagesInv, ServiceInv,
     StopsInv, ShutdownInv, HandedOut, Served, Composing, Sweeping, Undoing, Stopping,
     ComposeFails, sweepVars, historyVars
<1>5. ASSUME NEW q \in Requests, Created(q) PROVE LosersInv'
  BY <1>5, <1>0, Names DEF Typed, RequestTyped, RequestType, RegistryTyped, LosersInv,
     StagesInv, ServiceInv, StopsInv, ShutdownInv, HandedOut, Served, Created, Row, historyVars
<1>6. ASSUME NEW q \in Requests, CreateFails(q) PROVE LosersInv'
  BY <1>6, <1>0, GoesKeeps, Names DEF Typed, RequestTyped, RequestType, RegistryTyped,
     LosersInv, StagesInv, ServiceInv, StopsInv, ShutdownInv, HandedOut, Served, CreateFails,
     sweepVars, historyVars
<1>7. ASSUME NEW q \in Requests, List(q) PROVE LosersInv'
  BY <1>7, <1>0, GoesKeeps, Names DEF Typed, RequestTyped, RequestType, RegistryTyped,
     LosersInv, StagesInv, ServiceInv, StopsInv, ShutdownInv, HandedOut, Served, List,
     historyVars
<1>8. ASSUME NEW q \in Requests, Swept(q) PROVE LosersInv'
  BY <1>8, <1>0, GoesKeeps, Names DEF Typed, RequestTyped, RequestType, RegistryTyped,
     LosersInv, StagesInv, ServiceInv, StopsInv, ShutdownInv, HandedOut, Served, Swept,
     Register, sweepVars
<1>9. ASSUME NEW q \in Requests, Resumed(q) PROVE LosersInv'
  BY <1>9, <1>0, GoesKeeps, StartsAtMost, Names DEF Typed, RequestTyped, RequestType,
     RegistryTyped, LosersInv, StagesInv, ServiceInv, StopsInv, ShutdownInv, HandedOut, Served,
     Resumed, Registers, Register, sweepVars
<1>10. ASSUME NEW q \in Requests, ResumeFails(q) PROVE LosersInv'
  BY <1>10, <1>0, GoesKeeps, Names DEF Typed, RequestTyped, RequestType, RegistryTyped,
     LosersInv, StagesInv, ServiceInv, StopsInv, ShutdownInv, HandedOut, Served, ResumeFails,
     sweepVars, historyVars
<1>11. ASSUME NEW q \in Requests, Lost(q) PROVE LosersInv'
  BY <1>11, <1>0, EndsKeeps, StartsAtMost, Names DEF Typed, RequestTyped, RequestType,
     RegistryTyped, Awaited, LosersInv, StagesInv, ServiceInv, StopsInv, ShutdownInv, HandedOut,
     Served, Composing, Sweeping, Undoing, Stopping, Lost, sweepVars, historyVars
<1>12. ASSUME NEW q \in Requests, StopWaited(q) PROVE LosersInv'
  BY <1>12, <1>0, GoesKeeps, IdleTakes, Names DEF Typed, RequestTyped, RequestType,
     RegistryTyped, Awaited, LosersInv, StagesInv, ServiceInv, StopsInv, ShutdownInv, HandedOut,
     Served, Composing, Sweeping, Undoing, Stopping, StopWaited, sweepVars, historyVars
<1>13. ASSUME NEW q \in Requests, Stopped(q) PROVE LosersInv'
  BY <1>13, <1>0, EndsKeeps, CleanedTakes, Names DEF Typed, RequestTyped, RequestType,
     RegistryTyped, Awaited, LosersInv, StagesInv, ServiceInv, StopsInv, ShutdownInv, HandedOut,
     Served, Composing, Sweeping, Undoing, Stopping, Stopped, sweepVars, historyVars
<1>14. ASSUME NEW q \in Requests, Provision(q) PROVE LosersInv'
  BY <1>14, <1>0 DEF LosersInv, HandedOut, Served, Provision, sweepVars, historyVars
<1>15. ASSUME NEW q \in Requests, EndRound(q) PROVE LosersInv'
  BY <1>15, <1>0 DEF LosersInv, HandedOut, Served, EndRound, sweepVars, historyVars
<1>16. ASSUME NEW q \in Requests, NEW r \in Runs, Sweep(q, r) PROVE LosersInv'
  BY <1>16, <1>0 DEF LosersInv, HandedOut, Served, Sweep, historyVars
<1>17. ASSUME NEW q \in Requests, NEW r \in Runs, PostRound(q, r) PROVE LosersInv'
  BY <1>17, <1>0, GoesKeeps, StartsAtMost, NextIsUnused, Names DEF Typed, RequestTyped,
     RequestType, RegistryTyped, LosersInv, StagesInv, ServiceInv, StopsInv, ShutdownInv,
     HandedOut, Served, PostRound, sweepVars, historyVars
<1>18. ASSUME NEW q \in Requests, NEW r \in Runs, Stop(q, r) PROVE LosersInv'
  BY <1>18, <1>0, NextIsUnused DEF LosersInv, HandedOut, Served, Stop, Row, Delisted, sweepVars,
     historyVars
<1>19. ASSUME Shutdown PROVE LosersInv'
  BY <1>19, <1>0 DEF LosersInv, HandedOut, Served, Shutdown, sweepVars, historyVars
<1>20. ASSUME DisposeNext PROVE LosersInv'
  BY <1>20, <1>0 DEF LosersInv, HandedOut, Served, DisposeNext, sweepVars, historyVars
<1>21. ASSUME ShutdownWaited PROVE LosersInv'
  BY <1>21, <1>0, IdleTakes DEF LosersInv, HandedOut, Served, ShutdownWaited, sweepVars,
     historyVars, Awaited
<1>22. ASSUME ShutdownCleaned PROVE LosersInv'
  BY <1>22, <1>0, CleanedTakes, Names DEF Typed, RequestTyped, RequestType, RegistryTyped,
     ShutdownType, Awaited, LosersInv, StagesInv, ServiceInv, StopsInv, ShutdownInv, HandedOut,
     Served, ShutdownCleaned, sweepVars, historyVars
<1>23. ASSUME Close PROVE LosersInv'
  BY <1>23, <1>0 DEF LosersInv, HandedOut, Served, Close, sweepVars, historyVars
<1>24. ASSUME Exit PROVE LosersInv'
  BY <1>24, <1>0 DEF LosersInv, HandedOut, Served, Exit, sweepVars, historyVars
<1>25. ASSUME Crash PROVE LosersInv'
  BY <1>25, <1>0 DEF LosersInv, HandedOut, Served, Crash, Ended
<1>26. ASSUME UNCHANGED vars PROVE LosersInv'
  BY <1>26, <1>0 DEF LosersInv, HandedOut, Served, vars, sweepVars, historyVars
<1> QED
  BY <1>1, <1>2, <1>3, <1>4, <1>5, <1>6, <1>7, <1>8, <1>9, <1>10, <1>11, <1>12, <1>13, <1>14,
     <1>15, <1>16, <1>17, <1>18, <1>19, <1>20, <1>21, <1>22, <1>23, <1>24, <1>25, <1>26 DEF Next

LEMMA RoundsInvStep == LifecycleInv /\ [Next]_vars => RoundsInv'
<1> SUFFICES ASSUME LifecycleInv, [Next]_vars PROVE RoundsInv'
  OBVIOUS
<1>0. Typed /\ StagesInv /\ ServiceInv /\ LosersInv /\ RoundsInv /\ StopsInv /\ ShutdownInv /\ Awaited
  BY AwaitedIsNamed DEF LifecycleInv
<1>1. ASSUME NEW q \in Requests, Create(q) PROVE RoundsInv'
  BY <1>1, <1>0, GoesKeeps, NextIsUnused, Names DEF Typed, RegistryTyped, RequestTyped,
     SetsTyped, RunsTyped, HoldsTyped, RowsTyped, CarryingTyped, ShutdownTyped, RoundsInv,
     StagesInv, ServiceInv, LosersInv, StopsInv, ShutdownInv, HandedOut, Served, Composing,
     Sweeping, Undoing, Stopping, Create, sweepVars, historyVars
<1>2. ASSUME NEW q \in Requests, Compose(q) PROVE RoundsInv'
  BY <1>2, <1>0, GoesKeeps, ComposeGains, Names DEF Typed, RegistryTyped, RequestTyped,
     SetsTyped, RunsTyped, HoldsTyped, RowsTyped, CarryingTyped, ShutdownTyped, RoundsInv,
     StagesInv, ServiceInv, LosersInv, StopsInv, ShutdownInv, HandedOut, Served, Composing,
     Sweeping, Undoing, Stopping, sweepVars, historyVars
<1>3. ASSUME NEW q \in Requests, ComposeRefused(q) PROVE RoundsInv'
  BY <1>3, <1>0, EndsKeeps, Names DEF Typed, RegistryTyped, RequestTyped, SetsTyped, RunsTyped,
     HoldsTyped, RowsTyped, CarryingTyped, ShutdownTyped, RoundsInv, StagesInv, ServiceInv,
     LosersInv, StopsInv, ShutdownInv, HandedOut, Served, Composing, Sweeping, Undoing,
     Stopping, ComposeRefused, sweepVars, historyVars
<1>4. ASSUME NEW q \in Requests, ComposeFails(q) PROVE RoundsInv'
  BY <1>4, <1>0, EndsKeeps, Names DEF Typed, RegistryTyped, RequestTyped, SetsTyped, RunsTyped,
     HoldsTyped, RowsTyped, CarryingTyped, ShutdownTyped, RoundsInv, StagesInv, ServiceInv,
     LosersInv, StopsInv, ShutdownInv, HandedOut, Served, Composing, Sweeping, Undoing,
     Stopping, ComposeFails, sweepVars, historyVars
<1>5. ASSUME NEW q \in Requests, Created(q) PROVE RoundsInv'
  BY <1>5, <1>0, Names DEF Typed, RequestTyped, RequestType, RegistryTyped, RoundsInv,
     StagesInv, ServiceInv, LosersInv, StopsInv, ShutdownInv, HandedOut, Served, Created, Row,
     historyVars
<1>6. ASSUME NEW q \in Requests, CreateFails(q) PROVE RoundsInv'
  BY <1>6, <1>0, GoesKeeps, Names DEF Typed, RegistryTyped, RequestTyped, SetsTyped, RunsTyped,
     HoldsTyped, RowsTyped, CarryingTyped, ShutdownTyped, RoundsInv, StagesInv, ServiceInv,
     LosersInv, StopsInv, ShutdownInv, HandedOut, Served, Composing, Sweeping, Undoing,
     Stopping, CreateFails, sweepVars, historyVars
<1>7. ASSUME NEW q \in Requests, List(q) PROVE RoundsInv'
  BY <1>7, <1>0, GoesKeeps, Names DEF Typed, RegistryTyped, RequestTyped, SetsTyped, RunsTyped,
     HoldsTyped, RowsTyped, CarryingTyped, ShutdownTyped, RoundsInv, StagesInv, ServiceInv,
     LosersInv, StopsInv, ShutdownInv, HandedOut, Served, Composing, Sweeping, Undoing,
     Stopping, List, sweepVars, historyVars
<1>8. ASSUME NEW q \in Requests, Swept(q) PROVE RoundsInv'
  BY <1>8, <1>0, GoesKeeps, Names DEF Typed, RegistryTyped, RequestTyped, SetsTyped, RunsTyped,
     HoldsTyped, RowsTyped, CarryingTyped, ShutdownTyped, RequestType, RoundsInv, StagesInv,
     ServiceInv, LosersInv, StopsInv, ShutdownInv, HandedOut, Served, Composing, Sweeping,
     Undoing, Stopping, Swept, Register, historyVars
<1>9. ASSUME NEW q \in Requests, Resumed(q) PROVE RoundsInv'
  BY <1>9, <1>0, GoesKeeps, StartsAtMost, Names DEF Typed, RegistryTyped, RequestTyped,
     SetsTyped, RunsTyped, HoldsTyped, RowsTyped, CarryingTyped, ShutdownTyped, RequestType,
     RoundsInv, StagesInv, ServiceInv, LosersInv, StopsInv, ShutdownInv, HandedOut, Served,
     Composing, Sweeping, Undoing, Stopping, Resumed, Registers, Register, sweepVars, historyVars
<1>10. ASSUME NEW q \in Requests, ResumeFails(q) PROVE RoundsInv'
  BY <1>10, <1>0, GoesKeeps, Names DEF Typed, RegistryTyped, RequestTyped, SetsTyped, RunsTyped,
     HoldsTyped, RowsTyped, CarryingTyped, ShutdownTyped, RoundsInv, StagesInv, ServiceInv,
     LosersInv, StopsInv, ShutdownInv, HandedOut, Served, Composing, Sweeping, Undoing,
     Stopping, ResumeFails, sweepVars, historyVars
<1>11. ASSUME NEW q \in Requests, Lost(q) PROVE RoundsInv'
  BY <1>11, <1>0, EndsKeeps, StartsAtMost, Names DEF Typed, RegistryTyped, RequestTyped,
     SetsTyped, RunsTyped, HoldsTyped, RowsTyped, CarryingTyped, ShutdownTyped, Awaited,
     RoundsInv, StagesInv, ServiceInv, LosersInv, StopsInv, ShutdownInv, HandedOut, Served,
     Composing, Sweeping, Undoing, Stopping, Lost, sweepVars, historyVars
<1>12. ASSUME NEW q \in Requests, StopWaited(q) PROVE RoundsInv'
  BY <1>12, <1>0, GoesKeeps, IdleTakes, Names DEF Typed, RegistryTyped, RequestTyped, SetsTyped,
     RunsTyped, HoldsTyped, RowsTyped, CarryingTyped, ShutdownTyped, Awaited, RoundsInv,
     StagesInv, ServiceInv, LosersInv, StopsInv, ShutdownInv, HandedOut, Served, Composing,
     Sweeping, Undoing, Stopping, StopWaited, sweepVars, historyVars
<1>13. ASSUME NEW q \in Requests, Stopped(q) PROVE RoundsInv'
  BY <1>13, <1>0, EndsKeeps, CleanedTakes, Names DEF Typed, RegistryTyped, RequestTyped,
     SetsTyped, RunsTyped, HoldsTyped, RowsTyped, CarryingTyped, ShutdownTyped, Awaited,
     RoundsInv, StagesInv, ServiceInv, LosersInv, StopsInv, ShutdownInv, HandedOut, Served,
     Composing, Sweeping, Undoing, Stopping, Stopped, sweepVars, historyVars
<1>14. ASSUME NEW q \in Requests, Provision(q) PROVE RoundsInv'
  BY <1>14, <1>0 DEF RoundsInv, HandedOut, Served, Provision, sweepVars, historyVars
<1>15. ASSUME NEW q \in Requests, EndRound(q) PROVE RoundsInv'
  BY <1>15, <1>0 DEF RoundsInv, HandedOut, Served, EndRound, sweepVars, historyVars
<1>16. ASSUME NEW q \in Requests, NEW r \in Runs, Sweep(q, r) PROVE RoundsInv'
  BY <1>16, <1>0 DEF RoundsInv, HandedOut, Served, Sweep, historyVars
<1>17. ASSUME NEW q \in Requests, NEW r \in Runs, PostRound(q, r) PROVE RoundsInv'
  BY <1>17, <1>0, GoesKeeps, StartsAtMost, NextIsUnused, Names DEF Typed, RequestTyped,
     RequestType, RegistryTyped, RoundsInv, StagesInv, ServiceInv, LosersInv, StopsInv,
     ShutdownInv, HandedOut, Served, PostRound, sweepVars, historyVars
<1>18. ASSUME NEW q \in Requests, NEW r \in Runs, Stop(q, r) PROVE RoundsInv'
  BY <1>18, <1>0, NextIsUnused DEF RoundsInv, HandedOut, Served, Stop, Row, Delisted, sweepVars,
     historyVars
<1>19. ASSUME Shutdown PROVE RoundsInv'
  BY <1>19, <1>0 DEF RoundsInv, HandedOut, Served, Shutdown, sweepVars, historyVars
<1>20. ASSUME DisposeNext PROVE RoundsInv'
  BY <1>20, <1>0 DEF RoundsInv, HandedOut, Served, DisposeNext, sweepVars, historyVars
<1>21. ASSUME ShutdownWaited PROVE RoundsInv'
  BY <1>21, <1>0, IdleTakes, Names DEF Typed, RegistryTyped, RequestTyped, SetsTyped, RunsTyped,
     HoldsTyped, RowsTyped, CarryingTyped, ShutdownTyped, ShutdownType, Awaited, RoundsInv,
     StagesInv, ServiceInv, LosersInv, StopsInv, ShutdownInv, HandedOut, Served, Composing,
     Sweeping, Undoing, Stopping, ShutdownWaited, sweepVars, historyVars
<1>22. ASSUME ShutdownCleaned PROVE RoundsInv'
  BY <1>22, <1>0, CleanedTakes, Names DEF Typed, RegistryTyped, RequestTyped, SetsTyped,
     RunsTyped, HoldsTyped, RowsTyped, CarryingTyped, ShutdownTyped, ShutdownType, Awaited,
     RoundsInv, StagesInv, ServiceInv, LosersInv, StopsInv, ShutdownInv, HandedOut, Served,
     Composing, Sweeping, Undoing, Stopping, ShutdownCleaned, sweepVars, historyVars
<1>23. ASSUME Close PROVE RoundsInv'
  BY <1>23, <1>0 DEF RoundsInv, HandedOut, Served, Close, sweepVars, historyVars
<1>24. ASSUME Exit PROVE RoundsInv'
  BY <1>24, <1>0 DEF RoundsInv, HandedOut, Served, Exit, sweepVars, historyVars
<1>25. ASSUME Crash PROVE RoundsInv'
  BY <1>25, <1>0 DEF RoundsInv, HandedOut, Served, Crash
<1>26. ASSUME UNCHANGED vars PROVE RoundsInv'
  BY <1>26, <1>0 DEF RoundsInv, HandedOut, Served, vars, sweepVars, historyVars
<1> QED
  BY <1>1, <1>2, <1>3, <1>4, <1>5, <1>6, <1>7, <1>8, <1>9, <1>10, <1>11, <1>12, <1>13, <1>14,
     <1>15, <1>16, <1>17, <1>18, <1>19, <1>20, <1>21, <1>22, <1>23, <1>24, <1>25, <1>26 DEF Next

LEMMA StopsInvStep == LifecycleInv /\ [Next]_vars => StopsInv'
<1> SUFFICES ASSUME LifecycleInv, [Next]_vars PROVE StopsInv'
  OBVIOUS
<1>0. Typed /\ StagesInv /\ ServiceInv /\ StopsInv /\ RoundsInv /\ Awaited
  BY AwaitedIsNamed DEF LifecycleInv
<1>1. ASSUME NEW q \in Requests, Create(q) PROVE StopsInv'
  BY <1>1, <1>0, GoesKeeps, NextIsUnused, Names DEF Typed, RequestTyped, RequestType,
     RegistryTyped, StopsInv, StagesInv, ServiceInv, HandedOut, Composing, Sweeping, Undoing,
     Stopping, Create, sweepVars, historyVars
<1>2. ASSUME NEW q \in Requests, Compose(q) PROVE StopsInv'
  BY <1>2, <1>0, GoesKeeps, ComposeGains, Names DEF Typed, RegistryTyped, RequestTyped,
     SetsTyped, RunsTyped, HoldsTyped, RowsTyped, CarryingTyped, ShutdownTyped, StopsInv,
     StagesInv, ServiceInv, HandedOut, Composing, Sweeping, Undoing, Stopping, sweepVars,
     historyVars
<1>3. ASSUME NEW q \in Requests, ComposeRefused(q) PROVE StopsInv'
  BY <1>3, <1>0, EndsKeeps, Names DEF Typed, RequestTyped, RequestType, RegistryTyped, StopsInv,
     StagesInv, ServiceInv, HandedOut, Composing, Sweeping, Undoing, Stopping, ComposeRefused,
     sweepVars, historyVars
<1>4. ASSUME NEW q \in Requests, ComposeFails(q) PROVE StopsInv'
  BY <1>4, <1>0, EndsKeeps, Names DEF Typed, RegistryTyped, RequestTyped, SetsTyped, RunsTyped,
     HoldsTyped, RowsTyped, CarryingTyped, ShutdownTyped, StopsInv, StagesInv, ServiceInv,
     HandedOut, Composing, Sweeping, Undoing, Stopping, ComposeFails, sweepVars, historyVars
<1>5. ASSUME NEW q \in Requests, Created(q) PROVE StopsInv'
  BY <1>5, <1>0, Names DEF Typed, RequestTyped, RequestType, RegistryTyped, StopsInv, StagesInv,
     ServiceInv, HandedOut, Composing, Sweeping, Undoing, Stopping, Created, Row, historyVars
<1>6. ASSUME NEW q \in Requests, CreateFails(q) PROVE StopsInv'
  BY <1>6, <1>0, GoesKeeps, Names DEF Typed, RequestTyped, RequestType, RegistryTyped, StopsInv,
     StagesInv, ServiceInv, HandedOut, Composing, Sweeping, Undoing, Stopping, CreateFails,
     sweepVars, historyVars
<1>7. ASSUME NEW q \in Requests, List(q) PROVE StopsInv'
  BY <1>7, <1>0, GoesKeeps, Names DEF Typed, RequestTyped, RequestType, RegistryTyped, StopsInv,
     StagesInv, ServiceInv, HandedOut, Composing, Sweeping, Undoing, Stopping, List, historyVars
<1>8. ASSUME NEW q \in Requests, Swept(q) PROVE StopsInv'
  BY <1>8, <1>0, GoesKeeps, Names DEF Typed, RequestTyped, RequestType, RegistryTyped, StopsInv,
     StagesInv, ServiceInv, HandedOut, Composing, Sweeping, Undoing, Stopping, Swept, Register,
     sweepVars
<1>9. ASSUME NEW q \in Requests, Resumed(q) PROVE StopsInv'
  <2>1. CASE Registers(q)
    BY <1>9, <1>0, <2>1, GoesKeeps, StartsAtMost, Names DEF Typed, RegistryTyped, RequestTyped,
       SetsTyped, RunsTyped, HoldsTyped, RowsTyped, CarryingTyped, ShutdownTyped, RequestType,
       StopsInv, StagesInv, ServiceInv, HandedOut, Composing, Sweeping, Undoing, Stopping,
       Resumed, Registers, Register, sweepVars, historyVars
  <2>2. CASE ~Registers(q)
    BY <1>9, <1>0, <2>2, GoesKeeps, StartsAtMost, Names DEF Typed, RegistryTyped, RequestTyped,
       SetsTyped, RunsTyped, HoldsTyped, RowsTyped, CarryingTyped, ShutdownTyped, RequestType,
       StopsInv, StagesInv, ServiceInv, HandedOut, Composing, Sweeping, Undoing, Stopping,
       Resumed, Registers, sweepVars, historyVars
  <2> QED
    BY <2>1, <2>2
<1>10. ASSUME NEW q \in Requests, ResumeFails(q) PROVE StopsInv'
  BY <1>10, <1>0, GoesKeeps, Names DEF Typed, RequestTyped, RequestType, RegistryTyped,
     StopsInv, StagesInv, ServiceInv, HandedOut, Composing, Sweeping, Undoing, Stopping,
     ResumeFails, sweepVars, historyVars
<1>11. ASSUME NEW q \in Requests, Lost(q) PROVE StopsInv'
  BY <1>11, <1>0, EndsKeeps, StartsAtMost DEF StopsInv, HandedOut, Composing, Sweeping, Undoing,
     Stopping, Lost, sweepVars, historyVars, Awaited
<1>12. ASSUME NEW q \in Requests, StopWaited(q) PROVE StopsInv'
  BY <1>12, <1>0, GoesKeeps, IdleTakes DEF StopsInv, HandedOut, Composing, Sweeping, Undoing,
     Stopping, StopWaited, sweepVars, historyVars, Awaited
<1>13. ASSUME NEW q \in Requests, Stopped(q) PROVE StopsInv'
  BY <1>13, <1>0, EndsKeeps, CleanedTakes DEF StopsInv, HandedOut, Composing, Sweeping, Undoing,
     Stopping, Stopped, sweepVars, historyVars, Awaited
<1>14. ASSUME NEW q \in Requests, Provision(q) PROVE StopsInv'
  BY <1>14, <1>0 DEF StopsInv, HandedOut, Composing, Sweeping, Undoing, Stopping, Provision,
     sweepVars, historyVars
<1>15. ASSUME NEW q \in Requests, EndRound(q) PROVE StopsInv'
  BY <1>15, <1>0 DEF StopsInv, HandedOut, Composing, Sweeping, Undoing, Stopping, EndRound,
     sweepVars, historyVars
<1>16. ASSUME NEW q \in Requests, NEW r \in Runs, Sweep(q, r) PROVE StopsInv'
  BY <1>16, <1>0 DEF StopsInv, HandedOut, Composing, Sweeping, Undoing, Stopping, Sweep,
     historyVars
<1>17. ASSUME NEW q \in Requests, NEW r \in Runs, PostRound(q, r) PROVE StopsInv'
  BY <1>17, <1>0, GoesKeeps, StartsAtMost, NextIsUnused, Names DEF Typed, RequestTyped,
     RequestType, RegistryTyped, StopsInv, StagesInv, ServiceInv, HandedOut, Composing,
     Sweeping, Undoing, Stopping, PostRound, sweepVars, historyVars
<1>18. ASSUME NEW q \in Requests, NEW r \in Runs, Stop(q, r) PROVE StopsInv'
  BY <1>18, <1>0, NextIsUnused, Names DEF Typed, RegistryTyped, RequestTyped, SetsTyped,
     RunsTyped, HoldsTyped, RowsTyped, CarryingTyped, ShutdownTyped, RequestType, StopsInv,
     StagesInv, ServiceInv, HandedOut, Composing, Sweeping, Undoing, Stopping, Stop, Row,
     Delisted, sweepVars, historyVars
<1>19. ASSUME Shutdown PROVE StopsInv'
  BY <1>19, <1>0 DEF StopsInv, HandedOut, Composing, Sweeping, Undoing, Stopping, Shutdown,
     Registered, sweepVars, historyVars
<1>20. ASSUME DisposeNext PROVE StopsInv'
  BY <1>20, <1>0 DEF StopsInv, HandedOut, Composing, Sweeping, Undoing, Stopping, DisposeNext,
     sweepVars, historyVars
<1>21. ASSUME ShutdownWaited PROVE StopsInv'
  BY <1>21, <1>0, IdleTakes DEF StopsInv, HandedOut, Composing, Sweeping, Undoing, Stopping,
     ShutdownWaited, sweepVars, historyVars, Awaited
<1>22. ASSUME ShutdownCleaned PROVE StopsInv'
  BY <1>22, <1>0, CleanedTakes DEF StopsInv, HandedOut, Composing, Sweeping, Undoing, Stopping,
     ShutdownCleaned, sweepVars, historyVars, Awaited
<1>23. ASSUME Close PROVE StopsInv'
  BY <1>23, <1>0 DEF StopsInv, HandedOut, Composing, Sweeping, Undoing, Stopping, Close,
     sweepVars, historyVars
<1>24. ASSUME Exit PROVE StopsInv'
  BY <1>24, <1>0 DEF StopsInv, HandedOut, Composing, Sweeping, Undoing, Stopping, Exit,
     sweepVars, historyVars
<1>25. ASSUME Crash PROVE StopsInv'
  BY <1>25, <1>0 DEF StopsInv, HandedOut, Composing, Sweeping, Undoing, Stopping, Crash, Ended
<1>26. ASSUME UNCHANGED vars PROVE StopsInv'
  BY <1>26, <1>0 DEF StopsInv, HandedOut, Composing, Sweeping, Undoing, Stopping, vars,
     sweepVars, historyVars
<1> QED
  BY <1>1, <1>2, <1>3, <1>4, <1>5, <1>6, <1>7, <1>8, <1>9, <1>10, <1>11, <1>12, <1>13, <1>14,
     <1>15, <1>16, <1>17, <1>18, <1>19, <1>20, <1>21, <1>22, <1>23, <1>24, <1>25, <1>26 DEF Next

LEMMA ShutdownInvStep == LifecycleInv /\ [Next]_vars => ShutdownInv'
<1> SUFFICES ASSUME LifecycleInv, [Next]_vars PROVE ShutdownInv'
  OBVIOUS
<1>0. Typed /\ StagesInv /\ ServiceInv /\ ShutdownInv /\ Awaited
  BY AwaitedIsNamed DEF LifecycleInv
<1>1. ASSUME NEW q \in Requests, Create(q) PROVE ShutdownInv'
  BY <1>1, <1>0, GoesKeeps, NextIsUnused, Names DEF Typed, RegistryTyped, RequestTyped,
     SetsTyped, RunsTyped, HoldsTyped, RowsTyped, CarryingTyped, ShutdownTyped, ShutdownType,
     RequestType, ShutdownInv, ServiceInv, HandedOut, Composing, Sweeping, Undoing, Stopping,
     Create, sweepVars, historyVars
<1>2. ASSUME NEW q \in Requests, Compose(q) PROVE ShutdownInv'
  <2>1. /\ request[q].at # "done" /\ UNCHANGED <<shutdown, busy, disposing>>
        /\ \A p \in Requests : p # q => holds'[p] = holds[p]
    BY <1>2, <1>0, ComposeGains
  <2>2. \A p \in Requests : p # q => request'[p] = request[p]
    BY <1>2, <1>0 DEF Compose, Goes, Typed, RequestTyped, RequestType
  <2>3. shutdown.list \subseteq Requests
    BY <1>0 DEF Typed, ShutdownTyped, ShutdownType
  <2> QED
    BY <1>0, <2>1, <2>2, <2>3 DEF ShutdownInv, HandedOut
<1>3. ASSUME NEW q \in Requests, ComposeRefused(q) PROVE ShutdownInv'
  BY <1>3, <1>0, EndsKeeps DEF Typed, ShutdownTyped, ShutdownType, ShutdownInv, HandedOut,
     ComposeRefused
<1>4. ASSUME NEW q \in Requests, ComposeFails(q) PROVE ShutdownInv'
  BY <1>4, <1>0, EndsKeeps, Names DEF Typed, RegistryTyped, RequestTyped, SetsTyped, RunsTyped,
     HoldsTyped, RowsTyped, CarryingTyped, ShutdownTyped, ShutdownType, RequestType,
     ShutdownInv, ServiceInv, HandedOut, Composing, Sweeping, Undoing, Stopping, ComposeFails,
     sweepVars, historyVars
<1>5. ASSUME NEW q \in Requests, Created(q) PROVE ShutdownInv'
  BY <1>5, <1>0, Names DEF Typed, RequestTyped, RequestType, RegistryTyped, ShutdownType,
     ShutdownInv, ServiceInv, HandedOut, Created, Row, historyVars
<1>6. ASSUME NEW q \in Requests, CreateFails(q) PROVE ShutdownInv'
  BY <1>6, <1>0, GoesKeeps, Names DEF Typed, RegistryTyped, RequestTyped, SetsTyped, RunsTyped,
     HoldsTyped, RowsTyped, CarryingTyped, ShutdownTyped, ShutdownType, RequestType,
     ShutdownInv, ServiceInv, HandedOut, Composing, Sweeping, Undoing, Stopping, CreateFails,
     sweepVars, historyVars
<1>7. ASSUME NEW q \in Requests, List(q) PROVE ShutdownInv'
  BY <1>7, <1>0, GoesKeeps, Names DEF Typed, RegistryTyped, RequestTyped, SetsTyped, RunsTyped,
     HoldsTyped, RowsTyped, CarryingTyped, ShutdownTyped, ShutdownType, RequestType,
     ShutdownInv, ServiceInv, HandedOut, Composing, Sweeping, Undoing, Stopping, List,
     sweepVars, historyVars
<1>8. ASSUME NEW q \in Requests, Swept(q) PROVE ShutdownInv'
  BY <1>8, <1>0, GoesKeeps, Names DEF Typed, RegistryTyped, RequestTyped, SetsTyped, RunsTyped,
     HoldsTyped, RowsTyped, CarryingTyped, ShutdownTyped, ShutdownType, RequestType,
     ShutdownInv, ServiceInv, HandedOut, Composing, Sweeping, Undoing, Stopping, Swept,
     Register, sweepVars, historyVars
<1>9. ASSUME NEW q \in Requests, Resumed(q) PROVE ShutdownInv'
  <2>1. request[q].at = "image" /\ UNCHANGED <<shutdown, holds, disposing>>
    BY <1>9 DEF Resumed
  <2>2. busy' \subseteq busy \cup {q}
    BY <1>9 DEF Resumed, StartRoundOn
  <2>3. \A p \in Requests : p # q => request'[p] = request[p]
    BY <1>9, <1>0 DEF Resumed, Goes, Typed, RequestTyped, RequestType
  <2>4. shutdown.list \subseteq Requests /\ shutdown.on \in {Nobody} \cup Requests
    BY <1>0 DEF Typed, ShutdownTyped, ShutdownType
  <2> QED
    BY <1>0, <2>1, <2>2, <2>3, <2>4, Names DEF ShutdownInv, HandedOut
<1>10. ASSUME NEW q \in Requests, ResumeFails(q) PROVE ShutdownInv'
  BY <1>10, <1>0, GoesKeeps, Names DEF Typed, RegistryTyped, RequestTyped, SetsTyped, RunsTyped,
     HoldsTyped, RowsTyped, CarryingTyped, ShutdownTyped, ShutdownType, RequestType,
     ShutdownInv, ServiceInv, HandedOut, Composing, Sweeping, Undoing, Stopping, ResumeFails,
     sweepVars, historyVars
<1>11. ASSUME NEW q \in Requests, Lost(q) PROVE ShutdownInv'
  BY <1>11, <1>0, EndsKeeps, StartsAtMost, Names DEF Typed, RegistryTyped, RequestTyped,
     SetsTyped, RunsTyped, HoldsTyped, RowsTyped, CarryingTyped, ShutdownTyped, ShutdownType,
     Awaited, RequestType, ShutdownInv, ServiceInv, HandedOut, Composing, Sweeping, Undoing,
     Stopping, Lost, sweepVars, historyVars
<1>12. ASSUME NEW q \in Requests, StopWaited(q) PROVE ShutdownInv'
  BY <1>12, <1>0, GoesKeeps, IdleTakes, Names DEF Typed, RegistryTyped, RequestTyped, SetsTyped,
     RunsTyped, HoldsTyped, RowsTyped, CarryingTyped, ShutdownTyped, ShutdownType, Awaited,
     RequestType, ShutdownInv, ServiceInv, HandedOut, Composing, Sweeping, Undoing, Stopping,
     StopWaited, sweepVars, historyVars
<1>13. ASSUME NEW q \in Requests, Stopped(q) PROVE ShutdownInv'
  BY <1>13, <1>0, EndsKeeps, CleanedTakes, Names DEF Typed, RegistryTyped, RequestTyped,
     SetsTyped, RunsTyped, HoldsTyped, RowsTyped, CarryingTyped, ShutdownTyped, ShutdownType,
     Awaited, RequestType, ShutdownInv, ServiceInv, HandedOut, Composing, Sweeping, Undoing,
     Stopping, Stopped, sweepVars, historyVars
<1>14. ASSUME NEW q \in Requests, Provision(q) PROVE ShutdownInv'
  BY <1>14, <1>0 DEF ShutdownInv, HandedOut, Provision, sweepVars, historyVars
<1>15. ASSUME NEW q \in Requests, EndRound(q) PROVE ShutdownInv'
  BY <1>15, <1>0 DEF ShutdownInv, HandedOut, EndRound, sweepVars, historyVars
<1>16. ASSUME NEW q \in Requests, NEW r \in Runs, Sweep(q, r) PROVE ShutdownInv'
  BY <1>16, <1>0 DEF ShutdownInv, HandedOut, Sweep, historyVars
<1>17. ASSUME NEW q \in Requests, NEW r \in Runs, PostRound(q, r) PROVE ShutdownInv'
  BY <1>17, <1>0, GoesKeeps, StartsAtMost, NextIsUnused, Names DEF Typed, RegistryTyped,
     RequestTyped, SetsTyped, RunsTyped, HoldsTyped, RowsTyped, CarryingTyped, ShutdownTyped,
     ShutdownType, RequestType, ShutdownInv, ServiceInv, HandedOut, Composing, Sweeping,
     Undoing, Stopping, PostRound, sweepVars, historyVars
<1>18. ASSUME NEW q \in Requests, NEW r \in Runs, Stop(q, r) PROVE ShutdownInv'
  BY <1>18, <1>0, NextIsUnused DEF ShutdownInv, HandedOut, Stop, Row, Delisted, sweepVars,
     historyVars
<1>19. ASSUME Shutdown PROVE ShutdownInv'
  BY <1>19, <1>0, Names DEF Typed, RequestTyped, RequestType, RegistryTyped, ShutdownType,
     ShutdownInv, ServiceInv, HandedOut, Shutdown, Serving, Registered, sweepVars,
     historyVars
<1>20. ASSUME DisposeNext PROVE ShutdownInv'
  BY <1>20, <1>0, Names DEF Typed, RegistryTyped, RequestTyped, SetsTyped, RunsTyped,
     HoldsTyped, RowsTyped, CarryingTyped, ShutdownTyped, ShutdownType, RequestType,
     ShutdownInv, ServiceInv, HandedOut, Composing, Sweeping, Undoing, Stopping, DisposeNext,
     sweepVars, historyVars
<1>21. ASSUME ShutdownWaited PROVE ShutdownInv'
  BY <1>21, <1>0, IdleTakes, Names DEF Typed, RegistryTyped, RequestTyped, SetsTyped, RunsTyped,
     HoldsTyped, RowsTyped, CarryingTyped, ShutdownTyped, ShutdownType, Awaited, RequestType,
     ShutdownInv, ServiceInv, HandedOut, Composing, Sweeping, Undoing, Stopping, ShutdownWaited,
     sweepVars, historyVars
<1>22. ASSUME ShutdownCleaned PROVE ShutdownInv'
  BY <1>22, <1>0, CleanedTakes, Names DEF Typed, RegistryTyped, RequestTyped, SetsTyped,
     RunsTyped, HoldsTyped, RowsTyped, CarryingTyped, ShutdownTyped, ShutdownType, Awaited,
     RequestType, ShutdownInv, ServiceInv, HandedOut, Composing, Sweeping, Undoing, Stopping,
     ShutdownCleaned, sweepVars, historyVars
<1>23. ASSUME Close PROVE ShutdownInv'
  BY <1>23, <1>0 DEF ShutdownInv, HandedOut, Close, sweepVars, historyVars
<1>24. ASSUME Exit PROVE ShutdownInv'
  BY <1>24, <1>0 DEF ShutdownInv, HandedOut, Exit, sweepVars, historyVars
<1>25. ASSUME Crash PROVE ShutdownInv'
  BY <1>25, <1>0 DEF ShutdownInv, HandedOut, Crash
<1>26. ASSUME UNCHANGED vars PROVE ShutdownInv'
  BY <1>26, <1>0 DEF ShutdownInv, HandedOut, vars, sweepVars, historyVars
<1> QED
  BY <1>1, <1>2, <1>3, <1>4, <1>5, <1>6, <1>7, <1>8, <1>9, <1>10, <1>11, <1>12, <1>13, <1>14,
     <1>15, <1>16, <1>17, <1>18, <1>19, <1>20, <1>21, <1>22, <1>23, <1>24, <1>25, <1>26 DEF Next

LEMMA CarriedInvStep == LifecycleInv /\ [Next]_vars => CarriedInv'
<1> SUFFICES ASSUME LifecycleInv, [Next]_vars PROVE CarriedInv'
  OBVIOUS
<1>0. Typed /\ RoundsInv /\ CarriedInv /\ Awaited
  BY AwaitedIsNamed DEF LifecycleInv
<1>1. ASSUME NEW q \in Requests, Create(q) PROVE CarriedInv'
  BY <1>1, <1>0, GoesKeeps, NextIsUnused DEF CarriedInv, HandedOut, Create, sweepVars,
     historyVars
<1>2. ASSUME NEW q \in Requests, Compose(q) PROVE CarriedInv'
  BY <1>2, <1>0, GoesKeeps, ComposeGains DEF CarriedInv, HandedOut, sweepVars, historyVars
<1>3. ASSUME NEW q \in Requests, ComposeRefused(q) PROVE CarriedInv'
  BY <1>3, <1>0, EndsKeeps DEF CarriedInv, HandedOut, ComposeRefused, sweepVars, historyVars
<1>4. ASSUME NEW q \in Requests, ComposeFails(q) PROVE CarriedInv'
  BY <1>4, <1>0, EndsKeeps, Names DEF Typed, RegistryTyped, RequestTyped, SetsTyped, RunsTyped,
     HoldsTyped, RowsTyped, CarryingTyped, ShutdownTyped, CarriedInv, RoundsInv, HandedOut,
     Composing, Sweeping, Undoing, Stopping, ComposeFails, sweepVars, historyVars
<1>5. ASSUME NEW q \in Requests, Created(q) PROVE CarriedInv'
  BY <1>5, <1>0, Names DEF Typed, RequestTyped, RequestType, RegistryTyped, CarriedInv,
     RoundsInv, HandedOut, Created, Row, historyVars
<1>6. ASSUME NEW q \in Requests, CreateFails(q) PROVE CarriedInv'
  BY <1>6, <1>0, GoesKeeps DEF CarriedInv, HandedOut, CreateFails, sweepVars, historyVars
<1>7. ASSUME NEW q \in Requests, List(q) PROVE CarriedInv'
  BY <1>7, <1>0, GoesKeeps DEF CarriedInv, HandedOut, List, historyVars
<1>8. ASSUME NEW q \in Requests, Swept(q) PROVE CarriedInv'
  BY <1>8, <1>0, GoesKeeps DEF CarriedInv, HandedOut, Swept, Register
<1>9. ASSUME NEW q \in Requests, Resumed(q) PROVE CarriedInv'
  BY <1>9, <1>0, GoesKeeps, StartsAtMost, Names DEF Typed, RequestTyped, RequestType,
     RegistryTyped, CarriedInv, RoundsInv, HandedOut, Resumed, Registers, Register, sweepVars
<1>10. ASSUME NEW q \in Requests, ResumeFails(q) PROVE CarriedInv'
  BY <1>10, <1>0, GoesKeeps DEF CarriedInv, HandedOut, ResumeFails, sweepVars, historyVars
<1>11. ASSUME NEW q \in Requests, Lost(q) PROVE CarriedInv'
  BY <1>11, <1>0, EndsKeeps, StartsAtMost, Names DEF Typed, RequestTyped, RequestType,
     RegistryTyped, Awaited, CarriedInv, RoundsInv, HandedOut, Composing, Sweeping, Undoing,
     Stopping, Lost, sweepVars, historyVars
<1>12. ASSUME NEW q \in Requests, StopWaited(q) PROVE CarriedInv'
  BY <1>12, <1>0, GoesKeeps, IdleTakes, Names DEF Typed, RequestTyped, RequestType,
     RegistryTyped, Awaited, CarriedInv, RoundsInv, HandedOut, Composing, Sweeping, Undoing,
     Stopping, StopWaited, sweepVars, historyVars
<1>13. ASSUME NEW q \in Requests, Stopped(q) PROVE CarriedInv'
  BY <1>13, <1>0, EndsKeeps, CleanedTakes, Names DEF Typed, RequestTyped, RequestType,
     RegistryTyped, Awaited, CarriedInv, RoundsInv, HandedOut, Composing, Sweeping, Undoing,
     Stopping, Stopped, sweepVars, historyVars
<1>14. ASSUME NEW q \in Requests, Provision(q) PROVE CarriedInv'
  BY <1>14, <1>0, Names DEF Typed, RequestTyped, RequestType, RegistryTyped, CarriedInv,
     RoundsInv, HandedOut, Provision, sweepVars, historyVars
<1>15. ASSUME NEW q \in Requests, EndRound(q) PROVE CarriedInv'
  BY <1>15, <1>0, ClearedTakes DEF CarriedInv, HandedOut, EndRound
<1>16. ASSUME NEW q \in Requests, NEW r \in Runs, Sweep(q, r) PROVE CarriedInv'
  BY <1>16, <1>0, Names DEF Typed, RequestTyped, RequestType, RegistryTyped, CarriedInv,
     RoundsInv, HandedOut, Sweep, historyVars
<1>17. ASSUME NEW q \in Requests, NEW r \in Runs, PostRound(q, r) PROVE CarriedInv'
  BY <1>17, <1>0, GoesKeeps, StartsAtMost, NextIsUnused, Names DEF Typed, RequestTyped,
     RequestType, RegistryTyped, CarriedInv, RoundsInv, HandedOut, PostRound, sweepVars,
     historyVars
<1>18. ASSUME NEW q \in Requests, NEW r \in Runs, Stop(q, r) PROVE CarriedInv'
  BY <1>18, <1>0, NextIsUnused DEF CarriedInv, HandedOut, Stop, Row, Delisted, sweepVars,
     historyVars
<1>19. ASSUME Shutdown PROVE CarriedInv'
  BY <1>19, <1>0 DEF CarriedInv, HandedOut, Shutdown, sweepVars, historyVars
<1>20. ASSUME DisposeNext PROVE CarriedInv'
  BY <1>20, <1>0 DEF CarriedInv, HandedOut, DisposeNext, sweepVars, historyVars
<1>21. ASSUME ShutdownWaited PROVE CarriedInv'
  BY <1>21, <1>0, IdleTakes DEF CarriedInv, HandedOut, ShutdownWaited, sweepVars, historyVars,
     Awaited
<1>22. ASSUME ShutdownCleaned PROVE CarriedInv'
  BY <1>22, <1>0, CleanedTakes DEF CarriedInv, HandedOut, ShutdownCleaned, sweepVars,
     historyVars, Awaited
<1>23. ASSUME Close PROVE CarriedInv'
  BY <1>23, <1>0 DEF CarriedInv, HandedOut, Close, sweepVars, historyVars
<1>24. ASSUME Exit PROVE CarriedInv'
  BY <1>24, <1>0 DEF CarriedInv, HandedOut, Exit, sweepVars, historyVars
<1>25. ASSUME Crash PROVE CarriedInv'
  BY <1>25, <1>0, Names DEF Typed, RequestTyped, RequestType, RegistryTyped, CarriedInv,
     RoundsInv, HandedOut, Crash
<1>26. ASSUME UNCHANGED vars PROVE CarriedInv'
  BY <1>26, <1>0 DEF CarriedInv, HandedOut, vars, sweepVars, historyVars
<1> QED
  BY <1>1, <1>2, <1>3, <1>4, <1>5, <1>6, <1>7, <1>8, <1>9, <1>10, <1>11, <1>12, <1>13, <1>14,
     <1>15, <1>16, <1>17, <1>18, <1>19, <1>20, <1>21, <1>22, <1>23, <1>24, <1>25, <1>26 DEF Next

LEMMA SweepsInvStep == LifecycleInv /\ [Next]_vars => SweepsInv'
<1> SUFFICES ASSUME LifecycleInv, [Next]_vars PROVE SweepsInv'
  OBVIOUS
<1>0. Typed /\ SweepsInv /\ \A q \in Requests : told[q] \subseteq Requests
  BY DEF LifecycleInv, Typed, SweepTyped
\* Most steps have to do with no sweep, and take no request back from where it was done.
<1> DEFINE Aside ==
      /\ UNCHANGED sweepVars
      /\ \A p \in Requests :
           /\ request[p].at = "done" => request'[p].at = "done" /\ request'[p].run = request[p].run
           /\ request'[p].at = "listing" => request[p].at = "listing"
           /\ request[p].at = "removing" => request'[p].at = "removing"
<1>a. Aside => SweepsInv'
  BY <1>0 DEF SweepsInv, HandedOut, sweepVars
<1>1. ASSUME NEW q \in Requests, Create(q) PROVE Aside
  BY <1>1, <1>0, GoesKeeps, NextIsUnused DEF Aside, Create
<1>2. ASSUME NEW q \in Requests, Compose(q) PROVE Aside
  <2>1. UNCHANGED sweepVars /\ request[q].at \notin {"done", "removing"}
    BY <1>2, <1>0, ComposeGains DEF Compose
  <2>2. PICK at \in {"server", "grant", "image"} : Goes(q, at)
    BY <1>2, <1>0, ComposeGains
  <2> QED
    BY <2>1, <2>2, <1>0, GoesKeeps DEF Aside
<1>3. ASSUME NEW q \in Requests, ComposeRefused(q) PROVE Aside
  BY <1>3, <1>0, EndsKeeps DEF Aside, ComposeRefused
<1>4. ASSUME NEW q \in Requests, ComposeFails(q) PROVE Aside
  BY <1>4, <1>0, EndsKeeps DEF Aside, ComposeFails, Composing
<1>6. ASSUME NEW q \in Requests, CreateFails(q) PROVE Aside
  BY <1>6, <1>0, GoesKeeps DEF Aside, CreateFails
<1>9. ASSUME NEW q \in Requests, Resumed(q) PROVE Aside
  BY <1>9, <1>0, GoesKeeps DEF Aside, Resumed, Typed, RequestTyped, RequestType
<1>10. ASSUME NEW q \in Requests, ResumeFails(q) PROVE Aside
  BY <1>10, <1>0, GoesKeeps DEF Aside, ResumeFails
<1>11. ASSUME NEW q \in Requests, Lost(q) PROVE Aside
  BY <1>11, <1>0, EndsKeeps DEF Aside, Lost, Undoing
<1>12. ASSUME NEW q \in Requests, StopWaited(q) PROVE Aside
  BY <1>12, <1>0, GoesKeeps DEF Aside, StopWaited
<1>13. ASSUME NEW q \in Requests, Stopped(q) PROVE Aside
  BY <1>13, <1>0, EndsKeeps DEF Aside, Stopped
<1>14. ASSUME NEW q \in Requests, Provision(q) PROVE Aside
  BY <1>14, <1>0 DEF Aside, Provision
<1>15. ASSUME NEW q \in Requests, EndRound(q) PROVE Aside
  BY <1>15, <1>0 DEF Aside, EndRound
<1>17. ASSUME NEW q \in Requests, NEW r \in Runs, PostRound(q, r) PROVE Aside
  BY <1>17, <1>0, GoesKeeps, NextIsUnused DEF Aside, PostRound, Typed, RequestTyped, RequestType
<1>18. ASSUME NEW q \in Requests, NEW r \in Runs, Stop(q, r) PROVE Aside
  BY <1>18, <1>0, NextIsUnused DEF Aside, Stop, Typed, RequestTyped, RequestType
<1>19. ASSUME Shutdown PROVE Aside
  BY <1>19, <1>0 DEF Aside, Shutdown
<1>20. ASSUME DisposeNext PROVE Aside
  BY <1>20, <1>0 DEF Aside, DisposeNext
<1>21. ASSUME ShutdownWaited PROVE Aside
  BY <1>21, <1>0 DEF Aside, ShutdownWaited
<1>22. ASSUME ShutdownCleaned PROVE Aside
  BY <1>22, <1>0 DEF Aside, ShutdownCleaned
<1>23. ASSUME Close PROVE Aside
  BY <1>23, <1>0 DEF Aside, Close
<1>24. ASSUME Exit PROVE Aside
  BY <1>24, <1>0 DEF Aside, Exit
<1>26. ASSUME UNCHANGED vars PROVE Aside
  BY <1>26, <1>0 DEF Aside, vars, sweepVars
<1>5. ASSUME NEW q \in Requests, Created(q) PROVE SweepsInv'
  <2>1. /\ request[q].at = "image" /\ request'[q].at = "listing"
        /\ \A p \in Requests : p # q => request'[p] = request[p]
        /\ UNCHANGED found /\ found[q] = {} /\ Registered \subseteq spared'[q]
        /\ told'[q] = (Serving \cup busy) \ contested
        /\ \A p \in Requests : p # q => told'[p] = told[p] /\ spared'[p] = spared[p]
    BY <1>5, <1>0 DEF Created, Live, SweepsInv, Typed, RequestTyped, SweepTyped
  <2>2. ASSUME NEW c \in told'[q]
        PROVE  c \in Requests /\ HandedOut(c, request[c].run) /\ request[c].run \in Registered
    <3>1. CASE c \in Serving
      BY <3>1, Names DEF LifecycleInv, ServiceInv, HandedOut, Serving, Registered, Typed,
         RegistryTyped
    <3>2. CASE c \in busy \ contested
      BY <3>2, Names DEF LifecycleInv, RoundsInv, HandedOut, Served, Registered, Typed, SetsTyped
    <3> QED
      BY <2>1, <3>1, <3>2
  <2>3. ASSUME NEW p \in Requests, p # q, NEW c \in told'[p]
        PROVE  c # q /\ c \in Requests /\ request'[c] = request[c]
    BY <2>1, <2>3, <1>0 DEF SweepsInv, HandedOut
  <2> QED
    BY <2>1, <2>2, <2>3, <1>0 DEF SweepsInv, HandedOut
<1>7. ASSUME NEW q \in Requests, List(q) PROVE SweepsInv'
  BY <1>7, <1>0, GoesKeeps DEF SweepsInv, HandedOut, List, Typed, SweepTyped
<1>8. ASSUME NEW q \in Requests, Swept(q) PROVE SweepsInv'
  BY <1>8, <1>0, GoesKeeps DEF SweepsInv, HandedOut, Swept, Typed, SweepTyped
<1>16. ASSUME NEW q \in Requests, NEW r \in Runs, Sweep(q, r) PROVE SweepsInv'
  BY <1>16, <1>0 DEF SweepsInv, HandedOut, Sweep, Typed, SweepTyped
<1>25. ASSUME Crash PROVE SweepsInv'
  BY <1>25 DEF SweepsInv, Crash
<1> QED
  BY <1>a, <1>1, <1>2, <1>3, <1>4, <1>5, <1>6, <1>7, <1>8, <1>9, <1>10, <1>11, <1>12, <1>13,
     <1>14, <1>15, <1>16, <1>17, <1>18, <1>19, <1>20, <1>21, <1>22, <1>23, <1>24, <1>25, <1>26
     DEF Next

LEMMA ReachInvStep == LifecycleInv /\ [Next]_vars => ReachInv'
<1> SUFFICES ASSUME LifecycleInv, [Next]_vars PROVE ReachInv'
  OBVIOUS
<1>0. Typed /\ StagesInv /\ StopsInv /\ ReachInv /\ ServiceInv /\ ShutdownInv /\ Awaited
  BY AwaitedIsNamed DEF LifecycleInv
<1>1. ASSUME NEW q \in Requests, Create(q) PROVE ReachInv'
  BY <1>1, <1>0, GoesKeeps, NextIsUnused DEF ReachInv, Reachable, HandedOut, Composing,
     Sweeping, Undoing, Stopping, Create, sweepVars, historyVars
<1>2. ASSUME NEW q \in Requests, Compose(q) PROVE ReachInv'
  BY <1>2, <1>0, GoesKeeps, ComposeGains DEF ReachInv, Reachable, HandedOut, Composing,
     Sweeping, Undoing, Stopping, sweepVars, historyVars
<1>3. ASSUME NEW q \in Requests, ComposeRefused(q) PROVE ReachInv'
  BY <1>3, <1>0, EndsKeeps, Names DEF Typed, RequestTyped, RequestType, RegistryTyped, ReachInv,
     Reachable, StagesInv, StopsInv, ServiceInv, HandedOut, Composing, Sweeping, Undoing,
     Stopping, ComposeRefused, sweepVars, historyVars
<1>4. ASSUME NEW q \in Requests, ComposeFails(q) PROVE ReachInv'
  BY <1>4, <1>0, EndsKeeps, Names DEF Typed, RegistryTyped, RequestTyped, SetsTyped, RunsTyped,
     HoldsTyped, RowsTyped, CarryingTyped, ShutdownTyped, ReachInv, Reachable, StagesInv,
     StopsInv, ServiceInv, HandedOut, Composing, Sweeping, Undoing, Stopping, ComposeFails,
     sweepVars, historyVars
<1>5. ASSUME NEW q \in Requests, Created(q) PROVE ReachInv'
  BY <1>5, <1>0, Names DEF Typed, RequestTyped, RequestType, RegistryTyped, ReachInv, Reachable,
     StagesInv, StopsInv, ServiceInv, HandedOut, Composing, Sweeping, Undoing, Stopping,
     Created, Row, historyVars
<1>6. ASSUME NEW q \in Requests, CreateFails(q) PROVE ReachInv'
  BY <1>6, <1>0, GoesKeeps DEF ReachInv, Reachable, HandedOut, Composing, Sweeping, Undoing,
     Stopping, CreateFails, sweepVars, historyVars
<1>7. ASSUME NEW q \in Requests, List(q) PROVE ReachInv'
  BY <1>7, <1>0, GoesKeeps DEF ReachInv, Reachable, HandedOut, Composing, Sweeping, Undoing,
     Stopping, List, historyVars
<1>8. ASSUME NEW q \in Requests, Swept(q) PROVE ReachInv'
  <2>1. /\ request[q].at = "removing" /\ request[q].run \in Runs
        /\ status[request[q].run] \in {"active", "stopped"}
    BY <1>8, <1>0 DEF Swept, Typed, RequestTyped, RequestType, RowsTyped, StagesInv, Sweeping
  <2>2. UNCHANGED <<status, holds, shutdown>> /\ Goes(q, "done") /\ Register(q, request[q].run)
    BY <1>8 DEF Swept
  <2>3. /\ registry'[request[q].run] = q /\ q # Nobody
        /\ \A r \in Runs : r # request[q].run => registry'[r] = registry[r]
        /\ revived \subseteq revived'
    BY <2>1, <2>2, <1>0, Names DEF Register, Typed, RegistryTyped
  <2>4. /\ contested \subseteq contested'
        /\ \A c \in Requests : c = registry[request[q].run] => c \in contested'
        /\ status[request[q].run] = "stopped" => q \in contested'
    BY <1>8, Names DEF Swept
  <2>5. \A p \in Requests : p # q => request'[p] = request[p]
    BY <2>2, <1>0 DEF Goes, Typed, RequestTyped
  <2>6. request'[q].at = "done" /\ request'[q].run = request[q].run
    BY <2>2, <1>0, GoesKeeps
  <2>7. ASSUME NEW c \in Requests, holds'[c] # {} PROVE Reachable(c)' \/ c \in contested'
    <3>1. CASE c = q
      BY <3>1, <2>1, <2>2, <2>3, <2>4, <2>6 DEF Reachable
    <3>2. CASE c # q
      <4>1. Reachable(c) \/ c \in contested
        BY <2>2, <2>7, <1>0 DEF ReachInv
      <4>2. CASE \E p \in Requests : request[p].at \in Stopping /\ request[p].on = c
        <5>1. PICK p \in Requests : request[p].at \in Stopping /\ request[p].on = c
          BY <4>2
        <5> QED
          BY <5>1, <2>1, <2>5 DEF Reachable, Stopping
      <4>3. CASE registry[request[c].run] = c
                   /\ (status[request[c].run] = "active" \/ c \in revived)
        <5>1. request[c].run \in Runs \cup {Nobody}
          BY <1>0 DEF Typed, RequestTyped, RequestType
        <5>2. CASE request[c].run = request[q].run
          BY <4>3, <5>2, <2>4
        <5>3. CASE request[c].run # request[q].run /\ request[c].run \in Runs
          BY <4>3, <5>3, <3>2, <2>2, <2>3, <2>5 DEF Reachable
        <5>4. CASE request[c].run = Nobody
          BY <4>3, <5>4, <3>2, <1>0, <2>1, <2>2, <2>3, <2>5, Names
             DEF Reachable, Register, Typed, RegistryTyped
        <5> QED
          BY <5>1, <5>2, <5>3, <5>4
      <4> QED
        BY <4>1, <4>2, <4>3, <3>2, <2>2, <2>4, <2>5 DEF Reachable
    <3> QED
      BY <3>1, <3>2
  <2> QED
    BY <2>7 DEF ReachInv
<1>9. ASSUME NEW q \in Requests, Resumed(q) PROVE ReachInv'
  <2>1. /\ request[q].at = "image" /\ request[q].run \in Runs
        /\ status[request[q].run] \in {"active", "stopped"}
    BY <1>9, <1>0 DEF Resumed, Typed, RequestTyped, RequestType, RowsTyped, StagesInv
  <2>2. UNCHANGED <<status, holds, shutdown, contested>>
    BY <1>9 DEF Resumed, historyVars
  <2>3. CASE Registers(q)
    <3>1. Register(q, request[q].run) /\ Goes(q, "done")
      BY <1>9, <2>3 DEF Resumed
    <3>2. /\ registry'[request[q].run] = q /\ q # Nobody
          /\ \A r \in Runs : r # request[q].run => registry'[r] = registry[r]
          /\ revived \subseteq revived'
          /\ status[request[q].run] = "stopped" => q \in revived'
      BY <3>1, <2>1, <1>0, Names DEF Register, Typed, RegistryTyped
    <3>3. registry[request[q].run] = Nobody
      BY <2>3 DEF Registers
    <3>4. \A c \in Requests : holds[c] # {} => Reachable(c)' \/ c \in contested
      <4> SUFFICES ASSUME NEW c \in Requests, holds[c] # {}, c \notin contested
                   PROVE  Reachable(c)'
        OBVIOUS
      <4>1. /\ \A p \in Requests : request'[p].run = request[p].run
            /\ \A p \in Requests : request'[p].on = request[p].on
            /\ \A p \in Requests : p # q => request'[p].at = request[p].at
        BY <1>0, <3>1, GoesKeeps
      <4>2. Reachable(c)
        BY <1>0 DEF ReachInv
      <4>3. CASE c = q
        BY <2>1, <2>2, <3>2, <4>1, <4>3 DEF Reachable
      <4>4. CASE c # q /\ request[c].at \in Composing \cup Sweeping \cup Undoing
        BY <4>1, <4>4 DEF Reachable
      <4>5. CASE \E p \in Requests : request[p].at \in Stopping /\ request[p].on = c
        BY <2>1, <4>1, <4>5 DEF Reachable, Stopping
      <4>6. CASE shutdown.on = c
        BY <2>2, <4>6 DEF Reachable
      <4>7. CASE registry[request[c].run] = c
                   /\ (status[request[c].run] = "active" \/ c \in revived)
        <5>1. request[c].run \in Runs \cup {Nobody}
          BY <1>0 DEF Typed, RequestTyped, RequestType
        <5>2. request[c].run # request[q].run
          BY <3>3, <4>7, Names
        <5>3. CASE request[c].run \in Runs
          BY <2>2, <3>2, <4>1, <4>7, <5>2, <5>3 DEF Reachable
        <5>4. CASE request[c].run = Nobody
          BY <3>1, <1>0, <2>1, <2>2, <3>2, <4>1, <4>7, <5>2, <5>4, Names
             DEF Reachable, Register, Typed, RegistryTyped
        <5> QED
          BY <5>1, <5>3, <5>4
      <4> QED
        BY <4>2, <4>3, <4>4, <4>5, <4>6, <4>7 DEF Reachable
    <3> QED
      BY <2>2, <3>4 DEF ReachInv
  <2>4. CASE ~Registers(q)
    <3>1. /\ request' = [request EXCEPT ![q].at = "losing", ![q].on = registry[request[q].run]]
          /\ UNCHANGED <<registry, revived>>
      BY <1>9, <2>4 DEF Resumed
    <3>2. /\ request'[q].at = "losing"
          /\ \A p \in Requests : p # q => request'[p] = request[p]
          /\ \A p \in Requests : request'[p].run = request[p].run
      <4>1. \A p \in Requests : p # q => request'[p] = request[p]
        BY <3>1, <1>0 DEF Typed, RequestTyped
      <4>2. /\ request[q] \in RequestType
            /\ request'[q] = [request[q] EXCEPT !.at = "losing", !.on = registry[request[q].run]]
        BY <3>1, <1>0 DEF Typed, RequestTyped
      <4>3. request'[q].at = "losing" /\ request'[q].run = request[q].run
        BY <4>2, RecordKeeps
      <4> QED
        BY <4>1, <4>3
    <3>3. \A c \in Requests : request[c].at \in Composing \cup Sweeping \cup Undoing
                               => request'[c].at \in Composing \cup Sweeping \cup Undoing
      BY <3>2 DEF Undoing
    <3>4. \A p \in Requests : request[p].at \in Stopping
                               => request'[p].at \in Stopping /\ request'[p].on = request[p].on
      BY <2>1, <3>2 DEF Stopping
    <3> SUFFICES ASSUME NEW c \in Requests, holds'[c] # {}
                 PROVE  Reachable(c)' \/ c \in contested'
      BY DEF ReachInv
    <3>5. Reachable(c) \/ c \in contested
      BY <1>0, <2>2 DEF ReachInv
    <3>6. CASE request[c].at \in Composing \cup Sweeping \cup Undoing
      BY <3>3, <3>6 DEF Reachable
    <3>7. CASE \E p \in Requests : request[p].at \in Stopping /\ request[p].on = c
      BY <3>4, <3>7 DEF Reachable
    <3>8. CASE shutdown.on = c
      BY <2>2, <3>8 DEF Reachable
    <3>9. CASE /\ registry[request[c].run] = c
               /\ status[request[c].run] = "active" \/ c \in revived
      BY <2>2, <3>1, <3>2, <3>9 DEF Reachable
    <3> QED
      BY <2>2, <3>5, <3>6, <3>7, <3>8, <3>9 DEF Reachable
  <2> QED
    BY <2>3, <2>4
<1>10. ASSUME NEW q \in Requests, ResumeFails(q) PROVE ReachInv'
  BY <1>10, <1>0, GoesKeeps DEF ReachInv, Reachable, HandedOut, Composing, Sweeping, Undoing,
     Stopping, ResumeFails, sweepVars, historyVars
<1>11. ASSUME NEW q \in Requests, Lost(q) PROVE ReachInv'
  BY <1>11, <1>0, EndsKeeps, StartsAtMost, Names DEF Typed, RegistryTyped, RequestTyped,
     SetsTyped, RunsTyped, HoldsTyped, RowsTyped, CarryingTyped, ShutdownTyped, Awaited,
     ReachInv, Reachable, StagesInv, StopsInv, ServiceInv, HandedOut, Composing, Sweeping,
     Undoing, Stopping, Lost, sweepVars, historyVars
<1>12. ASSUME NEW q \in Requests, StopWaited(q) PROVE ReachInv'
  BY <1>12, <1>0, GoesKeeps, IdleTakes DEF ReachInv, Reachable, HandedOut, Composing, Sweeping,
     Undoing, Stopping, StopWaited, sweepVars, historyVars, Awaited
<1>13. ASSUME NEW q \in Requests, Stopped(q) PROVE ReachInv'
  BY <1>13, <1>0, EndsKeeps, CleanedTakes, Names DEF Typed, RequestTyped, RequestType,
     RegistryTyped, Awaited, ReachInv, Reachable, StagesInv, StopsInv, ServiceInv, HandedOut,
     Composing, Sweeping, Undoing, Stopping, Stopped, sweepVars, historyVars
<1>14. ASSUME NEW q \in Requests, Provision(q) PROVE ReachInv'
  BY <1>14, <1>0 DEF ReachInv, Reachable, HandedOut, Composing, Sweeping, Undoing, Stopping,
     Provision, sweepVars, historyVars
<1>15. ASSUME NEW q \in Requests, EndRound(q) PROVE ReachInv'
  BY <1>15, <1>0 DEF ReachInv, Reachable, HandedOut, Composing, Sweeping, Undoing, Stopping,
     EndRound, sweepVars, historyVars
<1>16. ASSUME NEW q \in Requests, NEW r \in Runs, Sweep(q, r) PROVE ReachInv'
  BY <1>16, <1>0 DEF ReachInv, Reachable, HandedOut, Composing, Sweeping, Undoing, Stopping,
     Sweep, historyVars
<1>17. ASSUME NEW q \in Requests, NEW r \in Runs, PostRound(q, r) PROVE ReachInv'
  <2>1. request[q].at = "unused" /\ holds[q] = {}
    BY <1>17, <1>0, NextIsUnused DEF StagesInv, PostRound
  <2>2. \A p \in Requests : p # q => request'[p] = request[p]
    BY <1>17, <1>0 DEF PostRound, Goes, Typed, RequestTyped
  <2>3. UNCHANGED <<status, registry, holds, shutdown, revived, contested>>
    BY <1>17 DEF PostRound, historyVars
  <2>4. \A c \in Requests : holds'[c] # {} =>
           c # q /\ (request[c].at \in Composing \cup Sweeping \cup Undoing
                       => request'[c].at \in Composing \cup Sweeping \cup Undoing)
    BY <2>1, <2>2, <2>3
  <2>5. \A p \in Requests : request[p].at \in Stopping
                              => request'[p].at \in Stopping /\ request'[p].on = request[p].on
    BY <2>1, <2>2 DEF Stopping
  <2> QED
    BY <1>0, <2>2, <2>3, <2>4, <2>5 DEF ReachInv, Reachable
<1>18. ASSUME NEW q \in Requests, NEW r \in Runs, Stop(q, r) PROVE ReachInv'
  BY <1>18, <1>0, NextIsUnused, Names DEF Typed, RequestTyped, RequestType, RegistryTyped,
     ReachInv, Reachable, StagesInv, StopsInv, ServiceInv, HandedOut, Composing, Sweeping,
     Undoing, Stopping, Stop, Row, Delisted, sweepVars, historyVars
<1>19. ASSUME Shutdown PROVE ReachInv'
  BY <1>19, <1>0, Names DEF Typed, RequestTyped, RequestType, RegistryTyped, ShutdownType,
     ShutdownInv, ReachInv, Reachable, StagesInv, StopsInv, ServiceInv, HandedOut, Composing,
     Sweeping, Undoing, Stopping, Shutdown, Serving, Registered, sweepVars, historyVars
<1>20. ASSUME DisposeNext PROVE ReachInv'
  BY <1>20, <1>0, Names DEF Typed, RequestTyped, RequestType, RegistryTyped, ShutdownType,
     ShutdownInv, ReachInv, Reachable, StagesInv, StopsInv, ServiceInv, HandedOut, Composing,
     Sweeping, Undoing, Stopping, DisposeNext, sweepVars, historyVars
<1>21. ASSUME ShutdownWaited PROVE ReachInv'
  BY <1>21, <1>0, IdleTakes DEF ReachInv, Reachable, HandedOut, Composing, Sweeping, Undoing,
     Stopping, ShutdownWaited, sweepVars, historyVars, Awaited
<1>22. ASSUME ShutdownCleaned PROVE ReachInv'
  BY <1>22, <1>0, CleanedTakes DEF ReachInv, Reachable, HandedOut, Composing, Sweeping, Undoing,
     Stopping, ShutdownCleaned, sweepVars, historyVars, Awaited
<1>23. ASSUME Close PROVE ReachInv'
  BY <1>23, <1>0 DEF ReachInv, Reachable, HandedOut, Composing, Sweeping, Undoing, Stopping,
     Close, sweepVars, historyVars
<1>24. ASSUME Exit PROVE ReachInv'
  BY <1>24, <1>0 DEF ReachInv, Reachable, HandedOut, Composing, Sweeping, Undoing, Stopping,
     Exit, sweepVars, historyVars
<1>25. ASSUME Crash PROVE ReachInv'
  BY <1>25, <1>0 DEF ReachInv, Reachable, HandedOut, Composing, Sweeping, Undoing, Stopping,
     Crash
<1>26. ASSUME UNCHANGED vars PROVE ReachInv'
  BY <1>26, <1>0 DEF ReachInv, Reachable, HandedOut, Composing, Sweeping, Undoing, Stopping,
     vars, sweepVars, historyVars
<1> QED
  BY <1>1, <1>2, <1>3, <1>4, <1>5, <1>6, <1>7, <1>8, <1>9, <1>10, <1>11, <1>12, <1>13, <1>14,
     <1>15, <1>16, <1>17, <1>18, <1>19, <1>20, <1>21, <1>22, <1>23, <1>24, <1>25, <1>26 DEF Next

-----------------------------------------------------------------------------
(* The theorems. *)

LEMMA LifecycleStep == LifecycleInv /\ [Next]_vars => LifecycleInv'
  BY TypedStep, StagesInvStep, ServiceInvStep, LosersInvStep, RoundsInvStep, StopsInvStep,
     ShutdownInvStep, CarriedInvStep, SweepsInvStep, ReachInvStep DEF LifecycleInv

LEMMA LifecycleInit == Init => LifecycleInv
<1> SUFFICES ASSUME Init PROVE LifecycleInv
  OBVIOUS
<1>1. /\ request = [q \in Requests |-> [run |-> Nobody, on |-> Nobody, at |-> "unused"]]
      /\ registry = [r \in Runs |-> Nobody] /\ holds = [q \in Requests |-> {}]
      /\ busy = {} /\ disposing = {} /\ revived = {} /\ contested = {}
      /\ crashes = 0
      /\ shutdown = [at |-> "up", list |-> {}, todo |-> {}, on |-> Nobody]
  BY DEF Init
<1>2. \A r \in Runs : carrying[r] \in {Nobody, Leftover}
  BY DEF Init
<1>3. RequestTyped /\ RegistryTyped /\ HoldsTyped /\ RunsTyped
  BY <1>1 DEF RequestTyped, RequestType, Ats, RegistryTyped, HoldsTyped, RunsTyped
<1>4. RowsTyped /\ SweepTyped /\ CarryingTyped
  BY DEF Init, RowsTyped, SweepTyped, CarryingTyped
<1>5. ShutdownTyped /\ SetsTyped
  BY <1>1, LifecycleAssumption DEF ShutdownTyped, ShutdownType, SetsTyped
<1>6. StagesInv /\ LosersInv /\ StopsInv
  BY <1>1, Names DEF StagesInv, LosersInv, StopsInv, Stopping, Sweeping
<1>7. ServiceInv /\ RoundsInv /\ CarriedInv /\ SweepsInv /\ ReachInv
  BY <1>1, <1>2, Names DEF Init, ServiceInv, RoundsInv, CarriedInv, SweepsInv, ReachInv
<1>8. ShutdownInv
  BY <1>1 DEF ShutdownInv
<1> QED
  BY <1>3, <1>4, <1>5, <1>6, <1>7, <1>8 DEF LifecycleInv, Typed

LEMMA LifecycleHolds == Spec => []LifecycleInv
  BY LifecycleInit, LifecycleStep, PTL DEF Spec

\* Every reachable state of a process and its runs is well typed.
THEOREM TypeCorrect == Spec => []TypeOK
<1>1. LifecycleInv => TypeOK
  BY TypedMeansTypeOK DEF LifecycleInv
<1> QED
  BY <1>1, LifecycleHolds, PTL

\* No composition is lost while it holds anything, and a shutdown that ends has made every
\* run it listed give everything back (disposeRunRecord, resumeRun's loser, composeRun's
\* failures, shutdown).
THEOREM NothingIsOrphaned == Spec => []NothingOrphaned
<1>1. LifecycleInv => NothingOrphaned
  <2> SUFFICES ASSUME LifecycleInv PROVE NothingOrphaned
    OBVIOUS
  <2>1. \A c \in Requests : holds[c] # {} => Reachable(c) \/ c \in contested
    BY DEF LifecycleInv, ReachInv
  <2>2. \A r \in Runs : carrying[r] \in Requests => holds[carrying[r]] # {}
    BY DEF LifecycleInv, CarriedInv
  <2>3. ASSUME shutdown.at = "exited", NEW c \in shutdown.list
        PROVE  holds[c] = {} /\ c \notin busy
    <3>1. c \in Requests
      BY DEF LifecycleInv, Typed, ShutdownTyped, ShutdownType
    <3>2. shutdown.on = Nobody /\ shutdown.todo = {}
      BY <2>3 DEF LifecycleInv, ShutdownInv
    <3> QED
      BY <2>3, <3>1, <3>2, Names DEF LifecycleInv, ShutdownInv
  <2> QED
    BY <2>1, <2>2, <2>3 DEF NothingOrphaned
<1> QED
  BY <1>1, LifecycleHolds, PTL

\* A round in flight loses its containers to no sweep that was told of its composition, or
\* had to be, and to nothing else than a sweep (sweepOrphanContainers, and the order of
\* disposeRunRecord).  Of what registers after the telling it says nothing.
THEOREM SweepsSpareTheLiving == Spec => SparesTheLiving
<1> DEFINE
      Taken(r) == carrying[r] \in busy \cap busy' /\ carrying'[r] = Nobody
      Excused(r) == \E q \in Requests : r \in found[q] \ found'[q] /\ carrying[r] \notin told[q]
      Step == \A r \in Runs : Taken(r) => Excused(r)
<1>1. LifecycleInv /\ [Next]_vars => [Step]_vars
  <2> SUFFICES ASSUME LifecycleInv, [Next]_vars, NEW r \in Runs, Taken(r) PROVE Excused(r)
    OBVIOUS
  <2>0. Typed /\ Awaited /\ carrying[r] \in Requests /\ carrying'[r] # carrying[r]
    BY AwaitedIsNamed, Names DEF LifecycleInv, Typed, SetsTyped
  <2>1. ASSUME NEW q \in Requests, NEW x \in Runs, Sweep(q, x) PROVE Excused(r)
    <3>1. x = r /\ r \in found[q] \ found'[q]
      BY <2>0, <2>1 DEF Sweep, Typed, CarryingTyped, SweepTyped
    <3>2. carrying[r] \notin told[q]
      BY <2>0, <3>1 DEF LifecycleInv, CarriedInv, SweepsInv, HandedOut
    <3> QED
      BY <3>1, <3>2
  <2>2. ASSUME NEW q \in Requests, Provision(q) PROVE FALSE
    BY <2>2, <2>0, Names DEF Provision, Typed, CarryingTyped
  <2>3. ASSUME NEW q \in Requests, EndRound(q) PROVE FALSE
    BY <2>3, <2>0, ClearedTakes DEF EndRound
  <2>4. ASSUME NEW q \in Requests, StopWaited(q) PROVE FALSE
    BY <2>4, <2>0, IdleTakes DEF StopWaited, Awaited, Stopping
  <2>5. ASSUME NEW q \in Requests, Stopped(q) PROVE FALSE
    BY <2>5, <2>0, CleanedTakes DEF Stopped, Awaited, Stopping, LifecycleInv, StopsInv
  <2>6. ASSUME ShutdownWaited PROVE FALSE
    BY <2>6, <2>0, IdleTakes DEF ShutdownWaited, Awaited
  <2>7. ASSUME ShutdownCleaned PROVE FALSE
    BY <2>7, <2>0, CleanedTakes, Names DEF ShutdownCleaned, Awaited, LifecycleInv, ShutdownInv
  <2>8. ASSUME Crash PROVE FALSE
    BY <2>8 DEF Crash
  <2>9. ASSUME NEW q \in Requests,
               \/ Create(q) \/ Compose(q) \/ ComposeRefused(q) \/ ComposeFails(q)
               \/ Created(q) \/ CreateFails(q) \/ List(q) \/ Swept(q)
               \/ Resumed(q) \/ ResumeFails(q) \/ Lost(q)
               \/ \E x \in Runs : PostRound(q, x) \/ Stop(q, x)
        PROVE  FALSE
    BY <2>9, <2>0 DEF Create, Compose, ComposeRefused, ComposeFails, Created, CreateFails, List,
       Swept, Resumed, ResumeFails, Lost, PostRound, Stop
  <2>10. ASSUME Shutdown \/ DisposeNext \/ Close \/ Exit \/ UNCHANGED vars PROVE FALSE
    BY <2>10, <2>0 DEF Shutdown, DisposeNext, Close, Exit, vars
  <2> QED
    BY <2>1, <2>2, <2>3, <2>4, <2>5, <2>6, <2>7, <2>8, <2>9, <2>10 DEF Next
<1> QED
  BY <1>1, LifecycleHolds, PTL DEF Spec, SparesTheLiving

=============================================================================
