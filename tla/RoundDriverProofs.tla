-------------------------- MODULE RoundDriverProofs --------------------------
(***************************************************************************)
(* What RoundDriver promises for every population, concurrency, hosting,   *)
(* event and number of rounds.                                             *)
(***************************************************************************)
EXTENDS RoundDriver, TLAPS

-----------------------------------------------------------------------------
(* Typing. *)

\* Changing the latest row's status leaves the earlier rows, and their number, alone.
LEMMA StatusType ==
    ASSUME rounds \in Seq(Statuses), NEW s \in Statuses
    PROVE  /\ WithStatus(s) \in Seq(Statuses)
           /\ Len(WithStatus(s)) = Last
           /\ \A i \in DOMAIN rounds : WithStatus(s)[i] = IF i = Last THEN s ELSE rounds[i]
<1> DEFINE new == WithStatus(s)
<1>1. rounds \in [1..Len(rounds) -> Statuses] /\ Len(rounds) \in Nat
  OBVIOUS
<1>2. new \in [1..Len(rounds) -> Statuses]
  BY <1>1 DEF WithStatus
<1>3. new \in Seq(Statuses) /\ Len(new) = Len(rounds)
  BY <1>1, <1>2
<1>4. \A i \in 1..Len(rounds) : new[i] = IF i = Len(rounds) THEN s ELSE rounds[i]
  BY <1>1 DEF WithStatus, Last
<1>5. DOMAIN rounds = 1..Len(rounds)
  OBVIOUS
<1> QED
  BY <1>3, <1>4, <1>5 DEF Last

\* Whoever leaves the locals of the round alone leaves them typed.
LEMMA PoolKept == PoolType /\ UNCHANGED pool => PoolType'
BY DEF PoolType, pool

\* The empty locals a round starts from are typed.
LEMMA FreshPoolType == FreshPool => PoolType'
<1> SUFFICES ASSUME FreshPool PROVE PoolType'
  OBVIOUS
<1>1. Seeded \in Contents
  BY PopulationAssumption DEF Seeded, Contents, AllSizes
<1> QED
  BY <1>1, PopulationAssumption DEF FreshPool, PoolType, Captures, Rows, Results

\* The criteria are written back only once they were read.
CriteriaRead == pc = "criteria" => judgedWith # "none"

TypeInv == TypeOK /\ CriteriaRead

\* What the pools, the runner and the workers do: no row, flag or criteria change.
WorkStep ==
    \/ Provision \/ ProvisionFails \/ Skip \/ Dispatch \/ DispatchUntracked \/ Collect
    \/ \E a \in Agents :
         \/ DriverTimesOut(a) \/ Quiesce(a) \/ Capture(a)
         \/ LateReturn(a) \/ Confirm(a) \/ SessionEnds(a) \/ Write(a)
         \/ \E r \in {"ok", "no_submission", "error", "timeout"} : Return(a, r)

control == <<rounds, pc, aborted, lastError, abortAt, source, judgedWith, overridden, cleanup>>

\* The workers' part of the round stays out of its control.
LEMMA WorkKeepsControl == WorkStep \/ UNCHANGED vars => UNCHANGED control
BY DEF WorkStep, Provision, ProvisionFails, Skip, Dispatch, DispatchUntracked, Pull, Collect,
       DriverTimesOut, Quiesce, Capture, LateReturn, Confirm, SessionEnds, Write, Return,
       Settle, vars, manager, criteria, control

\* Seen from the control variables, a step is one of these, or nothing.
LEMMA Steppings ==
    ASSUME [Next]_vars
    PROVE  \/ UNCHANGED control
           \/ Reconcile \/ CreateRow \/ RefusePlan \/ EndPrepare \/ EndRun \/ EndCollect
           \/ Released \/ CriteriaResolved \/ Scored \/ Complete \/ PhaseFails \/ Abandoned
           \/ StartRound \/ Abort \/ Override \/ Crash \/ Restart
BY WorkKeepsControl DEF WorkStep, Next, Driver, Environment

\* The gate is a flag whatever a returning agent makes of it, and the hosting is fixed.
LEMMA GateType == TypeInv /\ [Next]_vars => exhausted' \in BOOLEAN /\ setup' = setup
<1> SUFFICES ASSUME TypeInv, [Next]_vars PROVE exhausted' \in BOOLEAN /\ setup' = setup
  OBVIOUS
<1>1. exhausted \in BOOLEAN
  BY DEF TypeInv, TypeOK, ControlType
<1> QED
  BY <1>1 DEF Next, Driver, Environment, vars, Reconcile, CreateRow, RefusePlan,
     Provision, ProvisionFails, EndPrepare, Skip, Dispatch, DispatchUntracked, Pull, EndRun,
     DriverTimesOut, Quiesce, Capture, Collect, EndCollect, Released, CriteriaResolved,
     Scored, Complete, PhaseFails, Abandoned, StartRound, Abort, Override, Crash, Restart,
     Return, Settle, LateReturn, Confirm, SessionEnds, Write

\* The control variables stay typed, step by step of the driver and the operator.
LEMMA ControlTypeStep == TypeInv /\ [Next]_vars => (ControlType /\ CriteriaRead)'
<1> SUFFICES ASSUME TypeInv, [Next]_vars PROVE (ControlType /\ CriteriaRead)'
  OBVIOUS
<1> USE DEF TypeInv, TypeOK, CriteriaRead
<1>1. exhausted' \in BOOLEAN /\ setup' = setup
  BY GateType
<1>2. CASE UNCHANGED control
  BY <1>1, <1>2 DEF control, ControlType
<1>3. CASE CreateRow
  <2>1. exhausted' \in BOOLEAN /\ source' \in Sources
    BY <1>3 DEF CreateRow, ControlType, Sources
  <2>2. rounds' \in Seq(Statuses)
    BY <1>3 DEF CreateRow, ControlType, Statuses
  <2> QED
    BY <1>3, <2>1, <2>2 DEF CreateRow, manager, ControlType, Steps
<1>4. CASE EndPrepare
  BY <1>4, StatusType DEF EndPrepare, manager, criteria, runner, ControlType, Steps,
      Sources, Statuses
<1>5. CASE EndRun
  BY <1>5, StatusType DEF EndRun, manager, criteria, runner, ControlType, Steps,
      Sources, Statuses
<1>6. CASE EndCollect
  <2>1. CASE aborted
    <3>1. rounds' \in Seq(Statuses)
      BY <1>6, <2>1, StatusType DEF EndCollect, EndFailed, ControlType, Statuses
    <3> QED
      BY <1>6, <2>1, <3>1 DEF EndCollect, EndFailed, ClearFlag, criteria, pool, runner,
          ControlType, Steps
  <2>2. CASE ~aborted
    BY <1>6, <2>2 DEF EndCollect, manager, criteria, pool, runner, ControlType, Steps
  <2> QED
    BY <2>1, <2>2
<1>7. CASE Released
  BY <1>7, StatusType DEF Released, manager, ControlType, Steps, Sources, Statuses,
      Effective
<1>8. CASE CriteriaResolved
  BY <1>8 DEF CriteriaResolved, manager, pool, runner, ControlType, Steps, Sources,
      CriteriaRead
<1>9. CASE Scored
  <2>1. CASE aborted
    BY <1>9, <2>1, StatusType DEF Scored, EndFailed, ClearFlag, criteria, ControlType,
      Steps, Statuses
  <2>2. CASE ~aborted
    BY <1>9, <2>2, StatusType DEF Scored, manager, criteria, ControlType, Steps, Statuses
  <2> QED
    BY <2>1, <2>2
<1>10. CASE Complete
  <2>1. rounds' \in Seq(Statuses)
    BY <1>10, StatusType DEF Complete, ControlType, Statuses
  <2> QED
    BY <1>10, <2>1 DEF Complete, ClearFlag, criteria, pool, runner, ControlType, Steps
<1>11. CASE PhaseFails
  BY <1>11, StatusType DEF PhaseFails, EndFailed, ClearFlag, criteria, pool, runner,
      ControlType, Steps, Sources, Statuses
<1>12. CASE Abandoned
  BY <1>12 DEF Abandoned, ClearFlag, criteria, ControlType, Steps
<1>13. CASE StartRound
  BY <1>13 DEF StartRound, ClearFlag, criteria, pool, runner, ControlType, Steps,
      Sources
<1>14. CASE Reconcile
  BY <1>14 DEF Reconcile, Refuse, criteria, pool, ControlType, Steps, Sources
<1>15. CASE RefusePlan
  BY <1>15 DEF RefusePlan, Refuse, criteria, pool, runner, ControlType, Steps, Sources
<1>16. CASE Abort
  BY <1>16 DEF Abort, criteria, pool, runner, ControlType, Steps, Sources
<1>17. CASE Override
  BY <1>17 DEF Override, manager, pool, runner, ControlType, Steps, Sources
<1>18. CASE Crash
  BY <1>18 DEF Crash, ClearFlag, ControlType, Steps, Sources
<1>19. CASE Restart
  BY <1>19 DEF Restart, manager, criteria, pool, runner, ControlType, Steps, Sources,
      Statuses
<1> QED
  BY Steppings, <1>1, <1>2, <1>3, <1>4, <1>5, <1>6, <1>7, <1>8, <1>9, <1>10, <1>11,
     <1>12, <1>13, <1>14, <1>15, <1>16, <1>17, <1>18, <1>19

\* Seen from the locals of the round, a step is one of these, a reset, or nothing.
LEMMA PoolSteppings ==
    ASSUME [Next]_vars
    PROVE  \/ UNCHANGED pool \/ FreshPool
           \/ Provision \/ ProvisionFails \/ EndPrepare \/ Skip \/ Dispatch \/ DispatchUntracked
           \/ EndRun \/ Collect
           \/ \E a \in Agents :
                \/ DriverTimesOut(a) \/ Quiesce(a) \/ Capture(a) \/ Write(a)
                \/ \E r \in {"ok", "no_submission", "error", "timeout"} : Return(a, r)
BY DEF Next, Driver, Environment, vars, Reconcile, CreateRow, RefusePlan, EndCollect, Released,
   CriteriaResolved, Scored, Complete, PhaseFails, Abandoned, StartRound, Abort, Override,
   Crash, Restart, LateReturn, Confirm, SessionEnds

\* The locals of the round stay typed, step by step of the pools.
LEMMA PoolTypeStep == TypeInv /\ [Next]_vars => PoolType'
<1> SUFFICES ASSUME TypeInv, [Next]_vars PROVE PoolType'
  OBVIOUS
<1> USE DEF TypeInv, TypeOK
<1>1. CASE UNCHANGED pool
  BY <1>1, PoolKept
<1>2. CASE FreshPool
  BY <1>2, FreshPoolType
<1>3. CASE Provision
  <2>1. cursor \in Agents /\ cursor + 1 \in 1..(Population + 1)
    BY <1>3, PopulationAssumption DEF Provision, PoolType, Agents
  <2>2. Seeded \in Contents
    BY PopulationAssumption DEF Seeded, Contents, AllSizes
  <2> QED
    BY <1>3, <2>1, <2>2 DEF Provision, PoolType
<1>4. CASE ProvisionFails
  BY <1>4, PopulationAssumption DEF ProvisionFails, manager, criteria, runner,
      PoolType, Agents, Results
<1>5. CASE EndPrepare
  BY <1>5, PopulationAssumption DEF EndPrepare, manager, criteria, runner, PoolType,
      Agents, Results
<1>6. CASE Skip
  BY <1>6, PopulationAssumption DEF Skip, Pull, manager, criteria, PoolType, Agents,
      Results
<1>7. CASE Dispatch
  BY <1>7, PopulationAssumption DEF Dispatch, Pull, manager, criteria, PoolType,
      Agents, Results
<1>8. CASE DispatchUntracked
  BY <1>8, PopulationAssumption DEF DispatchUntracked, Pull, manager, criteria, PoolType,
      Agents, Results
<1>9. ASSUME NEW a \in Agents, DriverTimesOut(a)
      PROVE  PoolType'
  BY <1>9, PopulationAssumption DEF DriverTimesOut, Settle, manager, criteria,
      PoolType, Agents, Results
<1>10. ASSUME NEW a \in Agents, NEW r \in {"ok", "no_submission", "error", "timeout"}, Return(a, r)
      PROVE  PoolType'
  BY <1>10, PopulationAssumption DEF Return, Settle, manager, criteria, PoolType,
      Agents, Results
<1>11. ASSUME NEW a \in Agents, Quiesce(a)
      PROVE  PoolType'
  BY <1>11, PopulationAssumption DEF Quiesce, manager, criteria, runner, PoolType,
      Agents, Results
<1>12. ASSUME NEW a \in Agents, Capture(a)
      PROVE  PoolType'
  <2> DEFINE answer == quiesced[a] = "stopped" /\ Isolated(a)
  <2>1. file[a] \in Contents /\ answer \in BOOLEAN
    BY <1>12 DEF PoolType
  <2>2. \/ captures' = captures
        \/ captures' = [captures EXCEPT ![a] = [content |-> file[a], sealed |-> answer]]
    BY <1>12 DEF Capture
  <2> HIDE DEF answer
  <2>3. [content |-> file[a], sealed |-> answer] \in Captures
    BY <2>1 DEF Captures
  <2>4. captures' \in [Agents -> Captures]
    BY <1>12, <2>2, <2>3 DEF PoolType
  <2> QED
    BY <1>12, <2>4 DEF Capture, PoolType
<1>13. CASE EndRun
  BY <1>13, PopulationAssumption DEF EndRun, manager, criteria, runner, PoolType,
      Agents, Results
<1>14. CASE Collect
  <2>1. cursor \in Agents /\ cursor + 1 \in 1..(Population + 1)
    BY <1>14, PopulationAssumption DEF Collect, PoolType, Agents
  <2>2. \A content : StatusOf(cursor, content) \in {"ok", "no_submission", "error", "timeout"}
    BY <1>14, <2>1 DEF PoolType, StatusOf, Results
  <2>3. PICK row \in Rows : submissions' = [submissions EXCEPT ![cursor] = row]
    BY <1>14, <2>2, Zenon DEF Collect, Rows, Verified, Tampered
  <2>4. submissions' \in [Agents -> Rows]
    BY <1>14, <2>1, <2>3 DEF PoolType
  <2> QED
    BY <1>14, <2>1, <2>4 DEF Collect, PoolType
<1>15. ASSUME NEW a \in Agents, Write(a)
      PROVE  PoolType'
  <2>1. PICK b \in Agents, size \in Sizes : file' = [file EXCEPT ![b] = [by |-> a, size |-> size]]
    BY <1>15 DEF Write, ShardMates
  <2>2. [by |-> a, size |-> size] \in Contents
    BY <2>1, PopulationAssumption, SizesAssumption DEF Contents, Agents
  <2> QED
    BY <1>15, <2>1, <2>2 DEF Write, PoolType
<1> QED
  BY PoolSteppings, <1>1, <1>2, <1>3, <1>4, <1>5, <1>6, <1>7, <1>8, <1>9, <1>10, <1>11,
     <1>12, <1>13, <1>14, <1>15

\* The runner's sets only ever hold agents.
LEMMA RunnerTypeStep == TypeInv /\ [Next]_vars => RunnerType'
<1> SUFFICES ASSUME TypeInv, [Next]_vars PROVE RunnerType'
  OBVIOUS
<1>1. RunnerType
  BY DEF TypeInv, TypeOK
<1>2. CASE Dispatch
  <2>1. cursor \in Agents
    BY <1>2, PopulationAssumption DEF TypeInv, TypeOK, PoolType, Dispatch, Pull, Agents
  <2> QED
    BY <1>1, <1>2, <2>1 DEF Dispatch, Pull, RunnerType
<1>3. ASSUME NEW a \in Agents, NEW r \in {"ok", "no_submission", "error", "timeout"}, Return(a, r)
      PROVE  RunnerType'
  BY <1>1, <1>3 DEF Return, Settle, RunnerType
<1>4. ASSUME NEW a \in Agents, DriverTimesOut(a) \/ LateReturn(a) \/ Confirm(a) \/ SessionEnds(a)
      PROVE  RunnerType'
  BY <1>1, <1>4 DEF DriverTimesOut, Settle, LateReturn, Confirm, SessionEnds, RunnerType
<1>5. CASE Reconcile \/ Provision \/ Released \/ Abandoned \/ Crash
  BY <1>1, <1>5 DEF Reconcile, Provision, Released, Abandoned, WorkersReleased, Crash, RunnerType
<1>6. CASE Skip \/ DispatchUntracked
  BY <1>1, <1>6 DEF Skip, DispatchUntracked, Pull, RunnerType
<1>7. CASE UNCHANGED runner
  BY <1>1, <1>7 DEF runner, RunnerType
<1> QED
  BY <1>2, <1>3, <1>4, <1>5, <1>6, <1>7 DEF Next, Driver, Environment, vars, CreateRow,
     RefusePlan, ProvisionFails, EndPrepare, EndRun, Quiesce, Capture, Collect, EndCollect,
     CriteriaResolved, Scored, Complete, PhaseFails, StartRound, Abort, Override, Restart, Write

\* Every step keeps every variable typed.
LEMMA TypeStep == TypeInv /\ [Next]_vars => TypeInv'
BY ControlTypeStep, PoolTypeStep, RunnerTypeStep DEF TypeInv, TypeOK

\* Every variable stays within the values the code can give it.
LEMMA Typed == Spec => []TypeInv
<1>1. Init => TypeInv
  <2> SUFFICES ASSUME Init PROVE TypeInv
    OBVIOUS
  <2>1. rounds \in Seq(Statuses)
    BY DEF Init
  <2>5. ControlType /\ CriteriaRead
    BY <2>1 DEF Init, ControlType, CriteriaRead, Sources, Steps
  <2>2. Seeded \in Contents
    BY PopulationAssumption DEF Seeded, Contents, AllSizes
  <2>3. PoolType
    BY <2>2, PopulationAssumption DEF Init, PoolType, Captures, Rows, Results
  <2>4. RunnerType
    BY DEF Init, RunnerType
  <2> QED
    BY <2>3, <2>4, <2>5 DEF TypeInv, TypeOK
<1> QED
  BY <1>1, TypeStep, PTL DEF Spec

\* Every reachable state is well-formed, whatever the population, hosting and events.
THEOREM TypeCorrect == Spec => []TypeOK
<1>1. TypeInv => TypeOK
  BY DEF TypeInv
<1> QED
  BY <1>1, Typed, PTL

-----------------------------------------------------------------------------
(* The control of a round: its row, its cleanup, its aborts and its criteria. *)

\* "due" exactly while the workers are in use: the normal boundary and the catch exclude each other.
LEMMA ReleaseStep == TypeInv /\ ReleasedOnce /\ [Next]_vars => ReleasedOnce'
<1> SUFFICES ASSUME TypeInv, ReleasedOnce, [Next]_vars PROVE ReleasedOnce'
  OBVIOUS
<1> USE DEF ReleasedOnce, Working
<1>1. CASE UNCHANGED control
  BY <1>1 DEF control
<1>2. CASE Reconcile
  BY <1>2 DEF Reconcile, Refuse, criteria
<1>3. CASE CreateRow
  BY <1>3 DEF CreateRow, manager
<1>4. CASE RefusePlan
  BY <1>4 DEF RefusePlan, Refuse, criteria
<1>5. CASE EndPrepare
  BY <1>5 DEF EndPrepare, manager, criteria
<1>6. CASE EndRun
  BY <1>6 DEF EndRun, manager, criteria
<1>7. CASE EndCollect
  BY <1>7 DEF EndCollect, EndFailed, ClearFlag, manager, criteria
<1>8. CASE Released
  BY <1>8 DEF Released, manager
<1>9. CASE CriteriaResolved
  BY <1>9 DEF CriteriaResolved, manager
<1>10. CASE Scored
  BY <1>10 DEF Scored, EndFailed, ClearFlag, manager, criteria
<1>11. CASE Complete
  BY <1>11 DEF Complete, ClearFlag, criteria
<1>12. CASE PhaseFails
  BY <1>12 DEF PhaseFails, EndFailed, ClearFlag, criteria
<1>13. CASE Abandoned
  BY <1>13 DEF Abandoned, ClearFlag, criteria
<1>14. CASE StartRound
  BY <1>14 DEF StartRound, ClearFlag, criteria
<1>15. CASE Abort
  BY <1>15 DEF Abort, criteria
<1>16. CASE Override
  BY <1>16 DEF Override, manager
<1>17. CASE Crash
  BY <1>17 DEF Crash, ClearFlag
<1>18. CASE Restart
  BY <1>18 DEF Restart, manager, criteria
<1> QED
  BY Steppings, <1>1, <1>2, <1>3, <1>4, <1>5, <1>6, <1>7, <1>8, <1>9, <1>10, <1>11,
     <1>12, <1>13, <1>14, <1>15, <1>16, <1>17, <1>18


\* The workers of a round are released exactly once, on every way out of it.
THEOREM CleanupExactlyOnce == Spec => []ReleasedOnce
<1>1. Init => ReleasedOnce
  BY DEF Init, ReleasedOnce, Working
<1> QED
  BY <1>1, Typed, ReleaseStep, PTL DEF Spec


\* Writing the latest row's status keeps the rest: the row may stay open only while
\* somebody drives it.
LEMMA RowWritten ==
    ASSUME TypeInv, NoStuckRow, pc # "down", NEW s \in Statuses, rounds' = WithStatus(s),
           s \in Ended \/ pc' \notin {"idle", "reconcile", "plan", "abandon"}
    PROVE  NoStuckRow'
<1>1. /\ Last' = Last
      /\ DOMAIN rounds' = DOMAIN rounds
      /\ \A i \in DOMAIN rounds : rounds'[i] = IF i = Last THEN s ELSE rounds[i]
  <2>1. rounds \in Seq(Statuses)
    BY DEF TypeInv, TypeOK, ControlType
  <2>2. WithStatus(s) \in Seq(Statuses)
    BY <2>1, StatusType
  <2>3. Len(WithStatus(s)) = Last
    BY <2>1, StatusType
  <2>4. \A i \in DOMAIN rounds : WithStatus(s)[i] = IF i = Last THEN s ELSE rounds[i]
    BY <2>1, StatusType
  <2>5. DOMAIN rounds = 1..Len(rounds) /\ DOMAIN rounds' = 1..Len(rounds')
    BY <2>1, <2>2
  <2> QED
    BY <2>3, <2>4, <2>5 DEF Last
<1>2. \A i \in DOMAIN rounds : rounds[i] \notin Ended => i = Last
  BY DEF NoStuckRow
<1> QED
  BY <1>1, <1>2 DEF NoStuckRow

\* Every way out of a round ends its row, and a restart ends what a crash left.
LEMMA StuckStep == TypeInv /\ NoStuckRow /\ [Next]_vars => NoStuckRow'
<1> SUFFICES ASSUME TypeInv, NoStuckRow, [Next]_vars PROVE NoStuckRow'
  OBVIOUS
<1>1. CASE UNCHANGED control
  BY <1>1 DEF NoStuckRow, Ended, Last, control
<1>2. CASE Reconcile
  BY <1>2 DEF NoStuckRow, Ended, Last, Reconcile, Refuse, criteria
<1>3. CASE CreateRow
  BY <1>3 DEF NoStuckRow, Ended, Last, CreateRow, manager, TypeInv, TypeOK, ControlType
<1>4. CASE RefusePlan
  BY <1>4 DEF NoStuckRow, Ended, Last, RefusePlan, Refuse, criteria
<1>5. CASE EndPrepare
  BY <1>5, RowWritten DEF EndPrepare, Statuses, Ended
<1>6. CASE EndRun
  BY <1>6, RowWritten DEF EndRun, Statuses, Ended
<1>7. CASE EndCollect
  <2>1. CASE aborted
    BY <1>7, <2>1, RowWritten DEF EndCollect, EndFailed, Statuses, Ended
  <2>2. CASE ~aborted
    BY <1>7, <2>2 DEF EndCollect, NoStuckRow, manager, Last
  <2> QED
    BY <2>1, <2>2
<1>8. CASE Released
  BY <1>8, RowWritten DEF Released, Statuses, Ended
<1>9. CASE CriteriaResolved
  BY <1>9 DEF NoStuckRow, Ended, Last, CriteriaResolved, manager
<1>10. CASE Scored
  BY <1>10, RowWritten DEF Scored, EndFailed, Statuses, Ended
<1>11. CASE Complete
  BY <1>11, RowWritten DEF Complete, Statuses, Ended
<1>12. CASE PhaseFails
  BY <1>12, RowWritten DEF PhaseFails, EndFailed, Statuses, Ended
<1>13. CASE Abandoned
  BY <1>13 DEF NoStuckRow, Ended, Last, Abandoned, ClearFlag, criteria
<1>14. CASE StartRound
  BY <1>14 DEF NoStuckRow, Ended, Last, StartRound, ClearFlag, criteria
<1>15. CASE Abort
  BY <1>15 DEF NoStuckRow, Ended, Last, Abort, criteria
<1>16. CASE Override
  BY <1>16 DEF NoStuckRow, Ended, Last, Override, manager
<1>17. CASE Crash
  BY <1>17 DEF NoStuckRow, Ended, Last, Crash, ClearFlag
<1>18. CASE Restart
  BY <1>18 DEF NoStuckRow, Ended, Last, Restart, manager, criteria, TypeInv, TypeOK, ControlType
<1> QED
  BY Steppings, <1>1, <1>2, <1>3, <1>4, <1>5, <1>6, <1>7, <1>8, <1>9, <1>10, <1>11,
     <1>12, <1>13, <1>14, <1>15, <1>16, <1>17, <1>18


\* No round is left running with nobody driving it, by a failure, an abort or a restart.
THEOREM RowsEnd == Spec => []NoStuckRow
<1>1. Init => NoStuckRow
  BY DEF Init, NoStuckRow
<1> QED
  BY <1>1, Typed, StuckStep, PTL DEF Spec


\* What an abort left behind, wherever the driver stands: up to the gate of EVOLVE the
\* flag is raised exactly by an early abort, and a round that reached REFLECT saw none.
AbortInv ==
    /\ AbortLandsOnItsRound
    /\ pc = "abandon" => lastError # "none" /\ (lastError = "aborted" => abortAt = "early")
    /\ pc \in Steps \ {"idle", "down", "reflect", "abandon"} =>
         lastError = "none" /\ (aborted <=> abortAt = "early")
    /\ pc = "reflect" => lastError = "none" /\ abortAt # "early"
    /\ pc = "down" => lastError = "none" /\ abortAt = "none"

\* The flag, the history and the driver's place move together.
LEMMA AbortStep == TypeInv /\ AbortInv /\ [Next]_vars => AbortInv'
<1> SUFFICES ASSUME TypeInv, AbortInv, [Next]_vars PROVE AbortInv'
  OBVIOUS
<1> USE DEF AbortInv, AbortLandsOnItsRound, Steps, Busy
<1>1. CASE UNCHANGED control
  BY <1>1 DEF control
<1>2. CASE Reconcile
  BY <1>2 DEF Reconcile, Refuse, criteria
<1>3. CASE CreateRow
  BY <1>3 DEF CreateRow, manager
<1>4. CASE RefusePlan
  BY <1>4 DEF RefusePlan, Refuse, criteria
<1>5. CASE EndPrepare
  BY <1>5 DEF EndPrepare, manager, criteria
<1>6. CASE EndRun
  BY <1>6 DEF EndRun, manager, criteria
<1>7. CASE EndCollect
  BY <1>7 DEF EndCollect, EndFailed, ClearFlag, manager, criteria
<1>8. CASE Released
  BY <1>8 DEF Released, manager
<1>9. CASE CriteriaResolved
  BY <1>9 DEF CriteriaResolved, manager
<1>10. CASE Scored
  BY <1>10 DEF Scored, EndFailed, ClearFlag, manager, criteria
<1>11. CASE Complete
  BY <1>11 DEF Complete, ClearFlag, criteria
<1>12. CASE PhaseFails
  BY <1>12 DEF PhaseFails, EndFailed, ClearFlag, criteria
<1>13. CASE Abandoned
  BY <1>13 DEF Abandoned, ClearFlag, criteria
<1>14. CASE StartRound
  BY <1>14 DEF StartRound, ClearFlag, criteria
<1>15. CASE Abort
  BY <1>15 DEF Abort, criteria
<1>16. CASE Override
  BY <1>16 DEF Override, manager
<1>17. CASE Crash
  BY <1>17 DEF Crash, ClearFlag
<1>18. CASE Restart
  BY <1>18 DEF Restart, manager, criteria
<1> QED
  BY Steppings, <1>1, <1>2, <1>3, <1>4, <1>5, <1>6, <1>7, <1>8, <1>9, <1>10, <1>11,
     <1>12, <1>13, <1>14, <1>15, <1>16, <1>17, <1>18


\* An accepted abort ends the round it lands on, and no round stops without one.
THEOREM AbortsLand == Spec => []AbortLandsOnItsRound
<1>1. Init => AbortInv
  BY DEF Init, AbortInv, AbortLandsOnItsRound, Steps
<1>2. AbortInv => AbortLandsOnItsRound
  BY DEF AbortInv
<1> QED
  BY <1>1, <1>2, Typed, AbortStep, PTL DEF Spec


\* The criteria read when judging starts are the row's, and the API refuses an override
\* from the moment the row says so.
CriteriaInv ==
    /\ AcceptedOverrideWins
    /\ overridden => source = "override"
    /\ pc = "criteria" => judgedWith = source
    /\ Working \/ pc = "release" => judgedWith = "none"
    /\ judgedWith # "none" /\ Last > 0 => rounds[Last] \notin {"preparing", "running", "collecting"}

\* An override and the reading of the criteria exclude each other through the row's status.
LEMMA CriteriaStep == TypeInv /\ CriteriaInv /\ [Next]_vars => CriteriaInv'
<1> SUFFICES ASSUME TypeInv, CriteriaInv, [Next]_vars PROVE CriteriaInv'
  OBVIOUS
<1> USE DEF CriteriaInv, AcceptedOverrideWins, Working, Last
<1>1. CASE UNCHANGED control
  BY <1>1 DEF control
<1>2. CASE Reconcile
  BY <1>2 DEF Reconcile, Refuse, criteria
<1>3. CASE CreateRow
  BY <1>3 DEF CreateRow, manager, TypeInv, TypeOK, ControlType
<1>4. CASE RefusePlan
  BY <1>4 DEF RefusePlan, Refuse, criteria
<1>5. CASE EndPrepare
  BY <1>5, StatusType DEF EndPrepare, manager, criteria, TypeInv, TypeOK, ControlType,
     Statuses
<1>6. CASE EndRun
  BY <1>6, StatusType DEF EndRun, manager, criteria, TypeInv, TypeOK, ControlType,
     Statuses
<1>7. CASE EndCollect
  BY <1>7, StatusType DEF EndCollect, EndFailed, ClearFlag, manager, criteria, TypeInv,
     TypeOK, ControlType, Statuses
<1>8. CASE Released
  BY <1>8, StatusType DEF Released, manager, Effective, TypeInv, TypeOK, ControlType, Statuses
<1>9. CASE CriteriaResolved
  BY <1>9 DEF CriteriaResolved, manager
<1>10. CASE Scored
  BY <1>10, StatusType DEF Scored, EndFailed, ClearFlag, manager, criteria, TypeInv,
     TypeOK, ControlType, Statuses
<1>11. CASE Complete
  BY <1>11, StatusType DEF Complete, ClearFlag, criteria, TypeInv, TypeOK, ControlType,
     Statuses
<1>12. CASE PhaseFails
  BY <1>12, StatusType DEF PhaseFails, EndFailed, ClearFlag, criteria, TypeInv, TypeOK,
     ControlType, Statuses
<1>13. CASE Abandoned
  BY <1>13 DEF Abandoned, ClearFlag, criteria
<1>14. CASE StartRound
  BY <1>14 DEF StartRound, ClearFlag, criteria
<1>15. CASE Abort
  BY <1>15 DEF Abort, criteria
<1>16. CASE Override
  BY <1>16 DEF Override, manager, TypeInv, CriteriaRead
<1>17. CASE Crash
  BY <1>17 DEF Crash, ClearFlag
<1>18. CASE Restart
  BY <1>18 DEF Restart, manager, criteria, TypeInv, TypeOK, ControlType
<1> QED
  BY Steppings, <1>1, <1>2, <1>3, <1>4, <1>5, <1>6, <1>7, <1>8, <1>9, <1>10, <1>11,
     <1>12, <1>13, <1>14, <1>15, <1>16, <1>17, <1>18


\* An override the API accepted is what the round is graded against.
THEOREM OverridesCount == Spec => []AcceptedOverrideWins
<1>1. Init => CriteriaInv
  BY DEF Init, CriteriaInv, AcceptedOverrideWins, Working
<1>2. CriteriaInv => AcceptedOverrideWins
  BY DEF CriteriaInv
<1> QED
  BY <1>1, <1>2, Typed, CriteriaStep, PTL DEF Spec


-----------------------------------------------------------------------------
(* The workers: who may still be executing, and what the driver knows of it. *)

\* A session executes only while its invocation is retained as unconfirmed, and the
\* round starts with none retained.
ExecutingRetained == executing \subseteq unconfirmed

StartsClean == pc \in {"plan", "prepare"} => unconfirmed = {}

\* A worker that reached a stage has passed the ones before it.
StagesFollow ==
    /\ pc = "prepare" => \A a \in Agents : stage[a] = "queued"
    /\ pc = "run" => \A a \in Agents : a >= cursor => stage[a] = "queued"
    /\ \A a \in Agents :
         /\ stage[a] \in {"queued", "running", "stopping"} => quiesced[a] = "none"
         /\ stage[a] # "done" => captures[a] = NoCapture

\* Only provisioned agents are dispatched or captured, and only after being pulled.
DispatchedHaveHandles ==
    pc \in {"run", "collect"} =>
        \A a \in Agents :
            /\ a \in unconfirmed => a \in handles /\ stage[a] # "queued"
            /\ stage[a] \in {"running", "stopping", "capturing"} => a \in handles
            /\ captures[a] # NoCapture => a \in handles

\* "stopped" is never taken back: a confirmed invocation is not dispatched again.
StoppedIsFinal == \A a \in Agents : quiesced[a] = "stopped" => a \notin unconfirmed

WorkersInv ==
    ExecutingRetained /\ StartsClean /\ StagesFollow /\ DispatchedHaveHandles /\ StoppedIsFinal

\* Each step of the driver, the runner and the workers keeps them in step.
LEMMA WorkersStep == TypeInv /\ WorkersInv /\ [Next]_vars => WorkersInv'
<1> SUFFICES ASSUME TypeInv, WorkersInv, [Next]_vars PROVE WorkersInv'
  OBVIOUS
<1>1. TypeInv' /\ PoolType /\ RunnerType /\ Population \in Nat
  BY TypeStep, PopulationAssumption DEF TypeInv, TypeOK
<1> USE DEF WorkersInv, ExecutingRetained, StartsClean, StagesFollow, DispatchedHaveHandles,
        StoppedIsFinal, Agents
<1>2. ASSUME Reconcile
      PROVE  WorkersInv'
  BY <1>1, <1>2 DEF Reconcile, Refuse, criteria, pool, PoolType
<1>3. ASSUME CreateRow
      PROVE  WorkersInv'
  BY <1>1, <1>3 DEF CreateRow, FreshPool, manager, runner, PoolType
<1>4. ASSUME RefusePlan
      PROVE  WorkersInv'
  BY <1>1, <1>4 DEF RefusePlan, Refuse, criteria, pool, runner, PoolType
<1>5. ASSUME Provision
      PROVE  WorkersInv'
  BY <1>1, <1>5 DEF Provision, manager, criteria, PoolType
<1>6. ASSUME ProvisionFails
      PROVE  WorkersInv'
  BY <1>1, <1>6 DEF ProvisionFails, manager, criteria, runner, PoolType
<1>7. ASSUME EndPrepare
      PROVE  WorkersInv'
  BY <1>1, <1>7 DEF EndPrepare, manager, criteria, runner, PoolType
<1>8. ASSUME Skip
      PROVE  WorkersInv'
  BY <1>1, <1>8 DEF Skip, Pull, manager, criteria, PoolType
<1>9. ASSUME Dispatch
      PROVE  WorkersInv'
  BY <1>1, <1>9 DEF Dispatch, Pull, manager, criteria, PoolType
<1>10. ASSUME DispatchUntracked
      PROVE  WorkersInv'
  BY <1>1, <1>10 DEF DispatchUntracked, Pull, manager, criteria, PoolType
<1>11. ASSUME EndRun
      PROVE  WorkersInv'
  BY <1>1, <1>11 DEF EndRun, manager, criteria, runner, PoolType
<1>12. ASSUME NEW a \in Agents, DriverTimesOut(a)
      PROVE  WorkersInv'
  BY <1>1, <1>12 DEF DriverTimesOut, Settle, manager, criteria, PoolType
<1>13. ASSUME NEW a \in Agents, Quiesce(a)
      PROVE  WorkersInv'
  BY <1>1, <1>13 DEF Quiesce, manager, criteria, runner, PoolType
<1>14. ASSUME NEW a \in Agents, Capture(a)
      PROVE  WorkersInv'
  BY <1>1, <1>14 DEF Capture, manager, criteria, runner, PoolType
<1>15. ASSUME Collect
      PROVE  WorkersInv'
  BY <1>1, <1>15 DEF Collect, manager, criteria, runner, PoolType
<1>16. ASSUME EndCollect
      PROVE  WorkersInv'
  BY <1>1, <1>16 DEF EndCollect, EndFailed, ClearFlag, manager, criteria, pool, runner,
     PoolType
<1>17. ASSUME Released
      PROVE  WorkersInv'
  BY <1>1, <1>17 DEF Released, WorkersReleased, FreshPool, manager, PoolType
<1>18. ASSUME CriteriaResolved
      PROVE  WorkersInv'
  BY <1>1, <1>18 DEF CriteriaResolved, manager, pool, runner, PoolType
<1>19. ASSUME Scored
      PROVE  WorkersInv'
  BY <1>1, <1>19 DEF Scored, EndFailed, ClearFlag, manager, criteria, pool, runner,
     PoolType
<1>20. ASSUME Complete
      PROVE  WorkersInv'
  BY <1>1, <1>20 DEF Complete, ClearFlag, criteria, pool, runner, PoolType
<1>21. ASSUME PhaseFails
      PROVE  WorkersInv'
  BY <1>1, <1>21 DEF PhaseFails, EndFailed, ClearFlag, criteria, pool, runner, PoolType
<1>22. ASSUME Abandoned
      PROVE  WorkersInv'
  BY <1>1, <1>22 DEF Abandoned, WorkersReleased, ClearFlag, FreshPool, criteria,
     PoolType
<1>23. ASSUME StartRound
      PROVE  WorkersInv'
  BY <1>1, <1>23 DEF StartRound, ClearFlag, criteria, pool, runner, PoolType
<1>24. ASSUME Abort
      PROVE  WorkersInv'
  BY <1>1, <1>24 DEF Abort, criteria, pool, runner, PoolType
<1>25. ASSUME Override
      PROVE  WorkersInv'
  BY <1>1, <1>25 DEF Override, manager, pool, runner, PoolType
<1>26. ASSUME Crash
      PROVE  WorkersInv'
  BY <1>1, <1>26 DEF Crash, ClearFlag, FreshPool, PoolType
<1>27. ASSUME Restart
      PROVE  WorkersInv'
  BY <1>1, <1>27 DEF Restart, manager, criteria, pool, runner, PoolType
<1>28. ASSUME NEW a \in Agents, NEW r \in {"ok", "no_submission", "error", "timeout"}, Return(a, r)
      PROVE  WorkersInv'
  BY <1>1, <1>28 DEF Return, Settle, manager, criteria, PoolType
<1>29. ASSUME NEW a \in Agents, LateReturn(a)
      PROVE  WorkersInv'
  BY <1>1, <1>29 DEF LateReturn, manager, criteria, pool, PoolType
<1>30. ASSUME NEW a \in Agents, Confirm(a)
      PROVE  WorkersInv'
  BY <1>1, <1>30 DEF Confirm, manager, criteria, pool, PoolType
<1>31. ASSUME NEW a \in Agents, SessionEnds(a)
      PROVE  WorkersInv'
  BY <1>1, <1>31 DEF SessionEnds, manager, criteria, pool, PoolType
<1>32. ASSUME NEW a \in Agents, Write(a)
      PROVE  WorkersInv'
  BY <1>1, <1>32 DEF Write, manager, criteria, runner, PoolType
<1>33. ASSUME UNCHANGED vars
      PROVE  WorkersInv'
  BY <1>1, <1>33 DEF vars, manager, criteria, pool, runner, PoolType
<1> QED
  BY <1>2, <1>3, <1>4, <1>5, <1>6, <1>7, <1>8, <1>9, <1>10, <1>11, <1>12, <1>13, <1>14,
     <1>15, <1>16, <1>17, <1>18, <1>19, <1>20, <1>21, <1>22, <1>23, <1>24, <1>25, <1>26,
     <1>27, <1>28, <1>29, <1>30, <1>31, <1>32, <1>33, SMT DEF Next, Driver, Environment


\* The workers' invariant holds of every reachable state.
LEMMA Workers == Spec => []WorkersInv
<1>1. Init => WorkersInv
  BY DEF Init, WorkersInv, ExecutingRetained, StartsClean, StagesFollow,
     DispatchedHaveHandles, StoppedIsFinal
<1> QED
  BY <1>1, Typed, WorkersStep, PTL DEF Spec

\* When COLLECT claims that nothing of the round executes any more, nothing does.
THEOREM BarrierHolds == Spec => []BarrierIsReal
<1>1. TypeInv /\ WorkersInv => BarrierIsReal
  BY DEF TypeInv, TypeOK, RunnerType, WorkersInv, ExecutingRetained, DispatchedHaveHandles,
     StoppedIsFinal, BarrierIsReal, Barrier
<1> QED
  BY <1>1, Typed, Workers, PTL

-----------------------------------------------------------------------------
(* Sessions of a process that died. *)

\* The hosting never adopts a worker that outlived its process: a container that may
\* survive is one that is recreated.
SafeHosting == \A s \in Setups : s.survivors => s.protected

\* Recreating a shard ends whatever still ran in it, before anything of the round runs.
OrphansInv ==
    /\ ~setup.survivors => orphans = {}
    /\ setup.protected /\ Working => \A a \in handles, b \in orphans : b \notin ShardMates(a)

\* Orphans appear only in a crash, which leaves no round working.
LEMMA OrphansStep == TypeInv /\ OrphansInv /\ [Next]_vars => OrphansInv'
<1> SUFFICES ASSUME TypeInv, OrphansInv, [Next]_vars PROVE OrphansInv'
  OBVIOUS
<1> USE DEF OrphansInv, Working, ShardMates, TypeInv, TypeOK, RunnerType, PoolType
<1>1. ASSUME Reconcile
      PROVE  OrphansInv'
  BY <1>1 DEF Reconcile, Refuse, criteria, pool
<1>2. ASSUME CreateRow
      PROVE  OrphansInv'
  BY <1>2 DEF CreateRow, FreshPool, manager, runner
<1>3. ASSUME RefusePlan
      PROVE  OrphansInv'
  BY <1>3 DEF RefusePlan, Refuse, criteria, pool, runner
<1>4. ASSUME Provision
      PROVE  OrphansInv'
  BY <1>4 DEF Provision, manager, criteria
<1>5. ASSUME ProvisionFails
      PROVE  OrphansInv'
  BY <1>5 DEF ProvisionFails, manager, criteria, runner
<1>6. ASSUME EndPrepare
      PROVE  OrphansInv'
  BY <1>6 DEF EndPrepare, manager, criteria, runner
<1>7. ASSUME Skip
      PROVE  OrphansInv'
  BY <1>7 DEF Skip, Pull, manager, criteria
<1>8. ASSUME Dispatch
      PROVE  OrphansInv'
  BY <1>8 DEF Dispatch, Pull, manager, criteria
<1>9. ASSUME DispatchUntracked
      PROVE  OrphansInv'
  BY <1>9 DEF DispatchUntracked, Pull, manager, criteria
<1>10. ASSUME EndRun
      PROVE  OrphansInv'
  BY <1>10 DEF EndRun, manager, criteria, runner
<1>11. ASSUME NEW a \in Agents, DriverTimesOut(a)
      PROVE  OrphansInv'
  BY <1>11 DEF DriverTimesOut, Settle, manager, criteria
<1>12. ASSUME NEW a \in Agents, Quiesce(a)
      PROVE  OrphansInv'
  BY <1>12 DEF Quiesce, manager, criteria, runner
<1>13. ASSUME NEW a \in Agents, Capture(a)
      PROVE  OrphansInv'
  BY <1>13 DEF Capture, manager, criteria, runner
<1>14. ASSUME Collect
      PROVE  OrphansInv'
  BY <1>14 DEF Collect, manager, criteria, runner
<1>15. ASSUME EndCollect
      PROVE  OrphansInv'
  BY <1>15 DEF EndCollect, EndFailed, ClearFlag, manager, criteria, pool, runner
<1>16. ASSUME Released
      PROVE  OrphansInv'
  BY <1>16 DEF Released, WorkersReleased, FreshPool, manager
<1>17. ASSUME CriteriaResolved
      PROVE  OrphansInv'
  BY <1>17 DEF CriteriaResolved, manager, pool, runner
<1>18. ASSUME Scored
      PROVE  OrphansInv'
  BY <1>18 DEF Scored, EndFailed, ClearFlag, manager, criteria, pool, runner
<1>19. ASSUME Complete
      PROVE  OrphansInv'
  BY <1>19 DEF Complete, ClearFlag, criteria, pool, runner
<1>20. ASSUME PhaseFails
      PROVE  OrphansInv'
  BY <1>20 DEF PhaseFails, EndFailed, ClearFlag, criteria, pool, runner
<1>21. ASSUME Abandoned
      PROVE  OrphansInv'
  BY <1>21 DEF Abandoned, WorkersReleased, ClearFlag, FreshPool, criteria
<1>22. ASSUME StartRound
      PROVE  OrphansInv'
  BY <1>22 DEF StartRound, ClearFlag, criteria, pool, runner
<1>23. ASSUME Abort
      PROVE  OrphansInv'
  BY <1>23 DEF Abort, criteria, pool, runner
<1>24. ASSUME Override
      PROVE  OrphansInv'
  BY <1>24 DEF Override, manager, pool, runner
<1>25. ASSUME Crash
      PROVE  OrphansInv'
  BY <1>25 DEF Crash, ClearFlag, FreshPool
<1>26. ASSUME Restart
      PROVE  OrphansInv'
  BY <1>26 DEF Restart, manager, criteria, pool, runner
<1>27. ASSUME NEW a \in Agents, NEW r \in {"ok", "no_submission", "error", "timeout"}, Return(a, r)
      PROVE  OrphansInv'
  BY <1>27 DEF Return, Settle, manager, criteria
<1>28. ASSUME NEW a \in Agents, LateReturn(a)
      PROVE  OrphansInv'
  BY <1>28 DEF LateReturn, manager, criteria, pool
<1>29. ASSUME NEW a \in Agents, Confirm(a)
      PROVE  OrphansInv'
  BY <1>29 DEF Confirm, manager, criteria, pool
<1>30. ASSUME NEW a \in Agents, SessionEnds(a)
      PROVE  OrphansInv'
  BY <1>30 DEF SessionEnds, manager, criteria, pool
<1>31. ASSUME NEW a \in Agents, Write(a)
      PROVE  OrphansInv'
  BY <1>31 DEF Write, manager, criteria, runner
<1>32. ASSUME UNCHANGED vars
      PROVE  OrphansInv'
  BY <1>32 DEF vars, manager, criteria, pool, runner
<1> QED
  BY <1>1, <1>2, <1>3, <1>4, <1>5, <1>6, <1>7, <1>8, <1>9, <1>10, <1>11, <1>12, <1>13,
     <1>14, <1>15, <1>16, <1>17, <1>18, <1>19, <1>20, <1>21, <1>22, <1>23, <1>24, <1>25,
     <1>26, <1>27, <1>28, <1>29, <1>30, <1>31, <1>32 DEF Next, Driver, Environment

\* The orphans' invariant holds of every reachable state.
LEMMA Orphans == Spec => []OrphansInv
<1>1. Init => OrphansInv
  BY DEF Init, OrphansInv, Working
<1> QED
  BY <1>1, Typed, OrphansStep, PTL DEF Spec

\* No session of an earlier round, or of a process that died, can write where a later
\* round provisioned an agent, provided containers that survive are recreated.
THEOREM NoStaleWriter ==
    ASSUME SafeHosting
    PROVE  Spec => []StaleWriterExcluded
<1>1. TypeInv /\ WorkersInv /\ OrphansInv => StaleWriterExcluded
  <2> SUFFICES ASSUME TypeInv, WorkersInv, OrphansInv, pc \in {"prepare", "run"},
                      NEW a \in handles, NEW b \in executing \cup orphans, b \in ShardMates(a)
               PROVE  stage[b] # "queued" /\ b \in executing
    BY DEF StaleWriterExcluded
  <2>1. setup.survivors => setup.protected
    BY SafeHosting DEF SafeHosting, TypeInv, TypeOK, ControlType
  <2>2. b \notin orphans
    BY <2>1 DEF OrphansInv, Working
  <2>3. b \in unconfirmed
    BY <2>2 DEF WorkersInv, ExecutingRetained
  <2>4. pc = "run"
    BY <2>3 DEF WorkersInv, StartsClean
  <2> QED
    BY <2>2, <2>3, <2>4 DEF WorkersInv, DispatchedHaveHandles, ShardMates
<1> QED
  BY <1>1, Typed, Workers, Orphans, PTL

-----------------------------------------------------------------------------
(* What a verdict on an artifact says. *)

\* Alone in its shard, an agent finds the seed or its own work; what a sealed capture
\* holds is therefore its own.
SealedIsOwn ==
    \A a \in Agents :
        /\ Isolated(a) => file[a] = Seeded \/ file[a].by = a
        /\ captures[a].sealed => captures[a].content.size = "absent" \/ captures[a].content.by = a

\* After an agent was confirmed stopped and captured, what it wrote stays as captured.
CapturedIsLast ==
    Working =>
        \A a \in Agents :
            captures[a] # NoCapture /\ quiesced[a] = "stopped" /\ file[a].by = a
                => file[a] = captures[a].content

FilesInv == SealedIsOwn /\ CapturedIsLast

\* Only a session that executes writes, and neither a confirmed one nor a stale one does.
LEMMA FilesStep ==
    ASSUME SafeHosting
    PROVE  TypeInv /\ WorkersInv /\ OrphansInv /\ FilesInv /\ [Next]_vars => FilesInv'
<1> SUFFICES ASSUME TypeInv, WorkersInv, OrphansInv, FilesInv, [Next]_vars PROVE FilesInv'
  OBVIOUS
<1>0. /\ PoolType
      /\ RunnerType
      /\ setup.survivors => setup.protected
      /\ NoCapture.sealed = FALSE /\ Seeded.size = "absent"
  BY SafeHosting DEF SafeHosting, TypeInv, TypeOK, ControlType, NoCapture, Seeded
<1> USE DEF FilesInv, SealedIsOwn, CapturedIsLast, Working, Isolated, ShardMates, PoolType
<1>1. ASSUME Reconcile
      PROVE  FilesInv'
  BY <1>1, <1>0 DEF Reconcile, Refuse, criteria, pool
<1>2. ASSUME CreateRow
      PROVE  FilesInv'
  BY <1>2, <1>0 DEF CreateRow, FreshPool, manager, runner
<1>3. ASSUME RefusePlan
      PROVE  FilesInv'
  BY <1>3, <1>0 DEF RefusePlan, Refuse, criteria, pool, runner
<1>4. ASSUME Provision
      PROVE  FilesInv'
  <2>1. \A a \in Agents : captures'[a] = NoCapture
    BY <1>0, <1>4 DEF Provision, WorkersInv, StagesFollow
  <2> QED
    BY <1>0, <2>1, <1>4 DEF Provision
<1>5. ASSUME ProvisionFails
      PROVE  FilesInv'
  BY <1>5, <1>0 DEF ProvisionFails, manager, criteria, runner
<1>6. ASSUME EndPrepare
      PROVE  FilesInv'
  BY <1>6, <1>0 DEF EndPrepare, manager, criteria, runner
<1>7. ASSUME Skip
      PROVE  FilesInv'
  BY <1>7, <1>0 DEF Skip, Pull, manager, criteria
<1>8. ASSUME Dispatch
      PROVE  FilesInv'
  BY <1>8, <1>0 DEF Dispatch, Pull, manager, criteria
<1>9. ASSUME DispatchUntracked
      PROVE  FilesInv'
  BY <1>9, <1>0 DEF DispatchUntracked, Pull, manager, criteria
<1>10. ASSUME EndRun
      PROVE  FilesInv'
  BY <1>10, <1>0 DEF EndRun, manager, criteria, runner
<1>11. ASSUME NEW a \in Agents, DriverTimesOut(a)
      PROVE  FilesInv'
  BY <1>11, <1>0 DEF DriverTimesOut, Settle, manager, criteria
<1>12. ASSUME NEW a \in Agents, Quiesce(a)
      PROVE  FilesInv'
  <2>1. captures[a] = NoCapture
    BY <1>0, <1>12 DEF Quiesce, WorkersInv, StagesFollow
  <2> QED
    BY <1>0, <2>1, <1>12 DEF Quiesce
<1>13. ASSUME NEW a \in Agents, Capture(a)
      PROVE  FilesInv'
  <2>1. UNCHANGED <<setup, pc, quiesced, file>>
    BY <1>13 DEF Capture
  <2>2. CASE UNCHANGED captures
    BY <2>1, <2>2
  <2>3. CASE ~UNCHANGED captures
    <3> DEFINE answer == quiesced[a] = "stopped" /\ Isolated(a)
    <3>4. captures' = [captures EXCEPT ![a] = [content |-> file[a], sealed |-> answer]]
      BY <1>13, <2>3 DEF Capture
    <3>5. answer => Isolated(a)
      OBVIOUS
    <3>1. /\ captures'[a].content = file[a]
          /\ captures'[a].sealed => answer
          /\ \A b \in Agents \ {a} : captures'[b] = captures[b]
      <4> HIDE DEF answer
      <4> QED
        BY <1>0, <3>4
    <3>2. SealedIsOwn'
      BY <1>0, <2>1, <3>1, <3>5
    <3>3. CapturedIsLast'
      BY <1>0, <2>1, <3>1
    <3> QED
      BY <3>2, <3>3
  <2> QED
    BY <2>2, <2>3
<1>14. ASSUME Collect
      PROVE  FilesInv'
  BY <1>14, <1>0 DEF Collect, manager, criteria, runner
<1>15. ASSUME EndCollect
      PROVE  FilesInv'
  BY <1>15, <1>0 DEF EndCollect, EndFailed, ClearFlag, manager, criteria, pool, runner
<1>16. ASSUME Released
      PROVE  FilesInv'
  BY <1>16, <1>0 DEF Released, WorkersReleased, FreshPool, manager
<1>17. ASSUME CriteriaResolved
      PROVE  FilesInv'
  BY <1>17, <1>0 DEF CriteriaResolved, manager, pool, runner
<1>18. ASSUME Scored
      PROVE  FilesInv'
  BY <1>18, <1>0 DEF Scored, EndFailed, ClearFlag, manager, criteria, pool, runner
<1>19. ASSUME Complete
      PROVE  FilesInv'
  BY <1>19, <1>0 DEF Complete, ClearFlag, criteria, pool, runner
<1>20. ASSUME PhaseFails
      PROVE  FilesInv'
  BY <1>20, <1>0 DEF PhaseFails, EndFailed, ClearFlag, criteria, pool, runner
<1>21. ASSUME Abandoned
      PROVE  FilesInv'
  BY <1>21, <1>0 DEF Abandoned, WorkersReleased, ClearFlag, FreshPool, criteria
<1>22. ASSUME StartRound
      PROVE  FilesInv'
  BY <1>22, <1>0 DEF StartRound, ClearFlag, criteria, pool, runner
<1>23. ASSUME Abort
      PROVE  FilesInv'
  BY <1>23, <1>0 DEF Abort, criteria, pool, runner
<1>24. ASSUME Override
      PROVE  FilesInv'
  BY <1>24, <1>0 DEF Override, manager, pool, runner
<1>25. ASSUME Crash
      PROVE  FilesInv'
  BY <1>25, <1>0 DEF Crash, ClearFlag, FreshPool
<1>26. ASSUME Restart
      PROVE  FilesInv'
  BY <1>26, <1>0 DEF Restart, manager, criteria, pool, runner
<1>27. ASSUME NEW a \in Agents, NEW r \in {"ok", "no_submission", "error", "timeout"}, Return(a, r)
      PROVE  FilesInv'
  BY <1>27, <1>0 DEF Return, Settle, manager, criteria
<1>28. ASSUME NEW a \in Agents, LateReturn(a)
      PROVE  FilesInv'
  BY <1>28, <1>0 DEF LateReturn, manager, criteria, pool
<1>29. ASSUME NEW a \in Agents, Confirm(a)
      PROVE  FilesInv'
  BY <1>29, <1>0 DEF Confirm, manager, criteria, pool
<1>30. ASSUME NEW a \in Agents, SessionEnds(a)
      PROVE  FilesInv'
  BY <1>30, <1>0 DEF SessionEnds, manager, criteria, pool
<1>31. ASSUME NEW a \in Agents, Write(a)
      PROVE  FilesInv'
  <2>1. PICK b \in ShardMates(a), size \in Sizes :
                file' = [file EXCEPT ![b] = [by |-> a, size |-> size]]
    BY <1>31 DEF Write
  <2>2. UNCHANGED <<setup, pc, quiesced, captures>> /\ b \in Agents
    BY <2>1, <1>31 DEF Write
  <2>3. SealedIsOwn'
    BY <1>0, <2>1, <2>2
  <2>4. ASSUME Working, captures[a] # NoCapture, quiesced[a] = "stopped"
        PROVE  FALSE
    <3>1. a \notin executing
      BY <2>4 DEF WorkersInv, ExecutingRetained, StoppedIsFinal
    <3>2. a \in handles
      BY <1>0, <2>4 DEF WorkersInv, StagesFollow, DispatchedHaveHandles
    <3>3. a \notin orphans
      BY <1>0, <2>4, <3>2 DEF OrphansInv
    <3> QED
      BY <3>1, <3>3, <1>31 DEF Write
  <2>5. CapturedIsLast'
    BY <1>0, <2>1, <2>2, <2>4
  <2> QED
    BY <2>3, <2>5
<1>32. ASSUME UNCHANGED vars
      PROVE  FilesInv'
  BY <1>32, <1>0 DEF vars, manager, criteria, pool, runner
<1> QED
  BY <1>1, <1>2, <1>3, <1>4, <1>5, <1>6, <1>7, <1>8, <1>9, <1>10, <1>11, <1>12, <1>13,
     <1>14, <1>15, <1>16, <1>17, <1>18, <1>19, <1>20, <1>21, <1>22, <1>23, <1>24, <1>25,
     <1>26, <1>27, <1>28, <1>29, <1>30, <1>31, <1>32 DEF Next, Driver, Environment

\* The invariant on workspaces and captures holds of every reachable state.
LEMMA Files ==
    ASSUME SafeHosting
    PROVE  Spec => []FilesInv
<1>1. Init => FilesInv
  <2> SUFFICES ASSUME Init PROVE FilesInv
    OBVIOUS
  <2>1. Seeded.size = "absent" /\ NoCapture.sealed = FALSE
    BY DEF Seeded, NoCapture
  <2> QED
    BY <2>1 DEF Init, FilesInv, SealedIsOwn, CapturedIsLast, Working
<1> QED
  BY <1>1, Typed, Workers, Orphans, FilesStep, PTL DEF Spec

\* A row changes only when COLLECT writes it, or when the round's locals are dropped.
LEMMA RowsChange ==
    ASSUME TypeInv, [Next]_vars, NEW a \in Agents, submissions[a] # submissions'[a],
           submissions'[a].verified
    PROVE  Collect /\ a = cursor
<1>1. CASE FreshPool
  <2>1. submissions'[a].verified = FALSE
    BY <1>1 DEF FreshPool, NoRow
  <2> QED
    BY <2>1
<1>2. CASE Collect
  BY <1>2 DEF Collect, TypeInv, TypeOK, PoolType
<1>3. CASE ~FreshPool /\ ~Collect
  <2>1. UNCHANGED submissions
    BY <1>3 DEF Next, Driver, Environment, vars, pool, Reconcile, CreateRow, RefusePlan,
       Provision, ProvisionFails, EndPrepare, Skip, Dispatch, DispatchUntracked, Pull, EndRun,
       DriverTimesOut, Quiesce, Capture, EndCollect, Released, CriteriaResolved, Scored,
       Complete, PhaseFails, Abandoned, StartRound, Abort, Override, Crash, Restart, Return,
       Settle, LateReturn, Confirm, SessionEnds, Write
  <2> QED
    BY <2>1
<1> QED
  BY <1>1, <1>2, <1>3

\* What a verified verdict says is so: an intact capture is the agent's own work, and
\* a tampered one was changed by somebody else after it was captured.
THEOREM VerdictsAreTrue ==
    ASSUME SafeHosting
    PROVE  Spec => VerdictIsTrue
<1> DEFINE Truth(a) ==
      submissions[a] # submissions'[a] /\ submissions'[a].verified =>
        LET own == captures[a].content
        IN  IF submissions'[a].tampered THEN file[a].by # a
            ELSE own.size = "absent" \/ own.by = a
<1>1. TypeInv /\ WorkersInv /\ FilesInv /\ [Next]_vars => [\A a \in Agents : Truth(a)]_vars
  <2> SUFFICES ASSUME TypeInv, WorkersInv, FilesInv, [Next]_vars, NEW a \in Agents,
                      submissions[a] # submissions'[a], submissions'[a].verified
               PROVE  IF submissions'[a].tampered THEN file[a].by # a
                      ELSE captures[a].content.size = "absent" \/ captures[a].content.by = a
    OBVIOUS
  <2>1. Collect /\ a = cursor
    BY RowsChange
  <2>2. /\ captures[a] # NoCapture
        /\ Verified(captures[a], file[a])
        /\ submissions'[a].tampered = Tampered(captures[a], file[a])
    <3> DEFINE content == IF captures[a] # NoCapture /\ result[a] \notin {"none", "threw"}
                          THEN captures[a].content ELSE NoContent
               verdict == captures[a] # NoCapture /\ Verified(captures[a], file[a])
               tampered == captures[a] # NoCapture /\ Tampered(captures[a], file[a])
    <3>1. submissions' = [submissions EXCEPT ![a] = [status |-> StatusOf(a, content),
                            verified |-> verdict, tampered |-> tampered]]
      BY <2>1 DEF Collect
    <3>2. submissions'[a].verified = verdict /\ submissions'[a].tampered = tampered
      <4> HIDE DEF content, verdict, tampered
      <4> QED
        BY <3>1 DEF TypeInv, TypeOK, PoolType
    <3>3. verdict
      BY <3>2, Zenon
    <3>4. tampered = Tampered(captures[a], file[a])
      BY <3>3, Zenon DEF Tampered
    <3> QED
      BY <3>2, <3>3, <3>4, Zenon
  <2>3. pc = "collect" /\ quiesced[a] = "stopped"
    BY <2>1, <2>2 DEF Collect, Verified, Barrier, WorkersInv, DispatchedHaveHandles
  <2>4. file[a].by = a => ~Tampered(captures[a], file[a])
    BY <2>2, <2>3 DEF FilesInv, CapturedIsLast, Working, Tampered, Same
  <2>5. ~Tampered(captures[a], file[a]) => captures[a].sealed
    BY <2>2 DEF Verified
  <2> QED
    BY <2>2, <2>4, <2>5 DEF FilesInv, SealedIsOwn
<1> QED
  BY <1>1, Typed, Workers, Files, PTL DEF Spec, VerdictIsTrue

-----------------------------------------------------------------------------
(* RoundDriver uses its runner within WorkerContract: invocations that have not
   returned. *)

\* A round starts with no invocation pending, and an agent still in the queue has none:
\* what an earlier round left behind was waited for or has refused this one.
PendingInv ==
    /\ pc \in {"plan", "prepare"} => pending = {}
    /\ pc = "run" => \A a \in pending : stage[a] # "queued"

\* No step breaks it.
LEMMA PendingStep == TypeInv /\ WorkersInv /\ PendingInv /\ [Next]_vars => PendingInv'
<1> SUFFICES ASSUME TypeInv, WorkersInv, PendingInv, [Next]_vars PROVE PendingInv'
  OBVIOUS
<1>1. PoolType /\ RunnerType
  BY DEF TypeInv, TypeOK
<1>2. (pc = "prepare" => pending = {}) /\ (pc = "run" => \A a \in pending : stage[a] # "queued")
  BY DEF PendingInv
<1> USE DEF PendingInv, PoolType, RunnerType
<1>3. ASSUME Reconcile PROVE PendingInv'
  BY <1>1, <1>3 DEF Reconcile, Refuse, criteria, pool
<1>4. ASSUME CreateRow PROVE PendingInv'
  BY <1>1, <1>4 DEF CreateRow, FreshPool, manager, runner
<1>5. ASSUME RefusePlan PROVE PendingInv'
  BY <1>1, <1>5 DEF RefusePlan, Refuse, criteria, pool, runner
<1>6. ASSUME Provision PROVE PendingInv'
  BY <1>1, <1>6 DEF Provision, manager, criteria
<1>7. ASSUME ProvisionFails PROVE PendingInv'
  BY <1>1, <1>7 DEF ProvisionFails, manager, criteria, runner
<1>8. ASSUME EndPrepare PROVE PendingInv'
  BY <1>1, <1>8 DEF EndPrepare, manager, criteria, runner
<1>9. ASSUME Skip PROVE PendingInv'
  BY <1>1, <1>9 DEF Skip, Pull, manager, criteria
<1>10. ASSUME Dispatch PROVE PendingInv'
  BY <1>1, <1>10 DEF Dispatch, Pull, manager, criteria
<1>11. ASSUME DispatchUntracked PROVE PendingInv'
  BY <1>1, <1>11 DEF DispatchUntracked, Pull, manager, criteria
<1>12. ASSUME EndRun PROVE PendingInv'
  BY <1>1, <1>12 DEF EndRun, manager, criteria, runner
<1>13. ASSUME NEW a \in Agents, DriverTimesOut(a) PROVE PendingInv'
  BY <1>1, <1>13 DEF DriverTimesOut, Settle, manager, criteria
<1>14. ASSUME NEW a \in Agents, Quiesce(a) PROVE PendingInv'
  BY <1>1, <1>14 DEF Quiesce, manager, criteria, runner
<1>15. ASSUME NEW a \in Agents, Capture(a) PROVE PendingInv'
  BY <1>1, <1>15 DEF Capture, manager, criteria, runner
<1>16. ASSUME Collect PROVE PendingInv'
  BY <1>1, <1>16 DEF Collect, manager, criteria, runner
<1>17. ASSUME EndCollect PROVE PendingInv'
  BY <1>1, <1>17 DEF EndCollect, EndFailed, ClearFlag, manager, criteria, pool, runner
<1>18. ASSUME Released PROVE PendingInv'
  BY <1>1, <1>18 DEF Released, WorkersReleased, FreshPool, manager
<1>19. ASSUME CriteriaResolved PROVE PendingInv'
  BY <1>1, <1>19 DEF CriteriaResolved, manager, pool, runner
<1>20. ASSUME Scored PROVE PendingInv'
  BY <1>1, <1>20 DEF Scored, EndFailed, ClearFlag, manager, criteria, pool, runner
<1>21. ASSUME Complete PROVE PendingInv'
  BY <1>1, <1>21 DEF Complete, ClearFlag, criteria, pool, runner
<1>22. ASSUME PhaseFails PROVE PendingInv'
  BY <1>1, <1>22 DEF PhaseFails, EndFailed, ClearFlag, criteria, pool, runner
<1>23. ASSUME Abandoned PROVE PendingInv'
  BY <1>1, <1>23 DEF Abandoned, WorkersReleased, ClearFlag, FreshPool, criteria
<1>24. ASSUME StartRound PROVE PendingInv'
  BY <1>1, <1>24 DEF StartRound, ClearFlag, criteria, pool, runner
<1>25. ASSUME Abort PROVE PendingInv'
  BY <1>1, <1>25 DEF Abort, criteria, pool, runner
<1>26. ASSUME Override PROVE PendingInv'
  BY <1>1, <1>26 DEF Override, manager, pool, runner
<1>27. ASSUME Crash PROVE PendingInv'
  BY <1>1, <1>27 DEF Crash, ClearFlag, FreshPool
<1>28. ASSUME Restart PROVE PendingInv'
  BY <1>1, <1>28 DEF Restart, manager, criteria, pool, runner
<1>29. ASSUME NEW a \in Agents, NEW r \in {"ok", "no_submission", "error", "timeout"}, Return(a, r)
       PROVE  PendingInv'
  BY <1>1, <1>29 DEF Return, Settle, manager, criteria
<1>30. ASSUME NEW a \in Agents, LateReturn(a) PROVE PendingInv'
  BY <1>1, <1>30 DEF LateReturn, manager, criteria, pool
<1>31. ASSUME NEW a \in Agents, Confirm(a) PROVE PendingInv'
  BY <1>1, <1>31 DEF Confirm, manager, criteria, pool
<1>32. ASSUME NEW a \in Agents, SessionEnds(a) PROVE PendingInv'
  BY <1>1, <1>32 DEF SessionEnds, manager, criteria, pool
<1>33. ASSUME NEW a \in Agents, Write(a) PROVE PendingInv'
  BY <1>1, <1>33 DEF Write, manager, criteria, runner
<1>34. ASSUME UNCHANGED vars PROVE PendingInv'
  BY <1>1, <1>34 DEF vars, manager, criteria, pool, runner
<1> QED
  BY <1>3, <1>4, <1>5, <1>6, <1>7, <1>8, <1>9, <1>10, <1>11, <1>12, <1>13, <1>14, <1>15, <1>16,
     <1>17, <1>18, <1>19, <1>20, <1>21, <1>22, <1>23, <1>24, <1>25, <1>26, <1>27, <1>28,
     <1>29, <1>30, <1>31, <1>32, <1>33, <1>34,
     SMT DEF Next, Driver, Environment

LEMMA PendingHolds == Spec => []PendingInv
<1>1. Init => PendingInv
  BY DEF Init, PendingInv
<1> QED
  BY <1>1, Typed, Workers, PendingStep, PTL DEF Spec

-----------------------------------------------------------------------------
(* The contract. *)

\* Each step of the round is a step its contract with the runner allows, or none.
LEMMA ContractStep ==
    TypeInv /\ WorkersInv /\ PendingInv /\ [Next]_vars => [Contract!Next]_(Contract!vars)
<1> SUFFICES ASSUME TypeInv, WorkersInv, PendingInv, [Next]_vars
             PROVE  [Contract!Next]_(Contract!vars)
  OBVIOUS
<1>1. PoolType /\ RunnerType /\ ExecutingRetained
  BY DEF TypeInv, TypeOK, WorkersInv
<1>2. \A a \in Agents : stage[a] \in {"queued", "running", "stopping"} => quiesced[a] = "none"
  BY DEF WorkersInv, StagesFollow
<1> DEFINE Kept == [Contract!Next]_(Contract!vars)
           Told == {a \in Agents : quiesced[a] = "stopped"}
<1> USE DEF PoolType, RunnerType
<1>3. ASSUME Reconcile PROVE Kept
  BY <1>1, <1>3 DEF Reconcile, Refuse, criteria, pool, Contract!Next, Contract!Wane, Contract!vars
<1>4. ASSUME CreateRow PROVE Kept
  BY <1>1, <1>4 DEF CreateRow, FreshPool, manager, runner, Contract!Next, Contract!Wane,
     Contract!vars
<1>5. ASSUME RefusePlan PROVE Kept
  BY <1>1, <1>5 DEF RefusePlan, Refuse, criteria, pool, runner, Contract!Next, Contract!Wane,
     Contract!vars
<1>6. ASSUME Provision PROVE Kept
  BY <1>1, <1>6 DEF Provision, manager, criteria, Contract!Next, Contract!Wane, Contract!vars
<1>7. ASSUME ProvisionFails PROVE Kept
  BY <1>1, <1>7 DEF ProvisionFails, manager, criteria, runner, Contract!Next, Contract!Wane,
     Contract!vars
<1>8. ASSUME EndPrepare PROVE Kept
  BY <1>1, <1>8 DEF EndPrepare, manager, criteria, runner, Contract!Next, Contract!Wane,
     Contract!vars
<1>9. ASSUME Skip PROVE Kept
  BY <1>1, <1>9 DEF Skip, Pull, manager, criteria, Contract!Next, Contract!Wane, Contract!vars
<1>10. ASSUME Dispatch PROVE Kept
  <2>1. /\ pc = "run" /\ cursor <= Population /\ stage' = [stage EXCEPT ![cursor] = "running"]
        /\ pending' = pending \cup {cursor} /\ unconfirmed' = unconfirmed \cup {cursor}
        /\ executing' = executing \cup {cursor} /\ UNCHANGED quiesced
    BY <1>10 DEF Dispatch, Pull
  <2>2. cursor \in Agents /\ stage[cursor] = "queued"
    BY <1>1, <2>1, PopulationAssumption DEF WorkersInv, StagesFollow, Agents
  <2>3. cursor \notin pending \cup unconfirmed
    BY <2>1, <2>2 DEF PendingInv, WorkersInv, DispatchedHaveHandles
  <2>4. Told' = Told \ {cursor}
    BY <1>2, <2>1, <2>2
  <2> QED
    BY <2>1, <2>2, <2>3, <2>4 DEF Contract!Next, Contract!Dispatch
<1>11. ASSUME DispatchUntracked PROVE Kept
  BY <1>1, <1>11 DEF DispatchUntracked, Pull, manager, criteria, Contract!Next, Contract!Wane,
     Contract!vars
<1>12. ASSUME EndRun PROVE Kept
  BY <1>1, <1>12 DEF EndRun, manager, criteria, runner, Contract!Next, Contract!Wane,
     Contract!vars
<1>13. ASSUME NEW a \in Agents, DriverTimesOut(a) PROVE Kept
  BY <1>1, <1>13 DEF DriverTimesOut, Settle, manager, criteria, Contract!Next, Contract!Wane,
     Contract!vars
<1>14. ASSUME NEW a \in Agents, Quiesce(a) PROVE Kept
  BY <1>1, <1>14 DEF Quiesce, manager, criteria, runner, Contract!Next, Contract!Wane,
     Contract!vars
<1>15. ASSUME NEW a \in Agents, Capture(a) PROVE Kept
  BY <1>1, <1>15 DEF Capture, manager, criteria, runner, Contract!Next, Contract!Wane,
     Contract!vars
<1>16. ASSUME Collect PROVE Kept
  BY <1>1, <1>16 DEF Collect, manager, criteria, runner, Contract!Next, Contract!Wane,
     Contract!vars
<1>17. ASSUME EndCollect PROVE Kept
  BY <1>1, <1>17 DEF EndCollect, EndFailed, ClearFlag, manager, criteria, pool, runner,
     Contract!Next, Contract!Wane, Contract!vars
<1>18. ASSUME Released PROVE Kept
  BY <1>1, <1>18 DEF Released, WorkersReleased, FreshPool, manager, Contract!Next,
     Contract!Wane, Contract!vars
<1>19. ASSUME CriteriaResolved PROVE Kept
  BY <1>1, <1>19 DEF CriteriaResolved, manager, pool, runner, Contract!Next, Contract!Wane,
     Contract!vars
<1>20. ASSUME Scored PROVE Kept
  BY <1>1, <1>20 DEF Scored, EndFailed, ClearFlag, manager, criteria, pool, runner,
     Contract!Next, Contract!Wane, Contract!vars
<1>21. ASSUME Complete PROVE Kept
  BY <1>1, <1>21 DEF Complete, ClearFlag, criteria, pool, runner, Contract!Next, Contract!Wane,
     Contract!vars
<1>22. ASSUME PhaseFails PROVE Kept
  BY <1>1, <1>22 DEF PhaseFails, EndFailed, ClearFlag, criteria, pool, runner, Contract!Next,
     Contract!Wane, Contract!vars
<1>23. ASSUME Abandoned PROVE Kept
  BY <1>1, <1>23 DEF Abandoned, WorkersReleased, ClearFlag, FreshPool, criteria, Contract!Next,
     Contract!Wane, Contract!vars
<1>24. ASSUME StartRound PROVE Kept
  BY <1>1, <1>24 DEF StartRound, ClearFlag, criteria, pool, runner, Contract!Next,
     Contract!Wane, Contract!vars
<1>25. ASSUME Abort PROVE Kept
  BY <1>1, <1>25 DEF Abort, criteria, pool, runner, Contract!Next, Contract!Wane, Contract!vars
<1>26. ASSUME Override PROVE Kept
  BY <1>1, <1>26 DEF Override, manager, pool, runner, Contract!Next, Contract!Wane, Contract!vars
<1>27. ASSUME Crash PROVE Kept
  BY <1>1, <1>27 DEF Crash, ClearFlag, FreshPool, Contract!Next, Contract!Lost, Contract!vars
<1>28. ASSUME Restart PROVE Kept
  BY <1>1, <1>28 DEF Restart, manager, criteria, pool, runner, Contract!Next, Contract!Wane,
     Contract!vars
<1>29. ASSUME NEW a \in Agents, NEW r \in {"ok", "no_submission", "error", "timeout"}, Return(a, r)
       PROVE  Kept
  BY <1>1, <1>29 DEF Return, Settle, manager, criteria, Contract!Next, Contract!Wane,
     Contract!vars
<1>30. ASSUME NEW a \in Agents, LateReturn(a) PROVE Kept
  BY <1>1, <1>30 DEF LateReturn, manager, criteria, pool, Contract!Next, Contract!Wane,
     Contract!vars
<1>31. ASSUME NEW a \in Agents, Confirm(a) PROVE Kept
  BY <1>1, <1>31 DEF Confirm, manager, criteria, pool, Contract!Next, Contract!Wane, Contract!vars
<1>32. ASSUME NEW a \in Agents, SessionEnds(a) PROVE Kept
  BY <1>1, <1>32 DEF SessionEnds, manager, criteria, pool, Contract!Next, Contract!Wane,
     Contract!vars
<1>33. ASSUME NEW a \in Agents, Write(a) PROVE Kept
  BY <1>1, <1>33 DEF Write, manager, criteria, runner, Contract!Next, Contract!Wane, Contract!vars
<1>34. ASSUME UNCHANGED vars PROVE Kept
  BY <1>1, <1>34 DEF vars, manager, criteria, pool, runner, Contract!Next, Contract!Wane,
     Contract!vars
<1> QED
  BY <1>3, <1>4, <1>5, <1>6, <1>7, <1>8, <1>9, <1>10, <1>11, <1>12, <1>13, <1>14, <1>15, <1>16,
     <1>17, <1>18, <1>19, <1>20, <1>21, <1>22, <1>23, <1>24, <1>25, <1>26, <1>27, <1>28,
     <1>29, <1>30, <1>31, <1>32, <1>33, <1>34,
     SMT DEF Next, Driver, Environment

\* The driver never dispatches an agent over an invocation that is pending or unconfirmed,
\* from whatever round, and takes for stopped only what its runner may report as stopped.
THEOREM DriverKeepsToContract == Spec => KeepsToContract
BY Typed, Workers, PendingHolds, ContractStep, PTL DEF Spec, KeepsToContract
=============================================================================
