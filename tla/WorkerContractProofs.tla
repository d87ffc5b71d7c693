------------------------- MODULE WorkerContractProofs -------------------------
(* What the contract of WorkerContract is good for, for any set of agents. *)
EXTENDS WorkerContract, TLAPS

\* The contract keeps its variables within its agents, whatever a worker does.
THEOREM TypeCorrect == Spec => []TypeOK
<1>1. Init => TypeOK
  BY DEF Init, TypeOK
<1>2. TypeOK /\ [Next]_vars => TypeOK'
  BY DEF TypeOK, Next, vars, Dispatch, Begin, Wane, Lost
<1> QED
  BY <1>1, <1>2, PTL DEF Spec

\* Under the contract nothing executes that is not held as unconfirmed, and a worker that
\* was reported "stopped" has stopped, until its agent is taken on again: this is what
\* capturing a workspace after a quiesce relies on (engine/driver.ts, runAndCapture).
THEOREM ContractIsHonest == Spec => []Honest
<1>1. Init => Honest
  BY DEF Init, Honest
<1>2. Honest /\ [Next]_vars => Honest'
  <2> SUFFICES ASSUME Honest, [Next]_vars PROVE Honest'
    OBVIOUS
  <2>1. ASSUME NEW a \in Agents, Dispatch(a) PROVE Honest'
    BY <2>1 DEF Honest, Dispatch
  <2>2. ASSUME NEW a \in Agents, Begin(a) PROVE Honest'
    BY <2>2 DEF Honest, Begin
  <2>3. CASE Wane
    BY <2>3 DEF Honest, Wane
  <2>4. CASE Lost
    BY <2>4 DEF Honest, Lost
  <2>5. CASE UNCHANGED vars
    BY <2>5 DEF Honest, vars
  <2> QED
    BY <2>1, <2>2, <2>3, <2>4, <2>5 DEF Next
<1> QED
  BY <1>1, <1>2, PTL DEF Spec
=============================================================================
