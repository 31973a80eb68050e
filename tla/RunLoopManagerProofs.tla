------------------------ MODULE RunLoopManagerProofs ------------------------
(***************************************************************************)
(* The safety of RunLoopManager for any set of controllers: IInv is        *)
(* inductive, and the safety properties follow from it.                    *)
(***************************************************************************)
EXTENDS RunLoopManager, TLAPS

\* The monitor as its constructor leaves it satisfies the invariant.
LEMMA InitIInv == Init => IInv
BY ThreadAssumption
DEF Init, IInv, TypeOK, RunningState, CtlPcs, LoopPcs, Ops, StartOps, StopOps,
    MutexInv, CallInv, StateTracksLoop, NoLostWakeup

\* No step of a controller or of the loop, and no stutter, breaks the invariant.
LEMMA NextIInv == IInv /\ [Next]_vars => IInv'
<1> SUFFICES ASSUME IInv, [Next]_vars
             PROVE  IInv'
  OBVIOUS
<1> USE ThreadAssumption
    DEF IInv, TypeOK, MutexInv, CallInv, StateTracksLoop, NoLostWakeup,
        RunningState, CtlPcs, LoopPcs, Ops, StartOps, StopOps, WaitOps,
        Awaited, loopVars, ctlVars
<1>1. ASSUME NEW c \in Controllers, NEW o \in Ops, Call(c, o)
      PROVE  IInv'
  BY <1>1 DEF Call
<1>2. ASSUME NEW c \in Controllers, Acquire(c)
      PROVE  IInv'
  BY <1>2 DEF Acquire
<1>3. ASSUME NEW c \in Controllers, SetShouldStop(c)
      PROVE  IInv'
  BY <1>3 DEF SetShouldStop
<1>4. ASSUME NEW c \in Controllers, CheckState(c)
      PROVE  IInv'
  BY <1>4 DEF CheckState
<1>5. ASSUME NEW c \in Controllers, SpuriousWake(c)
      PROVE  IInv'
  BY <1>5 DEF SpuriousWake
<1>6. CASE EnterLoop
  BY <1>6 DEF EnterLoop, Report
<1>7. CASE LoopAcquire
  BY <1>7 DEF LoopAcquire
<1>8. CASE SetState
  BY <1>8 DEF SetState
<1>9. CASE NotifyAll
  BY <1>9 DEF NotifyAll, Report
<1>10. CASE FinishSetup
  BY <1>10 DEF FinishSetup, Report
<1>11. CASE LeaveLoop
  BY <1>11 DEF LeaveLoop, Report
<1>12. CASE ShouldContinue
  BY <1>12 DEF ShouldContinue, Report
<1>13. CASE FinishBody
  BY <1>13 DEF FinishBody
<1>14. CASE UNCHANGED vars
  BY <1>14 DEF vars
<1> QED
  BY <1>1, <1>2, <1>3, <1>4, <1>5, <1>6, <1>7, <1>8, <1>9, <1>10, <1>11,
     <1>12, <1>13, <1>14
  DEF Next, CtlStep, LoopStep

\* The invariant holds of every behaviour of the monitor.
THEOREM Invariant == Spec => []IInv
BY InitIInv, NextIInv, PTL DEF Spec

\* The variables keep their types, whatever the controllers call.
THEOREM TypeCorrect == Spec => []TypeOK
<1>1. IInv => TypeOK
  BY DEF IInv
<1> QED
  BY <1>1, Invariant, PTL

\* A call never sleeps through the report of the state it waits for.
THEOREM NoWakeupIsLost == Spec => []NoLostWakeup
<1>1. IInv => NoLostWakeup
  BY DEF IInv
<1> QED
  BY <1>1, Invariant, PTL

\* currentState_ agrees with where the loop thread really is.
THEOREM StateIsTracked == Spec => []StateTracksLoop
<1>1. IInv => StateTracksLoop
  BY DEF IInv
<1> QED
  BY <1>1, Invariant, PTL

-----------------------------------------------------------------------------
(* The returns of the waiting calls.                                       *)

\* Only a call that tests the state under the mutex and finds the one it
\* waits for returns from waiting.
LEMMA OnlyCheckReturns ==
  ASSUME IInv, [Next]_vars, NEW c \in Controllers, NEW o \in WaitOps,
         Returns(c, o)
  PROVE  pc[c] = "check" /\ currentState = Awaited(o)
<1> USE DEF IInv, TypeOK, CallInv, Returns, Ops, StartOps, StopOps, WaitOps,
            loopVars, ctlVars
<1>1. ASSUME NEW d \in Controllers, CtlStep(d)
      PROVE  pc[c] = "check" /\ currentState = Awaited(o)
  BY <1>1 DEF CtlStep, Call, Acquire, SetShouldStop, CheckState, SpuriousWake
<1>2. LoopStep => FALSE
  BY DEF LoopStep, EnterLoop, LoopAcquire, SetState, NotifyAll, FinishSetup,
         LeaveLoop, ShouldContinue, FinishBody, Report
<1>3. UNCHANGED vars => FALSE
  BY DEF vars
<1> QED
  BY <1>1, <1>2, <1>3 DEF Next

\* A call that finds its state under the mutex finds the loop where that state
\* says, because no report is between its two halves while the call holds it.
LEMMA ReturnFindsLoop ==
  ASSUME IInv, NEW c \in Controllers, pc[c] = "check"
  PROVE  /\ currentState = "STATE_STOPPED" => OutsideLoop
         /\ currentState = "STATE_RUNNING" => HasStarted
<1>1. mut = c /\ loopPc # "set"
  BY ThreadAssumption DEF IInv, MutexInv
<1> QED
  BY <1>1 DEF IInv, TypeOK, StateTracksLoop, OutsideLoop, HasStarted, LoopPcs,
              RunningState

\* Every return of signalAndWaitForShutdown and of signalAndWaitForStart finds
\* the loop stopped, or started, in fact and not only in currentState_.
THEOREM HandshakeIsSound == Spec => HandshakeSound
<1>1. IInv /\ [Next]_vars => [HandshakeStep]_vars
  <2> SUFFICES ASSUME IInv, [Next]_vars, NEW c \in Controllers
               PROVE  /\ Returns(c, "signalAndWaitForShutdown") => OutsideLoop
                      /\ Returns(c, "signalAndWaitForStart") => HasStarted
    BY DEF HandshakeStep
  <2>1. CASE Returns(c, "signalAndWaitForShutdown")
    <3>1. pc[c] = "check" /\ currentState = "STATE_STOPPED"
      BY <2>1, OnlyCheckReturns DEF WaitOps, Awaited
    <3>2. ~Returns(c, "signalAndWaitForStart")
      BY <2>1 DEF Returns
    <3> QED
      BY <3>1, <3>2, ReturnFindsLoop
  <2>2. CASE Returns(c, "signalAndWaitForStart")
    <3>1. pc[c] = "check" /\ currentState = "STATE_RUNNING"
      BY <2>2, OnlyCheckReturns DEF WaitOps, Awaited
    <3>2. ~Returns(c, "signalAndWaitForShutdown")
      BY <2>2 DEF Returns
    <3> QED
      BY <3>1, <3>2, ReturnFindsLoop
  <2> QED
    BY <2>1, <2>2
<1> QED
  BY <1>1, Invariant, PTL DEF Spec, HandshakeSound

-----------------------------------------------------------------------------
(* The monitor implements RunLoopContract.                                 *)

\* What the contract sees of a state of the monitor, as ImplementsContract maps it.
requestedBar == IF shouldStop THEN "stop" ELSE "run"
signalledBar == {c \in Controllers : pc[c] \in {"relock", "check", "wait", "wake"}}

\* A monitor fresh from its constructor is a contract in its initial state.
LEMMA InitContract == Init => Contract!Init
BY DEF Init, Contract!Init

\* setShouldStop_ leaves behind the request of the call that made it.
LEMMA SetRequests ==
  ASSUME IInv, NEW c \in Controllers, SetShouldStop(c)
  PROVE  op[c] \in Ops /\ requestedBar' = Contract!Request[op[c]]
<1>1. op[c] \in Ops
  BY DEF IInv, TypeOK, CallInv, SetShouldStop
<1>2. CASE op[c] \in StartOps
  <2>1. ~shouldStop'
    BY <1>2 DEF SetShouldStop, StartOps, StopOps
  <2> QED
    BY <1>1, <1>2, <2>1 DEF requestedBar, StartOps, Contract!Request
<1>3. CASE op[c] \in StopOps
  <2>1. shouldStop'
    BY <1>3 DEF SetShouldStop
  <2> QED
    BY <1>1, <1>3, <2>1 DEF requestedBar, StopOps, Contract!Request
<1> QED
  BY <1>1, <1>2, <1>3 DEF Ops

\* A step of a controller is a step of its call in the contract, or none.
LEMMA CtlContract ==
  ASSUME IInv, NEW c \in Controllers, CtlStep(c)
  PROVE  [Contract!Next]_(Contract!vars)
<1> USE DEF IInv, TypeOK, CallInv, Ops, StartOps, StopOps, WaitOps, CtlPcs,
            loopVars, signalledBar
<1>1. ASSUME NEW o \in Ops, Call(c, o)
      PROVE  Contract!Invoke(c)
  <2>1. signalledBar' = signalledBar
    BY <1>1 DEF Call
  <2> QED
    BY <1>1, <2>1 DEF Call, Contract!Invoke, Contract!Request
<1>2. ASSUME Acquire(c)
      PROVE  UNCHANGED Contract!vars
  <2>1. signalledBar' = signalledBar
    BY <1>2 DEF Acquire
  <2> QED
    BY <1>2, <2>1 DEF Acquire, Contract!vars
<1>3. ASSUME SetShouldStop(c), op[c] \notin WaitOps
      PROVE  Contract!Signal(c)
  <2>1. signalledBar' = signalledBar
    BY <1>3 DEF SetShouldStop
  <2>2. op[c] \in DOMAIN Contract!Request \ DOMAIN Contract!WaitsFor
    BY <1>3, SetRequests DEF Contract!Request, Contract!WaitsFor
  <2>3. requestedBar' = Contract!Request[op[c]]
    BY <1>3, SetRequests
  <2> QED
    BY <1>3, <2>1, <2>2, <2>3 DEF SetShouldStop, Contract!Signal, requestedBar
<1>4. ASSUME SetShouldStop(c), op[c] \in WaitOps
      PROVE  Contract!SignalAndWait(c)
  <2>1. c \notin signalledBar /\ signalledBar' = signalledBar \cup {c}
    BY <1>4 DEF SetShouldStop
  <2>2. op[c] \in DOMAIN Contract!WaitsFor
    BY <1>4 DEF Contract!WaitsFor
  <2>3. requestedBar' = Contract!Request[op[c]]
    BY <1>4, SetRequests
  <2> QED
    BY <1>4, <2>1, <2>2, <2>3
    DEF SetShouldStop, Contract!SignalAndWait, requestedBar
<1>5. ASSUME CheckState(c), currentState = Awaited(op[c])
      PROVE  Contract!Return(c)
  <2>1. c \in signalledBar /\ signalledBar' = signalledBar \ {c}
    BY <1>5 DEF CheckState
  <2>2. op[c] \in WaitOps
    BY <1>5 DEF CheckState
  <2> QED
    BY <1>5, <2>1, <2>2
    DEF CheckState, Awaited, Contract!Return, Contract!WaitsFor
<1>6. ASSUME CheckState(c), currentState # Awaited(op[c])
      PROVE  UNCHANGED Contract!vars
  <2>1. signalledBar' = signalledBar
    BY <1>6 DEF CheckState
  <2> QED
    BY <1>6, <2>1 DEF CheckState, Contract!vars
<1>7. ASSUME SpuriousWake(c)
      PROVE  UNCHANGED Contract!vars
  <2>1. signalledBar' = signalledBar
    BY <1>7 DEF SpuriousWake
  <2> QED
    BY <1>7, <2>1 DEF SpuriousWake, Contract!vars
<1> QED
  BY <1>1, <1>2, <1>3, <1>4, <1>5, <1>6, <1>7 DEF CtlStep, Contract!Next

\* A step of the loop is a report when it sets currentState_, and none otherwise.
LEMMA LoopContract ==
  ASSUME IInv, LoopStep
  PROVE  [Contract!Next]_(Contract!vars)
<1> USE DEF IInv, TypeOK, CtlPcs, ctlVars, signalledBar
<1>1. ASSUME SetState
      PROVE  Contract!Report
  BY <1>1 DEF SetState, StateTracksLoop, RunningState, Contract!Report
<1>2. ASSUME NotifyAll
      PROVE  UNCHANGED Contract!vars
  <2>1. signalledBar' = signalledBar
    BY <1>2 DEF NotifyAll
  <2> QED
    BY <1>2, <2>1 DEF NotifyAll, Contract!vars
<1>3. ASSUME \/ EnterLoop
             \/ LoopAcquire
             \/ FinishSetup
             \/ LeaveLoop
             \/ ShouldContinue
             \/ FinishBody
      PROVE  UNCHANGED Contract!vars
  BY <1>3 DEF EnterLoop, LoopAcquire, FinishSetup, LeaveLoop, ShouldContinue,
              FinishBody, Contract!vars
<1> QED
  BY <1>1, <1>2, <1>3 DEF LoopStep, Contract!Next

\* Every behaviour of the monitor is one the interfaces promise.
THEOREM MonitorImplementsContract == Spec => ImplementsContract
<1>1. IInv /\ [Next]_vars => [Contract!Next]_(Contract!vars)
  <2> SUFFICES ASSUME IInv, [Next]_vars
               PROVE  [Contract!Next]_(Contract!vars)
    OBVIOUS
  <2>1. CASE UNCHANGED vars
    BY <2>1 DEF vars, Contract!vars
  <2> QED
    BY <2>1, CtlContract, LoopContract DEF Next
<1> QED
  BY <1>1, InitContract, Invariant, PTL DEF Spec, ImplementsContract, Contract!Spec

=============================================================================
