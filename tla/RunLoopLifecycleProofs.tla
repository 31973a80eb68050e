----------------------- MODULE RunLoopLifecycleProofs -----------------------
(***************************************************************************)
(* What a client that starts, stops and joins the loop can rely on, for    *)
(* any set of controllers and with or without the early signalStart.  The  *)
(* monitor's own invariant holds here because every step of the client is  *)
(* a step of the monitor or none; LifeInv adds what the client's phase     *)
(* says of the calls and of the loop.                                      *)
(***************************************************************************)
EXTENDS RunLoopLifecycle, RunLoopManagerProofs

Phases == {"off", "armed", "spawned", "starting", "up", "stopping"}

\* Owner has been told that the loop runs, and has not joined it since.
Confirmed == \/ phase \in {"up", "stopping"}
             \/ phase = "starting" /\ op[Owner] = "none"

\* Owner makes the calls its phase allows, and the others ask for shutdown
\* between a confirmed start and the join.
ClientCalls ==
    /\ phase \in Phases
    /\ fresh \in BOOLEAN
    /\ op[Owner] # "none" =>
          <<phase, op[Owner]>> \in {<<"armed", "signalStart">>,
                                    <<"starting", "signalAndWaitForStart">>,
                                    <<"stopping", "signalAndWaitForShutdown">>}
    /\ \A c \in Controllers \ {Owner} :
          op[c] # "none" => phase \in {"up", "stopping"} /\ op[c] \in StopOps

\* There is no loop thread before the spawn; a spawned one that has not built its
\* LoopGuard is outside it, and none such is left once the start is confirmed;
\* from then on the loop has reported more than STARTING.
LoopSpawned ==
    /\ phase \in {"off", "armed"} => loopPc = "out" /\ ~fresh
    /\ fresh => loopPc = "out"
    /\ Confirmed => /\ ~fresh
                    /\ loopPc \in {"lock", "set"} => reporting # "STATE_STARTING"

\* The stop request of Owner's own shutdown stays in force until it has
\* returned, and the loop is then past its last report.
StopHolds ==
    phase = "stopping" =>
       /\ pc[Owner] \in {"check", "wait", "wake", "idle"} => shouldStop
       /\ op[Owner] = "none" => \/ loopPc = "out"
                                \/ loopPc = "notify" /\ reporting = "STATE_STOPPED"

LifeInv == ClientCalls /\ LoopSpawned /\ StopHolds

-----------------------------------------------------------------------------
(* The client's steps are steps of the monitor.                            *)

\* The set-up of the client is the monitor's.
LEMMA LifeInitInit == LifeInit => Init
BY DEF LifeInit

\* Whatever the client does, the monitor sees a call, a step of its own or none.
LEMMA LifeStepIsStep == [LifeNext]_lifeVars => [Next]_vars
<1> USE DEF StartOps, StopOps, Ops
<1>1. Arm => Next
  BY ClientAssumption DEF Arm, Next, CtlStep
<1>2. AwaitStart => Next
  BY ClientAssumption DEF AwaitStart, Next, CtlStep
<1>3. AwaitShutdown => Next
  BY ClientAssumption DEF AwaitShutdown, Next, CtlStep
<1>4. ASSUME NEW c \in Controllers, AskShutdown(c)
      PROVE  Next
  BY <1>4 DEF AskShutdown, Next, CtlStep
<1>5. Spawn \/ StartConfirmed \/ Join => UNCHANGED vars
  BY DEF Spawn, StartConfirmed, Join
<1>6. ASSUME NEW c \in Controllers,
             LifeAcquire(c) \/ InCall(c) \/ LifeSpuriousWake(c)
      PROVE  Next
  BY <1>6 DEF LifeAcquire, InCall, LifeSpuriousWake, Next, CtlStep
<1>7. Enter \/ GiveUp \/ LifeLoopAcquire \/ InLoop => Next
  BY DEF Enter, GiveUp, LifeLoopAcquire, InLoop, Next, LoopStep
<1>8. UNCHANGED lifeVars => UNCHANGED vars
  BY DEF lifeVars, vars
<1> QED
  BY <1>1, <1>2, <1>3, <1>4, <1>5, <1>6, <1>7, <1>8 DEF LifeNext, ClientStep

\* The monitor in the hands of the client is a monitor, ...
THEOREM LifecycleRefinesMonitor == LifeSpec => Spec
BY LifeInitInit, LifeStepIsStep, PTL DEF LifeSpec, Spec

\* ... so that what is proved of the monitor holds here.
THEOREM LifecycleInvariant == LifeSpec => []IInv
BY LifecycleRefinesMonitor, Invariant, PTL

-----------------------------------------------------------------------------
(* The client's invariant.                                                 *)

\* A client that has not spawned the loop satisfies the invariant.
LEMMA LifeInitInv == LifeInit => LifeInv
BY ClientAssumption
DEF LifeInit, Init, LifeInv, ClientCalls, Phases, LoopSpawned, Confirmed, StopHolds

\* The client's calls and their returns keep to its phase.
LEMMA LifeNextCalls == IInv /\ LifeInv /\ [LifeNext]_lifeVars => ClientCalls'
<1> SUFFICES ASSUME IInv, LifeInv, [LifeNext]_lifeVars
             PROVE  ClientCalls'
  OBVIOUS
<1> USE ClientAssumption
    DEF LifeInv, ClientCalls, Phases, StopOps, StartOps, IInv, TypeOK,
        ctlVars, loopVars, clientVars
<1>1. CASE Arm
  BY <1>1 DEF Arm, Call
<1>2. CASE Spawn
  BY <1>2 DEF Spawn, vars
<1>3. CASE AwaitStart
  BY <1>3 DEF AwaitStart, Call
<1>4. CASE StartConfirmed
  BY <1>4 DEF StartConfirmed, vars
<1>5. ASSUME NEW c \in Controllers, AskShutdown(c)
      PROVE  ClientCalls'
  BY <1>5 DEF AskShutdown, Call
<1>6. CASE AwaitShutdown
  BY <1>6 DEF AwaitShutdown, Call
<1>7. CASE Join
  BY <1>7 DEF Join, vars
<1>8. ASSUME NEW c \in Controllers,
             LifeAcquire(c) \/ InCall(c) \/ LifeSpuriousWake(c)
      PROVE  ClientCalls'
  BY <1>8 DEF LifeAcquire, InCall, LifeSpuriousWake, Acquire, SetShouldStop,
              CheckState, SpuriousWake
<1>9. CASE Enter \/ GiveUp \/ LifeLoopAcquire \/ InLoop
  BY <1>9 DEF Enter, GiveUp, LifeLoopAcquire, InLoop, EnterLoop, LeaveLoop,
              LoopAcquire, SetState, NotifyAll, FinishSetup, ShouldContinue,
              FinishBody, Report
<1>10. CASE UNCHANGED lifeVars
  BY <1>10 DEF lifeVars
<1> QED
  BY <1>1, <1>2, <1>3, <1>4, <1>5, <1>6, <1>7, <1>8, <1>9, <1>10
  DEF LifeNext, ClientStep

\* Nothing but Enter starts a report of STARTING, and a confirmed start is one
\* the loop has really made: signalAndWaitForStart returned under the mutex.
LEMMA LifeNextSpawned == IInv /\ LifeInv /\ [LifeNext]_lifeVars => LoopSpawned'
<1> SUFFICES ASSUME IInv, LifeInv, [LifeNext]_lifeVars
             PROVE  LoopSpawned'
  OBVIOUS
<1> USE ClientAssumption
    DEF LifeInv, ClientCalls, Phases, LoopSpawned, Confirmed, IInv, TypeOK,
        CallInv, ctlVars, loopVars, clientVars
<1>1. CASE Arm
  BY <1>1 DEF Arm, Call
<1>2. CASE Spawn
  BY <1>2 DEF Spawn, vars
<1>3. CASE AwaitStart
  BY <1>3 DEF AwaitStart, Call
<1>4. CASE StartConfirmed
  BY <1>4 DEF StartConfirmed, vars
<1>5. ASSUME NEW c \in Controllers, AskShutdown(c)
      PROVE  LoopSpawned'
  BY <1>5 DEF AskShutdown, Call
<1>6. CASE AwaitShutdown
  BY <1>6 DEF AwaitShutdown, Call
<1>7. CASE Join
  BY <1>7 DEF Join, vars
<1>8. ASSUME NEW c \in Controllers, LifeAcquire(c) \/ LifeSpuriousWake(c)
      PROVE  LoopSpawned'
  BY <1>8 DEF LifeAcquire, LifeSpuriousWake, Acquire, SpuriousWake
<1>9. ASSUME NEW c \in Controllers, InCall(c), SetShouldStop(c)
      PROVE  LoopSpawned'
  BY <1>9 DEF InCall, SetShouldStop, WaitOps
<1>10. ASSUME NEW c \in Controllers, InCall(c), CheckState(c)
       PROVE  LoopSpawned'
  <2>1. currentState = "STATE_RUNNING" => HasStarted
    BY <1>10, ReturnFindsLoop DEF CheckState
  <2>2. currentState = "STATE_RUNNING" => loopPc # "out"
    BY <2>1 DEF HasStarted
  <2> QED
    BY <1>10, <2>1, <2>2 DEF InCall, CheckState, Awaited, HasStarted
<1>11. CASE Enter
  BY <1>11 DEF Enter, EnterLoop, Report
<1>12. CASE GiveUp \/ LifeLoopAcquire \/ InLoop
  BY <1>12 DEF GiveUp, LifeLoopAcquire, InLoop, LeaveLoop, LoopAcquire, SetState,
               NotifyAll, FinishSetup, ShouldContinue, FinishBody, Report
<1>13. CASE UNCHANGED lifeVars
  BY <1>13 DEF lifeVars
<1> QED
  BY <1>1, <1>2, <1>3, <1>4, <1>5, <1>6, <1>7, <1>8, <1>9, <1>10, <1>11, <1>12,
     <1>13
  DEF LifeNext, ClientStep, InCall

\* While Owner's shutdown is under way no call takes the stop request back, and
\* when it returns the loop cannot report anything any more.
LEMMA LifeNextStop == IInv /\ LifeInv /\ [LifeNext]_lifeVars => StopHolds'
<1> SUFFICES ASSUME IInv, LifeInv, [LifeNext]_lifeVars
             PROVE  StopHolds'
  OBVIOUS
<1> USE ClientAssumption
    DEF LifeInv, ClientCalls, Phases, LoopSpawned, Confirmed, StopHolds, IInv,
        TypeOK, CallInv, ctlVars, loopVars, clientVars
<1>1. CASE Arm
  BY <1>1 DEF Arm, Call
<1>2. CASE Spawn
  BY <1>2 DEF Spawn, vars
<1>3. CASE AwaitStart
  BY <1>3 DEF AwaitStart, Call
<1>4. CASE StartConfirmed
  BY <1>4 DEF StartConfirmed, vars
<1>5. ASSUME NEW c \in Controllers, AskShutdown(c)
      PROVE  StopHolds'
  BY <1>5 DEF AskShutdown, Call
<1>6. CASE AwaitShutdown
  BY <1>6 DEF AwaitShutdown, Call
<1>7. CASE Join
  BY <1>7 DEF Join, vars
<1>8. ASSUME NEW c \in Controllers, LifeAcquire(c) \/ LifeSpuriousWake(c)
      PROVE  StopHolds'
  BY <1>8 DEF LifeAcquire, LifeSpuriousWake, Acquire, SpuriousWake
<1>9. ASSUME NEW c \in Controllers, InCall(c), SetShouldStop(c)
      PROVE  StopHolds'
  BY <1>9 DEF InCall, SetShouldStop, WaitOps, StopOps
<1>10. ASSUME NEW c \in Controllers, InCall(c), CheckState(c)
       PROVE  StopHolds'
  <2>1. currentState = "STATE_STOPPED" => OutsideLoop
    BY <1>10, ReturnFindsLoop DEF CheckState
  <2> QED
    BY <1>10, <2>1 DEF InCall, CheckState, Awaited, OutsideLoop
<1>11. CASE Enter
  BY <1>11 DEF Enter, EnterLoop, Report
<1>12. CASE GiveUp \/ LifeLoopAcquire
  BY <1>12 DEF GiveUp, LifeLoopAcquire, LeaveLoop, LoopAcquire, Report
<1>13. CASE InLoop
  BY <1>13 DEF InLoop, SetState, NotifyAll, FinishSetup, ShouldContinue,
               FinishBody, Report
<1>14. CASE UNCHANGED lifeVars
  BY <1>14 DEF lifeVars
<1> QED
  BY <1>1, <1>2, <1>3, <1>4, <1>5, <1>6, <1>7, <1>8, <1>9, <1>10, <1>11, <1>12,
     <1>13, <1>14
  DEF LifeNext, ClientStep, InCall

\* The client's invariant holds of every life of the loop.
THEOREM ClientInvariant == LifeSpec => []LifeInv
<1>1. IInv /\ LifeInv /\ [LifeNext]_lifeVars => LifeInv'
  BY LifeNextCalls, LifeNextSpawned, LifeNextStop DEF LifeInv
<1> QED
  BY <1>1, LifeInitInv, LifecycleInvariant, PTL DEF LifeSpec

\* After Owner's signalAndWaitForShutdown the loop has nothing left to do but
\* the notify_all of its last report, it is recorded as stopped, and the request
\* to stop stands, however the other controllers' requests interleave.
THEOREM ShutdownIsFinal == LifeSpec => []ShutdownFinal
<1>1. IInv /\ LifeInv => ShutdownFinal
  BY ClientAssumption
  DEF IInv, TypeOK, CallInv, StateTracksLoop, LifeInv, LoopSpawned, Confirmed,
      StopHolds, ShutdownFinal
<1> QED
  BY <1>1, LifecycleInvariant, ClientInvariant, PTL

=============================================================================
