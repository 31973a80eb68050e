--------------------------- MODULE RunLoopManager ---------------------------
(***************************************************************************)
(* util::RunLoopManagerBase with its Boost, Std and VPR implementations,   *)
(* and util::LoopGuard: a monitor (one mutex, one condition variable) over *)
(* currentState_, and a flag shouldStop_ that the loop reads without       *)
(* taking the mutex.                                                       *)
(*                                                                         *)
(* Controllers are the threads that call the starting and the shutdown     *)
(* interface; Loop is the thread that builds a LoopGuard and then runs     *)
(* while shouldContinue().  One step is one access to the shared state;    *)
(* an unlock is part of the last step of its critical section.             *)
(***************************************************************************)
CONSTANTS Controllers, Loop, NoThread

ASSUME ThreadAssumption == /\ Loop \notin Controllers
                           /\ NoThread \notin Controllers \cup {Loop}

VARIABLES
    shouldStop,    \* shouldStop_
    currentState,  \* currentState_
    mut,           \* the thread that holds mut_, or NoThread
    pc,            \* where each controller is in the call it makes
    op,            \* the call each controller makes, or "none"
    loopPc,        \* where the loop thread is
    reporting      \* the argument of the last reportStateChange_

ctlVars  == <<pc, op>>
loopVars == <<loopPc, reporting>>
vars     == <<shouldStop, currentState, mut, pc, op, loopPc, reporting>>

RunningState == {"STATE_STOPPED", "STATE_STARTING", "STATE_RUNNING"}

StartOps == {"signalStart", "signalAndWaitForStart"}
StopOps  == {"signalShutdown", "signalAndWaitForShutdown"}
WaitOps  == {"signalAndWaitForStart", "signalAndWaitForShutdown"}
Ops      == StartOps \cup StopOps

\* The state whose absence keeps the while loop of a waiting call going.
Awaited(o) == IF o = "signalAndWaitForStart" THEN "STATE_RUNNING"
                                             ELSE "STATE_STOPPED"

\* Mutant of Init: a constructor without : currentState_(STATE_STOPPED).
InitUnset == /\ shouldStop = FALSE
             /\ currentState \in RunningState \cup {"uninitialized"}
             /\ mut = NoThread
             /\ pc = [c \in Controllers |-> "idle"]
             /\ op = [c \in Controllers |-> "none"]
             /\ loopPc = "out"
             /\ reporting = "STATE_STOPPED"

Init == /\ shouldStop = FALSE
        /\ currentState = "STATE_STOPPED"
        /\ mut = NoThread
        /\ pc = [c \in Controllers |-> "idle"]
        /\ op = [c \in Controllers |-> "none"]
        /\ loopPc = "out"
        /\ reporting = "STATE_STOPPED"

-----------------------------------------------------------------------------
(* The starting and the shutdown interface.                                *)

Call(c, o) == /\ pc[c] = "idle"
              /\ pc' = [pc EXCEPT ![c] = "lock"]
              /\ op' = [op EXCEPT ![c] = o]
              /\ UNCHANGED <<shouldStop, currentState, mut, loopVars>>

\* Mutant of Acquire: "if" for "while", a woken call returns without a test.
AcquireNoRetest(c) == /\ mut = NoThread
                      /\ \/ /\ pc[c] = "lock"
                            /\ pc' = [pc EXCEPT ![c] = "set"]
                            /\ mut' = c
                            /\ op' = op
                         \/ /\ pc[c] = "relock"
                            /\ pc' = [pc EXCEPT ![c] = "check"]
                            /\ mut' = c
                            /\ op' = op
                         \/ /\ pc[c] = "wake"
                            /\ pc' = [pc EXCEPT ![c] = "idle"]
                            /\ op' = [op EXCEPT ![c] = "none"]
                            /\ mut' = NoThread
                      /\ UNCHANGED <<shouldStop, currentState, loopVars>>

\* Construction of a Lock, and the end of stateCond_.wait, which takes the
\* mutex again before it returns.
Acquire(c) == /\ mut = NoThread
              /\ \/ /\ pc[c] = "lock"
                    /\ pc' = [pc EXCEPT ![c] = "set"]
                 \/ /\ pc[c] \in {"relock", "wake"}
                    /\ pc' = [pc EXCEPT ![c] = "check"]
              /\ mut' = c
              /\ UNCHANGED <<shouldStop, currentState, op, loopVars>>

\* Mutant of SetShouldStop: the start requests do not take a stop request back.
SetShouldStopNoReset(c) ==
    /\ pc[c] = "set"
    /\ shouldStop' = (shouldStop \/ op[c] \in StopOps)
    /\ \/ /\ op[c] \notin WaitOps
          /\ pc' = [pc EXCEPT ![c] = "idle"]
          /\ op' = [op EXCEPT ![c] = "none"]
          /\ mut' = NoThread
       \/ /\ op[c] = "signalAndWaitForStart"
          /\ pc' = [pc EXCEPT ![c] = "relock"]
          /\ mut' = NoThread
          /\ op' = op
       \/ /\ op[c] = "signalAndWaitForShutdown"
          /\ pc' = [pc EXCEPT ![c] = "check"]
          /\ UNCHANGED <<op, mut>>
    /\ UNCHANGED <<currentState, loopVars>>

\* setShouldStop_.  The two plain signals return; signalAndWaitForStart has
\* left the scope of signalStart's lock and is to take the mutex again;
\* signalAndWaitForShutdown keeps it.
SetShouldStop(c) ==
    /\ pc[c] = "set"
    /\ shouldStop' = (op[c] \in StopOps)
    /\ \/ /\ op[c] \notin WaitOps
          /\ pc' = [pc EXCEPT ![c] = "idle"]
          /\ op' = [op EXCEPT ![c] = "none"]
          /\ mut' = NoThread
       \/ /\ op[c] = "signalAndWaitForStart"
          /\ pc' = [pc EXCEPT ![c] = "relock"]
          /\ mut' = NoThread
          /\ op' = op
       \/ /\ op[c] = "signalAndWaitForShutdown"
          /\ pc' = [pc EXCEPT ![c] = "check"]
          /\ UNCHANGED <<op, mut>>
    /\ UNCHANGED <<currentState, loopVars>>

\* One test of while (currentState_ != ...): the call returns, or it joins
\* the wait set and gives the mutex up in the same step.
CheckState(c) ==
    /\ pc[c] = "check"
    /\ mut' = NoThread
    /\ \/ /\ currentState = Awaited(op[c])
          /\ pc' = [pc EXCEPT ![c] = "idle"]
          /\ op' = [op EXCEPT ![c] = "none"]
       \/ /\ currentState # Awaited(op[c])
          /\ pc' = [pc EXCEPT ![c] = "wait"]
          /\ op' = op
    /\ UNCHANGED <<shouldStop, currentState, loopVars>>

\* A condition variable may wake a waiter nobody notified.
SpuriousWake(c) == /\ pc[c] = "wait"
                   /\ pc' = [pc EXCEPT ![c] = "wake"]
                   /\ UNCHANGED <<shouldStop, currentState, mut, op, loopVars>>

-----------------------------------------------------------------------------
(* The loop interface, as LoopGuard and the guarded loop drive it.         *)

\* The entry of reportStateChange_(s).
Report(s) == /\ loopPc' = "lock"
             /\ reporting' = s

\* LoopGuard's constructor begins: reportStarting.
EnterLoop == /\ loopPc = "out"
             /\ Report("STATE_STARTING")
             /\ UNCHANGED <<shouldStop, currentState, mut, ctlVars>>

LoopAcquire == /\ loopPc = "lock"
               /\ mut = NoThread
               /\ mut' = Loop
               /\ loopPc' = "set"
               /\ UNCHANGED <<shouldStop, currentState, reporting, ctlVars>>

SetState == /\ loopPc = "set"
            /\ currentState' = reporting
            /\ mut' = NoThread
            /\ loopPc' = "notify"
            /\ UNCHANGED <<shouldStop, reporting, ctlVars>>

\* Mutant of NotifyAll: notify_one for notify_all.
NotifyOne ==
    /\ loopPc = "notify"
    /\ LET waiting == {c \in Controllers : pc[c] = "wait"}
       IN  IF waiting = {} THEN pc' = pc
                           ELSE \E c \in waiting : pc' = [pc EXCEPT ![c] = "wake"]
    /\ \/ reporting = "STATE_STARTING" /\ Report("STATE_RUNNING")
       \/ reporting = "STATE_STARTING" /\ loopPc' = "setup" /\ UNCHANGED reporting
       \/ reporting = "STATE_RUNNING"  /\ loopPc' = "test"  /\ UNCHANGED reporting
       \/ reporting = "STATE_STOPPED"  /\ loopPc' = "out"   /\ UNCHANGED reporting
    /\ UNCHANGED <<shouldStop, currentState, mut, op>>

\* stateCond_.notify_all, after the mutex has been released, and the return
\* to what made the report: LoopGuard's constructor, which reports RUNNING at
\* once unless it was given DELAY_REPORTING_START; the loop; or the end of
\* LoopGuard's destructor.
NotifyAll ==
    /\ loopPc = "notify"
    /\ pc' = [c \in Controllers |-> IF pc[c] = "wait" THEN "wake" ELSE pc[c]]
    /\ \/ reporting = "STATE_STARTING" /\ Report("STATE_RUNNING")
       \/ reporting = "STATE_STARTING" /\ loopPc' = "setup" /\ UNCHANGED reporting
       \/ reporting = "STATE_RUNNING"  /\ loopPc' = "test"  /\ UNCHANGED reporting
       \/ reporting = "STATE_STOPPED"  /\ loopPc' = "out"   /\ UNCHANGED reporting
    /\ UNCHANGED <<shouldStop, currentState, mut, op>>

\* With DELAY_REPORTING_START the loop's own set-up calls reportRunning.
FinishSetup == /\ loopPc = "setup"
               /\ Report("STATE_RUNNING")
               /\ UNCHANGED <<shouldStop, currentState, mut, ctlVars>>

\* Mutant of LeaveLoop: a loop that reports by hand instead of with a LoopGuard,
\* and is left without its reportStopped.
LeaveLoopNoGuard == /\ loopPc \in {"setup", "body"}
                    /\ loopPc' = "out"
                    /\ UNCHANGED <<shouldStop, currentState, mut, reporting, ctlVars>>

\* The set-up or the body throws or returns: only LoopGuard's destructor runs.
LeaveLoop == /\ loopPc \in {"setup", "body"}
             /\ Report("STATE_STOPPED")
             /\ UNCHANGED <<shouldStop, currentState, mut, ctlVars>>

\* The loop's condition reads shouldStop_ without the mutex.
ShouldContinue == /\ loopPc = "test"
                  /\ \/ /\ ~shouldStop
                        /\ loopPc' = "body"
                        /\ UNCHANGED reporting
                     \/ /\ shouldStop
                        /\ Report("STATE_STOPPED")
                  /\ UNCHANGED <<shouldStop, currentState, mut, ctlVars>>

FinishBody == /\ loopPc = "body"
              /\ loopPc' = "test"
              /\ UNCHANGED <<shouldStop, currentState, mut, reporting, ctlVars>>

-----------------------------------------------------------------------------
(* The steps of each thread.                                               *)

CtlStep(c) == \/ \E o \in Ops : Call(c, o)
              \/ Acquire(c)
              \/ SetShouldStop(c)
              \/ CheckState(c)
              \/ SpuriousWake(c)

LoopStep == \/ EnterLoop
            \/ LoopAcquire
            \/ SetState
            \/ NotifyAll
            \/ FinishSetup
            \/ LeaveLoop
            \/ ShouldContinue
            \/ FinishBody

Next == \/ \E c \in Controllers : CtlStep(c)
        \/ LoopStep

Spec == Init /\ [][Next]_vars

-----------------------------------------------------------------------------
(* Properties.                                                             *)

CtlPcs  == {"idle", "lock", "set", "relock", "check", "wait", "wake"}
LoopPcs == {"out", "lock", "set", "notify", "setup", "test", "body"}

\* The variables of RunLoopManagerBase and its implementations hold values of
\* their types.
TypeOK == /\ shouldStop \in BOOLEAN
          /\ currentState \in RunningState
          /\ mut \in Controllers \cup {Loop, NoThread}
          /\ pc \in [Controllers -> CtlPcs]
          /\ op \in [Controllers -> Ops \cup {"none"}]
          /\ loopPc \in LoopPcs
          /\ reporting \in RunningState

\* mut_ has the one holder its critical sections allow.
MutexInv == /\ \A c \in Controllers : mut = c <=> pc[c] \in {"set", "check"}
            /\ mut = Loop <=> loopPc = "set"

\* How far a call is and which call it is agree.
CallInv == \A c \in Controllers :
              /\ pc[c] = "idle" <=> op[c] = "none"
              /\ pc[c] = "relock" => op[c] = "signalAndWaitForStart"
              /\ pc[c] \in {"check", "wait", "wake"} => op[c] \in WaitOps

\* currentState_ never claims more than the loop has done: it is RUNNING while
\* the guarded loop runs and STOPPED only outside LoopGuard's region, and a
\* report under way is the next one of STOPPED, STARTING, RUNNING.
StateTracksLoop ==
    /\ loopPc = "out" => currentState = "STATE_STOPPED"
    /\ loopPc = "setup" => currentState = "STATE_STARTING"
    /\ loopPc \in {"test", "body"} => currentState = "STATE_RUNNING"
    /\ loopPc = "notify" => currentState = reporting
    /\ loopPc \in {"lock", "set"} =>
          \/ reporting = "STATE_STARTING" /\ currentState = "STATE_STOPPED"
          \/ reporting = "STATE_RUNNING"  /\ currentState = "STATE_STARTING"
          \/ reporting = "STATE_STOPPED"  /\ currentState # "STATE_STOPPED"

\* signalAndWaitForStart and signalAndWaitForShutdown cannot miss a report: a
\* call sleeping on stateCond_ for the state that currentState_ has is about
\* to be notified, although reportStateChange_ notifies without the mutex.
NoLostWakeup == \A c \in Controllers :
                    pc[c] = "wait" /\ currentState = Awaited(op[c])
                        => loopPc = "notify"

\* The inductive invariant behind the safety properties.
IInv == TypeOK /\ MutexInv /\ CallInv /\ StateTracksLoop /\ NoLostWakeup

\* What a waiting call has established when it returns.  A return of
\* signalAndWaitForShutdown finds the loop outside the region LoopGuard
\* guards; a return of signalAndWaitForStart finds it past its set-up and
\* not yet recorded as stopped.
Returns(c, o) == op[c] = o /\ op'[c] = "none"
OutsideLoop == \/ loopPc = "out"
               \/ loopPc = "notify" /\ reporting = "STATE_STOPPED"
               \/ loopPc \in {"lock", "set"} /\ reporting = "STATE_STARTING"
HasStarted  == \/ loopPc \in {"test", "body"}
               \/ loopPc = "notify" /\ reporting = "STATE_RUNNING"
               \/ loopPc = "lock" /\ reporting = "STATE_STOPPED"
HandshakeStep == \A c \in Controllers :
                    /\ Returns(c, "signalAndWaitForShutdown") => OutsideLoop
                    /\ Returns(c, "signalAndWaitForStart") => HasStarted

\* Every return of the two waiting calls finds the loop where the call says.
HandshakeSound == [][HandshakeStep]_vars

\* The monitor implements the promise of the interfaces: a call's request has
\* taken effect once it is past SetShouldStop and still in progress.
Contract == INSTANCE RunLoopContract
                WITH requested <- IF shouldStop THEN "stop" ELSE "run",
                     state     <- currentState,
                     call      <- op,
                     signalled <- {c \in Controllers :
                                     pc[c] \in {"relock", "check", "wait", "wake"}}
ImplementsContract == Contract!Spec

=============================================================================
