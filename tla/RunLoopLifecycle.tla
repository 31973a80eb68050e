-------------------------- MODULE RunLoopLifecycle --------------------------
(***************************************************************************)
(* RunLoopManager in the hands of a client that starts the loop, waits for *)
(* it, shuts it down and starts it again: the setting in which the two     *)
(* waiting calls can be expected to return.                                *)
(*                                                                         *)
(* Owner spawns and joins the loop thread; the other controllers may ask   *)
(* for shutdown once the start has been confirmed, and every call has      *)
(* returned before the next start.  PreSignal says whether Owner calls     *)
(* signalStart before it spawns the thread, or relies on the call in       *)
(* signalAndWaitForStart alone.                                            *)
(***************************************************************************)
EXTENDS RunLoopManager

CONSTANTS Owner, PreSignal

ASSUME ClientAssumption == Owner \in Controllers /\ PreSignal \in BOOLEAN

VARIABLES
    phase,  \* how far Owner is in the life of the loop
    fresh   \* the loop thread is spawned and has not built its LoopGuard

clientVars == <<phase, fresh>>
lifeVars   == <<shouldStop, currentState, mut, pc, op, loopPc, reporting,
                phase, fresh>>

LifeInit == Init /\ phase = "off" /\ fresh = FALSE

-----------------------------------------------------------------------------
(* The client.                                                             *)

Arm == /\ PreSignal
       /\ phase = "off"
       /\ Call(Owner, "signalStart")
       /\ phase' = "armed"
       /\ UNCHANGED fresh

Spawn == /\ IF PreSignal THEN phase = "armed" /\ op[Owner] = "none"
                         ELSE phase = "off"
         /\ fresh' = TRUE
         /\ phase' = "spawned"
         /\ UNCHANGED vars

AwaitStart == /\ phase = "spawned"
              /\ Call(Owner, "signalAndWaitForStart")
              /\ phase' = "starting"
              /\ UNCHANGED fresh

StartConfirmed == /\ phase = "starting"
                  /\ op[Owner] = "none"
                  /\ phase' = "up"
                  /\ UNCHANGED <<vars, fresh>>

AskShutdown(c) == /\ phase \in {"up", "stopping"}
                  /\ c # Owner
                  /\ \E o \in StopOps : Call(c, o)
                  /\ UNCHANGED clientVars

AwaitShutdown == /\ phase = "up"
                 /\ Call(Owner, "signalAndWaitForShutdown")
                 /\ phase' = "stopping"
                 /\ UNCHANGED fresh

Join == /\ phase = "stopping"
        /\ \A c \in Controllers : op[c] = "none"
        /\ loopPc = "out"
        /\ phase' = "off"
        /\ UNCHANGED <<vars, fresh>>

\* The loop thread builds its LoopGuard once; its set-up and its body do not
\* give up before the start has been confirmed.
Enter == /\ fresh
         /\ EnterLoop
         /\ fresh' = FALSE
         /\ UNCHANGED phase

GiveUp == /\ phase \in {"up", "stopping"}
          /\ LeaveLoop
          /\ UNCHANGED clientVars

-----------------------------------------------------------------------------
(* The monitor's own steps leave the client's variables alone.             *)

LifeAcquire(c) == Acquire(c) /\ UNCHANGED clientVars

InCall(c) == /\ \/ SetShouldStop(c)
                \/ CheckState(c)
             /\ UNCHANGED clientVars

LifeSpuriousWake(c) == SpuriousWake(c) /\ UNCHANGED clientVars

LifeLoopAcquire == LoopAcquire /\ UNCHANGED clientVars

InLoop == /\ \/ SetState
             \/ NotifyAll
             \/ FinishSetup
             \/ ShouldContinue
             \/ FinishBody
          /\ UNCHANGED clientVars

ClientStep == \/ Arm
              \/ Spawn
              \/ AwaitStart
              \/ StartConfirmed
              \/ AwaitShutdown
              \/ Join
              \/ \E c \in Controllers : AskShutdown(c)

LifeNext == \/ ClientStep
            \/ \E c \in Controllers : \/ LifeAcquire(c)
                                      \/ InCall(c)
                                      \/ LifeSpuriousWake(c)
            \/ Enter
            \/ GiveUp
            \/ LifeLoopAcquire
            \/ InLoop

\* A thread that is not blocked keeps running, and one that keeps asking for
\* mut_ obtains it in the end.  Nothing is assumed of the client, of spurious
\* wake-ups, or of a body that gives up.
LifeFairness == /\ \A c \in Controllers : /\ SF_lifeVars(LifeAcquire(c))
                                          /\ WF_lifeVars(InCall(c))
                /\ SF_lifeVars(LifeLoopAcquire)
                /\ WF_lifeVars(Enter)
                /\ WF_lifeVars(InLoop)

LifeSpec == LifeInit /\ [][LifeNext]_lifeVars /\ LifeFairness

-----------------------------------------------------------------------------
(* Properties.                                                             *)

\* signalAndWaitForStart returns: "Set up for run loop to start, then block
\* until we have confirmation that the run loop is running"
\* (RunLoopManager.h:69-70).
StartCompletes == op[Owner] = "signalAndWaitForStart" ~> op[Owner] = "none"

\* signalAndWaitForShutdown makes the loop stop and returns, whoever calls it
\* and however many do: "Send a message to the run loop that it should stop,
\* and wait until it does" (RunLoopManager.h:78-79).
ShutdownCompletes ==
    \A c \in Controllers :
        op[c] = "signalAndWaitForShutdown" ~> op[c] = "none"

\* Once Owner's signalAndWaitForShutdown has returned, the loop thread has at
\* most the notify_all of its last report to do (which is why Owner must join
\* the thread before it destroys the manager), and no call undoes the stop.
ShutdownFinal == phase = "stopping" /\ op[Owner] = "none"
                    => /\ loopPc \in {"out", "notify"}
                       /\ ~fresh
                       /\ shouldStop
                       /\ currentState = "STATE_STOPPED"

=============================================================================
