--------------------------- MODULE RunLoopContract ---------------------------
(***************************************************************************)
(* What the StartingInterface, the ShutdownInterface and the LoopInterface *)
(* of RunLoopManager.h promise, without mutex, condition variable or wait  *)
(* set: a request takes effect at one instant between the call and its     *)
(* return, the loop's state goes through STARTING and RUNNING in order,    *)
(* and a waiting call returns at an instant at which the loop is in the    *)
(* state it waits for, after its own request took effect.                  *)
(***************************************************************************)
CONSTANT Controllers

VARIABLES
    requested,  \* the last request that took effect: "run" or "stop"
    state,      \* the state the loop last reported
    call,       \* the call each controller makes, or "none"
    signalled   \* the controllers whose request took effect before they wait

vars == <<requested, state, call, signalled>>

\* What each call asks the loop to do, and the state it waits for, if any.
Request == [signalStart              |-> "run",
            signalAndWaitForStart    |-> "run",
            signalShutdown           |-> "stop",
            signalAndWaitForShutdown |-> "stop"]
WaitsFor == [signalAndWaitForStart    |-> "STATE_RUNNING",
             signalAndWaitForShutdown |-> "STATE_STOPPED"]

Init == /\ requested = "run"
        /\ state = "STATE_STOPPED"
        /\ call = [c \in Controllers |-> "none"]
        /\ signalled = {}

Invoke(c) == /\ call[c] = "none"
             /\ \E o \in DOMAIN Request : call' = [call EXCEPT ![c] = o]
             /\ UNCHANGED <<requested, state, signalled>>

\* A plain signal returns as soon as it has taken effect.
Signal(c) == /\ call[c] \in DOMAIN Request \ DOMAIN WaitsFor
             /\ requested' = Request[call[c]]
             /\ call' = [call EXCEPT ![c] = "none"]
             /\ UNCHANGED <<state, signalled>>

SignalAndWait(c) == /\ call[c] \in DOMAIN WaitsFor
                    /\ c \notin signalled
                    /\ requested' = Request[call[c]]
                    /\ signalled' = signalled \cup {c}
                    /\ UNCHANGED <<state, call>>

Return(c) == /\ c \in signalled
             /\ state = WaitsFor[call[c]]
             /\ call' = [call EXCEPT ![c] = "none"]
             /\ signalled' = signalled \ {c}
             /\ UNCHANGED <<requested, state>>

\* A loop that starts may stop before it runs.
Report == /\ state' \in CASE state = "STATE_STOPPED"  -> {"STATE_STARTING"}
                          [] state = "STATE_STARTING" -> {"STATE_RUNNING", "STATE_STOPPED"}
                          [] state = "STATE_RUNNING"  -> {"STATE_STOPPED"}
          /\ UNCHANGED <<requested, call, signalled>>

Next == \/ \E c \in Controllers : \/ Invoke(c)
                                  \/ Signal(c)
                                  \/ SignalAndWait(c)
                                  \/ Return(c)
        \/ Report

Spec == Init /\ [][Next]_vars

=============================================================================
