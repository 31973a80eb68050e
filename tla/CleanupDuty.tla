------------------------------ MODULE CleanupDuty ------------------------------
(***************************************************************************)
(* What a scope guard promises of a cleanup handed to it: it stays due     *)
(* until it is completed, which it is once, or until the client cancels    *)
(* it; then it never runs again.  One that throws is still due.            *)
(***************************************************************************)
EXTENDS Naturals

CONSTANT Duties  \* the cleanups

VARIABLES
    state,     \* what has become of each: "new", "due" or "over"
    completed, \* how often each was completed
    cancelled, \* those the client has cancelled
    failed     \* those that have been run and have thrown

dutyVars == <<state, completed, cancelled, failed>>

DutyInit == /\ state = [d \in Duties |-> "new"]
            /\ completed = [d \in Duties |-> 0]
            /\ cancelled = {}
            /\ failed = {}

Take(d) == /\ state[d] = "new"
           /\ state' = [state EXCEPT ![d] = "due"]
           /\ UNCHANGED <<completed, cancelled, failed>>

Complete(d) == /\ state[d] = "due"
               /\ state' = [state EXCEPT ![d] = "over"]
               /\ completed' = [completed EXCEPT ![d] = @ + 1]
               /\ UNCHANGED <<cancelled, failed>>

\* Nothing but a cancel lets a due cleanup off.
Waive(d) == /\ state[d] = "due"
            /\ state' = [state EXCEPT ![d] = "over"]
            /\ cancelled' = cancelled \cup {d}
            /\ UNCHANGED <<completed, failed>>

Fail(d) == /\ state[d] = "due"
           /\ failed' = failed \cup {d}
           /\ UNCHANGED <<state, completed, cancelled>>

DutyNext == \E d \in Duties : Take(d) \/ Complete(d) \/ Waive(d) \/ Fail(d)

DutySpec == DutyInit /\ [][DutyNext]_dutyVars

=============================================================================
