------------------------------- MODULE ScopeGuard -------------------------------
(***************************************************************************)
(* util::UniqueDestructionActionWrapper and util::detail::FinalTask, which *)
(* finally returns: objects that run a cleanup when they are destroyed,    *)
(* unless it was cancelled or moved on to another object.  A cleanup may   *)
(* throw; out of a destructor that ends the program, so no step stands for *)
(* it.  The wrapper's move assignment compares a pointer with an object    *)
(* and compiles in no program, so there is no action for it.               *)
(***************************************************************************)
EXTENDS Naturals

CONSTANTS
    Wrappers,    \* UniqueDestructionActionWrapper objects
    FinalTasks,  \* FinalTask objects
    Cleanups,    \* the cleanups, each the functor of one object at first
    NoCleanup    \* the functor of an object without one

ASSUME GuardAssumption == /\ Wrappers \cap FinalTasks = {}
                          /\ NoCleanup \notin Cleanups

Guards == Wrappers \cup FinalTasks

VARIABLES
    alive,     \* the objects that exist
    functor,   \* the base, or f_, of each; a moved-from one can still be run
    active,    \* active_, or do_
    handedOut, \* history: the cleanups that were given to an object
    ran,       \* history: how often each cleanup was completed,
    cancelled, \* those the client has cancelled in the object that held them,
    failed     \* and those that have thrown out of reset

history == <<handedOut, ran, cancelled, failed>>
guardVars == <<alive, functor, active, history>>

-----------------------------------------------------------------------------

GuardInit == /\ alive = {}
             /\ functor = [g \in Guards |-> NoCleanup]
             /\ active = [g \in Guards |-> FALSE]
             /\ handedOut = {}
             /\ ran = [d \in Cleanups |-> 0]
             /\ cancelled = {}
             /\ failed = {}

\* construct, or finally
ConstructGuard(g, d) == /\ g \notin alive /\ d \notin handedOut
                        /\ alive' = alive \cup {g}
                        /\ functor' = [functor EXCEPT ![g] = d]
                        /\ active' = [active EXCEPT ![g] = TRUE]
                        /\ handedOut' = handedOut \cup {d}
                        /\ UNCHANGED <<ran, cancelled, failed>>

\* Only the wrapper has a default constructor.
DefaultConstruct(g) == /\ g \in Wrappers \ alive
                       /\ alive' = alive \cup {g}
                       /\ UNCHANGED <<functor, active, history>>

SameKind(g, h) == g \in Wrappers <=> h \in Wrappers

\* Mutant of MoveConstruct: the object moved from is cancelled before active_
\* is read.
MoveConstructLost(g, h) ==
    /\ g \notin alive /\ h \in alive /\ SameKind(g, h)
    /\ alive' = alive \cup {g}
    /\ functor' = [functor EXCEPT ![g] = functor[h]]
    /\ active' = [active EXCEPT ![g] = FALSE, ![h] = FALSE]
    /\ UNCHANGED history

\* The new object is as active as the one it is made from, whose own cancel is
\* called; the client has cancelled nothing.
MoveConstruct(g, h) ==
    /\ g \notin alive /\ h \in alive /\ SameKind(g, h)
    /\ alive' = alive \cup {g}
    /\ functor' = [functor EXCEPT ![g] = functor[h]]
    /\ active' = [active EXCEPT ![g] = active[h], ![h] = FALSE]
    /\ UNCHANGED history

\* A call of cancel by the client, which may be for an object that was cancelled
\* or moved from before.
Cancel(g) == /\ g \in alive
             /\ active' = [active EXCEPT ![g] = FALSE]
             /\ cancelled' = IF active[g] THEN cancelled \cup {functor[g]} ELSE cancelled
             /\ UNCHANGED <<alive, functor, handedOut, ran, failed>>

\* The cleanup of g runs to its end.
Completed(g) == ran' = [ran EXCEPT ![functor[g]] = @ + 1]

\* Only the wrapper has reset, which does nothing to an inactive one.
Reset(g) == /\ g \in alive \cap Wrappers /\ active[g]
            /\ Completed(g)
            /\ active' = [active EXCEPT ![g] = FALSE]
            /\ UNCHANGED <<alive, functor, handedOut, cancelled, failed>>

\* A cleanup that throws skips the cancel behind it.
ResetThrows(g) == /\ g \in alive \cap Wrappers /\ active[g]
                  /\ failed' = failed \cup {functor[g]}
                  /\ UNCHANGED <<alive, functor, active, handedOut, ran, cancelled>>

DestroyActive(g) == /\ g \in alive /\ active[g]
                    /\ Completed(g)
                    /\ alive' = alive \ {g}
                    /\ active' = [active EXCEPT ![g] = FALSE]
                    /\ functor' = [functor EXCEPT ![g] = NoCleanup]
                    /\ UNCHANGED <<handedOut, cancelled, failed>>

DestroyInactive(g) == /\ g \in alive /\ ~active[g]
                      /\ alive' = alive \ {g}
                      /\ functor' = [functor EXCEPT ![g] = NoCleanup]
                      /\ UNCHANGED <<active, history>>

GuardNext == \E g \in Guards : \/ \E d \in Cleanups : ConstructGuard(g, d)
                               \/ DefaultConstruct(g)
                               \/ \E h \in Guards : MoveConstruct(g, h)
                               \/ Cancel(g) \/ Reset(g) \/ ResetThrows(g)
                               \/ DestroyActive(g) \/ DestroyInactive(g)

GuardSpec == GuardInit /\ [][GuardNext]_guardVars

-----------------------------------------------------------------------------
(* Properties.                                                             *)

\* A cleanup is due while some active object holds it.
IsDue(d) == \E g \in alive : active[g] /\ functor[g] = d

StateOf(d) == IF IsDue(d) THEN "due" ELSE IF d \in handedOut THEN "over" ELSE "new"

Duty == INSTANCE CleanupDuty WITH Duties    <- Cleanups,
                                  state     <- [d \in Cleanups |-> StateOf(d)],
                                  completed <- ran

\* Through moves, cancels, resets that throw and destructors in any order a
\* cleanup stays due, held by an active object, until it is completed, which
\* it is once, or the client cancels the object that holds it.  No move and no
\* destructor loses it, a throw leaves it due, and none runs that is over.
ImplementsDuty == Duty!DutySpec

=============================================================================
