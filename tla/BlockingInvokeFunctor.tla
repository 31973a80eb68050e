------------------------ MODULE BlockingInvokeFunctor ------------------------
(***************************************************************************)
(* util::BlockingInvokeFunctor with a SyncType of                          *)
(* BlockingInvokeFunctorVPR.h.  A caller builds a functor, which allocates *)
(* a sync object, hands a copy of it to some receiving thread and blocks   *)
(* until the copy has been called; then it deletes the sync object.        *)
(*                                                                         *)
(* Sync objects live at the addresses of Syncs, which are used again after *)
(* a delete.  How a copy reaches a receiver is the client's business: the  *)
(* copies in flight are a set, in no order.  A semaphore that starts at 0  *)
(* and the bool flag come to the same here: one unblock, one block.        *)
(***************************************************************************)
EXTENDS FiniteSets

CONSTANTS Callers, Receivers, Syncs, NULL

ASSUME InvokeAssumption == NULL \notin Syncs

VARIABLES
    live,      \* the addresses of allocated sync objects
    unblocked, \* of those, the ones whose unblock has been called
    callPc,    \* where each caller is
    original,  \* each caller's functor: its _sync and _creator
    inFlight,  \* the copies sent and not yet received, with their caller
    recvPc,    \* where each receiver is
    copy,      \* the copy each receiver has, with its caller
    done       \* the callers whose current function has run to its end

callVars == <<callPc, original>>
recvVars == <<recvPc, copy>>
vars     == <<live, unblocked, callPc, original, inFlight, recvPc, copy, done>>

\* What the destructor leaves behind, and a receiver without a copy.
NoFunctor == [sync |-> NULL, creator |-> FALSE]
NoCopy    == [functor |-> NoFunctor, caller |-> NULL]

Functors == [sync : Syncs \cup {NULL}, creator : BOOLEAN]

Init == /\ live = {}
        /\ unblocked = {}
        /\ callPc = [c \in Callers |-> "out"]
        /\ original = [c \in Callers |-> NoFunctor]
        /\ inFlight = {}
        /\ recvPc = [r \in Receivers |-> "idle"]
        /\ copy = [r \in Receivers |-> NoCopy]
        /\ done = {}

\* Mutant of CopyOf: a copy constructor without : _creator(false).
CopyOfUnset(f) == [sync |-> f.sync, creator |-> NULL]

\* Mutant of CopyOf: the implicit, memberwise copy constructor.
CopyOfMemberwise(f) == f

\* The copy constructor: the sync object is shared, the copy is no creator.
CopyOf(f) == [sync |-> f.sync, creator |-> FALSE]

\* The destructor with NDEBUG (a debug build stops in its assert instead):
\* only a creator that has not blocked deletes.
Deletes(f) == IF f.creator /\ f.sync # NULL THEN {f.sync} ELSE {}

Free(s) == /\ live' = live \ s
           /\ unblocked' = unblocked \ s

-----------------------------------------------------------------------------
(* The calling thread.                                                     *)

\* Mutant of Construct: a sync object whose semaphore starts at 1.
ConstructUnblocked(c) == /\ callPc[c] = "out"
                         /\ \E s \in Syncs \ live :
                              /\ live' = live \cup {s}
                              /\ unblocked' = unblocked \cup {s}
                              /\ original' = [original EXCEPT
                                                ![c] = [sync |-> s, creator |-> TRUE]]
                         /\ callPc' = [callPc EXCEPT ![c] = "made"]
                         /\ done' = done \ {c}
                         /\ UNCHANGED <<inFlight, recvVars>>

Construct(c) == /\ callPc[c] = "out"
                /\ \E s \in Syncs \ live :
                     /\ live' = live \cup {s}
                     /\ original' = [original EXCEPT
                                       ![c] = [sync |-> s, creator |-> TRUE]]
                /\ callPc' = [callPc EXCEPT ![c] = "made"]
                /\ done' = done \ {c}
                /\ UNCHANGED <<unblocked, inFlight, recvVars>>

SendCopy(c) == /\ callPc[c] = "made"
               /\ inFlight' = inFlight \cup {[functor |-> CopyOf(original[c]),
                                              caller |-> c]}
               /\ callPc' = [callPc EXCEPT ![c] = "block"]
               /\ UNCHANGED <<live, unblocked, original, recvVars, done>>

\* Mutant of Block: a block() that tests the flag once.
BlockOnce(c) == /\ callPc[c] = "block"
                /\ callPc' = [callPc EXCEPT ![c] = "delete"]
                /\ UNCHANGED <<live, unblocked, original, inFlight, recvVars, done>>

\* _sync->block() returns.
Block(c) == /\ callPc[c] = "block"
            /\ original[c].sync \in unblocked
            /\ callPc' = [callPc EXCEPT ![c] = "delete"]
            /\ UNCHANGED <<live, unblocked, original, inFlight, recvVars, done>>

\* delete _sync; _sync = NULL
Delete(c) == /\ callPc[c] = "delete"
             /\ Free({original[c].sync})
             /\ original' = [original EXCEPT ![c].sync = NULL]
             /\ callPc' = [callPc EXCEPT ![c] = "returned"]
             /\ UNCHANGED <<inFlight, recvVars, done>>

\* The functor goes out of scope, after the call or before it was sent.
Destroy(c) == /\ callPc[c] \in {"made", "returned"}
              /\ Free(Deletes(original[c]))
              /\ original' = [original EXCEPT ![c] = NoFunctor]
              /\ callPc' = [callPc EXCEPT ![c] = "out"]
              /\ UNCHANGED <<inFlight, recvVars, done>>

-----------------------------------------------------------------------------
(* A receiving thread.                                                     *)

Receive(r, c) == /\ recvPc[r] = "idle"
                 /\ \E m \in inFlight :
                      /\ m.caller = c
                      /\ inFlight' = inFlight \ {m}
                      /\ copy' = [copy EXCEPT ![r] = m]
                 /\ recvPc' = [recvPc EXCEPT ![r] = "call"]
                 /\ UNCHANGED <<live, unblocked, callVars, done>>

\* operator(): _function() returns, or throws past the unblock.
RunFunction(r) == /\ recvPc[r] = "call"
                  /\ \/ /\ recvPc' = [recvPc EXCEPT ![r] = "unblock"]
                        /\ done' = done \cup {copy[r].caller}
                     \/ /\ recvPc' = [recvPc EXCEPT ![r] = "drop"]
                        /\ done' = done
                  /\ UNCHANGED <<live, unblocked, callVars, inFlight, copy>>

\* Mutant of Unblock: a release that is lost.
UnblockLost(r) == /\ recvPc[r] = "unblock"
                  /\ recvPc' = [recvPc EXCEPT ![r] = "drop"]
                  /\ UNCHANGED <<live, unblocked, callVars, inFlight, copy, done>>

\* _sync->unblock()
Unblock(r) == /\ recvPc[r] = "unblock"
              /\ unblocked' = unblocked \cup {copy[r].functor.sync}
              /\ recvPc' = [recvPc EXCEPT ![r] = "drop"]
              /\ UNCHANGED <<live, callVars, inFlight, copy, done>>

\* The receiver's copy is destroyed.
Drop(r) == /\ recvPc[r] = "drop"
           /\ Free(Deletes(copy[r].functor))
           /\ copy' = [copy EXCEPT ![r] = NoCopy]
           /\ recvPc' = [recvPc EXCEPT ![r] = "idle"]
           /\ UNCHANGED <<callVars, inFlight, done>>

-----------------------------------------------------------------------------
(* The threads.                                                            *)

CallStep(c) == \/ Construct(c)
               \/ SendCopy(c)
               \/ Block(c)
               \/ Delete(c)
               \/ Destroy(c)

Execute(r) == \/ RunFunction(r)
              \/ Unblock(r)
              \/ Drop(r)

Next == \/ \E c \in Callers : CallStep(c)
        \/ \E r \in Receivers : Execute(r) \/ \E c \in Callers : Receive(r, c)

\* A caller inside blockUntilCompletion keeps running, a receiver executes what
\* it has received, and no copy sent is passed over for ever.  A caller need
\* not call.
Fairness == /\ \A c \in Callers : /\ WF_vars(Block(c))
                                  /\ WF_vars(Delete(c))
                                  /\ SF_vars(\E r \in Receivers : Receive(r, c))
            /\ \A r \in Receivers : WF_vars(Execute(r))

Spec == Init /\ [][Next]_vars /\ Fairness

-----------------------------------------------------------------------------
(* Properties.                                                             *)

\* The functors, the copies and the positions are of their types.
TypeOK == /\ live \subseteq Syncs
          /\ unblocked \subseteq Syncs
          /\ callPc \in [Callers -> {"out", "made", "block", "delete", "returned"}]
          /\ original \in [Callers -> Functors]
          /\ inFlight \subseteq [functor : Functors, caller : Callers]
          /\ recvPc \in [Receivers -> {"idle", "call", "unblock", "drop"}]
          /\ copy \in [Receivers -> [functor : Functors, caller : Callers \cup {NULL}]]
          /\ done \subseteq Callers

\* The copies that have their unblock still to call.
Outstanding == inFlight \cup {copy[r] : r \in {q \in Receivers :
                                                 recvPc[q] \in {"call", "unblock"}}}

\* operator() never calls unblock through a dangling _sync: while a copy has
\* that call to make, its caller has not deleted the sync object, which is
\* not one that another functor allocated at the same address.
NoDanglingSync == \A m \in Outstanding :
                     /\ m.functor.sync \in live
                     /\ m.functor.sync = original[m.caller].sync
                     /\ callPc[m.caller] = "block"

\* Every sync object has one functor that will delete it: none is leaked, and
\* none is deleted twice, whichever functor or copy is destroyed first.
OneOwner == /\ \A s \in live :
                 Cardinality({c \in Callers : original[c].sync = s}) = 1
            /\ \A c \in Callers :
                 original[c].sync # NULL => /\ original[c].sync \in live
                                            /\ original[c].creator

\* "wait until that functor is executed before continuing in your initial
\* thread" (BlockingInvokeFunctor.h:40-41): a caller that is past block() has
\* had its own function run to the end.
ExecutedBeforeContinuing ==
    \A c \in Callers : callPc[c] \in {"delete", "returned"} => c \in done

\* A caller whose function has run to its end is released, deletes its sync
\* object and continues.
ReleasedWhenDone ==
    \A c \in Callers :
        callPc[c] = "block" /\ c \in done ~> callPc[c] = "returned"

\* "block until the receiving thread has executed this functor"
\* (BlockingInvokeFunctor.h:79-80): a caller that blocks continues.
CallCompletes == \A c \in Callers : callPc[c] = "block" ~> callPc[c] = "returned"

=============================================================================
