--------------------- MODULE BlockingInvokeFunctorProofs ---------------------
(***************************************************************************)
(* Proofs about BlockingInvokeFunctor, for any numbers of callers,         *)
(* receivers and addresses: no unblock through a dangling pointer, one     *)
(* owner for each sync object, and no caller that continues too early.     *)
(***************************************************************************)
EXTENDS BlockingInvokeFunctor, FiniteSetTheorems, TLAPS

\* The receivers whose copy has its unblock still to call.
Busy == {r \in Receivers : recvPc[r] \in {"call", "unblock"}}

\* Each functor between its construction and the delete holds an allocated
\* sync object of its own, and every allocated one is held.
Held == /\ \A c \in Callers :
              /\ original[c].sync # NULL <=> callPc[c] \in {"made", "block", "delete"}
              /\ original[c].sync # NULL => original[c].sync \in live /\ original[c].creator
        /\ \A c, d \in Callers :
              original[c].sync # NULL /\ original[c].sync = original[d].sync => c = d
        /\ \A s \in live : \E c \in Callers : original[c].sync = s
        /\ unblocked \subseteq live

\* The caller of m waits, at the sync object m points to, for m.
Pending(m) == /\ m.caller \in Callers
              /\ callPc[m.caller] = "block"
              /\ m.functor.sync = original[m.caller].sync
              /\ m.functor.sync \notin unblocked

\* Each copy is pending, and its caller has no other.
Copies == /\ \A m \in inFlight : Pending(m) /\ ~m.functor.creator
          /\ \A r \in Busy : Pending(copy[r])
          /\ \A r \in Receivers : ~copy[r].functor.creator
          /\ \A m, n \in inFlight : m.caller = n.caller => m = n
          /\ \A r \in Busy, m \in inFlight : copy[r].caller # m.caller
          /\ \A r, q \in Busy : copy[r].caller = copy[q].caller => r = q

\* A sync object is unblocked, and its caller past block(), only after the
\* caller's function has run to its end.
Completed == /\ \A r \in Receivers : recvPc[r] = "unblock" => copy[r].caller \in done
             /\ \A c \in Callers : callPc[c] \in {"delete", "returned"} => c \in done
             /\ \A c \in Callers :
                   original[c].sync \in unblocked => callPc[c] # "made" /\ c \in done

InvokeInv == TypeOK /\ Held /\ Copies /\ Completed

-----------------------------------------------------------------------------
(* The invariant is inductive.                                             *)

LEMMA InvokeInitInv == Init => InvokeInv
BY InvokeAssumption DEF Init, InvokeInv, TypeOK, Held, Copies, Completed, Busy, NoFunctor,
                        NoCopy, Functors

\* The destructor of a copy deletes nothing, as only an original is a creator.
LEMMA CopyDeletesNothing ==
    ASSUME NEW f, ~f.creator
    PROVE  Deletes(f) = {}
BY DEF Deletes

\* Steps of a caller.
LEMMA CallerInv ==
    ASSUME InvokeInv, NEW c \in Callers, CallStep(c)
    PROVE  InvokeInv'
<1> USE InvokeAssumption DEF InvokeInv
<1>1. CASE Construct(c)
  <2>1. PICK s \in Syncs \ live :
           /\ live' = live \cup {s}
           /\ original' = [original EXCEPT ![c] = [sync |-> s, creator |-> TRUE]]
    BY <1>1 DEF Construct
  <2>2. /\ callPc[c] = "out" /\ callPc' = [callPc EXCEPT ![c] = "made"]
        /\ done' = done \ {c}
        /\ UNCHANGED <<unblocked, inFlight, recvPc, copy>>
    BY <1>1 DEF Construct, recvVars
  <2>3. s # NULL /\ s \notin unblocked
    BY DEF Held
  <2>4. TypeOK'
    BY <2>1, <2>2 DEF TypeOK, Functors
  <2>5. Held'
    BY <2>1, <2>2, <2>3 DEF TypeOK, Functors, Held
  <2>6. Copies'
    BY <2>1, <2>2, <2>3 DEF TypeOK, Functors, Held, Copies, Busy, Pending
  <2>7. \A r \in Receivers : recvPc[r] = "unblock" => copy[r].caller # c
    BY <2>2 DEF Copies, Busy, Pending
  <2>8. Completed'
    BY <2>1, <2>2, <2>3, <2>7 DEF TypeOK, Functors, Held, Completed
  <2> QED BY <2>4, <2>5, <2>6, <2>8
<1>2. CASE SendCopy(c)
  <2> DEFINE m == [functor |-> CopyOf(original[c]), caller |-> c]
  <2>1. /\ callPc[c] = "made" /\ callPc' = [callPc EXCEPT ![c] = "block"]
        /\ inFlight' = inFlight \cup {m}
        /\ UNCHANGED <<live, unblocked, original, recvPc, copy, done>>
    BY <1>2 DEF SendCopy, recvVars
  <2>2. /\ m \in [functor : Functors, caller : Callers]
        /\ m.caller = c /\ m.functor.sync = original[c].sync /\ ~m.functor.creator
    BY DEF CopyOf, TypeOK, Functors
  <2> HIDE DEF m
  <2>3. TypeOK'
    BY <2>1, <2>2 DEF TypeOK
  <2>4. Held'
    BY <2>1 DEF TypeOK, Held
  <2>5. /\ \A n \in inFlight : n.caller # c
        /\ \A r \in Busy : copy[r].caller # c
        /\ original[c].sync \notin unblocked
    BY <2>1 DEF Copies, Pending, Completed
  <2>6. Copies'
    BY <2>1, <2>2, <2>5 DEF TypeOK, Copies, Busy, Pending
  <2>7. Completed'
    BY <2>1, <2>5 DEF TypeOK, Completed
  <2> QED BY <2>3, <2>4, <2>6, <2>7
<1>3. CASE Block(c)
  <2>1. /\ callPc[c] = "block" /\ callPc' = [callPc EXCEPT ![c] = "delete"]
        /\ original[c].sync \in unblocked
        /\ UNCHANGED <<live, unblocked, original, inFlight, recvPc, copy, done>>
    BY <1>3 DEF Block, recvVars
  <2>2. TypeOK'
    BY <2>1 DEF TypeOK
  <2>3. Held'
    BY <2>1 DEF TypeOK, Held
  <2>4. Copies'
    BY <2>1 DEF TypeOK, Copies, Busy, Pending
  <2>5. Completed'
    BY <2>1 DEF TypeOK, Completed
  <2> QED BY <2>2, <2>3, <2>4, <2>5
<1>4. CASE Delete(c)
  <2>1. /\ callPc[c] = "delete" /\ callPc' = [callPc EXCEPT ![c] = "returned"]
        /\ live' = live \ {original[c].sync}
        /\ unblocked' = unblocked \ {original[c].sync}
        /\ original' = [original EXCEPT ![c].sync = NULL]
        /\ UNCHANGED <<inFlight, recvPc, copy, done>>
    BY <1>4 DEF Delete, Free, recvVars
  <2>2. original'[c] = [sync |-> NULL, creator |-> original[c].creator]
    BY <2>1 DEF TypeOK, Functors
  <2>3. \A d \in Callers \ {c} : original'[d] = original[d] /\ callPc'[d] = callPc[d]
    BY <2>1 DEF TypeOK
  <2>4. original[c].sync # NULL
    BY <2>1 DEF Held
  <2>5. TypeOK'
    BY <2>1, <2>2 DEF TypeOK, Functors
  <2>6. Held'
    <3>1. \A d \in Callers \ {c} : original[d].sync # original[c].sync
      BY <2>4 DEF Held
    <3>2. original'[c].sync = NULL /\ callPc'[c] = "returned"
      BY <2>1, <2>2 DEF TypeOK
    <3>3. \A d \in Callers :
             /\ original'[d].sync # NULL <=> callPc'[d] \in {"made", "block", "delete"}
             /\ original'[d].sync # NULL => original'[d].sync \in live' /\ original'[d].creator
      BY <2>1, <2>3, <3>1, <3>2 DEF Held
    <3>4. \A d, e \in Callers :
             original'[d].sync # NULL /\ original'[d].sync = original'[e].sync => d = e
      BY <2>3, <3>2 DEF Held
    <3>5. \A s \in live' : \E d \in Callers : original'[d].sync = s
      BY <2>1, <2>3 DEF Held
    <3> QED BY <2>1, <3>3, <3>4, <3>5 DEF Held
  <2>7. \A m : Pending(m) => Pending(m)'
    BY <2>1, <2>3 DEF Pending
  <2>8. Copies'
    BY <2>1, <2>7 DEF Copies, Busy
  <2>9. NULL \notin unblocked /\ unblocked' \subseteq unblocked
    BY <2>1 DEF TypeOK
  <2>10. Completed'
    BY <2>1, <2>2, <2>3, <2>9 DEF TypeOK, Completed
  <2> QED BY <2>5, <2>6, <2>8, <2>10
<1>5. CASE Destroy(c)
  <2>1. /\ callPc[c] \in {"made", "returned"}
        /\ callPc' = [callPc EXCEPT ![c] = "out"]
        /\ live' = live \ Deletes(original[c])
        /\ unblocked' = unblocked \ Deletes(original[c])
        /\ original' = [original EXCEPT ![c] = NoFunctor]
        /\ UNCHANGED <<inFlight, recvPc, copy, done>>
    BY <1>5 DEF Destroy, Free, recvVars
  <2>2. original'[c].sync = NULL /\ original'[c] \in Functors
    BY <2>1 DEF TypeOK, Functors, NoFunctor
  <2>3. \A d \in Callers \ {c} : original'[d] = original[d] /\ callPc'[d] = callPc[d]
    BY <2>1 DEF TypeOK
  <2>4. Deletes(original[c]) = IF original[c].sync = NULL THEN {} ELSE {original[c].sync}
    BY DEF Deletes, Held
  <2>5. TypeOK'
    BY <2>1, <2>2 DEF TypeOK
  <2>6. Held'
    BY <2>1, <2>2, <2>3, <2>4 DEF TypeOK, Held
  <2>7. \A m : Pending(m) => Pending(m)'
    BY <2>1, <2>3 DEF Pending
  <2>8. Copies'
    BY <2>1, <2>7 DEF Copies, Busy
  <2>9. NULL \notin unblocked /\ unblocked' \subseteq unblocked
    BY <2>1 DEF TypeOK
  <2>10. Completed'
    BY <2>1, <2>2, <2>3, <2>9 DEF TypeOK, Completed
  <2> QED BY <2>5, <2>6, <2>8, <2>10
<1> QED BY <1>1, <1>2, <1>3, <1>4, <1>5 DEF CallStep

\* Steps of a receiver.
LEMMA ReceiverInv ==
    ASSUME InvokeInv, NEW r \in Receivers,
           Execute(r) \/ \E c \in Callers : Receive(r, c)
    PROVE  InvokeInv'
<1> USE InvokeAssumption DEF InvokeInv
<1>1. ASSUME NEW c \in Callers, Receive(r, c) PROVE InvokeInv'
  <2>1. PICK m \in inFlight : /\ m.caller = c
                              /\ inFlight' = inFlight \ {m}
                              /\ copy' = [copy EXCEPT ![r] = m]
    BY <1>1 DEF Receive
  <2>2. /\ recvPc[r] = "idle" /\ recvPc' = [recvPc EXCEPT ![r] = "call"]
        /\ UNCHANGED <<live, unblocked, callPc, original, done>>
    BY <1>1 DEF Receive, callVars
  <2>3. Busy' = Busy \cup {r} /\ r \notin Busy
    BY <2>2 DEF Busy, TypeOK
  <2>4. /\ copy'[r] = m
        /\ \A q \in Receivers \ {r} : copy'[q] = copy[q] /\ recvPc'[q] = recvPc[q]
    BY <2>1, <2>2 DEF TypeOK
  <2>5. TypeOK'
    BY <2>1, <2>2 DEF TypeOK
  <2>6. Held'
    BY <2>2 DEF Held
  <2>7. \A n : Pending(n)' <=> Pending(n)
    BY <2>2 DEF Pending
  <2>8. Copies'
    BY <2>1, <2>3, <2>4, <2>7 DEF Copies, Busy
  <2>9. Completed'
    BY <2>2, <2>4 DEF Completed, TypeOK
  <2> QED BY <2>5, <2>6, <2>8, <2>9
<1>2. CASE RunFunction(r)
  <2>1. /\ recvPc[r] = "call"
        /\ \/ /\ recvPc' = [recvPc EXCEPT ![r] = "unblock"]
              /\ done' = done \cup {copy[r].caller}
           \/ /\ recvPc' = [recvPc EXCEPT ![r] = "drop"]
              /\ done' = done
        /\ UNCHANGED <<live, unblocked, callPc, original, inFlight, copy>>
    BY <1>2 DEF RunFunction, callVars
  <2>2. r \in Busy /\ Busy' \subseteq Busy /\ copy[r].caller \in Callers
    BY <2>1 DEF Busy, Copies, Pending, TypeOK
  <2>3. TypeOK'
    BY <2>1, <2>2 DEF TypeOK
  <2>4. Held'
    BY <2>1 DEF Held
  <2>5. \A n : Pending(n)' <=> Pending(n)
    BY <2>1 DEF Pending
  <2>6. Copies'
    BY <2>1, <2>2, <2>5 DEF Copies
  <2>7. Completed'
    BY <2>1 DEF Completed, TypeOK
  <2> QED BY <2>3, <2>4, <2>6, <2>7
<1>3. CASE Unblock(r)
  <2> DEFINE s == copy[r].functor.sync
             d == copy[r].caller
  <2>1. /\ recvPc[r] = "unblock" /\ recvPc' = [recvPc EXCEPT ![r] = "drop"]
        /\ unblocked' = unblocked \cup {s}
        /\ UNCHANGED <<live, callPc, original, inFlight, copy, done>>
    BY <1>3 DEF Unblock, callVars
  <2>2. r \in Busy /\ Busy' = Busy \ {r}
    BY <2>1 DEF Busy, TypeOK
  <2>3. /\ d \in Callers /\ d \in done /\ callPc[d] = "block"
        /\ s = original[d].sync /\ s \in live /\ s # NULL
    BY <2>1, <2>2 DEF Copies, Pending, Held, Completed
  <2>4. TypeOK'
    BY <2>1, <2>3 DEF TypeOK
  <2>5. Held'
    BY <2>1, <2>3 DEF Held
  <2>6. ASSUME NEW m, Pending(m), m.caller # d
        PROVE  Pending(m)'
    BY <2>1, <2>3, <2>6 DEF Pending, Held
  <2>7. Copies'
    BY <2>1, <2>2, <2>6 DEF Copies
  <2>8. Completed'
    BY <2>1, <2>3 DEF Completed, Held, TypeOK
  <2> QED BY <2>4, <2>5, <2>7, <2>8
<1>4. CASE Drop(r)
  <2>1. Deletes(copy[r].functor) = {}
    BY CopyDeletesNothing DEF Copies
  <2>2. /\ recvPc[r] = "drop" /\ recvPc' = [recvPc EXCEPT ![r] = "idle"]
        /\ copy' = [copy EXCEPT ![r] = NoCopy]
        /\ UNCHANGED <<live, unblocked, callPc, original, inFlight, done>>
    BY <1>4, <2>1 DEF Drop, Free, callVars
  <2>3. Busy' = Busy /\ r \notin Busy
    BY <2>2 DEF Busy, TypeOK
  <2>4. NoCopy \in [functor : Functors, caller : Callers \cup {NULL}] /\ ~NoCopy.functor.creator
    BY DEF NoCopy, NoFunctor, Functors
  <2>5. \A q \in Receivers : copy'[q] = IF q = r THEN NoCopy ELSE copy[q]
    BY <2>2 DEF TypeOK
  <2>6. TypeOK'
    BY <2>2, <2>4 DEF TypeOK
  <2>7. Held'
    BY <2>2 DEF Held
  <2>8. \A n : Pending(n)' <=> Pending(n)
    BY <2>2 DEF Pending
  <2>9. Copies'
    BY <2>2, <2>3, <2>4, <2>5, <2>8 DEF Copies, Busy
  <2>10. Completed'
    BY <2>2, <2>5 DEF Completed, TypeOK
  <2> QED BY <2>6, <2>7, <2>9, <2>10
<1> QED BY <1>1, <1>2, <1>3, <1>4 DEF Execute

\* No step of any thread breaks the invariant.
LEMMA InvokeInductive ==
    ASSUME InvokeInv, [Next]_vars
    PROVE  InvokeInv'
<1>1. CASE UNCHANGED vars
  BY <1>1 DEF vars, callVars, recvVars, InvokeInv, TypeOK, Held, Copies, Completed, Busy,
              Pending
<1> QED BY <1>1, CallerInv, ReceiverInv DEF Next

-----------------------------------------------------------------------------
(* What follows from it.                                                   *)

\* The invariant holds of every behaviour.
THEOREM InvokeInvariant == Spec => []InvokeInv
BY InvokeInitInv, InvokeInductive, PTL DEF Spec

\* The state is of its types.
THEOREM InvokeTypeCorrect == Spec => []TypeOK
<1>1. InvokeInv => TypeOK
  BY DEF InvokeInv
<1> QED BY <1>1, InvokeInvariant, PTL

\* operator() never calls unblock through a dangling pointer.
THEOREM NoSyncDangles == Spec => []NoDanglingSync
<1>1. InvokeInv => NoDanglingSync
  <2> SUFFICES ASSUME InvokeInv, NEW m \in Outstanding
               PROVE  /\ m.functor.sync \in live
                      /\ m.functor.sync = original[m.caller].sync
                      /\ callPc[m.caller] = "block"
    BY DEF NoDanglingSync
  <2>1. Pending(m)
    BY DEF Outstanding, InvokeInv, Copies, Busy
  <2> QED BY <2>1 DEF Pending, InvokeInv, Held
<1> QED BY <1>1, InvokeInvariant, PTL

\* Every sync object is deleted by one functor and no other.
THEOREM SyncHasOneOwner == Spec => []OneOwner
<1>1. InvokeInv => OneOwner
  <2> SUFFICES ASSUME InvokeInv PROVE OneOwner
    OBVIOUS
  <2>1. ASSUME NEW s \in live
        PROVE  Cardinality({c \in Callers : original[c].sync = s}) = 1
    <3>1. PICK c \in Callers : original[c].sync = s
      BY DEF InvokeInv, Held
    <3>2. s # NULL
      BY InvokeAssumption DEF InvokeInv, TypeOK
    <3>3. {d \in Callers : original[d].sync = s} = {c}
      BY <3>1, <3>2 DEF InvokeInv, Held
    <3> QED BY <3>3, FS_Singleton
  <2> QED BY <2>1 DEF OneOwner, InvokeInv, Held
<1> QED BY <1>1, InvokeInvariant, PTL

\* A caller that continues has had its function executed.
THEOREM CallersWaitForExecution == Spec => []ExecutedBeforeContinuing
<1>1. InvokeInv => ExecutedBeforeContinuing
  BY DEF InvokeInv, Completed, ExecutedBeforeContinuing
<1> QED BY <1>1, InvokeInvariant, PTL

=============================================================================
