-------------------------- MODULE CountedUniqueValues --------------------------
(***************************************************************************)
(* util::CountedUniqueValues: values are stored once and numbered by their *)
(* place.  A store makes two insertions, into the storage and into the     *)
(* dictionary, and either can fail with an exception.                      *)
(***************************************************************************)
EXTENDS Naturals, Sequences

CONSTANTS
    StoredValues,  \* the values a program stores
    MaxStored,     \* bound: the size of the storage
    MaxAtFailure   \* bound: its size when a store fails halfway

ASSUME StoredAssumption == MaxStored \in Nat /\ MaxAtFailure \in 0 .. MaxStored

VARIABLES
    storage,  \* _storage; the value numbered i is its element i + 1
    lookup,   \* _lookup, a function on the values that have an entry
    given     \* history: the pairs of a value and a number store has returned

storeVars == <<storage, lookup, given>>

-----------------------------------------------------------------------------

Found(v) == v \in DOMAIN lookup

\* _lookup[v] = i
Entered(v, i) == [w \in DOMAIN lookup \cup {v} |-> IF w = v THEN i ELSE lookup[w]]

StoreInit == storage = << >> /\ lookup = << >> /\ given = {}

StoreFound(v) == /\ Found(v)
                 /\ given' = given \cup {<<v, lookup[v]>>}
                 /\ UNCHANGED <<storage, lookup>>

StoreAdds(v) == /\ ~Found(v) /\ Len(storage) < MaxStored
                /\ storage' = Append(storage, v)
                /\ lookup' = Entered(v, Len(storage))
                /\ given' = given \cup {<<v, Len(storage)>>}

\* Mutant of StoreFails: the entry was made before the value was stored.
StoreFailsLookupFirst(v) == /\ ~Found(v) /\ Len(storage) < MaxAtFailure
                            /\ lookup' = Entered(v, Len(storage))
                            /\ UNCHANGED <<storage, given>>

\* The insertion into the dictionary throws, and the value stays stored; when
\* push_back throws nothing changes.
StoreFails(v) == /\ ~Found(v) /\ Len(storage) < MaxAtFailure
                 /\ storage' = Append(storage, v)
                 /\ UNCHANGED <<lookup, given>>

StoreNext == \E v \in StoredValues : StoreFound(v) \/ StoreAdds(v) \/ StoreFails(v)

StoreSpec == StoreInit /\ [][StoreNext]_storeVars

-----------------------------------------------------------------------------
(* Properties.                                                             *)

CanGet(i) == i < Len(storage)
Get(i)    == storage[i + 1]

\* Every number store has ever returned still gets the value it was returned
\* for, and no value was given two numbers, although stores that failed
\* halfway have left values without a number in the storage.
NumbersStable == \A p \in given : /\ CanGet(p[2]) /\ Get(p[2]) = p[1]
                                  /\ \A q \in given : q[1] = p[1] => q[2] = p[2]

=============================================================================
