----------------------------- MODULE UniqueWinObj -----------------------------
(***************************************************************************)
(* util::w32::UniqueWinObj and the wrapper that Attach returns: objects    *)
(* that own a HANDLE, move it among each other and close it.  Pipes are    *)
(* the objects of type UniqueHandleForPipes (InvalidHandleValue: both      *)
(* INVALID_HANDLE_VALUE and nullptr are invalid), the others those of type *)
(* UniqueProcessHandle (NullptrValue: only nullptr is).                    *)
(*                                                                         *)
(* The client gives an object only handles it owns itself, what it got     *)
(* from that object's get(), or the values with which the calls the type   *)
(* is made for fail; it gives a wrapper to one call that may succeed, and   *)
(* lets it go before the object it is for.                                 *)
(* A handle that was closed may be opened again with the same value.       *)
(***************************************************************************)
EXTENDS FiniteSets

CONSTANTS Objects, Pipes, Wrappers, Handles,
          InvalidHandle, Nullptr, Gone, NoWrapper, Client, Nobody

ASSUME WinObjAssumption ==
    /\ Pipes \subseteq Objects
    /\ InvalidHandle # Nullptr
    /\ {InvalidHandle, Nullptr, Gone} \cap Handles = {}
    /\ Gone \notin {InvalidHandle, Nullptr}
    /\ Objects \cap Wrappers = {}
    /\ {Client, Nobody} \cap (Objects \cup Wrappers) = {}
    /\ Client # Nobody
    /\ NoWrapper \notin [obj : Objects, v : Handles \cup {InvalidHandle, Nullptr},
                        active : BOOLEAN]

VARIABLES
    v,     \* v_ of each object, Gone when the object does not exist
    wrap,  \* each wrapper: its obj_, v_ and active_
    open,  \* the handles that are open
    mine   \* the handles the client owns itself

vars == <<v, wrap, open, mine>>

HANDLE == Handles \cup {InvalidHandle, Nullptr}

valid(o) == v[o] \notin (IF o \in Pipes THEN {InvalidHandle, Nullptr, Gone}
                                        ELSE {Nullptr, Gone})
invalid_value(o) == IF o \in Pipes THEN InvalidHandle ELSE Nullptr

\* What a failing call for an object of o's type returns or stores.
Failures(o) == IF o \in Pipes THEN {InvalidHandle, Nullptr} ELSE {Nullptr}

Init == /\ v = [o \in Objects |-> Gone]
        /\ wrap = [w \in Wrappers |-> NoWrapper]
        /\ open = {}
        /\ mine = {}

\* What reset(x) deletes.
Closed(o, x) == IF valid(o) /\ x # v[o] THEN {v[o]} ELSE {}

-----------------------------------------------------------------------------
(* The client and the operating system.                                    *)

OpenHandle == \E h \in Handles \ open : /\ open' = open \cup {h}
                                        /\ mine' = mine \cup {h}
                                        /\ UNCHANGED <<v, wrap>>

CloseHandle == \E h \in mine : /\ open' = open \ {h}
                               /\ mine' = mine \ {h}
                               /\ UNCHANGED <<v, wrap>>

-----------------------------------------------------------------------------
(* UniqueWinObj                                                            *)

Construct(o) == /\ v[o] = Gone
                /\ \E x \in mine \cup Failures(o) : /\ v' = [v EXCEPT ![o] = x]
                                                    /\ mine' = mine \ {x}
                /\ UNCHANGED <<wrap, open>>

\* Mutant of Converted: the move constructor that the header disables, which
\* takes over what the other object has, valid or not.
ConvertedAlways(o, p) == v[p]

\* The value of p after its move to o, in o's terms.
Converted(o, p) == IF valid(p) THEN v[p] ELSE invalid_value(o)

\* Mutant of Left: a move that copies.
LeftCopy(p) == v[p]

\* What a move leaves in p: a valid value is released.
Left(p) == IF valid(p) THEN invalid_value(p) ELSE v[p]

MoveConstruct(o, p) == /\ v[o] = Gone
                       /\ v[p] # Gone
                       /\ v' = [v EXCEPT ![o] = Converted(o, p), ![p] = Left(p)]
                       /\ UNCHANGED <<wrap, open, mine>>

\* Self-assignment does nothing.
MoveAssign(o, p) == /\ o # p
                    /\ v[o] # Gone
                    /\ v[p] # Gone
                    /\ open' = open \ Closed(o, invalid_value(o))
                    /\ v' = [v EXCEPT ![o] = Converted(o, p), ![p] = Left(p)]
                    /\ UNCHANGED <<wrap, mine>>

Release(o) == /\ v[o] # Gone
              /\ mine' = IF valid(o) THEN mine \cup {v[o]} ELSE mine
              /\ v' = [v EXCEPT ![o] = invalid_value(o)]
              /\ UNCHANGED <<wrap, open>>

\* reset(x), called with a value the client owns, a failure, or o.get().
Reset(o) == /\ v[o] # Gone
            /\ \E x \in mine \cup Failures(o) \cup {v[o]} :
                  /\ open' = open \ Closed(o, x)
                  /\ v' = [v EXCEPT ![o] = x]
                  /\ mine' = mine \ {x}
            /\ UNCHANGED wrap

Destroy(o) == /\ v[o] # Gone
              /\ \A w \in Wrappers : wrap[w] # NoWrapper => wrap[w].obj # o
              /\ open' = open \ (IF valid(o) THEN {v[o]} ELSE {})
              /\ v' = [v EXCEPT ![o] = Gone]
              /\ UNCHANGED <<wrap, mine>>

-----------------------------------------------------------------------------
(* The wrapper: an output parameter whose value reaches the object when    *)
(* the wrapper is destroyed.                                               *)

\* Mutant of Attach: v_ without its initializer.
AttachUnset(w, o) == /\ wrap[w] = NoWrapper
                     /\ v[o] # Gone
                     /\ wrap' = [wrap EXCEPT ![w] = [obj    |-> o,
                                                     v      |-> Gone,
                                                     active |-> TRUE]]
                     /\ UNCHANGED <<v, open, mine>>

Attach(w, o) == /\ wrap[w] = NoWrapper
                /\ v[o] # Gone
                /\ wrap' = [wrap EXCEPT ![w] = [obj    |-> o,
                                                v      |-> invalid_value(o),
                                                active |-> TRUE]]
                /\ UNCHANGED <<v, open, mine>>

\* A call of the operating system stores through the wrapper's address.
Store(w) == /\ wrap[w] # NoWrapper
            /\ wrap[w].active
            /\ wrap[w].v \notin Handles
            /\ \E x \in (Handles \ open) \cup Failures(wrap[w].obj) :
                  /\ wrap' = [wrap EXCEPT ![w].v = x]
                  /\ open' = open \cup ({x} \cap Handles)
            /\ UNCHANGED <<v, mine>>

\* Mutant of MoveWrapper: the moved-from wrapper stays active.
MoveWrapperActive(w, u) == /\ wrap[w] # NoWrapper
                           /\ wrap[u] = NoWrapper
                           /\ wrap' = [wrap EXCEPT ![u] = wrap[w]]
                           /\ UNCHANGED <<v, open, mine>>

MoveWrapper(w, u) == /\ wrap[w] # NoWrapper
                     /\ wrap[u] = NoWrapper
                     /\ wrap' = [wrap EXCEPT ![u] = wrap[w], ![w].active = FALSE]
                     /\ UNCHANGED <<v, open, mine>>

DestroyWrapper(w) ==
    /\ wrap[w] # NoWrapper
    /\ LET o == wrap[w].obj
           x == wrap[w].v
       IN  IF wrap[w].active THEN /\ open' = open \ Closed(o, x)
                                  /\ v' = [v EXCEPT ![o] = x]
                             ELSE UNCHANGED <<open, v>>
    /\ wrap' = [wrap EXCEPT ![w] = NoWrapper]
    /\ UNCHANGED mine

-----------------------------------------------------------------------------

Next == \/ OpenHandle
        \/ CloseHandle
        \/ \E o \in Objects : \/ Construct(o)
                              \/ Release(o)
                              \/ Reset(o)
                              \/ Destroy(o)
                              \/ \E p \in Objects : MoveConstruct(o, p) \/ MoveAssign(o, p)
        \/ \E w \in Wrappers : \/ \E o \in Objects : Attach(w, o)
                               \/ Store(w)
                               \/ \E u \in Wrappers : MoveWrapper(w, u)
                               \/ DestroyWrapper(w)

Spec == Init /\ [][Next]_vars

-----------------------------------------------------------------------------
(* Properties.                                                             *)

\* Objects and wrappers hold HANDLEs.
TypeOK == /\ v \in [Objects -> HANDLE \cup {Gone}]
          /\ wrap \in [Wrappers -> [obj : Objects, v : HANDLE, active : BOOLEAN]
                                   \cup {NoWrapper}]
          /\ open \subseteq Handles
          /\ mine \subseteq Handles

\* Who will close h, or pass it on.
Owners(h) == {o \in Objects : v[o] = h}
             \cup {w \in Wrappers : wrap[w] # NoWrapper /\ wrap[w].active /\ wrap[w].v = h}
             \cup (IF h \in mine THEN {Client} ELSE {})

\* No open handle is leaked and none has two objects that would close it,
\* through moves between the types, resets and wrappers that outlive them.
OwnedOnce == \A h \in open : Cardinality(Owners(h)) = 1

\* CloseHandle is never called with a handle that is closed already, or with
\* a value that is invalid in another type's terms: what an object would
\* delete is open.
DeletesOpen == \A o \in Objects : valid(o) => v[o] \in open

\* Handles change hands and are closed only as HandleOwnership says: no step
\* leaves an open handle without an owner, and none closes more than the handle
\* that one object, or the client, gives up.
Ownership == INSTANCE HandleOwnership
                 WITH owner <- [h \in Handles |->
                                  IF h \notin open \/ Owners(h) = {} THEN Nobody
                                  ELSE CHOOSE who \in Owners(h) : TRUE]
ImplementsOwnership == Ownership!Spec

=============================================================================
