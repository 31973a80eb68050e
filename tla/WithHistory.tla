------------------------------ MODULE WithHistory ------------------------------
(***************************************************************************)
(* util::WithHistory<T>: two values and two pointers that say which one is *)
(* current and which is previous.  A pointer is the name of the member it  *)
(* points to, in the same object.                                          *)
(***************************************************************************)
CONSTANTS Objects, Values, Gone

VARIABLES
    obj,    \* each object's members, Gone when it does not exist
    copied  \* <<o, p>> when the last operation copied p to o, else << >>

vars == <<obj, copied>>

Members == {"_a", "_b"}

Init == /\ obj = [o \in Objects |-> Gone]
        /\ copied = << >>

Exists(o) == obj[o] # Gone

\* The value constructors; the default one leaves an int with any value.
Construct(o) == /\ ~Exists(o)
                /\ \E cur, prev \in Values :
                      obj' = [obj EXCEPT ![o] = [_a |-> cur, _b |-> prev,
                                                 _current |-> "_a",
                                                 _previous |-> "_b"]]
                /\ copied' = << >>

\* The copy constructor copies the members and sets the pointers anew.
Copy(o, p) == /\ ~Exists(o)
              /\ Exists(p)
              /\ obj' = [obj EXCEPT ![o] = [_a |-> obj[p]._a, _b |-> obj[p]._b,
                                            _current |-> "_a",
                                            _previous |-> "_b"]]
              /\ copied' = <<o, p>>

current(o)  == obj[o][obj[o]._current]
previous(o) == obj[o][obj[o]._previous]

\* Assignment goes by current and previous.  It ends without a return
\* statement, so a build may also leave the object as it was, having inferred
\* that only the self-assignment returns.
Assign(o, p) == /\ o # p
                /\ Exists(o)
                /\ Exists(p)
                /\ \/ obj' = [obj EXCEPT ![o][obj[o]._current]  = current(p),
                                         ![o][obj[o]._previous] = previous(p)]
                   \/ obj' = obj
                /\ copied' = << >>

\* The accessors are l-values.
Write(o) == /\ Exists(o)
            /\ \E x \in Values, m \in Members : obj' = [obj EXCEPT ![o][m] = x]
            /\ copied' = << >>

swap(o) == /\ Exists(o)
           /\ obj' = [obj EXCEPT ![o]._current  = obj[o]._previous,
                                 ![o]._previous = obj[o]._current]
           /\ copied' = << >>

\* *_previous = *_current, and a swap.
advanceByCopy(o) ==
    /\ Exists(o)
    /\ obj' = [obj EXCEPT ![o][obj[o]._previous] = current(o),
                          ![o]._current  = obj[o]._previous,
                          ![o]._previous = obj[o]._current]
    /\ copied' = << >>

Destroy(o) == /\ Exists(o)
              /\ obj' = [obj EXCEPT ![o] = Gone]
              /\ copied' = << >>

Next == \E o \in Objects : \/ Construct(o)
                           \/ Write(o)
                           \/ swap(o)
                           \/ advanceByCopy(o)
                           \/ Destroy(o)
                           \/ \E p \in Objects : Copy(o, p) \/ Assign(o, p)

Spec == Init /\ [][Next]_vars

-----------------------------------------------------------------------------
(* Properties.                                                             *)

\* A copy has the current and the previous value of what it was copied from,
\* whatever happened to that before: what the tests of the copy constructor
\* expect (WithHistory.cpp:72-77), which copy objects that have never swapped.
CopyKeepsHistory ==
    copied # << >> => /\ current(copied[1]) = current(copied[2])
                      /\ previous(copied[1]) = previous(copied[2])

=============================================================================
