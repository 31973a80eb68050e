---------------------------- MODULE HandleOwnership ----------------------------
(***************************************************************************)
(* What util::w32::UniqueWinObj promises: an open handle has one owner,    *)
(* ownership moves only to somebody who takes it, and an object closes the *)
(* handle it owns when it takes another one, is emptied or is destroyed.   *)
(* No step takes an open handle from its owner and gives it to nobody.     *)
(***************************************************************************)
CONSTANTS Objects, Wrappers, Handles, Client, Nobody

VARIABLES
    owner, \* who owns each handle, Nobody if nobody does
    open   \* the handles that are open

vars == <<owner, open>>

Init == /\ owner = [h \in Handles |-> Nobody]
        /\ open = {}

\* The operating system opens h for its caller, or for an output parameter.
Open(h) == /\ h \notin open
           /\ open' = open \cup {h}
           /\ \E who \in Wrappers \cup {Client} : owner' = [owner EXCEPT ![h] = who]

OwnedBy(o) == {g \in Handles : owner[g] = o}

\* The object o takes h, and closes what it had.
Take(o, h) == /\ h \in open
              /\ open' = open \ (OwnedBy(o) \ {h})
              /\ owner' = [g \in Handles |-> CASE g = h                   -> o
                                               [] g \in OwnedBy(o) \ {h} -> Nobody
                                               [] OTHER                   -> owner[g]]

\* A handle is handed back to the client, or on to another output parameter.
HandOver(h) == /\ \/ /\ owner[h] \in Objects
                     /\ owner' = [owner EXCEPT ![h] = Client]
                  \/ /\ owner[h] \in Wrappers
                     /\ \E w \in Wrappers : owner' = [owner EXCEPT ![h] = w]
               /\ UNCHANGED open

Close(h) == /\ h \in open
            /\ owner[h] \in Objects \cup {Client}
            /\ open' = open \ {h}
            /\ owner' = [owner EXCEPT ![h] = Nobody]

Next == \E h \in Handles : \/ Open(h)
                           \/ \E o \in Objects : Take(o, h)
                           \/ HandOver(h)
                           \/ Close(h)

Spec == Init /\ [][Next]_vars

=============================================================================
