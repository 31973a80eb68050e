---------------------------- MODULE OnePlaceBuffer ----------------------------
(***************************************************************************)
(* What util::LockFreeBuffer promises its one producer and one consumer: a *)
(* place for one item.  A send into an empty place fills it, a send into a *)
(* full one is refused; a receive takes what is there, or reports that     *)
(* nothing is.  Each call takes effect at one instant.                     *)
(***************************************************************************)
CONSTANTS Items, NoItem

VARIABLES
    place,     \* the item in the place, or NoItem
    item,      \* the item of the send in progress, or NoItem
    accepted,  \* what the last send returned
    got        \* the item of the last receive, NoItem if it returned false

vars == <<place, item, accepted, got>>

Init == /\ place = NoItem
        /\ item = NoItem
        /\ accepted = FALSE
        /\ got = NoItem

Offer == /\ item = NoItem
         /\ item' \in Items
         /\ UNCHANGED <<place, accepted, got>>

Put == /\ item # NoItem
       /\ place = NoItem
       /\ place' = item
       /\ item' = NoItem
       /\ accepted' = TRUE
       /\ got' = got

Refuse == /\ item # NoItem
          /\ place # NoItem
          /\ item' = NoItem
          /\ accepted' = FALSE
          /\ UNCHANGED <<place, got>>

Take == /\ place # NoItem
        /\ got' = place
        /\ place' = NoItem
        /\ UNCHANGED <<item, accepted>>

Miss == /\ place = NoItem
        /\ got' = NoItem
        /\ UNCHANGED <<place, item, accepted>>

Next == Offer \/ Put \/ Refuse \/ Take \/ Miss

Spec == Init /\ [][Next]_vars

=============================================================================
