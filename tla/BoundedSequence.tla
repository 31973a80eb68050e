--------------------------- MODULE BoundedSequence ---------------------------
(***************************************************************************)
(* What util::ReceiveBuffer promises: each buffer is a sequence of at most *)
(* Capacity values, with std::vector's operations at its back and the      *)
(* removal of values at its front; operations on one buffer leave the      *)
(* others alone.                                                           *)
(***************************************************************************)
EXTENDS Integers, Sequences

CONSTANTS Buffers, Values, Capacity, NoValue

VARIABLES
    seq,    \* the sequence each buffer holds
    given,  \* the values the last operation was given to add
    ret     \* what it returned, NoValue if it returned nothing

vars == <<seq, given, ret>>

Init == /\ seq = [b \in Buffers |-> << >>]
        /\ given = << >>
        /\ ret = NoValue

\* What the caller gives is added at the back.
Add(b) == /\ given' \in Seq(Values)
          /\ Len(seq[b]) + Len(given') <= Capacity
          /\ seq' = [seq EXCEPT ![b] = @ \o given']
          /\ ret' = NoValue

\* Of what a functor writes, as much as it says is added.
AddFrom(b) == /\ given' \in Seq(Values)
              /\ Len(seq[b]) + Len(given') <= Capacity
              /\ ret' \in 0..Len(given')
              /\ seq' = [seq EXCEPT ![b] = @ \o SubSeq(given', 1, ret')]

\* Values are removed at one end; the first, or the last, is returned.
RemoveFront(b) == \E n \in 1..Len(seq[b]) :
                     /\ seq' = [seq EXCEPT ![b] = SubSeq(@, n + 1, Len(@))]
                     /\ given' = << >>
                     /\ ret' = Head(seq[b])
RemoveBack(b)  == \E n \in 1..Len(seq[b]) :
                     /\ seq' = [seq EXCEPT ![b] = SubSeq(@, 1, Len(@) - n)]
                     /\ given' = << >>
                     /\ ret' = seq[b][Len(seq[b])]

\* Values i + 1 to j are removed; what is returned is the index of the value
\* that followed them.
Erase(b) == \E i \in 0..Len(seq[b]) - 1 : \E j \in i + 1..Len(seq[b]) :
               /\ seq' = [seq EXCEPT
                            ![b] = SubSeq(@, 1, i) \o SubSeq(@, j + 1, Len(@))]
               /\ given' = << >>
               /\ ret' = i

\* One value is replaced where it is.
Write(b) == \E i \in 1..Len(seq[b]), v \in Values :
               /\ seq' = [seq EXCEPT ![b][i] = v]
               /\ given' = << >>
               /\ ret' = NoValue

\* A buffer takes the value of another one.
Assign(b, c) == /\ seq' = [seq EXCEPT ![b] = seq[c]]
                /\ given' = << >>
                /\ ret' = NoValue

Clear(b) == /\ seq' = [seq EXCEPT ![b] = << >>]
            /\ given' = << >>
            /\ ret' = NoValue

Next == \E b \in Buffers : \/ Add(b)
                           \/ AddFrom(b)
                           \/ RemoveFront(b)
                           \/ RemoveBack(b)
                           \/ Erase(b)
                           \/ Write(b)
                           \/ Clear(b)
                           \/ \E c \in Buffers : Assign(b, c)

Spec == Init /\ [][Next]_vars

=============================================================================
