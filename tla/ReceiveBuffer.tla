---------------------------- MODULE ReceiveBuffer ----------------------------
(***************************************************************************)
(* util::ReceiveBuffer<SIZE, Values>, with the front() and back() it gets  *)
(* from util::vector_simulator: a window [_begin, _pastEnd) over a fixed   *)
(* array, which slides back to the array's front when an addition does not *)
(* fit behind it.  Several buffers, so that copies and assignments appear. *)
(*                                                                         *)
(* An iterator is the index it has from begin().  A caller keeps to what   *)
(* the BOOST_ASSERT_MSGs ask, and the values it adds are not references to *)
(* values of the buffer it adds them to.                                   *)
(***************************************************************************)
EXTENDS Integers, Sequences

CONSTANTS Buffers, Values, Default, Capacity, NoValue

ASSUME BufferAssumption == /\ Capacity \in Nat \ {0}
                           /\ Default \in Values
                           /\ NoValue \notin Values \cup Int

VARIABLES
    buf,    \* each buffer's begin, pastEnd and contents
    given,  \* the values the last operation was given to add
    ret     \* what it returned, NoValue if it returned nothing

vars == <<buf, given, ret>>

Index == 0..Capacity - 1
Empty == [begin |-> 0, pastEnd |-> 0, contents |-> [k \in Index |-> Default]]

Init == /\ buf = [b \in Buffers |-> Empty]
        /\ given = << >>
        /\ ret = NoValue

-----------------------------------------------------------------------------
(* The parts of the operations.  x is a buffer.                            *)

size(x) == x.pastEnd - x.begin

\* operator[]
At(x, i) == x.contents[x.begin + i]

\* idealContentsCopy: the source's values to the front of dest's array.
Moved(source, dest) ==
    [begin    |-> 0,
     pastEnd  |-> size(source),
     contents |-> [k \in Index |-> IF k < size(source) THEN At(source, k)
                                                       ELSE dest.contents[k]]]

\* Mutant of ensure_space: the assertion's sum in the test.
ensure_space_by_size(x, n) ==
    LET e == IF size(x) = 0 THEN [x EXCEPT !.begin = 0, !.pastEnd = 0] ELSE x
    IN  IF size(e) + n <= Capacity THEN e ELSE Moved(e, e)

\* ensure_space(n): an empty window starts again, one that is too far back slides.
ensure_space(x, n) ==
    LET e == IF size(x) = 0 THEN [x EXCEPT !.begin = 0, !.pastEnd = 0] ELSE x
    IN  IF e.pastEnd + n <= Capacity THEN e ELSE Moved(e, e)

\* Mutant of Filled: the values written at an end() taken before the slide.
FilledAtOldEnd(x, s, n) ==
    LET e == ensure_space(x, Len(s))
    IN  [e EXCEPT !.pastEnd = @ + n,
                  !.contents = [k \in Index |->
                                  IF k - x.pastEnd \in 0..Len(s) - 1
                                      THEN s[k - x.pastEnd + 1] ELSE @[k]]]

\* Room for s is made, s is written behind the window, which grows by n.
Filled(x, s, n) ==
    LET e == ensure_space(x, Len(s))
    IN  [e EXCEPT !.pastEnd = @ + n,
                  !.contents = [k \in Index |->
                                  IF k - e.pastEnd \in 0..Len(s) - 1
                                      THEN s[k - e.pastEnd + 1] ELSE @[k]]]

\* erase(begin() + i, begin() + j): from the front, from the back, or with
\* the values behind the erased ones copied down.
Erased(x, i, j) ==
    IF i = 0 THEN [x EXCEPT !.begin = @ + (j - i)]
    ELSE IF j = size(x) THEN [x EXCEPT !.pastEnd = @ - (j - i)]
    ELSE [x EXCEPT !.pastEnd = @ - (j - i),
                   !.contents = [k \in Index |->
                                   IF k - (x.begin + i) \in 0..size(x) - j - 1
                                       THEN @[k + (j - i)] ELSE @[k]]]

Adds(b, x, s, r) == /\ buf' = [buf EXCEPT ![b] = x]
                    /\ given' = s
                    /\ ret' = r

Becomes(b, x, r) == Adds(b, x, << >>, r)

-----------------------------------------------------------------------------
(* The operations.                                                         *)

\* Sequences of up to n values.
UpTo(n) == UNION {[1..m -> Values] : m \in 0..n}

\* The constructors from an array and from a range, in place of an empty buffer.
Construct(b) == /\ size(buf[b]) = 0
                /\ \E s \in UpTo(Capacity) :
                      Adds(b, Filled(Empty, s, Len(s)), s, NoValue)

\* The copy constructor, and assignment from another buffer or from itself.
CopyConstruct(b, c) == b # c /\ Becomes(b, Moved(buf[c], Empty), NoValue)
Assign(b, c) == Becomes(b, Moved(buf[c], buf[b]), NoValue)

\* push_back of one value and of a range.
PushBack(b) == \E s \in UpTo(Capacity - size(buf[b])) :
                  Adds(b, Filled(buf[b], s, Len(s)), s, NoValue)

\* bufferFromExternalFunctorRef(f, n), where an n beyond the room is cut to it:
\* f may write n values, and returns how many it has.
BufferFromFunctor(b) ==
    \E n \in 0..(Capacity - size(buf[b])) :
       \E s \in [1..n -> Values], actual \in 0..n :
          Adds(b, Filled(buf[b], s, actual), s, actual)

PopFront(b) == \E count \in 1..size(buf[b]) :
                  Becomes(b, [buf[b] EXCEPT !.begin = @ + count], At(buf[b], 0))

PopBack(b) == \E count \in 1..size(buf[b]) :
                 Becomes(b, [buf[b] EXCEPT !.pastEnd = @ - count],
                         At(buf[b], size(buf[b]) - 1))

EraseRange(b) == \E i \in 0..size(buf[b]) - 1 : \E j \in i + 1..size(buf[b]) :
                    Becomes(b, Erased(buf[b], i, j), i)

\* A value written through what operator[], front(), back() or *iterator returns.
WriteElement(b) == \E i \in 0..size(buf[b]) - 1, v \in Values :
                      Becomes(b, [buf[b] EXCEPT !.contents[buf[b].begin + i] = v], NoValue)

Clear(b) == Becomes(b, [buf[b] EXCEPT !.begin = 0, !.pastEnd = 0], NoValue)

Next == \E b \in Buffers : \/ Construct(b)
                           \/ PushBack(b)
                           \/ BufferFromFunctor(b)
                           \/ PopFront(b)
                           \/ PopBack(b)
                           \/ EraseRange(b)
                           \/ WriteElement(b)
                           \/ Clear(b)
                           \/ \E c \in Buffers : CopyConstruct(b, c) \/ Assign(b, c)

Spec == Init /\ [][Next]_vars

-----------------------------------------------------------------------------
(* Properties.                                                             *)

\* The arrays hold values and every window lies inside its array: the code's
\* verify_invariants, after every operation and not only where it is called.
TypeOK == /\ buf \in [Buffers -> [begin : 0..Capacity, pastEnd : 0..Capacity,
                                  contents : [Index -> Values]]]
          /\ \A b \in Buffers : buf[b].begin <= buf[b].pastEnd
          /\ given \in Seq(Values)
          /\ ret \in Values \cup Int \cup {NoValue}

\* Whatever window and slides a sequence of calls leads through, a buffer is
\* the sequence of the values added and not yet removed.
Contents == [b \in Buffers |-> [i \in 1..size(buf[b]) |-> At(buf[b], i - 1)]]
Sequence == INSTANCE BoundedSequence WITH seq <- Contents
ImplementsSequence == Sequence!Spec

=============================================================================
