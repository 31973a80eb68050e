------------------------------ MODULE TypeSequence ------------------------------
(***************************************************************************)
(* Types at run time: util::apply_at and util::find_index, which go from a *)
(* number to the type at that place of a sequence and back, and            *)
(* util::TypeId, the handle of a type_info that a program keeps in         *)
(* containers.  Every library a program loads may have type_info objects   *)
(* of its own for a type.                                                  *)
(***************************************************************************)
EXTENDS Integers, Sequences, FiniteSets

CONSTANTS
    Types,       \* the types, each a number by which type_info orders them
    NullType,    \* the one that an empty TypeId stands for
    Libraries,   \* where type_info objects are
    Sequence,    \* the type sequence; a type may be in it twice
    IndexWidth,  \* bits of the least integer type that holds its size
    Indices      \* the numbers a program passes

ASSUME TypeAssumption == /\ Types \subseteq Int /\ NullType \in Types
                         /\ Sequence \in Seq(Types)
                         /\ IndexWidth \in Nat /\ Indices \subseteq Int
                         /\ Len(Sequence) \in 1 .. 2^IndexWidth - 1

VARIABLES
    passedIndex, \* the number the last call of apply_at was passed
    applied,     \* the places of the types it called the functor with
    handles      \* the TypeIds the program keeps

typeVars == <<passedIndex, applied, handles>>

-----------------------------------------------------------------------------
(* MPLApplyAt and MPLFindIndex                                             *)

Size == Len(Sequence)
At(i) == Sequence[i + 1]

\* Mutant of IsValidIndex: one too many.
IsValidIndexInclusive(current) == current <= Size

IsValidIndex(current) == current < Size

\* runtime_int_to_type_impl: the places the functor is called for.
runtime_int_to_type_impl(i) ==
    LET apply[current \in 0 .. Size + 1] ==
            IF ~IsValidIndex(current) THEN << >>
            ELSE IF current = i THEN <<current>> ELSE apply[current + 1]
    IN  apply[0]

\* The parameter has the width of the index type.
Narrowed(i) == i % 2^IndexWidth

apply_at(i) == /\ passedIndex' = i
               /\ applied' = runtime_int_to_type_impl(Narrowed(i))
               /\ UNCHANGED handles

find_index(type) == CHOOSE i \in 0 .. Size - 1 :
                        At(i) = type /\ \A j \in 0 .. i - 1 : At(j) # type

-----------------------------------------------------------------------------
(* TypeId                                                                  *)

type_info == Types \X Libraries
TypeOfInfo(info) == info[1]

\* Mutant of EqualIds: it compares the pointers.
EqualIdsByPointer(a, b) == a = b

EqualIds(a, b) == TypeOfInfo(a) = TypeOfInfo(b)

before(a, b) == TypeOfInfo(a) < TypeOfInfo(b)

FindHandle(id) == {h \in handles : EqualIds(h, id)}

\* A set keeps no two equal handles.
Insert(id) == /\ handles' = IF FindHandle(id) = {} THEN handles \cup {id} ELSE handles
              /\ UNCHANGED <<passedIndex, applied>>

\* The default constructor, in some library.
InsertEmpty(lib) == Insert(<<NullType, lib>>)

Erase(id) == /\ handles' = handles \ FindHandle(id)
             /\ UNCHANGED <<passedIndex, applied>>

-----------------------------------------------------------------------------

\* A call with the size of the sequence calls nothing.
TypeInit == passedIndex = Size /\ applied = << >> /\ handles = {}

TypeNext == \/ \E i \in Indices : apply_at(i)
            \/ \E id \in type_info : Insert(id) \/ Erase(id)
            \/ \E lib \in Libraries : InsertEmpty(lib)

TypeSpec == TypeInit /\ [][TypeNext]_typeVars

-----------------------------------------------------------------------------
(* Properties.                                                             *)

\* For a number the index type holds, the functor is called once, with the type
\* at that place, from which find_index finds the place again or an earlier
\* one of the same type; past the end of the sequence it is not called.
AppliesAtIndex ==
    passedIndex \in 0 .. 2^IndexWidth - 1 =>
        /\ applied = IF passedIndex < Size THEN <<passedIndex>> ELSE << >>
        /\ passedIndex < Size =>
              LET first == find_index(At(passedIndex))
              IN  first <= passedIndex /\ At(first) = At(passedIndex)

\* Handles made in whichever library serve as keys: of two that are kept as
\* different exactly one is before the other, as a sorted container needs it.
HandlesAreKeys == \A a, b \in handles : a # b => (before(a, b) <=> ~before(b, a))

=============================================================================
