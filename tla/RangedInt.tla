------------------------------- MODULE RangedInt -------------------------------
(***************************************************************************)
(* util::RangedInt: objects of several instantiations that take values     *)
(* from integers and from each other.  A value is stored before it is      *)
(* checked, and a check is left out where the two types make it needless.  *)
(***************************************************************************)
EXTENDS Integers

CONSTANTS
    RangedObjects,  \* the objects a program declares
    TypeOf,         \* the instantiation each of them belongs to
    Ints,           \* the integers a program assigns
    NDEBUG,         \* whether the build defines it
    NoInt           \* in place of the value of an object not constructed

RangedType == [min : Int, max : Int,
               checking : {"AlwaysCheck", "NeverCheck", "CheckInDebug"},
               error : {"ThrowOutOfRange", "AssertOutOfRange"}]

ASSUME RangedAssumption == /\ TypeOf \in [RangedObjects -> RangedType]
                           /\ Ints \subseteq Int
                           /\ NDEBUG \in BOOLEAN
                           /\ NoInt \notin Ints

VARIABLES
    value,   \* the member of each object
    spoiled  \* history: the objects whose value came, in whatever number of
             \* copies, from an assignment that threw or from a policy that
             \* checks without effect

rangedVars == <<value, spoiled>>

Constructed(o) == value[o] # NoInt
SameType(o, p) == TypeOf[o] = TypeOf[p]

-----------------------------------------------------------------------------
(* The checks.  The type of an object is t, of the object it is made from s. *)

checked(t) == \/ t.checking = "AlwaysCheck"
              \/ t.checking = "CheckInDebug" /\ ~NDEBUG

\* Whether the error policy is called.
CheckMin(actuallyCheck, t, v) == actuallyCheck /\ v < t.min
CheckMax(actuallyCheck, t, v) == actuallyCheck /\ v > t.max

rangeCheck(t, v) == CheckMin(checked(t), t, v) \/ CheckMax(checked(t), t, v)

\* Mutant of crossRangeCheck: it trusts the range of an unchecked source.
crossRangeCheckTrusting(t, s, v) ==
    \/ CheckMin(checked(t) /\ s.min < t.min, t, v)
    \/ CheckMax(checked(t) /\ s.max > t.max, t, v)

crossRangeCheck(t, s, v) ==
    \/ CheckMin(checked(t) /\ (s.min < t.min \/ ~checked(s)), t, v)
    \/ CheckMax(checked(t) /\ (s.max > t.max \/ ~checked(s)), t, v)

\* What becomes of an error: an exception, the end of the program, or nothing
\* at all, where NDEBUG has removed the assertion.
throws(t)  == t.error = "ThrowOutOfRange"
aborts(t)  == t.error = "AssertOutOfRange" /\ ~NDEBUG
ignores(t) == checked(t) /\ t.error = "AssertOutOfRange" /\ NDEBUG

-----------------------------------------------------------------------------
(* Operations.                                                             *)

RangedInit == /\ value = [o \in RangedObjects |-> NoInt]
              /\ spoiled = {}

\* A constructor gives o the value v; when it throws there is no object.
Constructs(o, v, error, from) ==
    /\ ~Constructed(o)
    /\ ~(error /\ (throws(TypeOf[o]) \/ aborts(TypeOf[o])))
    /\ value' = [value EXCEPT ![o] = v]
    /\ spoiled' = IF ignores(TypeOf[o]) \/ from \cap spoiled # {}
                  THEN spoiled \cup {o} ELSE spoiled \ {o}

\* An assignment leaves the value behind even when it throws.
Assigns(o, v, error, from) ==
    /\ Constructed(o)
    /\ ~(error /\ aborts(TypeOf[o]))
    /\ value' = [value EXCEPT ![o] = v]
    /\ spoiled' = IF error \/ ignores(TypeOf[o]) \/ from \cap spoiled # {}
                  THEN spoiled \cup {o} ELSE spoiled \ {o}

ConstructInt(o, v) == Constructs(o, v, rangeCheck(TypeOf[o], v), {})
AssignInt(o, v)    == Assigns(o, v, rangeCheck(TypeOf[o], v), {})

\* "known ok, copy from same type"
ConstructCopy(o, p) == /\ SameType(o, p) /\ Constructed(p)
                       /\ Constructs(o, value[p], FALSE, {p})
AssignCopy(o, p)    == /\ SameType(o, p) /\ Constructed(p)
                       /\ Assigns(o, value[p], FALSE, {p})

ConstructCross(o, p) ==
    /\ ~SameType(o, p) /\ Constructed(p)
    /\ Constructs(o, value[p], crossRangeCheck(TypeOf[o], TypeOf[p], value[p]), {p})
AssignCross(o, p) ==
    /\ ~SameType(o, p) /\ Constructed(p)
    /\ Assigns(o, value[p], crossRangeCheck(TypeOf[o], TypeOf[p], value[p]), {p})

\* The object goes out of scope.
EndOfScope(o) == /\ Constructed(o)
                 /\ value' = [value EXCEPT ![o] = NoInt]
                 /\ spoiled' = spoiled \ {o}

RangedNext ==
    \E o \in RangedObjects :
        \/ \E v \in Ints : ConstructInt(o, v) \/ AssignInt(o, v)
        \/ \E p \in RangedObjects : \/ ConstructCopy(o, p) \/ AssignCopy(o, p)
                                    \/ ConstructCross(o, p) \/ AssignCross(o, p)
        \/ EndOfScope(o)

RangedSpec == RangedInit /\ [][RangedNext]_rangedVars

-----------------------------------------------------------------------------
(* Properties.                                                             *)

InRange(o) == value[o] \in TypeOf[o].min .. TypeOf[o].max

\* A checked object is in its range whatever chain of copies across checked
\* and unchecked types and different ranges its value came through: a check is
\* left out only where the source's own range and checks make it needless.
CheckedInRange ==
    \A o \in RangedObjects :
        Constructed(o) /\ checked(TypeOf[o]) /\ o \notin spoiled => InRange(o)

\* What the comment "known ok, copy from same type" says of a copy of an
\* object that checks its values and throws for those out of its range.
CopyKnownOk ==
    [][\A o, p \in RangedObjects :
          ConstructCopy(o, p) /\ checked(TypeOf[o]) /\ throws(TypeOf[o])
          => InRange(o)']_rangedVars

=============================================================================
