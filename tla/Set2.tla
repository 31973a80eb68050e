--------------------------------- MODULE Set2 ---------------------------------
(***************************************************************************)
(* util::Set2, a pair of values in whichever order, kept with the help of  *)
(* operator< alone.  The arguments of its operations are references, and   *)
(* can be to a member of the pair that is being set.                       *)
(***************************************************************************)
EXTENDS Naturals, Sequences

CONSTANTS
    Pairs,     \* the Set2 objects
    Elements,  \* values of the contained type
    Rank,      \* what operator< compares; different values can be equivalent
    Unordered, \* values that operator< never orders, as it never orders a NaN
    NoPair     \* in place of an object not constructed

ASSUME PairAssumption == /\ Rank \in [Elements -> Nat]
                         /\ Unordered \subseteq Elements
                         /\ NoPair \notin [first : Elements, second : Elements]

VARIABLES
    pairs,  \* the members of each object
    passed  \* history: the two values an object was last given, in that order

pairVars == <<pairs, passed>>

Less(a, b) == a \notin Unordered /\ b \notin Unordered /\ Rank[a] < Rank[b]

-----------------------------------------------------------------------------

Pair(a, b) == [first |-> a, second |-> b]

\* Set2(a, b)
Ordered(a, b) == IF Less(b, a) THEN Pair(b, a) ELSE Pair(a, b)

\* The swap of the default constructor.
Swapped(p) == IF Less(p.second, p.first) THEN Pair(p.second, p.first) ELSE p

Made == {o \in Pairs : pairs[o] # NoPair}

\* What an argument can refer to: a value of the program's, or a member.
References == Elements \cup (Made \X {"first", "second"})

Referred(r, ps) == IF r \in Elements THEN r ELSE ps[r[1]][r[2]]

PairInit == /\ pairs = [o \in Pairs |-> NoPair]
            /\ passed = [o \in Pairs |-> NoPair]

\* The members of a type without a default value start out as anything.
DefaultPair(o) == /\ o \notin Made
                  /\ \E a, b \in Elements :
                        /\ pairs' = [pairs EXCEPT ![o] = Swapped(Pair(a, b))]
                        /\ passed' = [passed EXCEPT ![o] = Pair(a, b)]

Given(o, r, s) ==
    passed' = [passed EXCEPT ![o] = Pair(Referred(r, pairs), Referred(s, pairs))]

ConstructPair(o, r, s) ==
    /\ o \notin Made
    /\ pairs' = [pairs EXCEPT ![o] = Ordered(Referred(r, pairs), Referred(s, pairs))]
    /\ Given(o, r, s)

\* The copy constructor and operator=.
CopyPair(o, p) == /\ p \in Made
                  /\ pairs' = [pairs EXCEPT ![o] = pairs[p]]
                  /\ passed' = [passed EXCEPT ![o] = passed[p]]

\* Mutant of SetPair: the members are assigned one after the other, with no
\* temporary object in between.
SetPairInPlace(o, r, s) ==
    /\ o \in Made
    /\ LET swap == Less(Referred(s, pairs), Referred(r, pairs))
           one == [pairs EXCEPT ![o].first = Referred(IF swap THEN s ELSE r, pairs)]
       IN  pairs' = [one EXCEPT ![o].second = Referred(IF swap THEN r ELSE s, one)]
    /\ Given(o, r, s)

\* A temporary object takes both values before either member changes.
SetPair(o, r, s) ==
    /\ o \in Made
    /\ LET temp == Ordered(Referred(r, pairs), Referred(s, pairs))
       IN  pairs' = [pairs EXCEPT ![o] = temp]
    /\ Given(o, r, s)

PairNext == \E o \in Pairs :
                \/ DefaultPair(o)
                \/ \E p \in Pairs : CopyPair(o, p)
                \/ \E r, s \in References : ConstructPair(o, r, s) \/ SetPair(o, r, s)

PairSpec == PairInit /\ [][PairNext]_pairVars

-----------------------------------------------------------------------------
(* The order of pairs.                                                     *)

\* Mutant of LessPair: it does not ask whether the first of b is smaller.
LessPairNoSecondTest(a, b) == Less(a.first, b.first) \/ Less(a.second, b.second)

LessPair(a, b) == \/ Less(a.first, b.first)
                  \/ /\ ~Less(b.first, a.first)
                     /\ Less(a.second, b.second)

-----------------------------------------------------------------------------
(* Properties.                                                             *)

\* "Internally maintains ! (second < first)", and the members are the two
\* values that were passed: also when they were passed by references to the
\* members themselves, and when operator< leaves values unordered.
KeepsBothInOrder ==
    \A o \in Made : /\ ~Less(pairs[o].second, pairs[o].first)
                    /\ \/ pairs[o] = passed[o]
                       \/ pairs[o] = Pair(passed[o].second, passed[o].first)

Equivalent(a, b) == Rank[a] = Rank[b]

SameValues(a, b) ==
    \/ Equivalent(a.first, b.first)  /\ Equivalent(a.second, b.second)
    \/ Equivalent(a.first, b.second) /\ Equivalent(a.second, b.first)

\* As a key of a map a pair is found whichever way round its values are given,
\* and other values make another key: of two pairs neither is less exactly if
\* they were given equivalent values in some order.
InterchangeableKeys ==
    \A o, p \in {o \in Made : {passed[o].first, passed[o].second} \cap Unordered = {}} :
        /\ ~(LessPair(pairs[o], pairs[p]) /\ LessPair(pairs[p], pairs[o]))
        /\ (~LessPair(pairs[o], pairs[p]) /\ ~LessPair(pairs[p], pairs[o])
            <=> SameValues(passed[o], passed[p]))

=============================================================================
