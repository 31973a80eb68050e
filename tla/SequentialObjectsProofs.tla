-------------------- MODULE SequentialObjectsProofs --------------------
(***************************************************************************)
(* Proofs about the objects that keep values or duties: a checked          *)
(* RangedInt is in its range, the numbers of CountedUniqueValues are       *)
(* stable, a Set2 keeps both values in order and is one key whichever way  *)
(* round they were given, the scope guards implement CleanupDuty, a search *)
(* path that is printed is read back, and a face is part of its cube; all  *)
(* for every value of the constants.                                       *)
(***************************************************************************)
EXTENDS RangedInt, CountedUniqueValues, Set2, ScopeGuard, SearchPath, CubeComponents,
        FiniteSetTheorems, NaturalsInduction, WellFoundedInduction, TLAPS

-----------------------------------------------------------------------------
(* Induction.  The library's theorems about it are about operators, but    *)
(* that the numbers are well-founded is about a set.                       *)

\* A nonempty set of numbers has a least one.
LEMMA LeastNumber ==
    ASSUME NEW T \in SUBSET Nat, T # {}
    PROVE  \E n \in T : \A m \in T : n <= m
<1> DEFINE R == {p \in Nat \X Nat : p[1] < p[2]}
<1>1. R = OpToRel(<, Nat)
  BY DEF OpToRel
<1>2. IsWellFoundedOn(R, Nat)
  BY <1>1, NatLessThanWellFounded
<1>3. \A y, n \in Nat : <<y, n>> \notin R => n <= y
  OBVIOUS
<1> HIDE DEF R
<1>4. \E n \in T : \A y \in T : ~(<<y, n>> \in R)
  BY <1>2, WFMin
<1> QED BY <1>3, <1>4

\* A set that has 0, and with each number the next, has them all.
LEMMA SetInduction ==
    ASSUME NEW S, 0 \in S, \A n \in Nat : n \in S => n + 1 \in S
    PROVE  Nat \subseteq S
<1> SUFFICES ASSUME Nat \ S # {} PROVE FALSE
  OBVIOUS
<1>1. PICK n \in Nat \ S : \A m \in Nat \ S : n <= m
  BY LeastNumber
<1>2. n # 0
  OBVIOUS
<1>3. n - 1 \in Nat /\ ~(n <= n - 1)
  BY <1>2
<1>4. n - 1 \in S
  BY <1>1, <1>3
<1>5. (n - 1) + 1 \in S
  BY <1>3, <1>4
<1> QED BY <1>5

-----------------------------------------------------------------------------
(* RangedInt.                                                              *)

RangedTypeOK == /\ value \in [RangedObjects -> Ints \cup {NoInt}]
                /\ spoiled \subseteq RangedObjects

RangedInv == RangedTypeOK /\ CheckedInRange

\* An error that is neither spoiling nor excluded did not happen: the policy
\* throws, aborts or ignores, and only a checked object reports.
LEMMA ErrorPolicies ==
    ASSUME NEW o \in RangedObjects, checked(TypeOf[o]), ~ignores(TypeOf[o])
    PROVE  throws(TypeOf[o]) \/ aborts(TypeOf[o])
BY RangedAssumption DEF RangedType, ignores, throws, aborts

\* What both constructors and assignments need: a value that raised no error,
\* whether every check was made or some were left out, is in range if the
\* object it came from deserves the trust.
LEMMA RangeCheckSuffices ==
    ASSUME NEW o \in RangedObjects, NEW v \in Ints,
           checked(TypeOf[o]), ~rangeCheck(TypeOf[o], v)
    PROVE  v \in TypeOf[o].min .. TypeOf[o].max
BY RangedAssumption DEF RangedType, rangeCheck, CheckMin, CheckMax

LEMMA CrossCheckSuffices ==
    ASSUME NEW o \in RangedObjects, NEW p \in RangedObjects, RangedInv,
           Constructed(p), p \notin spoiled, checked(TypeOf[o]),
           ~crossRangeCheck(TypeOf[o], TypeOf[p], value[p])
    PROVE  value[p] \in TypeOf[o].min .. TypeOf[o].max
<1>1. value[p] \in Ints /\ value[p] \in Int
  BY RangedAssumption DEF RangedInv, RangedTypeOK, Constructed
<1>2. checked(TypeOf[p]) => value[p] \in TypeOf[p].min .. TypeOf[p].max
  BY DEF RangedInv, CheckedInRange, InRange
<1>3. /\ TypeOf[o].min \in Int /\ TypeOf[o].max \in Int
      /\ TypeOf[p].min \in Int /\ TypeOf[p].max \in Int
  BY RangedAssumption DEF RangedType
<1> QED
  BY <1>1, <1>2, <1>3 DEF crossRangeCheck, CheckMin, CheckMax

\* The effect of an operation on the invariant: one object changes, to an
\* integer, and is in its range unless it is unchecked or spoiled.
LEMMA OneObject ==
    ASSUME RangedInv, NEW o \in RangedObjects, NEW v \in Ints,
           value' = [value EXCEPT ![o] = v],
           spoiled' = spoiled \cup {o} \/ spoiled' = spoiled \ {o},
           checked(TypeOf[o]) /\ o \notin spoiled' => v \in TypeOf[o].min .. TypeOf[o].max
    PROVE  RangedInv'
<1>1. RangedTypeOK'
  BY DEF RangedInv, RangedTypeOK
<1>2. CheckedInRange'
  <2> SUFFICES ASSUME NEW p \in RangedObjects, Constructed(p)', checked(TypeOf[p]),
                      p \notin spoiled'
               PROVE  InRange(p)'
    BY DEF CheckedInRange
  <2>1. CASE p = o
    BY <2>1 DEF InRange, RangedInv, RangedTypeOK
  <2>2. CASE p # o
    <3>1. value'[p] = value[p] /\ p \notin spoiled
      BY <2>2 DEF RangedInv, RangedTypeOK
    <3> QED BY <3>1 DEF InRange, RangedInv, CheckedInRange, Constructed
  <2> QED BY <2>1, <2>2
<1> QED BY <1>1, <1>2 DEF RangedInv

\* Every operation that gives an object a value does so through one of two
\* forms; from is empty or the object the value was read from.
LEMMA ValueFrom ==
    ASSUME RangedInv, NEW o \in RangedObjects, NEW v \in Ints,
           NEW error \in BOOLEAN, NEW from \in SUBSET RangedObjects,
           Constructs(o, v, error, from) \/ Assigns(o, v, error, from),
           checked(TypeOf[o]) /\ ~error /\ from \cap spoiled = {}
               => v \in TypeOf[o].min .. TypeOf[o].max
    PROVE  RangedInv'
<1>1. /\ value' = [value EXCEPT ![o] = v]
      /\ spoiled' = spoiled \cup {o} \/ spoiled' = spoiled \ {o}
  BY DEF Constructs, Assigns
<1>2. ASSUME checked(TypeOf[o]), o \notin spoiled'
      PROVE  v \in TypeOf[o].min .. TypeOf[o].max
  <2>1. ~ignores(TypeOf[o]) /\ from \cap spoiled = {}
    BY <1>2 DEF Constructs, Assigns
  <2>2. throws(TypeOf[o]) \/ aborts(TypeOf[o])
    BY <1>2, <2>1, ErrorPolicies
  <2>3. ~error
    BY <1>2, <2>2 DEF Constructs, Assigns
  <2> QED BY <1>2, <2>1, <2>3
<1> QED BY <1>1, <1>2, OneObject

\* The invariant is inductive.
LEMMA RangedInductive == RangedInv /\ [RangedNext]_rangedVars => RangedInv'
<1> SUFFICES ASSUME RangedInv, [RangedNext]_rangedVars PROVE RangedInv'
  OBVIOUS
<1>1. ASSUME NEW o \in RangedObjects, NEW v \in Ints,
             ConstructInt(o, v) \/ AssignInt(o, v)
      PROVE  RangedInv'
  <2>1. rangeCheck(TypeOf[o], v) \in BOOLEAN
    BY DEF rangeCheck, CheckMin, CheckMax, checked
  <2>2. checked(TypeOf[o]) /\ ~rangeCheck(TypeOf[o], v)
            => v \in TypeOf[o].min .. TypeOf[o].max
    BY RangeCheckSuffices
  <2>3. {} \in SUBSET RangedObjects
    OBVIOUS
  <2>4. \/ Constructs(o, v, rangeCheck(TypeOf[o], v), {})
        \/ Assigns(o, v, rangeCheck(TypeOf[o], v), {})
    BY <1>1 DEF ConstructInt, AssignInt
  <2> QED BY <2>1, <2>2, <2>3, <2>4, ValueFrom
<1>2. ASSUME NEW o \in RangedObjects, NEW p \in RangedObjects,
             ConstructCopy(o, p) \/ AssignCopy(o, p)
      PROVE  RangedInv'
  <2>1. Constructed(p) /\ TypeOf[o] = TypeOf[p] /\ value[p] \in Ints
    BY <1>2 DEF ConstructCopy, AssignCopy, Constructed, SameType, RangedInv, RangedTypeOK
  <2>2. checked(TypeOf[o]) /\ {p} \cap spoiled = {}
            => value[p] \in TypeOf[o].min .. TypeOf[o].max
    BY <2>1 DEF RangedInv, CheckedInRange, InRange
  <2>3. Constructs(o, value[p], FALSE, {p}) \/ Assigns(o, value[p], FALSE, {p})
    BY <1>2 DEF ConstructCopy, AssignCopy
  <2> QED BY <2>1, <2>2, <2>3, ValueFrom
<1>3. ASSUME NEW o \in RangedObjects, NEW p \in RangedObjects,
             ConstructCross(o, p) \/ AssignCross(o, p)
      PROVE  RangedInv'
  <2> DEFINE error == crossRangeCheck(TypeOf[o], TypeOf[p], value[p])
  <2>1. Constructed(p) /\ value[p] \in Ints
    BY <1>3 DEF ConstructCross, AssignCross, Constructed, RangedInv, RangedTypeOK
  <2>2. error \in BOOLEAN
    BY DEF crossRangeCheck, CheckMin, CheckMax, checked
  <2>3. checked(TypeOf[o]) /\ ~error /\ {p} \cap spoiled = {}
            => value[p] \in TypeOf[o].min .. TypeOf[o].max
    BY <2>1, CrossCheckSuffices
  <2>4. Constructs(o, value[p], error, {p}) \/ Assigns(o, value[p], error, {p})
    BY <1>3 DEF ConstructCross, AssignCross
  <2> HIDE DEF error
  <2> QED BY <2>1, <2>2, <2>3, <2>4, ValueFrom
<1>4. ASSUME NEW o \in RangedObjects, EndOfScope(o) PROVE RangedInv'
  BY <1>4 DEF EndOfScope, RangedInv, RangedTypeOK, CheckedInRange, InRange, Constructed
<1>5. CASE UNCHANGED rangedVars
  BY <1>5 DEF rangedVars, RangedInv, RangedTypeOK, CheckedInRange, InRange, Constructed
<1> QED BY <1>1, <1>2, <1>3, <1>4, <1>5 DEF RangedNext

\* A checked object is in its range unless an assignment that threw, or a
\* policy that checks without effect, is where its value came from.
THEOREM CheckedObjectsInRange == RangedSpec => []CheckedInRange
<1>1. RangedInit => RangedInv
  BY DEF RangedInit, RangedInv, RangedTypeOK, CheckedInRange, Constructed
<1>2. RangedInv => CheckedInRange
  BY DEF RangedInv
<1> QED BY <1>1, <1>2, RangedInductive, PTL DEF RangedSpec

-----------------------------------------------------------------------------
(* CountedUniqueValues.                                                    *)

StoreTypeOK == /\ storage \in Seq(StoredValues)
               /\ lookup = [v \in DOMAIN lookup |-> lookup[v]]

\* The dictionary numbers only what is stored, and store has returned nothing
\* but what the dictionary still says.
StoreInv == /\ StoreTypeOK
            /\ \A v \in DOMAIN lookup : /\ lookup[v] \in 0 .. Len(storage) - 1
                                        /\ storage[lookup[v] + 1] = v
            /\ \A p \in given : p[1] \in DOMAIN lookup /\ p[2] = lookup[p[1]]

\* What was stored keeps its place when a value is appended.
LEMMA AppendKeeps ==
    ASSUME NEW s \in Seq(StoredValues), NEW v \in StoredValues
    PROVE  /\ Append(s, v) \in Seq(StoredValues)
           /\ Len(Append(s, v)) = Len(s) + 1
           /\ Append(s, v)[Len(s) + 1] = v
           /\ \A i \in 0 .. Len(s) - 1 : Append(s, v)[i + 1] = s[i + 1]
OBVIOUS

\* The invariant is inductive.
LEMMA StoreInductive == StoreInv /\ [StoreNext]_storeVars => StoreInv'
<1> SUFFICES ASSUME StoreInv, [StoreNext]_storeVars PROVE StoreInv'
  OBVIOUS
<1>0. Len(storage) \in Nat
  BY DEF StoreInv, StoreTypeOK
<1>1. ASSUME NEW v \in StoredValues, StoreFound(v) PROVE StoreInv'
  BY <1>1 DEF StoreFound, Found, StoreInv, StoreTypeOK
<1>2. ASSUME NEW v \in StoredValues, StoreAdds(v) PROVE StoreInv'
  <2>1. /\ storage' \in Seq(StoredValues)
        /\ Len(storage') = Len(storage) + 1
        /\ storage'[Len(storage) + 1] = v
        /\ \A i \in 0 .. Len(storage) - 1 : storage'[i + 1] = storage[i + 1]
    BY <1>2, AppendKeeps DEF StoreAdds, StoreInv, StoreTypeOK
  <2>2. /\ DOMAIN lookup' = DOMAIN lookup \cup {v}
        /\ lookup'[v] = Len(storage)
        /\ \A w \in DOMAIN lookup : w # v /\ lookup'[w] = lookup[w]
        /\ lookup' = [w \in DOMAIN lookup' |-> lookup'[w]]
    BY <1>2 DEF StoreAdds, Entered, Found
  <2>3. \A w \in DOMAIN lookup' : /\ lookup'[w] \in 0 .. Len(storage') - 1
                                  /\ storage'[lookup'[w] + 1] = w
    BY <1>0, <2>1, <2>2 DEF StoreInv
  <2>4. \A p \in given' : p[1] \in DOMAIN lookup' /\ p[2] = lookup'[p[1]]
    BY <1>2, <2>2 DEF StoreAdds, StoreInv
  <2> QED BY <2>1, <2>2, <2>3, <2>4 DEF StoreInv, StoreTypeOK
<1>3. ASSUME NEW v \in StoredValues, StoreFails(v) PROVE StoreInv'
  <2>1. /\ storage' \in Seq(StoredValues)
        /\ Len(storage') = Len(storage) + 1
        /\ \A i \in 0 .. Len(storage) - 1 : storage'[i + 1] = storage[i + 1]
    BY <1>3, AppendKeeps DEF StoreFails, StoreInv, StoreTypeOK
  <2>2. \A w \in DOMAIN lookup' : /\ lookup'[w] \in 0 .. Len(storage') - 1
                                  /\ storage'[lookup'[w] + 1] = w
    BY <1>0, <1>3, <2>1 DEF StoreFails, StoreInv
  <2> QED BY <1>3, <2>1, <2>2 DEF StoreFails, StoreInv, StoreTypeOK
<1>4. CASE UNCHANGED storeVars
  BY <1>4 DEF storeVars, StoreInv, StoreTypeOK
<1> QED BY <1>1, <1>2, <1>3, <1>4 DEF StoreNext

\* Every number store has returned gets the value it was returned for, and a
\* value has one number only.
THEOREM NumbersAreStable == StoreSpec => []NumbersStable
<1>1. StoreInit => StoreInv
  BY DEF StoreInit, StoreInv, StoreTypeOK
<1>2. StoreInv => NumbersStable
  <2> SUFFICES ASSUME StoreInv, NEW p \in given
               PROVE  /\ CanGet(p[2]) /\ Get(p[2]) = p[1]
                      /\ \A q \in given : q[1] = p[1] => q[2] = p[2]
    BY DEF NumbersStable
  <2>1. p[1] \in DOMAIN lookup /\ p[2] = lookup[p[1]]
    BY DEF StoreInv
  <2>2. p[2] \in 0 .. Len(storage) - 1 /\ storage[p[2] + 1] = p[1]
    BY <2>1 DEF StoreInv
  <2>3. Len(storage) \in Nat
    BY DEF StoreInv, StoreTypeOK
  <2> QED BY <2>1, <2>2, <2>3 DEF CanGet, Get, StoreInv
<1> QED BY <1>1, <1>2, StoreInductive, PTL DEF StoreSpec

-----------------------------------------------------------------------------
(* Set2.                                                                   *)

PairType == [first : Elements, second : Elements]

PairTypeOK == /\ pairs \in [Pairs -> PairType \cup {NoPair}]
              /\ passed \in [Pairs -> PairType \cup {NoPair}]
              /\ \A o \in Made : passed[o] \in PairType

PairInv == PairTypeOK /\ KeepsBothInOrder

\* Both constructors leave two values in order, whichever way they came.
LEMMA OrderedKeepsBoth ==
    ASSUME NEW a \in Elements, NEW b \in Elements
    PROVE  /\ Ordered(a, b) \in PairType
           /\ ~Less(Ordered(a, b).second, Ordered(a, b).first)
           /\ Ordered(a, b) = Pair(a, b) \/ Ordered(a, b) = Pair(b, a)
BY PairAssumption DEF Ordered, Pair, Less, PairType

\* An argument refers to a value, whether it is one or a member of a pair.
LEMMA ReferredIsElement ==
    ASSUME PairTypeOK, NEW r \in References
    PROVE  Referred(r, pairs) \in Elements
<1>1. CASE r \in Elements
  BY <1>1 DEF Referred
<1>2. CASE r \notin Elements
  <2>1. r[1] \in Made /\ r[2] \in {"first", "second"}
    BY <1>2 DEF References
  <2>2. pairs[r[1]] \in PairType
    BY <2>1 DEF PairTypeOK, Made
  <2> QED BY <1>2, <2>1, <2>2 DEF Referred, PairType
<1> QED BY <1>1, <1>2

\* The effect of an operation: one object holds two values in order.
LEMMA OnePair ==
    ASSUME PairInv, NEW o \in Pairs, NEW p \in PairType, NEW q \in PairType,
           pairs' = [pairs EXCEPT ![o] = p], passed' = [passed EXCEPT ![o] = q],
           ~Less(p.second, p.first), p = q \/ p = Pair(q.second, q.first)
    PROVE  PairInv'
<1>1. \A x \in Pairs : x # o => pairs'[x] = pairs[x] /\ passed'[x] = passed[x]
  BY DEF PairInv, PairTypeOK
<1>2. pairs'[o] = p /\ passed'[o] = q
  BY DEF PairInv, PairTypeOK
<1>3. PairTypeOK'
  BY <1>1, <1>2 DEF PairInv, PairTypeOK, Made
<1>4. KeepsBothInOrder'
  BY <1>1, <1>2 DEF PairInv, KeepsBothInOrder, Made
<1> QED BY <1>3, <1>4 DEF PairInv

\* The invariant is inductive.
LEMMA PairInductive == PairInv /\ [PairNext]_pairVars => PairInv'
<1> SUFFICES ASSUME PairInv, [PairNext]_pairVars PROVE PairInv'
  OBVIOUS
<1>1. ASSUME NEW o \in Pairs, DefaultPair(o) PROVE PairInv'
  <2>1. PICK a \in Elements, b \in Elements :
           /\ pairs' = [pairs EXCEPT ![o] = Swapped(Pair(a, b))]
           /\ passed' = [passed EXCEPT ![o] = Pair(a, b)]
    BY <1>1 DEF DefaultPair
  <2>2. Swapped(Pair(a, b)) = Ordered(a, b) /\ Pair(a, b) \in PairType
    BY DEF Swapped, Ordered, Pair, PairType
  <2>3. /\ Pair(b, a) = Pair(Pair(a, b).second, Pair(a, b).first)
    BY DEF Pair
  <2> QED BY <2>1, <2>2, <2>3, OrderedKeepsBoth, OnePair
<1>2. ASSUME NEW o \in Pairs, NEW r \in References, NEW s \in References,
             ConstructPair(o, r, s) \/ SetPair(o, r, s)
      PROVE  PairInv'
  <2> DEFINE a == Referred(r, pairs)
             b == Referred(s, pairs)
  <2>1. a \in Elements /\ b \in Elements
    BY ReferredIsElement DEF PairInv
  <2>2. /\ pairs' = [pairs EXCEPT ![o] = Ordered(a, b)]
        /\ passed' = [passed EXCEPT ![o] = Pair(a, b)]
    BY <1>2 DEF ConstructPair, SetPair, Given
  <2> HIDE DEF a, b
  <2>3. Pair(a, b) \in PairType /\ Pair(b, a) = Pair(Pair(a, b).second, Pair(a, b).first)
    BY <2>1 DEF Pair, PairType
  <2> QED BY <2>1, <2>2, <2>3, OrderedKeepsBoth, OnePair
<1>3. ASSUME NEW o \in Pairs, NEW p \in Pairs, CopyPair(o, p) PROVE PairInv'
  <2>1. p \in Made /\ pairs[p] \in PairType /\ passed[p] \in PairType
    BY <1>3 DEF CopyPair, Made, PairInv, PairTypeOK
  <2>2. /\ ~Less(pairs[p].second, pairs[p].first)
        /\ pairs[p] = passed[p] \/ pairs[p] = Pair(passed[p].second, passed[p].first)
    BY <2>1 DEF PairInv, KeepsBothInOrder
  <2> QED BY <1>3, <2>1, <2>2, OnePair DEF CopyPair
<1>4. CASE UNCHANGED pairVars
  BY <1>4 DEF pairVars, PairInv, PairTypeOK, KeepsBothInOrder, Made
<1> QED BY <1>1, <1>2, <1>3, <1>4 DEF PairNext

\* A pair keeps exactly the two values it was given, the smaller one first.
THEOREM PairsKeepBoth == PairSpec => []KeepsBothInOrder
<1>1. PairInit => PairInv
  BY DEF PairInit, PairInv, PairTypeOK, KeepsBothInOrder, Made
<1>2. PairInv => KeepsBothInOrder
  BY DEF PairInv
<1> QED BY <1>1, <1>2, PairInductive, PTL DEF PairSpec

\* In terms of ranks, for values that are ordered: neither of two pairs in
\* order is less exactly if their ranks agree member by member.
LEMMA NeitherLess ==
    ASSUME NEW p \in PairType, NEW q \in PairType,
           {p.first, p.second} \cap Unordered = {}, {q.first, q.second} \cap Unordered = {}
    PROVE  /\ ~(LessPair(p, q) /\ LessPair(q, p))
           /\ ~LessPair(p, q) /\ ~LessPair(q, p)
              <=> Equivalent(p.first, q.first) /\ Equivalent(p.second, q.second)
<1>1. /\ Rank[p.first] \in Nat /\ Rank[p.second] \in Nat
      /\ Rank[q.first] \in Nat /\ Rank[q.second] \in Nat
  BY PairAssumption DEF PairType
<1> QED BY <1>1 DEF LessPair, Less, Equivalent

\* As keys of a map, pairs are interchangeable exactly if they were given
\* equivalent values in either order.
THEOREM PairsAreInterchangeable == PairSpec => []InterchangeableKeys
<1>1. PairInv => InterchangeableKeys
  <2> SUFFICES ASSUME PairInv, NEW o \in Made, NEW p \in Made,
                      {passed[o].first, passed[o].second} \cap Unordered = {},
                      {passed[p].first, passed[p].second} \cap Unordered = {}
               PROVE  /\ ~(LessPair(pairs[o], pairs[p]) /\ LessPair(pairs[p], pairs[o]))
                      /\ ~LessPair(pairs[o], pairs[p]) /\ ~LessPair(pairs[p], pairs[o])
                         <=> SameValues(passed[o], passed[p])
    BY DEF InterchangeableKeys
  <2> DEFINE a == pairs[o]
             b == pairs[p]
             c == passed[o]
             d == passed[p]
  <2>1. /\ a \in PairType /\ b \in PairType /\ c \in PairType /\ d \in PairType
    BY DEF PairInv, PairTypeOK, Made
  <2>2. /\ ~Less(a.second, a.first) /\ ~Less(b.second, b.first)
        /\ a = c \/ a = Pair(c.second, c.first)
        /\ b = d \/ b = Pair(d.second, d.first)
    BY DEF PairInv, KeepsBothInOrder
  <2> HIDE DEF a, b, c, d
  <2>3. /\ \/ a.first = c.first /\ a.second = c.second
           \/ a.first = c.second /\ a.second = c.first
        /\ \/ b.first = d.first /\ b.second = d.second
           \/ b.first = d.second /\ b.second = d.first
    BY <2>2 DEF Pair
  <2>4. /\ {a.first, a.second} \cap Unordered = {}
        /\ {b.first, b.second} \cap Unordered = {}
    BY <2>3 DEF c, d
  <2>5. /\ ~(LessPair(a, b) /\ LessPair(b, a))
        /\ ~LessPair(a, b) /\ ~LessPair(b, a)
           <=> Equivalent(a.first, b.first) /\ Equivalent(a.second, b.second)
    BY <2>1, <2>4, NeitherLess
  <2>6. /\ Rank[a.first] \in Nat /\ Rank[a.second] \in Nat
        /\ Rank[b.first] \in Nat /\ Rank[b.second] \in Nat
        /\ Rank[a.first] <= Rank[a.second] /\ Rank[b.first] <= Rank[b.second]
    BY <2>1, <2>2, <2>4, PairAssumption DEF PairType, Less
  <2>7. Equivalent(a.first, b.first) /\ Equivalent(a.second, b.second) <=> SameValues(c, d)
    BY <2>3, <2>6 DEF SameValues, Equivalent
  <2> QED BY <2>5, <2>7 DEF a, b, c, d
<1>2. PairInit => PairInv
  BY DEF PairInit, PairInv, PairTypeOK, KeepsBothInOrder, Made
<1> QED BY <1>1, <1>2, PairInductive, PTL DEF PairSpec

-----------------------------------------------------------------------------
(* ScopeGuard.                                                             *)

GuardTypeOK == /\ alive \subseteq Guards
               /\ functor \in [Guards -> Cleanups \cup {NoCleanup}]
               /\ active \in [Guards -> BOOLEAN]
               /\ handedOut \subseteq Cleanups
               /\ ran \in [Cleanups -> Nat]
               /\ cancelled \subseteq Cleanups
               /\ failed \subseteq Cleanups

\* Active objects exist, hold a cleanup that was handed out, and hold
\* different ones.
GuardInv == /\ GuardTypeOK
            /\ \A g \in Guards : active[g] => g \in alive /\ functor[g] \in handedOut
            /\ \A g, h \in Guards :
                  active[g] /\ active[h] /\ functor[g] = functor[h] => g = h

\* The state of the duties, as ImplementsDuty maps it.
stateBar == [d \in Cleanups |-> StateOf(d)]

-----------------------------------------------------------------------------
(* The invariant is inductive.                                             *)

LEMMA GuardInitInv == GuardInit => GuardInv
BY DEF GuardInit, GuardInv, GuardTypeOK

LEMMA GuardInductive ==
    ASSUME GuardInv, [GuardNext]_guardVars
    PROVE  GuardInv'
<1> USE DEF GuardInv, GuardTypeOK, history
<1>1. ASSUME NEW g \in Guards, NEW d \in Cleanups, ConstructGuard(g, d) PROVE GuardInv'
  BY <1>1 DEF ConstructGuard
<1>2. ASSUME NEW g \in Guards, DefaultConstruct(g) PROVE GuardInv'
  BY <1>2 DEF DefaultConstruct
<1>3. ASSUME NEW g \in Guards, NEW h \in Guards, MoveConstruct(g, h) PROVE GuardInv'
  BY <1>3 DEF MoveConstruct
<1>4. ASSUME NEW g \in Guards, Cancel(g) PROVE GuardInv'
  BY <1>4 DEF Cancel
<1>5. ASSUME NEW g \in Guards, Reset(g) PROVE GuardInv'
  BY <1>5 DEF Reset, Completed
<1>6. ASSUME NEW g \in Guards, DestroyActive(g) PROVE GuardInv'
  BY <1>6 DEF DestroyActive, Completed
<1>7. ASSUME NEW g \in Guards, DestroyInactive(g) PROVE GuardInv'
  BY <1>7 DEF DestroyInactive
<1>8. ASSUME NEW g \in Guards, ResetThrows(g) PROVE GuardInv'
  BY <1>8 DEF ResetThrows
<1>9. CASE UNCHANGED guardVars
  BY <1>9 DEF guardVars
<1> QED
  BY <1>1, <1>2, <1>3, <1>4, <1>5, <1>6, <1>7, <1>8, <1>9 DEF GuardNext

-----------------------------------------------------------------------------
(* What the steps are for the duties.                                      *)

\* A step that leaves each cleanup with an active holder, or without one,
\* changes no duty.
LEMMA SameDuties ==
    ASSUME handedOut' = handedOut, \A d \in Cleanups : IsDue(d)' <=> IsDue(d)
    PROVE  stateBar' = stateBar
BY DEF stateBar, StateOf

\* When the active object g stops being active, the duty it held is over.
LEMMA DutyOver ==
    ASSUME GuardInv, NEW g \in alive, active[g], NEW d \in Cleanups, d = functor[g],
           active' = [active EXCEPT ![g] = FALSE],
           alive' \in {alive, alive \ {g}},
           \A h \in Guards \ {g} : functor'[h] = functor[h],
           handedOut' = handedOut
    PROVE  stateBar[d] = "due" /\ stateBar' = [stateBar EXCEPT ![d] = "over"]
<1>1. d \in handedOut /\ IsDue(d) /\ g \in Guards
  BY DEF GuardInv, GuardTypeOK, IsDue
<1>2. ~IsDue(d)'
  BY DEF GuardInv, GuardTypeOK, IsDue
<1>3. ASSUME NEW e \in Cleanups, e # d PROVE IsDue(e)' <=> IsDue(e)
  BY <1>3 DEF GuardInv, GuardTypeOK, IsDue
<1> QED
  BY <1>1, <1>2, <1>3 DEF stateBar, StateOf

\* Handing a cleanup to a new object takes on its duty.
LEMMA DutyTaken ==
    ASSUME GuardInv, NEW g \in Guards, NEW d \in Cleanups, ConstructGuard(g, d)
    PROVE  Duty!Take(d)
<1>1. ~IsDue(d) /\ d \notin handedOut
  BY DEF GuardInv, GuardTypeOK, IsDue, ConstructGuard
<1>2. IsDue(d)'
  BY DEF GuardInv, GuardTypeOK, IsDue, ConstructGuard
<1>3. ASSUME NEW e \in Cleanups, e # d
      PROVE  (IsDue(e)' <=> IsDue(e)) /\ (e \in handedOut' <=> e \in handedOut)
  BY <1>3 DEF GuardInv, GuardTypeOK, IsDue, ConstructGuard
<1>4. stateBar[d] = "new" /\ stateBar' = [stateBar EXCEPT ![d] = "due"]
  BY <1>1, <1>2, <1>3 DEF stateBar, StateOf
<1> QED
  BY <1>4 DEF Duty!Take, stateBar, ConstructGuard

\* A move changes who holds the duty, not the duty.
LEMMA DutyMoved ==
    ASSUME GuardInv, NEW g \in Guards, NEW h \in Guards, MoveConstruct(g, h)
    PROVE  UNCHANGED Duty!dutyVars
<1>1. /\ g \notin alive /\ h \in alive /\ g # h /\ ~active[g]
      /\ alive' = alive \cup {g}
      /\ functor' = [functor EXCEPT ![g] = functor[h]]
      /\ active' = [active EXCEPT ![g] = active[h], ![h] = FALSE]
  BY DEF GuardInv, GuardTypeOK, MoveConstruct
<1>2. /\ active'[g] = active[h] /\ active'[h] = FALSE /\ functor'[g] = functor[h]
      /\ \A k \in Guards \ {g, h} : active'[k] = active[k] /\ functor'[k] = functor[k]
  BY <1>1 DEF GuardInv, GuardTypeOK
<1>3. ASSUME NEW d \in Cleanups PROVE IsDue(d)' <=> IsDue(d)
  <2>1. ASSUME IsDue(d) PROVE IsDue(d)'
    <3>1. PICK k \in alive : active[k] /\ functor[k] = d
      BY <2>1 DEF IsDue
    <3>2. CASE k = h
      BY <1>1, <1>2, <3>1, <3>2 DEF IsDue
    <3>3. CASE k # h
      BY <1>1, <1>2, <3>1, <3>3 DEF IsDue, GuardInv, GuardTypeOK
    <3> QED BY <3>2, <3>3
  <2>2. ASSUME IsDue(d)' PROVE IsDue(d)
    <3>1. PICK k \in alive' : active'[k] /\ functor'[k] = d
      BY <2>2 DEF IsDue
    <3>2. CASE k = g
      BY <1>1, <1>2, <3>1, <3>2 DEF IsDue
    <3>3. CASE k # g
      BY <1>1, <1>2, <3>1, <3>3 DEF IsDue, GuardInv, GuardTypeOK
    <3> QED BY <3>2, <3>3
  <2> QED BY <2>1, <2>2
<1>4. UNCHANGED <<handedOut, ran, cancelled, failed>>
  BY DEF MoveConstruct, history
<1> QED
  BY <1>3, <1>4, SameDuties DEF Duty!dutyVars, stateBar

-----------------------------------------------------------------------------

\* Through moves, cancels, resets that may throw and destructors in any order,
\* of any number of guards, a cleanup stays due until it is completed, which it
\* is once, or cancelled by the client; no move, throw or destructor loses it.
THEOREM GuardsImplementDuty == GuardSpec => ImplementsDuty
<1>1. GuardInit => Duty!DutyInit
  BY DEF GuardInit, Duty!DutyInit, StateOf, IsDue
<1>2. ASSUME GuardInv, [GuardNext]_guardVars
      PROVE  [Duty!DutyNext]_(Duty!dutyVars)
  <2>1. ASSUME NEW g \in Guards, NEW d \in Cleanups, ConstructGuard(g, d)
        PROVE  Duty!DutyNext
    BY <1>2, <2>1, DutyTaken DEF Duty!DutyNext
  <2>2. ASSUME NEW g \in Guards, DefaultConstruct(g) PROVE UNCHANGED Duty!dutyVars
    <3>1. ~active[g]
      BY <1>2, <2>2 DEF DefaultConstruct, GuardInv
    <3>2. \A d \in Cleanups : IsDue(d)' <=> IsDue(d)
      BY <2>2, <3>1 DEF DefaultConstruct, IsDue
    <3>3. UNCHANGED <<handedOut, ran, cancelled, failed>>
      BY <2>2 DEF DefaultConstruct, history
    <3> QED BY <3>2, <3>3, SameDuties DEF Duty!dutyVars, stateBar
  <2>3. ASSUME NEW g \in Guards, NEW h \in Guards, MoveConstruct(g, h)
        PROVE  UNCHANGED Duty!dutyVars
    BY <1>2, <2>3, DutyMoved
  <2>4. ASSUME NEW g \in Guards, Cancel(g), active[g] PROVE Duty!DutyNext
    <3>1. PICK d \in Cleanups : d = functor[g]
      BY <1>2, <2>4 DEF GuardInv, GuardTypeOK
    <3>2. stateBar[d] = "due" /\ stateBar' = [stateBar EXCEPT ![d] = "over"]
      BY <1>2, <2>4, <3>1, DutyOver DEF Cancel
    <3>3. cancelled' = cancelled \cup {d} /\ UNCHANGED <<ran, failed>>
      BY <2>4, <3>1 DEF Cancel
    <3> QED BY <3>2, <3>3 DEF Duty!DutyNext, Duty!Waive, stateBar
  <2>5. ASSUME NEW g \in Guards, Cancel(g), ~active[g] PROVE UNCHANGED Duty!dutyVars
    <3>1. active' = active /\ alive' = alive /\ functor' = functor
      BY <1>2, <2>5 DEF Cancel, GuardInv, GuardTypeOK
    <3>2. \A d \in Cleanups : IsDue(d)' <=> IsDue(d)
      BY <3>1 DEF IsDue
    <3> QED BY <2>5, <3>2, SameDuties DEF Cancel, Duty!dutyVars, stateBar
  <2>6. ASSUME NEW g \in Guards, Reset(g) \/ DestroyActive(g) PROVE Duty!DutyNext
    <3>1. /\ g \in alive /\ active[g] /\ ran' = [ran EXCEPT ![functor[g]] = @ + 1]
          /\ UNCHANGED <<cancelled, failed>>
      BY <2>6 DEF Reset, DestroyActive, Completed
    <3>2. \A h \in Guards \ {g} : functor'[h] = functor[h]
      BY <1>2, <2>6 DEF Reset, DestroyActive, GuardInv, GuardTypeOK
    <3>3. PICK d \in Cleanups : d = functor[g]
      BY <1>2, <3>1 DEF GuardInv, GuardTypeOK
    <3>4. stateBar[d] = "due" /\ stateBar' = [stateBar EXCEPT ![d] = "over"]
      BY <1>2, <2>6, <3>1, <3>2, <3>3, DutyOver DEF Reset, DestroyActive
    <3> QED BY <3>1, <3>3, <3>4 DEF Duty!DutyNext, Duty!Complete, stateBar
  <2>7. ASSUME NEW g \in Guards, DestroyInactive(g) PROVE UNCHANGED Duty!dutyVars
    <3>1. \A d \in Cleanups : IsDue(d)' <=> IsDue(d)
      BY <1>2, <2>7 DEF DestroyInactive, IsDue, GuardInv, GuardTypeOK
    <3> QED BY <2>7, <3>1, SameDuties DEF DestroyInactive, history, Duty!dutyVars, stateBar
  <2>8. ASSUME NEW g \in Guards, ResetThrows(g) PROVE Duty!DutyNext
    <3>1. /\ active[g] /\ g \in alive /\ failed' = failed \cup {functor[g]}
          /\ UNCHANGED <<alive, functor, active, handedOut, ran, cancelled>>
      BY <2>8 DEF ResetThrows
    <3>2. PICK d \in Cleanups : d = functor[g]
      BY <1>2, <3>1 DEF GuardInv, GuardTypeOK
    <3>3. stateBar[d] = "due"
      BY <3>1, <3>2 DEF stateBar, StateOf, IsDue
    <3>4. stateBar' = stateBar
      BY <3>1, SameDuties DEF IsDue
    <3> QED BY <3>1, <3>2, <3>3, <3>4 DEF Duty!DutyNext, Duty!Fail, stateBar
  <2>9. CASE UNCHANGED guardVars
    BY <2>9 DEF guardVars, history, Duty!dutyVars, StateOf, IsDue
  <2> QED
    BY <1>2, <2>1, <2>2, <2>3, <2>4, <2>5, <2>6, <2>7, <2>8, <2>9 DEF GuardNext
<1> QED
  BY <1>1, <1>2, GuardInitInv, GuardInductive, PTL DEF GuardSpec, ImplementsDuty, Duty!DutySpec

-----------------------------------------------------------------------------
(* SearchPath: the scan of a path, the tokens it finds, and what is joined *)
(* of them.                                                                *)

Delim == DEFAULT_DELIMITER

\* What the next character does to the tokens.
Scan(s, tokens, i) ==
    IF s[i] = Delim THEN tokens
    ELSE IF i = 1 \/ s[i - 1] = Delim THEN Append(tokens, <<s[i]>>)
    ELSE Append(Front(tokens), Append(Last(tokens), s[i]))

IsScan(g, s, n) == g = [i \in 0 .. n |-> IF i = 0 THEN << >> ELSE Scan(s, g[i - 1], i)]
Scanned(s) == CHOOSE g : IsScan(g, s, Len(s))

LEMMA TokensAre == ASSUME NEW s PROVE Tokens(s) = Scanned(s)[Len(s)]
BY Zenon DEF Tokens, Scanned, IsScan, Scan, Delim

LEMMA ScanRules ==
    ASSUME NEW s, Len(s) \in Nat
    PROVE  /\ Scanned(s)[0] = << >>
           /\ \A i \in 1 .. Len(s) : Scanned(s)[i] = Scan(s, Scanned(s)[i - 1], i)
<1> DEFINE Ends == {n \in Nat : \E g : IsScan(g, s, n)}
<1>1. 0 \in Ends
  <2> DEFINE g == [i \in 0 .. 0 |-> << >>]
  <2>1. IsScan(g, s, 0)
    BY DEF IsScan
  <2> QED BY <2>1
<1>2. ASSUME NEW n \in Nat, n \in Ends PROVE n + 1 \in Ends
  <2>1. PICK g : IsScan(g, s, n)
    BY <1>2
  <2> DEFINE h == [i \in 0 .. n + 1 |-> IF i = n + 1 THEN Scan(s, g[n], n + 1) ELSE g[i]]
  <2>2. \A i \in 0 .. n : h[i] = g[i] /\ h[i] = IF i = 0 THEN << >> ELSE Scan(s, g[i - 1], i)
    BY <2>1 DEF IsScan
  <2>3. h[n + 1] = Scan(s, h[n], n + 1)
    BY <2>2
  <2>4. \A i \in 0 .. n + 1 : h[i] = IF i = 0 THEN << >> ELSE Scan(s, h[i - 1], i)
    <3> SUFFICES ASSUME NEW i \in 0 .. n + 1
                 PROVE  h[i] = IF i = 0 THEN << >> ELSE Scan(s, h[i - 1], i)
      OBVIOUS
    <3>1. CASE i = 0
      <4>1. h[0] = << >>
        <5>1. 0 \in 0 .. n
          OBVIOUS
        <5> HIDE DEF h
        <5> QED BY <2>2, <5>1, Zenon
      <4> QED BY <3>1, <4>1, Zenon
    <3>2. CASE i = n + 1
      <4>1. i # 0 /\ i - 1 = n
        BY <3>2
      <4> QED BY <2>3, <3>2, <4>1
    <3>3. CASE i \in 1 .. n
      <4>1. h[i - 1] = g[i - 1] /\ i # 0 /\ i \in 0 .. n
        BY <2>2, <3>3
      <4> QED BY <2>2, <4>1
    <3> QED BY <3>1, <3>2, <3>3
  <2>5. h = [i \in 0 .. n + 1 |-> h[i]]
    OBVIOUS
  <2> HIDE DEF h
  <2>6. IsScan(h, s, n + 1)
    BY <2>4, <2>5 DEF IsScan
  <2> QED BY <2>6
<1> HIDE DEF Ends
<1>3. Len(s) \in Ends
  BY <1>1, <1>2, SetInduction
<1>4. IsScan(Scanned(s), s, Len(s))
  BY <1>3, Zenon DEF Ends, Scanned
<1>5. \A i \in 0 .. Len(s) :
          Scanned(s)[i] = IF i = 0 THEN << >> ELSE Scan(s, Scanned(s)[i - 1], i)
  BY <1>4, Zenon DEF IsScan
<1> QED BY <1>5

\* The words of C: what tokens are.
Words(C) == Seq(C \ {Delim}) \ {<< >>}

LEMMA ScanStepTyped ==
    ASSUME NEW C, NEW s \in Seq(C), NEW i \in 1 .. Len(s), NEW ts \in Seq(Words(C)),
           i > 1 /\ s[i - 1] # Delim => ts # << >>
    PROVE  /\ Scan(s, ts, i) \in Seq(Words(C))
           /\ s[i] # Delim => Scan(s, ts, i) # << >>
<1>1. CASE s[i] = Delim
  BY <1>1 DEF Scan
<1>2. CASE s[i] # Delim /\ (i = 1 \/ s[i - 1] = Delim)
  <2>1. <<s[i]>> \in Words(C)
    BY <1>2 DEF Words
  <2>2. Scan(s, ts, i) = Append(ts, <<s[i]>>)
    BY <1>2 DEF Scan
  <2> QED BY <2>1, <2>2
<1>3. CASE s[i] # Delim /\ ~(i = 1 \/ s[i - 1] = Delim)
  <2>1. ts # << >> /\ Len(ts) \in 1 .. Len(ts)
    BY <1>3
  <2>2. Last(ts) \in Words(C) /\ Front(ts) \in Seq(Words(C))
    BY <2>1 DEF Last, Front
  <2>3. Append(Last(ts), s[i]) \in Words(C)
    <3> DEFINE w == Last(ts)
    <3>1. w \in Seq(C \ {Delim}) /\ s[i] \in C \ {Delim}
      BY <1>3, <2>2 DEF Words
    <3> HIDE DEF w
    <3>2. Append(w, s[i]) \in Seq(C \ {Delim}) /\ Len(Append(w, s[i])) # 0
      BY <3>1
    <3> DEFINE a == Append(w, s[i])
    <3> HIDE DEF a
    <3>3. Len(a) # 0 => a # << >>
      OBVIOUS
    <3>4. a # << >>
      BY <3>2, <3>3 DEF a
    <3> QED BY <3>2, <3>4, Zenon DEF Words, w, a
  <2> DEFINE word == Append(Last(ts), s[i])
             front == Front(ts)
  <2>4. Scan(s, ts, i) = Append(front, word)
    BY <1>3 DEF Scan
  <2> HIDE DEF word, front
  <2> QED BY <2>2, <2>3, <2>4 DEF word, front
<1> QED BY <1>1, <1>2, <1>3

LEMMA ScanTyped ==
    ASSUME NEW C, NEW s \in Seq(C), NEW i \in 0 .. Len(s)
    PROVE  /\ Scanned(s)[i] \in Seq(Words(C))
           /\ i > 0 /\ s[i] # Delim => Scanned(s)[i] # << >>
<1> DEFINE Typed(n) == /\ Scanned(s)[n] \in Seq(Words(C))
                       /\ n > 0 /\ s[n] # Delim => Scanned(s)[n] # << >>
           Good == {n \in Nat : n <= Len(s) => Typed(n)}
<1>1. 0 \in Good
  <2>1. Scanned(s)[0] = << >>
    BY ScanRules
  <2>2. << >> \in Seq(Words(C))
    OBVIOUS
  <2>3. Typed(0)
    BY <2>1, <2>2
  <2> HIDE DEF Typed
  <2> QED BY <2>3
<1>2. ASSUME NEW n \in Nat, n \in Good PROVE n + 1 \in Good
  <2> SUFFICES ASSUME n + 1 <= Len(s) PROVE Typed(n + 1)
    OBVIOUS
  <2>1. n + 1 \in 1 .. Len(s) /\ (n + 1) - 1 = n /\ n <= Len(s)
    OBVIOUS
  <2>2. Scanned(s)[n + 1] = Scan(s, Scanned(s)[n], n + 1)
    BY <2>1, ScanRules
  <2>3. Typed(n)
    BY <1>2, <2>1
  <2>4. n + 1 > 1 /\ s[(n + 1) - 1] # Delim => Scanned(s)[n] # << >>
    BY <2>1, <2>3
  <2> QED BY <2>1, <2>2, <2>3, <2>4, ScanStepTyped
<1> HIDE DEF Good
<1>3. i \in Good
  BY <1>1, <1>2, SetInduction
<1> QED BY <1>3 DEF Good

LEMMA TokensTyped ==
    ASSUME NEW C, NEW s \in Seq(C) PROVE Tokens(s) \in Seq(Words(C))
BY TokensAre, ScanTyped

\* The scan of what comes first is not changed by what follows.
LEMMA ScanPrefix ==
    ASSUME NEW C, NEW s \in Seq(C), NEW r \in Seq(C), NEW i \in 0 .. Len(s)
    PROVE  Scanned(s \o r)[i] = Scanned(s)[i]
<1> DEFINE all == s \o r
           Same == {n \in Nat : n <= Len(s) => Scanned(all)[n] = Scanned(s)[n]}
<1>1. all \in Seq(C) /\ Len(all) = Len(s) + Len(r) /\ \A n \in 1 .. Len(s) : all[n] = s[n]
  OBVIOUS
<1> HIDE DEF all
<1>2. 0 \in Same
  BY <1>1, ScanRules
<1>3. ASSUME NEW n \in Nat, n \in Same PROVE n + 1 \in Same
  <2> SUFFICES ASSUME n + 1 <= Len(s) PROVE Scanned(all)[n + 1] = Scanned(s)[n + 1]
    OBVIOUS
  <2>1. n + 1 \in 1 .. Len(s) /\ n + 1 \in 1 .. Len(all) /\ (n + 1) - 1 = n
    BY <1>1
  <2>2. /\ Scanned(all)[n + 1] = Scan(all, Scanned(all)[n], n + 1)
        /\ Scanned(s)[n + 1] = Scan(s, Scanned(s)[n], n + 1)
    <3>1. Len(all) \in Nat /\ Len(s) \in Nat
      BY <1>1
    <3>2. Scanned(all)[n + 1] = Scan(all, Scanned(all)[(n + 1) - 1], n + 1)
      BY <2>1, <3>1, ScanRules
    <3>3. Scanned(s)[n + 1] = Scan(s, Scanned(s)[(n + 1) - 1], n + 1)
      BY <2>1, <3>1, ScanRules
    <3> QED BY <2>1, <3>2, <3>3
  <2>3. Scanned(all)[n] = Scanned(s)[n]
    BY <1>3
  <2>4. all[n + 1] = s[n + 1] /\ (n + 1 = 1 \/ all[n] = s[n])
    BY <1>1, <2>1
  <2>5. \A ts : Scan(all, ts, n + 1) = Scan(s, ts, n + 1)
    BY <2>1, <2>4 DEF Scan
  <2> QED BY <2>2, <2>3, <2>5
<1> HIDE DEF Same
<1>4. i \in Same
  BY <1>2, <1>3, SetInduction
<1> QED BY <1>4 DEF Same, all

LEMMA DelimiterAdded ==
    ASSUME NEW C, NEW s \in Seq(C), Delim \in C
    PROVE  Tokens(Append(s, Delim)) = Tokens(s)
<1> DEFINE r == <<Delim>>
           n == Len(s) + 1
<1>1. Append(s, Delim) = s \o r /\ r \in Seq(C) /\ Len(s \o r) = n /\ (s \o r)[n] = Delim
  OBVIOUS
<1>2. n \in 1 .. Len(s \o r) /\ n - 1 = Len(s) /\ Len(s \o r) \in Nat
  BY <1>1
<1>3. Scanned(s \o r)[n] = Scan(s \o r, Scanned(s \o r)[Len(s)], n)
  BY <1>2, ScanRules
<1>4. Scanned(s \o r)[n] = Scanned(s \o r)[Len(s)]
  BY <1>1, <1>3 DEF Scan
<1>5. Scanned(s \o r)[Len(s)] = Scanned(s)[Len(s)]
  <2>1. Len(s) \in 0 .. Len(s)
    OBVIOUS
  <2> HIDE DEF r
  <2> QED BY <1>1, <2>1, ScanPrefix
<1> QED BY <1>1, <1>4, <1>5, TokensAre

LEMMA OneElement == ASSUME NEW C, NEW q \in Seq(C), Len(q) = 1 PROVE q = <<q[1]>>
<1>1. DOMAIN q = {1} /\ q = [i \in DOMAIN q |-> q[i]]
  OBVIOUS
<1>2. <<q[1]>> = [i \in {1} |-> q[1]]
  OBVIOUS
<1> QED BY <1>1, <1>2

\* A word after the start or a delimiter is the next token.
LEMMA TokenAdded ==
    ASSUME NEW C, NEW s \in Seq(C), s = << >> \/ s[Len(s)] = Delim, NEW t \in Words(C)
    PROVE  Tokens(s \o t) = Append(Tokens(s), t)
<1> DEFINE all == s \o t
           m == Len(s)
           ts == Tokens(s)
           Reached == {n \in Nat : n + 1 <= Len(t) =>
                        Scanned(all)[m + (n + 1)] = Append(ts, SubSeq(t, 1, n + 1))}
<1>1. /\ t \in Seq(C) /\ t # << >> /\ \A k \in 1 .. Len(t) : t[k] # Delim
      /\ m \in Nat /\ Len(t) \in Nat /\ Len(t) > 0
  BY DEF Words
<1>2. /\ all \in Seq(C) /\ Len(all) = m + Len(t)
      /\ \A k \in 1 .. Len(t) : all[m + k] = t[k]
      /\ \A k \in 1 .. m : all[k] = s[k]
  BY <1>1
<1>3. ts \in Seq(Words(C))
  BY TokensTyped
<1>4. Scanned(all)[m] = ts
  <2>1. m \in 0 .. Len(s)
    BY <1>1
  <2> QED BY <1>1, <2>1, ScanPrefix, TokensAre
<1> HIDE DEF all, ts
<1>5. \A k \in 1 .. Len(t) : Scanned(all)[m + k] = Scan(all, Scanned(all)[m + k - 1], m + k)
  BY <1>1, <1>2, ScanRules
<1>6. 0 \in Reached
  <2>1. m + 1 = 1 \/ all[m] = Delim
    BY <1>1, <1>2
  <2>2. Scanned(all)[m + 1] = Scan(all, ts, m + 1)
    BY <1>1, <1>4, <1>5
  <2>3. all[m + 1] = t[1] /\ t[1] # Delim /\ (m + 1) - 1 = m
    BY <1>1, <1>2
  <2>4. Scan(all, ts, m + 1) = Append(ts, <<t[1]>>)
    BY <2>1, <2>3 DEF Scan
  <2>5. SubSeq(t, 1, 1) = <<t[1]>>
    <3>1. /\ Len(SubSeq(t, 1, 1)) = 1 /\ SubSeq(t, 1, 1)[1] = t[1]
          /\ SubSeq(t, 1, 1) \in Seq(C)
      BY <1>1
    <3> QED BY <3>1, OneElement
  <2> QED BY <2>2, <2>4, <2>5
<1>7. ASSUME NEW n \in Nat, n \in Reached PROVE n + 1 \in Reached
  <2> DEFINE k == n + 1
  <2> SUFFICES ASSUME k + 1 <= Len(t)
               PROVE  Scanned(all)[m + (k + 1)] = Append(ts, SubSeq(t, 1, k + 1))
    OBVIOUS
  <2>1. /\ k \in 1 .. Len(t) /\ k + 1 \in 1 .. Len(t) /\ m + (k + 1) - 1 = m + k
        /\ (m + (k + 1)) - 1 = m + k /\ m + (k + 1) # 1
    BY <1>1
  <2>2. Scanned(all)[m + k] = Append(ts, SubSeq(t, 1, k))
    BY <1>7, <2>1
  <2> HIDE DEF k
  <2>3. all[m + (k + 1)] = t[k + 1] /\ t[k + 1] # Delim /\ all[m + k] # Delim
    BY <1>1, <1>2, <2>1
  <2> DEFINE before == Append(ts, SubSeq(t, 1, k))
             j == m + (k + 1)
  <2>4. Scanned(all)[j] = Scan(all, before, j)
    BY <1>5, <2>1, <2>2
  <2>5. j - 1 = m + k /\ j # 1 /\ all[j] = t[k + 1] /\ all[j] # Delim /\ all[j - 1] # Delim
    BY <2>1, <2>3
  <2>6. Scan(all, before, j) = Append(Front(before), Append(Last(before), t[k + 1]))
    BY <2>5 DEF Scan
  <2>7. SubSeq(t, 1, k) \in Seq(C)
    BY <1>1, <2>1
  <2>8. Front(before) = ts /\ Last(before) = SubSeq(t, 1, k)
    <3> DEFINE u == SubSeq(t, 1, k)
    <3> HIDE DEF u
    <3>1. Len(Append(ts, u)) = Len(ts) + 1 /\ Append(ts, u)[Len(ts) + 1] = u /\ Len(ts) \in Nat
      BY <1>3
    <3>2. SubSeq(Append(ts, u), 1, Len(ts)) = ts
      BY <1>3
    <3>3. (Len(ts) + 1) - 1 = Len(ts)
      BY <3>1
    <3> QED BY <3>1, <3>2, <3>3 DEF Front, Last, u
  <2>9. Append(SubSeq(t, 1, k), t[k + 1]) = SubSeq(t, 1, k + 1)
    BY <1>1, <2>1
  <2> QED BY <2>4, <2>6, <2>8, <2>9
<1> HIDE DEF Reached
<1>8. Len(t) - 1 \in Reached
  BY <1>1, <1>6, <1>7, SetInduction
<1>9. Scanned(all)[m + Len(t)] = Append(ts, SubSeq(t, 1, Len(t)))
  BY <1>1, <1>8 DEF Reached
<1>10. SubSeq(t, 1, Len(t)) = t
  BY <1>1
<1> QED BY <1>2, <1>9, <1>10, TokensAre DEF all, ts

\* What is flattened after each of the pieces.
IsFlattened(g, pieces, n) ==
    g = [i \in 1 .. n |-> IF i = 1 THEN pieces[i] ELSE g[i - 1] \o pieces[i]]
Flattened(pieces) == CHOOSE g : IsFlattened(g, pieces, Len(pieces))

LEMMA FlattenIs ==
    ASSUME NEW pieces, Len(pieces) # 0
    PROVE  FlattenSeq(pieces) = Flattened(pieces)[Len(pieces)]
BY Zenon DEF FlattenSeq, Flattened, IsFlattened

LEMMA FlattenRules ==
    ASSUME NEW pieces, Len(pieces) \in Nat
    PROVE  \A i \in 1 .. Len(pieces) :
               Flattened(pieces)[i] = IF i = 1 THEN pieces[i]
                                      ELSE Flattened(pieces)[i - 1] \o pieces[i]
<1> DEFINE Ends == {n \in Nat : \E g : IsFlattened(g, pieces, n)}
<1>1. 0 \in Ends
  <2> DEFINE g == [i \in 1 .. 0 |-> << >>]
  <2>1. IsFlattened(g, pieces, 0)
    BY DEF IsFlattened
  <2> QED BY <2>1
<1>2. ASSUME NEW n \in Nat, n \in Ends PROVE n + 1 \in Ends
  <2>1. PICK g : IsFlattened(g, pieces, n)
    BY <1>2
  <2> DEFINE Next1(i, f) == IF i = 1 THEN pieces[i] ELSE f[i - 1] \o pieces[i]
             h == [i \in 1 .. n + 1 |-> IF i = n + 1 THEN Next1(i, g) ELSE g[i]]
  <2>2. \A i \in 1 .. n : h[i] = g[i] /\ h[i] = Next1(i, g)
    <3>1. \A i \in 1 .. n : g[i] = Next1(i, g)
      BY <2>1, Zenon DEF IsFlattened
    <3>2. \A i \in 1 .. n : i \in 1 .. n + 1 /\ i # n + 1
      OBVIOUS
    <3> HIDE DEF Next1
    <3>3. \A i \in 1 .. n : h[i] = g[i]
      BY <3>2
    <3> QED BY <3>1, <3>3
  <2>3. h[n + 1] = Next1(n + 1, g)
    OBVIOUS
  <2>4. \A i \in 1 .. n + 1 : i = 1 \/ h[i - 1] = g[i - 1]
    BY <2>2
  <2>5. h = [i \in 1 .. n + 1 |-> h[i]]
    OBVIOUS
  <2> HIDE DEF h
  <2>6. \A i \in 1 .. n + 1 : h[i] = Next1(i, g)
    BY <2>2, <2>3
  <2>7. \A i \in 1 .. n + 1 : h[i] = Next1(i, h)
    BY <2>4, <2>6
  <2>8. IsFlattened(h, pieces, n + 1)
    BY <2>5, <2>7 DEF IsFlattened
  <2> QED BY <2>8
<1> HIDE DEF Ends
<1>3. Len(pieces) \in Ends
  BY <1>1, <1>2, SetInduction
<1>4. IsFlattened(Flattened(pieces), pieces, Len(pieces))
  BY <1>3, Zenon DEF Ends, Flattened
<1> QED BY <1>4, Zenon DEF IsFlattened

\* Words joined by delimiters are found again.
LEMMA JoinedReads ==
    ASSUME NEW C, Delim \in C, NEW strings \in Seq(Words(C))
    PROVE  Joined(strings) \in Seq(C) /\ Tokens(Joined(strings)) = strings
<1> DEFINE n == Len(strings)
           pieces == [i \in DOMAIN strings |->
                        IF i < n THEN Append(strings[i], Delim) ELSE strings[i]]
           fl == Flattened(pieces)
<1>1. n \in Nat /\ DOMAIN strings = 1 .. n /\ Len(pieces) = n
      /\ \A i \in 1 .. n : strings[i] \in Words(C) /\ strings[i] \in Seq(C)
  BY DEF Words
<1>2. \A i \in 1 .. n : i < n => pieces[i] = Append(strings[i], Delim)
  BY <1>1
<1>3. n > 0 => pieces[n] = strings[n]
  BY <1>1
<1>4. Joined(strings) = FlattenSeq(pieces)
  BY <1>1, Zenon DEF Joined, Delim
<1>5. CASE n = 0
  <2>1. strings = << >> /\ pieces = << >>
    BY <1>1, <1>5
  <2>2. FlattenSeq(pieces) = << >>
    BY <1>1, <1>5, <2>1 DEF FlattenSeq
  <2>3. Scanned(<< >>)[0] = << >> /\ Len(<< >>) = 0
    BY ScanRules
  <2>4. Tokens(<< >>) = << >>
    BY <2>3, TokensAre
  <2>5. << >> \in Seq(C)
    OBVIOUS
  <2> QED BY <1>4, <2>1, <2>2, <2>4, <2>5
<1>6. CASE n > 0
  <2> HIDE DEF pieces
  <2>1. \A i \in 1 .. n : fl[i] = IF i = 1 THEN pieces[i] ELSE fl[i - 1] \o pieces[i]
    BY <1>1, FlattenRules
  <2>2. Joined(strings) = fl[n]
    BY <1>1, <1>4, <1>6, FlattenIs
  <2> HIDE DEF fl
  \* The text that is put before an element.
  <2> DEFINE before(i) == IF i = 1 THEN << >> ELSE fl[i - 1]
             Read(i) == /\ before(i) \in Seq(C)
                        /\ before(i) = << >> \/ before(i)[Len(before(i))] = Delim
                        /\ Tokens(before(i)) = SubSeq(strings, 1, i - 1)
             Good == {k \in Nat : k + 1 <= n => Read(k + 1)}
  <2>3. \A i \in 1 .. n : fl[i] = before(i) \o pieces[i]
    <3>1. \A i \in 1 .. n : pieces[i] \in Seq(C)
      <4> SUFFICES ASSUME NEW i \in 1 .. n PROVE pieces[i] \in Seq(C)
        OBVIOUS
      <4>1. strings[i] \in Seq(C) /\ Append(strings[i], Delim) \in Seq(C)
        BY <1>1
      <4>2. CASE i < n
        BY <1>2, <4>1, <4>2
      <4>3. CASE i = n
        BY <1>3, <1>6, <4>1, <4>3
      <4>4. i < n \/ i = n
        <5>1. n \in Nat
          BY <1>1
        <5> HIDE DEF n
        <5> QED BY <5>1
      <4> QED BY <4>2, <4>3, <4>4
    <3>2. \A q \in Seq(C) : << >> \o q = q
      OBVIOUS
    <3> QED BY <2>1, <3>1, <3>2
  <2>4. 0 \in Good
    <3>1. before(0 + 1) = << >>
      OBVIOUS
    <3>2. Scanned(<< >>)[0] = << >> /\ Len(<< >>) = 0
      BY ScanRules
    <3>3. Tokens(<< >>) = << >>
      BY <3>2, TokensAre
    <3>4. SubSeq(strings, 1, (0 + 1) - 1) = << >> /\ << >> \in Seq(C)
      BY <1>1
    <3> HIDE DEF before
    <3> QED BY <3>1, <3>3, <3>4
  <2>5. ASSUME NEW k \in Nat, k \in Good PROVE k + 1 \in Good
    <3> DEFINE i == k + 1
    <3> SUFFICES ASSUME i + 1 <= n PROVE Read(i + 1)
      OBVIOUS
    <3>1. i \in 1 .. n /\ i < n /\ i + 1 # 1 /\ (i + 1) - 1 = i /\ i - 1 \in Nat
      BY <1>1
    <3>2. Read(i)
      BY <2>5, <3>1
    <3> HIDE DEF i
    <3> DEFINE b == before(i)
               w == strings[i]
    <3>3. fl[i] = b \o Append(w, Delim) /\ before(i + 1) = fl[i]
      BY <1>2, <2>3, <3>1
    <3>4. w \in Words(C) /\ w \in Seq(C)
      BY <1>1, <3>1
    <3>5. b \in Seq(C) /\ (b = << >> \/ b[Len(b)] = Delim) /\ Tokens(b) = SubSeq(strings, 1, i - 1)
      BY <3>2
    <3>6. SubSeq(strings, 1, i) = Append(SubSeq(strings, 1, i - 1), w)
      BY <1>1, <3>1
    <3> HIDE DEF b, w, before
    <3>7. b \o Append(w, Delim) = Append(b \o w, Delim)
      BY <3>4, <3>5
    <3>8. b \o w \in Seq(C)
      BY <3>4, <3>5
    <3>9. Tokens(b \o w) = Append(Tokens(b), w)
      BY <3>4, <3>5, TokenAdded
    <3> DEFINE bw == b \o w
    <3> HIDE DEF bw
    <3>10. bw \in Seq(C) /\ before(i + 1) = Append(bw, Delim)
      BY <3>3, <3>7, <3>8 DEF bw
    <3>11. before(i + 1) \in Seq(C) /\ before(i + 1)[Len(before(i + 1))] = Delim
      BY <3>10
    <3>12. Tokens(before(i + 1)) = Tokens(bw)
      BY <3>10, DelimiterAdded
    <3>13. Tokens(before(i + 1)) = SubSeq(strings, 1, (i + 1) - 1)
      BY <3>1, <3>5, <3>6, <3>9, <3>12 DEF bw
    <3> QED BY <3>11, <3>13
  <2> HIDE DEF Good
  <2>6. n - 1 \in Good
    BY <1>1, <1>6, <2>4, <2>5, SetInduction
  <2>7. Read(n)
    BY <1>1, <1>6, <2>6 DEF Good
  <2> DEFINE b == before(n)
             w == strings[n]
  <2>8. fl[n] = b \o w
    <3>1. n \in 1 .. n /\ pieces[n] = w
      BY <1>1, <1>3, <1>6
    <3> HIDE DEF before, w
    <3> QED BY <2>3, <3>1
  <2>9. b \in Seq(C) /\ (b = << >> \/ b[Len(b)] = Delim) /\ Tokens(b) = SubSeq(strings, 1, n - 1)
    BY <2>7
  <2>10. w \in Words(C) /\ w \in Seq(C)
    BY <1>1, <1>6
  <2>11. strings = Append(SubSeq(strings, 1, n - 1), w)
    BY <1>1, <1>6
  <2> HIDE DEF b, w
  <2>12. Tokens(b \o w) = Append(Tokens(b), w)
    BY <2>9, <2>10, TokenAdded
  <2>13. b \o w \in Seq(C)
    BY <2>9, <2>10
  <2> QED BY <2>2, <2>8, <2>9, <2>11, <2>12, <2>13
<1> QED BY <1>1, <1>5, <1>6

Text == Seq(Chars)
Templates == {t \in [prefix : Text, suffix : Text, hasPlaceholder : BOOLEAN] :
                 t.hasPlaceholder \/ t.suffix = << >>}

\* A template that is printed as a word of which it is made.
PrintsAsWord(t) == /\ getStringWithSubstitution(t) \in Words(Chars)
                   /\ createFromTemplate(getStringWithSubstitution(t)) = t

LEMMA FirstFound ==
    ASSUME NEW T \in SUBSET Nat, T # {}
    PROVE  Min(T) \in T /\ \A n \in T : Min(T) <= n
<1>1. \E x \in T : \A y \in T : x =< y
  BY LeastNumber
<1> QED BY <1>1, Zenon DEF Min

\* A word is printed from the template it makes.
LEMMA TemplatePrints ==
    ASSUME NEW w \in Text
    PROVE  /\ createFromTemplate(w) \in Templates
           /\ getStringWithSubstitution(createFromTemplate(w)) = w
<1> DEFINE found == Find(w, DEFAULT_PLACEHOLDER)
           p == Min(found)
<1>1. CASE found = {}
  <2>1. createFromTemplate(w) = Template(w, << >>, FALSE)
    BY <1>1 DEF createFromTemplate
  <2> QED BY <2>1 DEF Template, Templates, Text, getStringWithSubstitution
<1>2. CASE found # {}
  <2>1. p \in found
    <3>1. found \in SUBSET Nat
      BY DEF Find, Text
    <3> HIDE DEF found
    <3> QED BY <1>2, <3>1, FirstFound
  <2>2. p \in 1 .. Len(w) /\ w[p] = DEFAULT_PLACEHOLDER /\ Len(w) \in Nat
    BY <2>1 DEF Find, Text
  <2> DEFINE before == SubSeq(w, 1, p - 1)
             after == SubSeq(w, p + 1, Len(w))
  <2>3. createFromTemplate(w) = Template(before, after, TRUE)
    BY <1>2, Zenon DEF createFromTemplate
  <2> HIDE DEF p, found
  <2>4. before \in Text /\ after \in Text
    BY <2>2 DEF Text
  <2>5. before \o <<DEFAULT_PLACEHOLDER>> \o after = w
    <3>1. before \o <<DEFAULT_PLACEHOLDER>> = SubSeq(w, 1, p)
      BY <2>2 DEF Text
    <3>2. SubSeq(w, 1, p) \o after = w
      BY <2>2 DEF Text
    <3> QED BY <3>1, <3>2
  <2> HIDE DEF before, after
  <2> QED BY <2>3, <2>4, <2>5 DEF Template, Templates, getStringWithSubstitution
<1> QED BY <1>1, <1>2

LEMMA CreatedPrints ==
    ASSUME NEW w \in Words(Chars) PROVE PrintsAsWord(createFromTemplate(w))
<1>1. w \in Text
  BY DEF Words, Text
<1> QED BY <1>1, TemplatePrints DEF PrintsAsWord

\* What can be expressed is read as it was meant.
LEMMA ExpressiblePrints ==
    ASSUME NEW t \in Templates, Expressible(t) PROVE PrintsAsWord(t)
<1> DEFINE pre == t.prefix
           suff == t.suffix
           P == DEFAULT_PLACEHOLDER
<1>1. /\ pre \in Text /\ suff \in Text
      /\ t = Template(pre, suff, t.hasPlaceholder)
      /\ t.hasPlaceholder \in BOOLEAN /\ (t.hasPlaceholder \/ suff = << >>)
  BY DEF Templates, Template
<1>2. /\ \A i \in DOMAIN pre : pre[i] # P /\ pre[i] # Delim
      /\ \A i \in DOMAIN suff : suff[i] # Delim
      /\ t.hasPlaceholder \/ pre # << >>
  <2>1. /\ \A i \in DOMAIN pre : (pre \o suff)[i] = pre[i] /\ i \in DOMAIN (pre \o suff)
        /\ \A i \in DOMAIN suff : /\ (pre \o suff)[Len(pre) + i] = suff[i]
                                  /\ Len(pre) + i \in DOMAIN (pre \o suff)
    <3> DEFINE all == pre \o suff
    <3>1. /\ pre \in Seq(Chars) /\ suff \in Seq(Chars)
      BY <1>1 DEF Text
    <3> HIDE DEF pre, suff
    <3>2. /\ DOMAIN pre = 1 .. Len(pre) /\ DOMAIN suff = 1 .. Len(suff)
          /\ Len(pre) \in Nat /\ Len(suff) \in Nat
          /\ DOMAIN all = 1 .. Len(pre) + Len(suff)
          /\ \A i \in 1 .. Len(pre) : all[i] = pre[i]
          /\ \A i \in 1 .. Len(suff) : all[Len(pre) + i] = suff[i]
      BY <3>1
    <3> HIDE DEF all
    <3> QED BY <3>2 DEF all
  <2> HIDE DEF pre, suff
  <2>2. \A i \in DOMAIN (pre \o suff) : (pre \o suff)[i] # Delim
    BY DEF Expressible, Range, pre, suff, Delim
  <2>3. \A i \in DOMAIN pre : pre[i] # P
    BY DEF Expressible, Range, pre
  <2> QED BY <2>1, <2>2, <2>3 DEF Expressible, pre
<1> HIDE DEF pre, suff
<1>3. CASE ~t.hasPlaceholder
  <2>1. getStringWithSubstitution(t) = pre
    BY <1>3 DEF getStringWithSubstitution, pre
  <2>2. Find(pre, P) = {}
    BY <1>2 DEF Find
  <2>3. createFromTemplate(pre) = t
    BY <1>1, <1>3, <2>2 DEF createFromTemplate
  <2>4. pre \in Words(Chars)
    BY <1>1, <1>2, <1>3 DEF Words, Text
  <2> QED BY <2>1, <2>3, <2>4 DEF PrintsAsWord
<1>4. CASE t.hasPlaceholder
  <2> DEFINE w == pre \o <<P>> \o suff
             n == Len(pre) + 1
  <2>1. getStringWithSubstitution(t) = w
    BY <1>4 DEF getStringWithSubstitution, pre, suff
  <2>2. /\ Len(pre) \in Nat /\ Len(suff) \in Nat /\ P \in Chars
        /\ DOMAIN pre = 1 .. Len(pre) /\ DOMAIN suff = 1 .. Len(suff)
    BY <1>1, CharAssumption DEF Text
  <2>3. /\ Len(w) = n + Len(suff) /\ w[n] = P /\ w \in Text
        /\ \A i \in 1 .. Len(pre) : w[i] = pre[i]
        /\ \A i \in 1 .. Len(suff) : w[n + i] = suff[i]
    BY <1>1, <2>2 DEF Text
  <2>4. /\ SubSeq(w, 1, n - 1) = pre /\ SubSeq(w, n + 1, Len(w)) = suff
    <3>1. SubSeq(w, 1, n - 1) = pre
      BY <1>1, <2>2 DEF Text
    <3>2. SubSeq(w, n + 1, Len(w)) = suff
      BY <1>1, <2>2 DEF Text
    <3> QED BY <3>1, <3>2
  <2> HIDE DEF w
  <2>5. n \in Find(w, P) /\ \A i \in Find(w, P) : n <= i
    BY <1>2, <2>2, <2>3 DEF Find, Text
  <2>6. Find(w, P) \subseteq Nat
    BY <2>3 DEF Find, Text
  <2>7. Min(Find(w, P)) = n
    BY <2>2, <2>5, <2>6, FirstFound
  <2>8. createFromTemplate(w) = Template(pre, suff, TRUE)
    BY <2>4, <2>5, <2>7 DEF createFromTemplate
  <2>9. \A i \in 1 .. Len(w) : w[i] # Delim
    <3> SUFFICES ASSUME NEW i \in 1 .. Len(w) PROVE w[i] # Delim
      OBVIOUS
    <3>1. CASE i < n
      BY <1>2, <2>2, <2>3, <3>1
    <3>2. CASE i = n
      BY <2>3, <3>2, CharAssumption DEF Delim
    <3>3. CASE i > n
      <4>1. i - n \in 1 .. Len(suff) /\ n + (i - n) = i
        BY <2>2, <2>3, <3>3
      <4> DEFINE k == i - n
      <4> HIDE DEF k
      <4>2. w[n + k] = suff[k] /\ suff[k] # Delim /\ n + k = i
        BY <1>2, <2>2, <2>3, <4>1 DEF k
      <4> HIDE DEF n
      <4> QED BY <4>2
    <3> QED BY <2>2, <2>3, <3>1, <3>2, <3>3
  <2>10. w \in Words(Chars)
    <3>1. w # << >>
      BY <2>2, <2>3
    <3> QED BY <2>3, <2>9, <3>1 DEF Words, Text
  <2>11. Template(pre, suff, TRUE) = t
    BY <1>1, <1>4
  <2> QED BY <2>1, <2>8, <2>10, <2>11 DEF PrintsAsWord
<1> QED BY <1>3, <1>4

\* A list of such templates is read back.
LEMMA ListReadsBack ==
    ASSUME NEW l \in Seq(Templates), \A i \in DOMAIN l : PrintsAsWord(l[i])
    PROVE  splitListOfFilenameTemplates(listOfFilenameTemplatesToString(l)) = l
<1> DEFINE words == [i \in DOMAIN l |-> getStringWithSubstitution(l[i])]
<1>1. words \in Seq(Words(Chars)) /\ DOMAIN words = DOMAIN l
  BY DEF PrintsAsWord
<1>2. listOfFilenameTemplatesToString(l) = Joined(words)
  BY Zenon DEF listOfFilenameTemplatesToString, Mapped
<1>3. \A i \in DOMAIN l : createFromTemplate(words[i]) = l[i]
  BY DEF PrintsAsWord
<1> HIDE DEF words
<1>4. Delim \in Chars
  BY CharAssumption DEF Delim
<1>5. Tokens(Joined(words)) = words
  BY <1>1, <1>4, JoinedReads
<1>6. splitListOfFilenameTemplates(Joined(words)) = [i \in DOMAIN words |-> createFromTemplate(words[i])]
  BY <1>5, Zenon DEF splitListOfFilenameTemplates, Mapped
<1>7. [i \in DOMAIN words |-> createFromTemplate(words[i])] = [i \in DOMAIN l |-> l[i]]
  BY <1>1, <1>3
<1>8. l = [i \in DOMAIN l |-> l[i]]
  OBVIOUS
<1> QED BY <1>2, <1>6, <1>7, <1>8

\* A directory is printed as the word of which it is made.
LEMMA DirectoryReads ==
    ASSUME NEW t \in Templates, isDirectory(t), Delim \notin Range(t.prefix)
    PROVE  t.prefix \in Words(Chars) /\ createFromDirectory(t.prefix) = t
<1>1. t.prefix \in Seq(Chars) /\ t = Template(t.prefix, << >>, TRUE)
  BY DEF Templates, Text, isDirectory, Template
<1>2. t.prefix # << >> /\ endsInPathSeparator(t.prefix)
  BY DEF isDirectory, endsInPathSeparator
<1>3. \A i \in DOMAIN t.prefix : t.prefix[i] # Delim
  BY DEF Range
<1>4. t.prefix \in Words(Chars)
  BY <1>1, <1>2, <1>3 DEF Words
<1> QED BY <1>1, <1>2, <1>4 DEF createFromDirectory

\* A word makes a directory, and adds no delimiter to it.
LEMMA DirectoryCreated ==
    ASSUME NEW w \in Words(Chars)
    PROVE  LET t == createFromDirectory(w)
           IN  t \in Templates /\ isDirectory(t) /\ Delim \notin Range(t.prefix)
<1> DEFINE pre == IF endsInPathSeparator(w) THEN w ELSE w \o <<"/">>
<1>1. createFromDirectory(w) = Template(pre, << >>, TRUE)
  BY DEF createFromDirectory
<1>2. /\ w \in Seq(Chars \ {Delim}) /\ "/" \in Chars \ {Delim} /\ "/" \in Separators
  BY CharAssumption DEF Words, Delim
<1>3. pre \in Seq(Chars \ {Delim}) /\ endsInPathSeparator(pre)
  <2>1. w \o <<"/">> \in Seq(Chars \ {Delim})
    BY <1>2
  <2>2. Len(w \o <<"/">>) = Len(w) + 1 /\ (w \o <<"/">>)[Len(w) + 1] = "/"
    BY <1>2
  <2>3. w \o <<"/">> # << >>
    BY <1>2, <2>2
  <2>4. endsInPathSeparator(w \o <<"/">>)
    BY <1>2, <2>2, <2>3 DEF endsInPathSeparator, Last
  <2> QED BY <1>2, <2>1, <2>4
<1> HIDE DEF pre
<1>4. Delim \notin Range(pre)
  BY <1>3 DEF Range
<1>5. Template(pre, << >>, TRUE) \in Templates
  BY <1>3 DEF Template, Templates, Text
<1> QED BY <1>1, <1>3, <1>4, <1>5 DEF isDirectory, Template

\* A list of directories is printed, and read back.
LEMMA DirectoriesRead ==
    ASSUME NEW l \in Seq(Templates),
           \A i \in DOMAIN l : isDirectory(l[i]) /\ Delim \notin Range(l[i].prefix)
    PROVE  /\ listOfDirectoriesToString(l) # Throws
           /\ splitListOfDirectories(listOfDirectoriesToString(l)) = l
<1> DEFINE words == [i \in DOMAIN l |-> l[i].prefix]
<1>1. \A i \in DOMAIN l : /\ l[i].prefix \in Words(Chars)
                         /\ createFromDirectory(l[i].prefix) = l[i]
  BY DirectoryReads
<1>2. words \in Seq(Words(Chars)) /\ DOMAIN words = DOMAIN l
  BY <1>1
<1>3. listOfDirectoriesToString(l) = Joined(words)
  BY Zenon DEF listOfDirectoriesToString, Mapped
<1>4. \A i \in DOMAIN l : createFromDirectory(words[i]) = l[i]
  BY <1>1
<1> HIDE DEF words
<1>5. Delim \in Chars /\ Throws \notin Seq(Chars)
  BY CharAssumption DEF Delim
<1>6. Tokens(Joined(words)) = words /\ Joined(words) \in Seq(Chars)
  BY <1>2, <1>5, JoinedReads
<1>7. splitListOfDirectories(Joined(words)) = [i \in DOMAIN words |-> createFromDirectory(words[i])]
  BY <1>6, Zenon DEF splitListOfDirectories, Mapped
<1>8. [i \in DOMAIN words |-> createFromDirectory(words[i])] = [i \in DOMAIN l |-> l[i]]
  BY <1>2, <1>4
<1>9. l = [i \in DOMAIN l |-> l[i]]
  OBVIOUS
<1> QED BY <1>3, <1>5, <1>6, <1>7, <1>8, <1>9

\* What is known of a list that was split, and of any list.
PathInv ==
    /\ list \in Seq(Templates)
    /\ style = "templates" => \A i \in DOMAIN list : PrintsAsWord(list[i])
    /\ style = "directories" =>
          \A i \in DOMAIN list : isDirectory(list[i]) /\ Delim \notin Range(list[i].prefix)

LEMMA StringsAreText ==
    ASSUME NEW n \in Nat, NEW s \in Strings(n) PROVE s \in Text
BY DEF Strings, Text

LEMMA SplitTemplatesKeeps ==
    ASSUME NEW s \in Strings(MaxInput), SplitTemplates(s) PROVE PathInv'
<1> DEFINE words == Tokens(s)
<1>1. words \in Seq(Words(Chars))
  BY EditAssumption, StringsAreText, TokensTyped DEF Text
<1>2. list' = [i \in DOMAIN words |-> createFromTemplate(words[i])] /\ style' = "templates"
  BY Zenon DEF SplitTemplates, splitListOfFilenameTemplates, Mapped
<1> HIDE DEF words
<1>3. \A i \in DOMAIN words : /\ words[i] \in Words(Chars) /\ words[i] \in Text
  BY <1>1 DEF Words, Text
<1>4. \A i \in DOMAIN words : /\ createFromTemplate(words[i]) \in Templates
                              /\ PrintsAsWord(createFromTemplate(words[i]))
  BY <1>3, TemplatePrints, CreatedPrints
<1>5. list' \in Seq(Templates) /\ DOMAIN list' = DOMAIN words
  BY <1>1, <1>2, <1>4
<1>6. \A i \in DOMAIN list' : PrintsAsWord(list'[i])
  BY <1>2, <1>4, <1>5
<1> QED BY <1>2, <1>5, <1>6 DEF PathInv, PrintsAsWord

LEMMA SplitDirectoriesKeeps ==
    ASSUME NEW s \in Strings(MaxInput), SplitDirectories(s) PROVE PathInv'
<1> DEFINE words == Tokens(s)
<1>1. words \in Seq(Words(Chars))
  BY EditAssumption, StringsAreText, TokensTyped DEF Text
<1>2. list' = [i \in DOMAIN words |-> createFromDirectory(words[i])] /\ style' = "directories"
  BY Zenon DEF SplitDirectories, splitListOfDirectories, Mapped
<1> HIDE DEF words
<1>3. \A i \in DOMAIN words : /\ createFromDirectory(words[i]) \in Templates
                              /\ isDirectory(createFromDirectory(words[i]))
                              /\ Delim \notin Range(createFromDirectory(words[i]).prefix)
  BY <1>1, DirectoryCreated
<1>4. list' \in Seq(Templates) /\ DOMAIN list' = DOMAIN words
  BY <1>1, <1>2, <1>3
<1>5. \A i \in DOMAIN list' : isDirectory(list'[i]) /\ Delim \notin Range(list'[i].prefix)
  BY <1>2, <1>3, <1>4
<1> QED BY <1>2, <1>4, <1>5 DEF PathInv

LEMMA PathInductive == PathInv /\ [PathNext]_pathVars => PathInv'
<1> SUFFICES ASSUME PathInv, [PathNext]_pathVars PROVE PathInv'
  OBVIOUS
<1>1. list \in Seq(Templates)
  BY DEF PathInv
<1>2. CASE PushBack
  <2>1. PICK pre \in Strings(MaxEdit) : \E suff \in Strings(MaxEdit) :
            list' = Append(list, Template(pre, suff, TRUE))
    BY <1>2 DEF PushBack
  <2>2. PICK suff \in Strings(MaxEdit) : list' = Append(list, Template(pre, suff, TRUE))
    BY <2>1
  <2>3. Template(pre, suff, TRUE) \in Templates
    BY EditAssumption, StringsAreText DEF Template, Templates
  <2>4. \A t \in Templates : Append(list, t) \in Seq(Templates)
    BY <1>1
  <2>5. list' \in Seq(Templates)
    BY <2>2, <2>3, <2>4
  <2> QED BY <1>2, <2>5 DEF PushBack, PathInv
<1>3. ASSUME NEW i \in DOMAIN list, setPrefix(i) PROVE PathInv'
  <2>1. PICK s \in Strings(MaxEdit) : list' = [list EXCEPT ![i].prefix = s]
    BY <1>3 DEF setPrefix
  <2>2. s \in Text /\ list[i] \in Templates
    BY <1>1, EditAssumption, StringsAreText
  <2>3. [list[i] EXCEPT !.prefix = s] \in Templates
    BY <2>2 DEF Templates
  <2>4. list' \in Seq(Templates)
    BY <1>1, <2>1, <2>3
  <2> QED BY <1>3, <2>4 DEF setPrefix, PathInv
<1>4. ASSUME NEW i \in DOMAIN list, setSuffix(i) PROVE PathInv'
  <2>1. PICK s \in Strings(MaxEdit) : list' = [list EXCEPT ![i].suffix = s]
    BY <1>4 DEF setSuffix
  <2>2. s \in Text /\ list[i] \in Templates /\ list[i].hasPlaceholder
    BY <1>1, <1>4, EditAssumption, StringsAreText DEF setSuffix
  <2>3. [list[i] EXCEPT !.suffix = s] \in Templates
    BY <2>2 DEF Templates
  <2>4. list' \in Seq(Templates)
    BY <1>1, <2>1, <2>3
  <2> QED BY <1>4, <2>4 DEF setSuffix, PathInv
<1>5. CASE UNCHANGED pathVars
  BY <1>5 DEF pathVars, PathInv, PrintsAsWord
<1> QED BY <1>2, <1>3, <1>4, <1>5, SplitTemplatesKeeps, SplitDirectoriesKeeps
        DEF PathNext

LEMMA PathInvariant == PathSpec => []PathInv
<1>1. PathInit => PathInv
  BY DEF PathInit, PathInv
<1> QED BY <1>1, PathInductive, PTL DEF PathSpec

\* Printing a list of templates that was split from a path, or that a path can
\* express, and splitting that again gives the list: for paths of any length
\* and lists of any size.
THEOREM TemplatesAreReadBack == PathSpec => []TemplatesReadBack
<1>1. ASSUME PathInv PROVE TemplatesReadBack
  <2> SUFFICES ASSUME style = "templates" \/ \A i \in DOMAIN list : Expressible(list[i])
               PROVE  splitListOfFilenameTemplates(listOfFilenameTemplatesToString(list)) = list
    BY DEF TemplatesReadBack
  <2>1. list \in Seq(Templates)
    BY <1>1 DEF PathInv
  <2>2. \A i \in DOMAIN list : PrintsAsWord(list[i])
    BY <1>1, <2>1, ExpressiblePrints DEF PathInv
  <2> QED BY <2>1, <2>2, ListReadsBack
<1> QED BY <1>1, PathInvariant, PTL

\* The same for a list of directories, which is printed without an exception.
THEOREM DirectoriesAreReadBack == PathSpec => []DirectoriesReadBack
<1>1. ASSUME PathInv PROVE DirectoriesReadBack
  <2> SUFFICES ASSUME \/ style = "directories"
                      \/ \A i \in DOMAIN list : /\ isDirectory(list[i])
                                                /\ Delim \notin Range(list[i].prefix)
               PROVE  /\ listOfDirectoriesToString(list) # Throws
                      /\ splitListOfDirectories(listOfDirectoriesToString(list)) = list
    BY DEF DirectoriesReadBack, Delim
  <2>1. list \in Seq(Templates)
    BY <1>1 DEF PathInv
  <2>2. \A i \in DOMAIN list : isDirectory(list[i]) /\ Delim \notin Range(list[i].prefix)
    BY <1>1 DEF PathInv
  <2> QED BY <2>1, <2>2, DirectoriesRead
<1> QED BY <1>1, PathInvariant, PTL

-----------------------------------------------------------------------------
(* CubeComponents.  What the library folds is summed here.                 *)

AnyOf(s) == CHOOSE y \in s : TRUE

\* A fold of a finite set by addition is any function that grows by the term of
\* every element it gains.
LEMMA SumOfTerms ==
    ASSUME NEW S, IsFiniteSet(S), NEW t \in [S -> Int], NEW f \in [SUBSET S -> Int],
           f[{}] = 0, \A s \in SUBSET S : \A x \in s : f[s] = f[s \ {x}] + t[x],
           NEW g, g[{}] = 0,
           \A s \in SUBSET S : s # {} =>
               g[s] \in {g[s \ {AnyOf(s)}] + t[AnyOf(s)], t[AnyOf(s)] + g[s \ {AnyOf(s)}]}
    PROVE  g[S] = f[S]
<1> DEFINE Agree == {n \in Nat : \A s \in SUBSET S : Cardinality(s) = n => g[s] = f[s]}
<1>1. \A s \in SUBSET S : IsFiniteSet(s) /\ Cardinality(s) \in Nat
  BY FS_Subset, FS_CardinalityType
<1>2. 0 \in Agree
  BY <1>1, FS_EmptySet
<1>3. ASSUME NEW n \in Nat, n \in Agree PROVE n + 1 \in Agree
  <2> SUFFICES ASSUME NEW s \in SUBSET S, Cardinality(s) = n + 1 PROVE g[s] = f[s]
    OBVIOUS
  <2>1. s # {}
    <3>1. n + 1 # 0
      OBVIOUS
    <3> QED BY <3>1, FS_EmptySet, Zenon
  <2>2. AnyOf(s) \in s
    BY <2>1 DEF AnyOf
  <2>3. Cardinality(s \ {AnyOf(s)}) = n
    BY <1>1, <2>2, FS_RemoveElement
  <2>4. g[s \ {AnyOf(s)}] = f[s \ {AnyOf(s)}]
    BY <1>3, <2>3
  <2> DEFINE x == AnyOf(s)
             r == s \ {x}
  <2>5. r \in SUBSET S /\ f[r] \in Int /\ t[x] \in Int
    BY <2>2
  <2>6. f[s] = f[r] + t[x]
    BY <2>2
  <2>7. g[s] \in {g[r] + t[x], t[x] + g[r]}
    BY <2>1
  <2>8. g[r] = f[r]
    BY <2>4
  <2> HIDE DEF r, x
  <2> QED BY <2>5, <2>6, <2>7, <2>8
<1> HIDE DEF Agree
<1>4. Nat \subseteq Agree
  BY <1>2, <1>3, SetInduction
<1> QED BY <1>1, <1>4 DEF Agree

Binary == {0, 1}
CubeVertices == [Places(3) -> Binary]
Faces == [fixedBit : Places(3), bitval : Binary]
FaceVertices == [face : Faces, vertexID : Places(FaceVertexCount)]

PlaceValue(s, bits) ==
    (IF 0 \in s THEN bits[0] ELSE 0) + (IF 1 \in s THEN bits[1] * 2 ELSE 0)
        + (IF 2 \in s THEN bits[2] * 4 ELSE 0)

LEMMA PlacesAre == /\ Places(2) = {0, 1} /\ Places(3) = {0, 1, 2}
                   /\ Places(FaceVertexCount) = {0, 1, 2, 3}
BY DEF Places, FaceVertexCount

LEMMA Powers == 2^0 = 1 /\ 2^1 = 2 /\ 2^2 = 4
OBVIOUS

\* What folds over the elements of S by the terms of bits.
IsBitFold(g, bits, S) ==
    g = [s \in SUBSET S |->
            IF s = {} THEN 0 ELSE g[s \ {AnyOf(s)}] + bits[AnyOf(s)] * 2^AnyOf(s)]

LEMMA ToUlongIs ==
    ASSUME NEW bits
    PROVE  to_ulong(bits) = (CHOOSE g : IsBitFold(g, bits, DOMAIN bits))[DOMAIN bits]
BY Zenon DEF to_ulong, FoldSet, MapThenFoldSet, IsBitFold, AnyOf

\* The number of two or three bits.
LEMMA NumberOfBits ==
    ASSUME NEW n \in {2, 3}, NEW bits \in [Places(n) -> Binary]
    PROVE  to_ulong(bits) = PlaceValue(Places(n), bits)
<1> DEFINE S == Places(n)
           t == [b \in S |-> bits[b] * 2^b]
           f == [s \in SUBSET S |-> PlaceValue(s, bits)]
           Fits(g) == IsBitFold(g, bits, S)
           fold == CHOOSE g : Fits(g)
<1>1. to_ulong(bits) = fold[S]
  <2>1. DOMAIN bits = S
    OBVIOUS
  <2> QED BY <2>1, ToUlongIs, Zenon
<1>2. S = IF n = 2 THEN {0, 1} ELSE {0, 1, 2}
  BY PlacesAre
<1>3. \A b \in S : bits[b] \in Binary /\ bits[b] * 2^b = IF b = 0 THEN bits[0]
                                   ELSE IF b = 1 THEN bits[1] * 2 ELSE bits[2] * 4
  <2>1. \A b \in S : bits[b] \in Binary
    OBVIOUS
  <2>2. \A x \in Binary : x * 1 = x
    BY DEF Binary
  <2> QED BY <1>2, <2>1, <2>2, Powers
<1>4. t \in [S -> Int]
  BY <1>2, <1>3 DEF Binary
<1>5. f \in [SUBSET S -> Int]
  BY <1>2, <1>3 DEF PlaceValue, Binary
<1>6. f[{}] = 0
  BY DEF PlaceValue
<1>7. ASSUME NEW s \in SUBSET S, NEW x \in s PROVE f[s] = f[s \ {x}] + t[x]
  <2>1. x \in S /\ s \ {x} \in SUBSET S
    OBVIOUS
  <2> QED BY <1>2, <1>3, <2>1 DEF PlaceValue, Binary
<1>8. \A s \in SUBSET S : s # {} => AnyOf(s) \in s
  BY DEF AnyOf
<1>9. Fits(f)
  <2>1. \A s \in SUBSET S : s # {} => f[s] = f[s \ {AnyOf(s)}] + bits[AnyOf(s)] * 2^AnyOf(s)
    BY <1>7, <1>8
  <2> HIDE DEF f
  <2>2. f = [s \in SUBSET S |-> f[s]]
    BY <1>5
  <2> QED BY <1>6, <2>1, <2>2 DEF IsBitFold
<1>10. Fits(fold)
  BY <1>9, Zenon
<1>11. fold[{}] = 0
  BY <1>10, Zenon DEF IsBitFold
<1>12. \A s \in SUBSET S : s # {} => fold[s] = fold[s \ {AnyOf(s)}] + t[AnyOf(s)]
  BY <1>8, <1>10 DEF IsBitFold
<1>13. IsFiniteSet(S)
  BY FS_Interval DEF Places
<1> HIDE DEF fold, f, t
<1>14. fold[S] = f[S]
  <2>1. \A s \in SUBSET S : s # {} =>
            fold[s] \in {fold[s \ {AnyOf(s)}] + t[AnyOf(s)], t[AnyOf(s)] + fold[s \ {AnyOf(s)}]}
    BY <1>12
  <2> HIDE DEF S
  <2> QED BY <2>1, <1>4, <1>5, <1>6, <1>7, <1>11, <1>13, SumOfTerms
<1> QED BY <1>1, <1>14 DEF f

LEMMA FaceBits ==
    ASSUME NEW k \in Places(FaceVertexCount)
    PROVE  /\ Bitset(k, 2) \in [Places(2) -> Binary]
           /\ Bitset(k, 2)[0] = k % 2 /\ Bitset(k, 2)[1] = k \div 2
           /\ k % 2 \in Binary /\ k \div 2 \in Binary /\ k = (k % 2) + (k \div 2) * 2
<1>1. k \in {0, 1, 2, 3}
  BY PlacesAre
<1>2. /\ k % 2 \in Binary /\ k \div 2 \in Binary /\ k = (k % 2) + (k \div 2) * 2
      /\ (k \div 1) % 2 = k % 2 /\ (k \div 2) % 2 = k \div 2
  BY <1>1 DEF Binary
<1> QED BY <1>2, PlacesAre, Powers DEF Bitset

\* The fixed bit and the free ones are the bits of a vertex.
LEMMA FreeBits ==
    ASSUME NEW f \in Faces
    PROVE  /\ Places(3) = {f.fixedBit, FreeBit(f, 0), FreeBit(f, 1)}
           /\ f.fixedBit # FreeBit(f, 0) /\ f.fixedBit # FreeBit(f, 1)
           /\ FreeBit(f, 0) # FreeBit(f, 1)
<1>1. f.fixedBit \in {0, 1, 2}
  BY PlacesAre DEF Faces
<1> QED BY <1>1, PlacesAre DEF FreeBit

\* They tell vertices apart.
LEMMA SameVertex ==
    ASSUME NEW f \in Faces, NEW c \in CubeVertices, NEW d \in CubeVertices,
           c[f.fixedBit] = d[f.fixedBit], \A n \in Places(2) : c[FreeBit(f, n)] = d[FreeBit(f, n)]
    PROVE  c = d
<1>1. c[FreeBit(f, 0)] = d[FreeBit(f, 0)] /\ c[FreeBit(f, 1)] = d[FreeBit(f, 1)]
  BY PlacesAre
<1> QED BY <1>1, FreeBits DEF CubeVertices

\* A face vertex is the cube vertex with its bits in the free places.
LEMMA CubeVertexIs ==
    ASSUME NEW f \in Faces, NEW k \in Places(FaceVertexCount)
    PROVE  LET c == getCubeVertex(FaceVertex(f, k))
           IN  /\ c \in CubeVertices /\ c[f.fixedBit] = f.bitval
               /\ c[FreeBit(f, 0)] = k % 2 /\ c[FreeBit(f, 1)] = k \div 2
<1> DEFINE i == f.fixedBit
           bits == Bitset(k, 2)
           c == getCubeVertex(FaceVertex(f, k))
<1>1. i \in {0, 1, 2} /\ f.bitval \in Binary
  BY PlacesAre DEF Faces
<1>2. bits[0] \in Binary /\ bits[1] \in Binary /\ bits[0] = k % 2 /\ bits[1] = k \div 2
  BY FaceBits
<1>3. c = bitsetInsert(bits, f.bitval, i)
  BY DEF getCubeVertex, FaceVertex
<1>4. DOMAIN c = {0, 1, 2} /\ c = [b \in DOMAIN c |-> c[b]]
  BY <1>3, PlacesAre DEF bitsetInsert
<1>5. CASE i = 0
  <2>1. c[0] = f.bitval /\ c[1] = bits[0] /\ c[2] = bits[1]
    BY <1>3, <1>5, PlacesAre DEF bitsetInsert
  <2> QED BY <1>1, <1>2, <1>4, <1>5, <2>1, PlacesAre DEF CubeVertices, FreeBit
<1>6. CASE i = 1
  <2>1. c[0] = bits[0] /\ c[1] = f.bitval /\ c[2] = bits[1]
    BY <1>3, <1>6, PlacesAre DEF bitsetInsert
  <2> QED BY <1>1, <1>2, <1>4, <1>6, <2>1, PlacesAre DEF CubeVertices, FreeBit
<1>7. CASE i = 2
  <2>1. c[0] = bits[0] /\ c[1] = bits[1] /\ c[2] = f.bitval
    BY <1>3, <1>7, PlacesAre DEF bitsetInsert
  <2> QED BY <1>1, <1>2, <1>4, <1>7, <2>1, PlacesAre DEF CubeVertices, FreeBit
<1> QED BY <1>1, <1>5, <1>6, <1>7

\* The corners of a face are the vertices that have its value in the fixed bit.
LEMMA CornersAre ==
    ASSUME NEW f \in Faces
    PROVE  Corners(f) = {c \in CubeVertices : c[f.fixedBit] = f.bitval}
<1>1. Corners(f) \subseteq {c \in CubeVertices : c[f.fixedBit] = f.bitval}
  BY CubeVertexIs DEF Corners
<1>2. ASSUME NEW c \in CubeVertices, c[f.fixedBit] = f.bitval PROVE c \in Corners(f)
  <2> DEFINE k == c[FreeBit(f, 0)] + c[FreeBit(f, 1)] * 2
             d == getCubeVertex(FaceVertex(f, k))
  <2>1. c[FreeBit(f, 0)] \in Binary /\ c[FreeBit(f, 1)] \in Binary
    BY FreeBits DEF CubeVertices
  <2>2. k \in Places(FaceVertexCount) /\ k % 2 = c[FreeBit(f, 0)] /\ k \div 2 = c[FreeBit(f, 1)]
    BY <2>1, PlacesAre DEF Binary
  <2> HIDE DEF k
  <2>3. /\ d \in CubeVertices /\ d[f.fixedBit] = f.bitval
        /\ d[FreeBit(f, 0)] = k % 2 /\ d[FreeBit(f, 1)] = k \div 2
    BY <2>2, CubeVertexIs
  <2>4. c = d
    BY <1>2, <2>2, <2>3, SameVertex, PlacesAre
  <2> QED BY <2>2, <2>4 DEF Corners
<1> QED BY <1>1, <1>2

\* A step on a face flips one of its two bits.
LEMMA FaceNeighborIs ==
    ASSUME NEW f \in Faces, NEW k \in Places(FaceVertexCount), NEW n \in Places(2)
    PROVE  \E j \in Places(FaceVertexCount) :
               /\ getFaceNeighbor(FaceVertex(f, k), n) = FaceVertex(f, j)
               /\ j % 2 = IF n = 0 THEN 1 - (k % 2) ELSE k % 2
               /\ j \div 2 = IF n = 1 THEN 1 - k \div 2 ELSE k \div 2
<1> DEFINE bits == Bitset(k, 2)
           flipped == flip(bits, n)
           j == to_ulong(flipped)
<1>1. bits \in [Places(2) -> Binary] /\ bits[0] = k % 2 /\ bits[1] = k \div 2
  BY FaceBits
<1> HIDE DEF bits
<1>2. /\ flipped \in [Places(2) -> Binary]
      /\ flipped[0] = IF n = 0 THEN 1 - (k % 2) ELSE k % 2
      /\ flipped[1] = IF n = 1 THEN 1 - k \div 2 ELSE k \div 2
  BY <1>1, PlacesAre DEF flip, Binary
<1> HIDE DEF flipped
<1>3. flipped[0] \in Binary /\ flipped[1] \in Binary
  BY <1>2, PlacesAre
<1>4. j = PlaceValue(Places(2), flipped)
  BY <1>2, NumberOfBits
<1>5. j = flipped[0] + flipped[1] * 2
  BY <1>3, <1>4, PlacesAre DEF PlaceValue, Binary
<1> HIDE DEF j
<1>6. j \in Places(FaceVertexCount) /\ j % 2 = flipped[0] /\ j \div 2 = flipped[1]
  BY <1>3, <1>5, PlacesAre DEF Binary
<1>7. getFaceNeighbor(FaceVertex(f, k), n) = FaceVertex(f, j)
  BY DEF getFaceNeighbor, FaceVertex, j, flipped, bits
<1> QED BY <1>2, <1>6, <1>7

LEMMA NeighborIs ==
    ASSUME NEW v \in CubeVertices, NEW m \in Places(3)
    PROVE  /\ getNeighbor(v, m) \in CubeVertices
           /\ \A b \in Places(3) : getNeighbor(v, m)[b] = IF b = m THEN 1 - v[b] ELSE v[b]
BY DEF getNeighbor, flip, CubeVertices, Binary

\* A step to a neighbour on the face is one on the cube along a free axis.
LEMMA StepsAgree ==
    ASSUME NEW f \in Faces, NEW k \in Places(FaceVertexCount), NEW n \in Places(2)
    PROVE  getCubeVertex(getFaceNeighbor(FaceVertex(f, k), n))
               = getNeighbor(getCubeVertex(FaceVertex(f, k)), FreeBit(f, n))
<1> DEFINE v == getCubeVertex(FaceVertex(f, k))
           there == getNeighbor(v, FreeBit(f, n))
<1>1. PICK j \in Places(FaceVertexCount) :
               /\ getFaceNeighbor(FaceVertex(f, k), n) = FaceVertex(f, j)
               /\ j % 2 = IF n = 0 THEN 1 - (k % 2) ELSE k % 2
               /\ j \div 2 = IF n = 1 THEN 1 - k \div 2 ELSE k \div 2
  BY FaceNeighborIs
<1> DEFINE c == getCubeVertex(FaceVertex(f, j))
<1>2. /\ v \in CubeVertices /\ v[f.fixedBit] = f.bitval
      /\ v[FreeBit(f, 0)] = k % 2 /\ v[FreeBit(f, 1)] = k \div 2
  BY CubeVertexIs
<1>3. /\ c \in CubeVertices /\ c[f.fixedBit] = f.bitval
      /\ c[FreeBit(f, 0)] = j % 2 /\ c[FreeBit(f, 1)] = j \div 2
  BY CubeVertexIs
<1> HIDE DEF v, c
<1>4. n \in {0, 1}
  BY PlacesAre
<1>5. FreeBit(f, n) \in Places(3)
  BY <1>4, FreeBits
<1>6. /\ there \in CubeVertices
      /\ \A m \in Places(3) : there[m] = IF m = FreeBit(f, n) THEN 1 - v[m] ELSE v[m]
  BY <1>2, <1>5, NeighborIs
<1> HIDE DEF there
<1>7. /\ there[f.fixedBit] = c[f.fixedBit]
      /\ there[FreeBit(f, 0)] = c[FreeBit(f, 0)] /\ there[FreeBit(f, 1)] = c[FreeBit(f, 1)]
  <2>1. /\ f.fixedBit \in Places(3) /\ FreeBit(f, 0) \in Places(3) /\ FreeBit(f, 1) \in Places(3)
        /\ f.fixedBit # FreeBit(f, 0) /\ f.fixedBit # FreeBit(f, 1)
        /\ FreeBit(f, 0) # FreeBit(f, 1)
    BY FreeBits
  <2>2. CASE n = 0
    <3>1. j % 2 = 1 - (k % 2) /\ j \div 2 = k \div 2
      BY <1>1, <2>2
    <3>2. /\ there[f.fixedBit] = v[f.fixedBit] /\ there[FreeBit(f, 1)] = v[FreeBit(f, 1)]
          /\ there[FreeBit(f, 0)] = 1 - v[FreeBit(f, 0)]
      BY <1>6, <2>1, <2>2
    <3>3. there[FreeBit(f, 0)] = 1 - (k % 2)
      BY <1>2, <3>2, Zenon
    <3>4. there[FreeBit(f, 0)] = c[FreeBit(f, 0)]
      BY <1>3, <3>1, <3>3, Zenon
    <3> QED BY <1>2, <1>3, <3>1, <3>2, <3>4, Zenon
  <2>3. CASE n = 1
    BY <1>1, <1>2, <1>3, <1>6, <2>1, <2>3
  <2> QED BY <1>4, <2>2, <2>3
<1>8. there = c
  BY <1>3, <1>6, <1>7, SameVertex, PlacesAre
<1> QED BY <1>1, <1>8 DEF v, c, there

\* No axis but the fixed one leaves the face.
LEMMA FixedAxisLeaves ==
    ASSUME NEW f \in Faces, NEW v \in Corners(f), NEW m \in Places(3)
    PROVE  getNeighbor(v, m) \in Corners(f) <=> m # f.fixedBit
<1>1. v \in CubeVertices /\ v[f.fixedBit] = f.bitval /\ f.fixedBit \in Places(3)
      /\ f.bitval \in Binary
  BY CornersAre DEF Faces
<1>2. getNeighbor(v, m) \in CubeVertices
  BY <1>1, NeighborIs
<1>3. getNeighbor(v, m)[f.fixedBit] = IF m = f.fixedBit THEN 1 - f.bitval ELSE f.bitval
  BY <1>1, NeighborIs
<1>4. 1 - f.bitval # f.bitval
  BY <1>1 DEF Binary
<1> QED BY <1>2, <1>3, <1>4, CornersAre

\* The corners of a face, and the bits that tell them apart.
LEMMA CornersNamed ==
    ASSUME NEW f \in Faces
    PROVE  \E c0, c1, c2, c3 \in CubeVertices :
               /\ Corners(f) = {c0, c1, c2, c3}
               /\ c0[FreeBit(f, 0)] = 0 /\ c0[FreeBit(f, 1)] = 0
               /\ c1[FreeBit(f, 0)] = 1 /\ c1[FreeBit(f, 1)] = 0
               /\ c2[FreeBit(f, 0)] = 0 /\ c2[FreeBit(f, 1)] = 1
               /\ c3[FreeBit(f, 0)] = 1 /\ c3[FreeBit(f, 1)] = 1
<1> DEFINE c(k) == getCubeVertex(FaceVertex(f, k))
<1>1. \A k \in {0, 1, 2, 3} : /\ c(k) \in CubeVertices
                              /\ c(k)[FreeBit(f, 0)] = k % 2 /\ c(k)[FreeBit(f, 1)] = k \div 2
  BY CubeVertexIs, PlacesAre
<1>2. Corners(f) = {c(0), c(1), c(2), c(3)}
  BY PlacesAre DEF Corners
<1> HIDE DEF c
<1>3. /\ 0 % 2 = 0 /\ 0 \div 2 = 0 /\ 1 % 2 = 1 /\ 1 \div 2 = 0
      /\ 2 % 2 = 0 /\ 2 \div 2 = 1 /\ 3 % 2 = 1 /\ 3 \div 2 = 1
  OBVIOUS
<1>4. /\ c(0)[FreeBit(f, 0)] = 0 /\ c(0)[FreeBit(f, 1)] = 0
      /\ c(1)[FreeBit(f, 0)] = 1 /\ c(1)[FreeBit(f, 1)] = 0
      /\ c(2)[FreeBit(f, 0)] = 0 /\ c(2)[FreeBit(f, 1)] = 1
      /\ c(3)[FreeBit(f, 0)] = 1 /\ c(3)[FreeBit(f, 1)] = 1
  BY <1>1, <1>3
<1>5. c(0) \in CubeVertices /\ c(1) \in CubeVertices /\ c(2) \in CubeVertices
      /\ c(3) \in CubeVertices
  BY <1>1
<1> QED BY <1>2, <1>4, <1>5

LEMMA FourCorners ==
    ASSUME NEW f \in Faces
    PROVE  IsFiniteSet(Corners(f)) /\ Cardinality(Corners(f)) = FaceVertexCount
<1>1. PICK c0, c1, c2, c3 \in CubeVertices :
               /\ Corners(f) = {c0, c1, c2, c3}
               /\ c0[FreeBit(f, 0)] = 0 /\ c0[FreeBit(f, 1)] = 0
               /\ c1[FreeBit(f, 0)] = 1 /\ c1[FreeBit(f, 1)] = 0
               /\ c2[FreeBit(f, 0)] = 0 /\ c2[FreeBit(f, 1)] = 1
               /\ c3[FreeBit(f, 0)] = 1 /\ c3[FreeBit(f, 1)] = 1
  BY CornersNamed
<1>2. /\ c0 # c1 /\ c0 # c2 /\ c0 # c3 /\ c1 # c2 /\ c1 # c3 /\ c2 # c3
  BY <1>1
<1> DEFINE one == {c0}
           two == one \cup {c1}
           three == two \cup {c2}
<1>3. IsFiniteSet(one) /\ Cardinality(one) = 1
  BY FS_Singleton
<1>4. c1 \notin one /\ c2 \notin two /\ c3 \notin three
  BY <1>2
<1>5. three \cup {c3} = {c0, c1, c2, c3}
  OBVIOUS
<1> HIDE DEF one
<1>6. IsFiniteSet(two) /\ Cardinality(two) = 2
  BY <1>3, <1>4, FS_AddElement
<1> HIDE DEF two
<1>7. IsFiniteSet(three) /\ Cardinality(three) = 3
  BY <1>4, <1>6, FS_AddElement
<1> HIDE DEF three
<1>8. IsFiniteSet(three \cup {c3}) /\ Cardinality(three \cup {c3}) = 4
  BY <1>4, <1>7, FS_AddElement
<1> QED BY <1>1, <1>5, <1>8 DEF FaceVertexCount

\* What sums the coordinates of the vertices in S along an axis.
IsVertexFold(g, S, b) ==
    g = [s \in SUBSET S |->
            IF s = {} THEN 0 ELSE get(AnyOf(s))[b] + g[s \ {AnyOf(s)}]]

LEMMA VertexSumIs ==
    ASSUME NEW f, NEW b
    PROVE  MapThenSumSet(LAMBDA c : get(c)[b], Corners(f))
               = (CHOOSE g : IsVertexFold(g, Corners(f), b))[Corners(f)]
BY Zenon DEF MapThenSumSet, MapThenFoldSet, IsVertexFold, AnyOf

\* The centre of a face is in the middle of its corners.
LEMMA CenterIsMiddle ==
    ASSUME NEW f \in Faces, NEW b \in Places(3)
    PROVE  MapThenSumSet(LAMBDA c : get(c)[b], Corners(f))
               = FaceVertexCount * getCenter(f)[b]
<1>1. PICK c0, c1, c2, c3 \in CubeVertices :
               /\ Corners(f) = {c0, c1, c2, c3}
               /\ c0[FreeBit(f, 0)] = 0 /\ c0[FreeBit(f, 1)] = 0
               /\ c1[FreeBit(f, 0)] = 1 /\ c1[FreeBit(f, 1)] = 0
               /\ c2[FreeBit(f, 0)] = 0 /\ c2[FreeBit(f, 1)] = 1
               /\ c3[FreeBit(f, 0)] = 1 /\ c3[FreeBit(f, 1)] = 1
  BY CornersNamed
<1>2. /\ c0 # c1 /\ c0 # c2 /\ c0 # c3 /\ c1 # c2 /\ c1 # c3 /\ c2 # c3
  BY <1>1
<1> DEFINE S == Corners(f)
           t == [c \in S |-> get(c)[b]]
           a(s, c) == IF c \in s THEN t[c] ELSE 0
           h == [s \in SUBSET S |-> a(s, c0) + a(s, c1) + a(s, c2) + a(s, c3)]
           Fits(g) == IsVertexFold(g, S, b)
           fold == CHOOSE g : Fits(g)
<1>3. \A c \in S : c[b] \in Binary /\ get(c)[b] = c[b] * 2 - 1
  BY CornersAre DEF get, CubeVertices
<1>4. t \in [S -> Int]
  BY <1>3 DEF Binary
<1> HIDE DEF t
<1>5. h \in [SUBSET S -> Int]
  BY <1>1, <1>4
<1>6. h[{}] = 0
  OBVIOUS
<1>7. ASSUME NEW s \in SUBSET S, NEW x \in s PROVE h[s] = h[s \ {x}] + t[x]
  <2>1. x \in S /\ s \ {x} \in SUBSET S
    OBVIOUS
  <2>2. t[c0] \in Int /\ t[c1] \in Int /\ t[c2] \in Int /\ t[c3] \in Int
    BY <1>1, <1>4
  <2>3. x = c0 \/ x = c1 \/ x = c2 \/ x = c3
    BY <1>1, <2>1
  <2>4. \A c \in S : a(s \ {x}, c) = IF c = x THEN 0 ELSE a(s, c)
    OBVIOUS
  <2>5. \A c \in S : a(s, c) \in Int
    BY <1>4
  <2>6. a(s, x) = t[x] /\ t[x] \in Int
    BY <1>4
  <2> DEFINE r == s \ {x}
             a0 == a(s, c0)
             a1 == a(s, c1)
             a2 == a(s, c2)
             a3 == a(s, c3)
  <2>7. h[s] = a0 + a1 + a2 + a3 /\ h[r] = a(r, c0) + a(r, c1) + a(r, c2) + a(r, c3)
    BY <2>1
  <2>8. c0 \in S /\ c1 \in S /\ c2 \in S /\ c3 \in S
    BY <1>1
  <2>9. a0 \in Int /\ a1 \in Int /\ a2 \in Int /\ a3 \in Int
    BY <2>5, <2>8
  <2>10. /\ a(r, c0) = (IF c0 = x THEN 0 ELSE a0) /\ a(r, c1) = (IF c1 = x THEN 0 ELSE a1)
         /\ a(r, c2) = (IF c2 = x THEN 0 ELSE a2) /\ a(r, c3) = (IF c3 = x THEN 0 ELSE a3)
    BY <2>4, <2>8
  <2>11. /\ x = c0 => a0 = t[x]
         /\ x = c1 => a1 = t[x]
         /\ x = c2 => a2 = t[x]
         /\ x = c3 => a3 = t[x]
    BY <2>6
  <2> HIDE DEF a0, a1, a2, a3
  <2>12. h[r] = (IF c0 = x THEN 0 ELSE a0) + (IF c1 = x THEN 0 ELSE a1)
                    + (IF c2 = x THEN 0 ELSE a2) + (IF c3 = x THEN 0 ELSE a3)
    BY <2>7, <2>10
  <2> HIDE DEF a, h, S, r
  <2>13. h[s] = h[r] + t[x]
    <3>1. CASE x = c0
      BY <1>2, <2>6, <2>7, <2>9, <2>11, <2>12, <3>1
    <3>2. CASE x = c1
      BY <1>2, <2>6, <2>7, <2>9, <2>11, <2>12, <3>2
    <3>3. CASE x = c2
      BY <1>2, <2>6, <2>7, <2>9, <2>11, <2>12, <3>3
    <3>4. CASE x = c3
      BY <1>2, <2>6, <2>7, <2>9, <2>11, <2>12, <3>4
    <3> QED BY <2>3, <3>1, <3>2, <3>3, <3>4
  <2> QED BY <2>13 DEF r
<1>8. \A s \in SUBSET S : s # {} => AnyOf(s) \in s
  BY DEF AnyOf
<1>9. Fits(h)
  <2>1. \A s \in SUBSET S : s # {} => h[s] = get(AnyOf(s))[b] + h[s \ {AnyOf(s)}]
    <3> SUFFICES ASSUME NEW s \in SUBSET S, s # {}
                 PROVE  h[s] = get(AnyOf(s))[b] + h[s \ {AnyOf(s)}]
      OBVIOUS
    <3>1. AnyOf(s) \in s /\ AnyOf(s) \in S /\ s \ {AnyOf(s)} \in SUBSET S
      BY <1>8
    <3>2. h[s \ {AnyOf(s)}] \in Int /\ t[AnyOf(s)] \in Int
      BY <3>1, <1>4, <1>5
    <3>3. t[AnyOf(s)] = get(AnyOf(s))[b]
      BY <3>1 DEF t
    <3>4. h[s] = h[s \ {AnyOf(s)}] + t[AnyOf(s)]
      BY <1>7, <3>1
    <3> HIDE DEF h
    <3> QED BY <3>2, <3>3, <3>4
  <2> HIDE DEF h
  <2>2. h = [s \in SUBSET S |-> h[s]]
    BY <1>5
  <2> QED BY <1>6, <2>1, <2>2 DEF IsVertexFold
<1>10. Fits(fold)
  BY <1>9, Zenon
<1>11. fold[{}] = 0
  BY <1>10, Zenon DEF IsVertexFold
<1>12. \A s \in SUBSET S : s # {} => fold[s] = t[AnyOf(s)] + fold[s \ {AnyOf(s)}]
  <2> SUFFICES ASSUME NEW s \in SUBSET S, s # {}
               PROVE  fold[s] = t[AnyOf(s)] + fold[s \ {AnyOf(s)}]
    OBVIOUS
  <2>1. AnyOf(s) \in s /\ AnyOf(s) \in S
    BY <1>8
  <2>2. fold[s] = get(AnyOf(s))[b] + fold[s \ {AnyOf(s)}]
    BY <1>10, Zenon DEF IsVertexFold
  <2> QED BY <2>1, <2>2 DEF t
<1> HIDE DEF fold, h
<1>13. fold[S] = h[S]
  BY <1>4, <1>5, <1>6, <1>7, <1>11, <1>12, FourCorners, SumOfTerms
<1>14. h[S] = t[c0] + t[c1] + t[c2] + t[c3]
  BY <1>1 DEF h
<1>15. h[S] = (c0[b] * 2 - 1) + (c1[b] * 2 - 1) + (c2[b] * 2 - 1) + (c3[b] * 2 - 1)
  BY <1>1, <1>3, <1>14 DEF t
<1>16. fold[S] = FaceVertexCount * getCenter(f)[b]
  <2>1. getCenter(f)[b] = IF b = f.fixedBit THEN f.bitval * 2 - 1 ELSE 0
    BY DEF getCenter
  <2>2. CASE b = f.fixedBit
    <3>1. /\ c0[b] = f.bitval /\ c1[b] = f.bitval /\ c2[b] = f.bitval /\ c3[b] = f.bitval
      BY <1>1, <2>2, CornersAre
    <3>2. f.bitval \in Int
      BY DEF Faces, Binary
    <3> QED BY <1>13, <1>15, <2>1, <2>2, <3>1, <3>2 DEF FaceVertexCount
  <2>3. CASE b = FreeBit(f, 0)
    <3>1. b # f.fixedBit
      BY <2>3, FreeBits
    <3> QED BY <1>1, <1>13, <1>15, <2>1, <2>3, <3>1 DEF FaceVertexCount
  <2>4. CASE b = FreeBit(f, 1)
    <3>1. b # f.fixedBit
      BY <2>4, FreeBits
    <3> QED BY <1>1, <1>13, <1>15, <2>1, <2>4, <3>1 DEF FaceVertexCount
  <2> QED BY <2>2, <2>3, <2>4, FreeBits
<1> QED BY <1>16, VertexSumIs DEF fold

\* The number of a face names it again.
LEMMA FaceNumbers == ASSUME NEW f \in Faces PROVE FaceNumber(getID(f)) = f
<1> DEFINE i == f.fixedBit
           v == f.bitval
<1>1. i \in {0, 1, 2} /\ v \in {0, 1}
  BY PlacesAre DEF Faces, Binary
<1>2. f = [fixedBit |-> i, bitval |-> v]
  BY DEF Faces
<1> HIDE DEF i, v
<1>3. (v * 3 + i) % 3 = i /\ (v * 3 + i) \div 3 = v
  BY <1>1
<1>4. getID(f) = v * 3 + i
  BY DEF getID, i, v
<1> QED BY <1>2, <1>3, <1>4 DEF FaceNumber, Face

\* The number of a vertex names it again.
LEMMA VertexNumbers == ASSUME NEW v \in CubeVertices PROVE Bitset(to_ulong(v), 3) = v
<1> DEFINE n == to_ulong(v)
           x == v[0]
           y == v[1]
           z == v[2]
<1>1. x \in {0, 1} /\ y \in {0, 1} /\ z \in {0, 1}
  BY PlacesAre DEF CubeVertices, Binary
<1>2. n = PlaceValue(Places(3), v)
  BY NumberOfBits DEF CubeVertices
<1>3. n = x + y * 2 + z * 4
  BY <1>2, PlacesAre DEF PlaceValue
<1> HIDE DEF n, x, y, z
<1>4. (n \div 1) % 2 = x /\ (n \div 2) % 2 = y /\ (n \div 4) % 2 = z
  BY <1>1, <1>3
<1>5. Bitset(n, 3)[0] = v[0] /\ Bitset(n, 3)[1] = v[1] /\ Bitset(n, 3)[2] = v[2]
  BY <1>4, PlacesAre, Powers DEF Bitset, x, y, z
<1>6. Bitset(n, 3) = [b \in Places(3) |-> Bitset(n, 3)[b]]
  BY DEF Bitset
<1>7. \A b \in Places(3) : Bitset(n, 3)[b] = v[b]
  BY <1>5, PlacesAre
<1>8. v = [b \in Places(3) |-> v[b]]
  BY DEF CubeVertices
<1> QED BY <1>6, <1>7, <1>8 DEF n

CubeTypeOK == spot = Nowhere \/ spot \in FaceVertices

LEMMA FacesMade ==
    /\ \A j \in Nat : j < FaceCount => FaceNumber(j) \in Faces
    /\ \A k \in Nat : k < FaceVertexCount => k \in Places(FaceVertexCount)
    /\ \A f \in Faces, k \in Places(FaceVertexCount) : FaceVertex(f, k) \in FaceVertices
    /\ \A fv \in FaceVertices : /\ fv.face \in Faces
                                /\ fv.vertexID \in Places(FaceVertexCount)
                                /\ fv = FaceVertex(fv.face, fv.vertexID)
<1>1. ASSUME NEW j \in Nat, j < FaceCount PROVE FaceNumber(j) \in Faces
  <2>1. j \in {0, 1, 2, 3, 4, 5}
    BY <1>1 DEF FaceCount
  <2>2. j % 3 \in {0, 1, 2} /\ j \div 3 \in {0, 1}
    BY <2>1
  <2> QED BY <2>2, PlacesAre DEF FaceNumber, Face, Faces, Binary
<1>2. ASSUME NEW k \in Nat, k < FaceVertexCount PROVE k \in Places(FaceVertexCount)
  BY <1>2 DEF Places, FaceVertexCount
<1> QED BY <1>1, <1>2 DEF FaceVertices, FaceVertex

LEMMA CubeInductive == CubeTypeOK /\ [CubeNext]_cubeVars => CubeTypeOK'
<1> SUFFICES ASSUME CubeTypeOK, [CubeNext]_cubeVars PROVE CubeTypeOK'
  OBVIOUS
<1>1. ASSUME NEW j \in IDs, NEW k \in IDs, GoToFace(j, k) PROVE CubeTypeOK'
  <2>1. j \in Nat /\ k \in Nat
    BY CubeAssumption
  <2> QED BY <1>1, <2>1, FacesMade DEF GoToFace, CubeTypeOK
<1>2. ASSUME NEW bit \in IDs, NEW val \in {0, 1}, TurnToFace(bit, val) PROVE CubeTypeOK'
  <2>1. bit \in Nat /\ bit < 3
    BY <1>2, CubeAssumption DEF TurnToFace
  <2>2. bit \in {0, 1, 2}
    BY <2>1
  <2>3. Face(bit, val) \in Faces
    BY <2>2, PlacesAre DEF Face, Faces, Binary
  <2> QED BY <1>2, <2>3, FacesMade DEF TurnToFace, CubeTypeOK
<1>3. ASSUME NEW n \in IDs, StepOnFace(n) PROVE CubeTypeOK'
  <2>1. n \in Nat /\ n < 2 /\ spot \in FaceVertices
    BY <1>3, CubeAssumption DEF StepOnFace, CubeTypeOK
  <2>2. n \in Places(2)
    BY <2>1 DEF Places
  <2>3. getFaceNeighbor(spot, n) \in FaceVertices
    <3> DEFINE f == spot.face
               k == spot.vertexID
    <3>1. f \in Faces /\ k \in Places(FaceVertexCount) /\ spot = FaceVertex(f, k)
      BY <2>1, FacesMade
    <3> HIDE DEF f, k
    <3>2. \E j \in Places(FaceVertexCount) : getFaceNeighbor(FaceVertex(f, k), n) = FaceVertex(f, j)
      BY <2>2, <3>1, FaceNeighborIs
    <3> QED BY <3>1, <3>2, FacesMade
  <2> QED BY <1>3, <2>3 DEF StepOnFace, CubeTypeOK
<1> QED BY <1>1, <1>2, <1>3
        DEF CubeNext, GoToVertex, StepOnCube, LeaveFace, CubeTypeOK, cubeVars

\* Wherever a walk is on a face, it is on the cube too: steps on the face are
\* steps on the cube, and the face has its corners, its centre and its number.
THEOREM FacesArePartOfCube == CubeSpec => []FaceIsPartOfCube
<1>1. CubeInit => CubeTypeOK
  BY DEF CubeInit, CubeTypeOK
<1>2. ASSUME CubeTypeOK PROVE FaceIsPartOfCube
  <2> SUFFICES ASSUME spot # Nowhere PROVE FaceIsPartOfCube
    BY DEF FaceIsPartOfCube
  <2> DEFINE f == spot.face
             k == spot.vertexID
             v == getCubeVertex(spot)
  <2>1. f \in Faces /\ k \in Places(FaceVertexCount) /\ spot = FaceVertex(f, k)
    BY <1>2, FacesMade DEF CubeTypeOK
  <2>2. v \in Corners(f)
    BY <2>1 DEF Corners
  <2>3. \A n \in Places(2) :
            getCubeVertex(getFaceNeighbor(spot, n)) = getNeighbor(v, FreeBit(f, n))
    BY <2>1, StepsAgree
  <2>4. \A m \in Places(3) : getNeighbor(v, m) \in Corners(f) <=> m # f.fixedBit
    BY <2>1, <2>2, FixedAxisLeaves
  <2>5. Cardinality(Corners(f)) = FaceVertexCount
    BY <2>1, FourCorners
  <2>6. \A b \in Places(3) : MapThenSumSet(LAMBDA c : get(c)[b], Corners(f))
                                 = FaceVertexCount * getCenter(f)[b]
    BY <2>1, CenterIsMiddle
  <2>7. FaceNumber(getID(f)) = f
    BY <2>1, FaceNumbers
  <2>8. Bitset(to_ulong(v), 3) = v
    BY <2>1, <2>2, CornersAre, VertexNumbers
  <2> QED BY <2>2, <2>3, <2>4, <2>5, <2>6, <2>7, <2>8, Zenon DEF FaceIsPartOfCube
<1> QED BY <1>1, <1>2, CubeInductive, PTL DEF CubeSpec

=============================================================================
