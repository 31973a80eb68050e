------------------------ MODULE SequentialHeadersProofs ------------------------
(***************************************************************************)
(* Proofs about the headers one thread uses by itself: each behaves as its *)
(* own specification says, so what is proved of that holds in any program  *)
(* that uses one of them.                                                  *)
(***************************************************************************)
EXTENDS SequentialHeaders, SequentialObjectsProofs, FiniteSetTheorems, TLAPS

-----------------------------------------------------------------------------
(* TypeSequence: handles.                                                  *)

\* The handles kept are of types, and no two of the same type.
HandlesInv == /\ handles \subseteq type_info
              /\ \A a, b \in handles : EqualIds(a, b) => a = b

LEMMA HandlesInductive == HandlesInv /\ [TypeNext]_typeVars => HandlesInv'
<1> SUFFICES ASSUME HandlesInv, [TypeNext]_typeVars PROVE HandlesInv'
  OBVIOUS
<1> USE DEF HandlesInv
<1>1. ASSUME NEW i \in Indices, apply_at(i) PROVE HandlesInv'
  BY <1>1 DEF apply_at
<1>2. ASSUME NEW id \in type_info, Insert(id) PROVE HandlesInv'
  BY <1>2 DEF Insert, FindHandle, EqualIds
<1>3. ASSUME NEW id \in type_info, Erase(id) PROVE HandlesInv'
  BY <1>3 DEF Erase
<1>4. ASSUME NEW lib \in Libraries, InsertEmpty(lib) PROVE HandlesInv'
  BY <1>4, <1>2, TypeAssumption DEF InsertEmpty, type_info
<1>5. CASE UNCHANGED typeVars
  BY <1>5 DEF typeVars
<1> QED BY <1>1, <1>2, <1>3, <1>4, <1>5 DEF TypeNext

\* The handles a program keeps serve as keys, whichever libraries made them.
THEOREM HandlesServeAsKeys == TypeSpec => []HandlesAreKeys
<1>1. TypeInit => HandlesInv
  BY DEF TypeInit, HandlesInv
<1>2. HandlesInv => HandlesAreKeys
  <2> SUFFICES ASSUME HandlesInv PROVE HandlesAreKeys
    OBVIOUS
  <2>1. ASSUME NEW a \in handles, NEW b \in handles, a # b
        PROVE  before(a, b) <=> ~before(b, a)
    <3>1. a[1] \in Int /\ b[1] \in Int
      BY TypeAssumption DEF HandlesInv, type_info
    <3>2. a[1] # b[1]
      BY <2>1 DEF HandlesInv, EqualIds, TypeOfInfo
    <3> QED BY <3>1, <3>2 DEF before, TypeOfInfo
  <2> QED BY <2>1 DEF HandlesAreKeys
<1> QED BY <1>1, <1>2, HandlesInductive, PTL DEF TypeSpec

-----------------------------------------------------------------------------
(* FixedStrings.                                                           *)

\* How much of a string fits, with the null.
Cut(s) == IF Len(s) < N - 1 THEN Len(s) ELSE N - 1

\* What Min chooses.
LEMMA LeastIsMin ==
    ASSUME NEW S \in SUBSET Nat, NEW m \in S, \A y \in S : m <= y
    PROVE  Min(S) = m
<1>1. \A x \in S : (\A y \in S : x <= y) => x = m
  OBVIOUS
<1> QED BY <1>1, Zenon DEF Min

LEMMA CutIsMin ==
    ASSUME NEW s \in Seq(StringChars)
    PROVE  Min({Len(s), N - 1}) = Cut(s) /\ Cut(s) \in 0 .. N - 1 /\ Cut(s) <= Len(s)
<1>1. Len(s) \in Nat /\ N - 1 \in Nat
  BY StringAssumption
<1>2. Cut(s) \in {Len(s), N - 1} /\ \A y \in {Len(s), N - 1} : Cut(s) <= y
  BY <1>1 DEF Cut
<1>3. {Len(s), N - 1} \in SUBSET Nat
  BY <1>1
<1>4. Min({Len(s), N - 1}) = Cut(s)
  BY <1>2, <1>3, LeastIsMin, Zenon
<1> QED BY <1>1, <1>2, <1>4

\* As much of the string as fits stands in front of the first null.
StringInv == /\ dest \in [0 .. N - 1 -> StringChars \cup {NUL}]
             /\ source \in Seq(StringChars)
             /\ dest[Cut(source)] = NUL
             /\ \A i \in 0 .. Cut(source) - 1 : dest[i] = source[i + 1]

\* All of the C library's functions establish it.
LEMMA StringInductive == StringInv /\ [StringNext]_stringVars => StringInv'
<1> SUFFICES ASSUME StringInv, [StringNext]_stringVars PROVE StringInv'
  OBVIOUS
<1> USE DEF StringInv
<1>1. ASSUME NEW s \in Seq(StringChars), strcpy_safe(s) PROVE StringInv'
  <2>1. Cut(s) \in 0 .. N - 1 /\ Cut(s) <= Len(s) /\ Min({Len(s), N - 1}) = Cut(s)
    BY CutIsMin
  <2>2. source' = s
    BY <1>1 DEF strcpy_safe
  <2>3. CASE dest' = CopyBounded(s)
    <3>1. \A i \in 0 .. N - 1 :
             CopyBounded(s)[i] = IF i = N - 1 \/ i >= Len(s) THEN NUL ELSE s[i + 1]
      BY StringAssumption DEF CopyBounded, strncpy
    <3>2. CopyBounded(s) \in [0 .. N - 1 -> StringChars \cup {NUL}]
      BY StringAssumption DEF CopyBounded, strncpy
    <3> QED BY <3>1, <3>2, <2>1, <2>2, <2>3, StringAssumption DEF Cut
  <2>4. CASE dest' = CopyTruncated(s)
    <3>1. \A i \in 0 .. N - 1 :
             CopyTruncated(s)[i] = IF i < Cut(s) THEN s[i + 1]
                                   ELSE IF i = Cut(s) THEN NUL ELSE dest[i]
      BY <2>1 DEF CopyTruncated
    <3>2. CopyTruncated(s) \in [0 .. N - 1 -> StringChars \cup {NUL}]
      BY <2>1, StringAssumption DEF CopyTruncated
    <3> QED BY <3>1, <3>2, <2>1, <2>2, <2>4, StringAssumption
  <2> QED BY <1>1, <2>3, <2>4 DEF strcpy_safe
<1>2. CASE UNCHANGED stringVars
  BY <1>2 DEF stringVars, Cut
<1>3. ASSUME NEW k \in 0 .. MaxSourceLength, NEW s \in [1 .. k -> StringChars]
      PROVE  s \in Seq(StringChars)
  BY <1>3, StringAssumption
<1> QED BY <1>1, <1>2, <1>3 DEF StringNext

\* An array of any size reads back as the string copied last, as far as it
\* fits, with any of the C libraries.
THEOREM StringsAreHeld == StringSpec => []HoldsCopy
<1>1. StringInit => StringInv
  BY StringAssumption DEF StringInit, StringInv, Cut
<1>2. ASSUME StringInv PROVE HoldsCopy
  <2> DEFINE n == Cut(source)
  <2>1. n \in 0 .. N - 1 /\ n <= Len(source) /\ Min({Len(source), N - 1}) = n
    BY <1>2, CutIsMin DEF StringInv
  <2>2. Nulls(dest) \in SUBSET Nat /\ n \in Nulls(dest)
    BY <1>2, <2>1 DEF StringInv, Nulls
  <2>3. \A i \in 0 .. n - 1 : dest[i] = source[i + 1] /\ dest[i] # NUL
    BY <1>2, <2>1, StringAssumption DEF StringInv
  <2>4. \A i \in Nulls(dest) : n <= i
    BY <1>2, <2>1, <2>3, StringAssumption DEF Nulls, StringInv
  <2>5. Min(Nulls(dest)) = n
    BY <2>2, <2>4, LeastIsMin
  <2> HIDE DEF n
  <2>6. CString(dest) = [k \in 1 .. n |-> dest[k - 1]]
    BY <2>5 DEF CString
  <2>7. \A k \in 1 .. n : dest[k - 1] = source[k]
    BY <2>1, <2>3, StringAssumption
  <2>8. SubSeq(source, 1, n) = [k \in 1 .. n |-> source[k]]
    BY <2>1, <1>2, StringAssumption DEF StringInv
  <2>9. CString(dest) = SubSeq(source, 1, n)
    BY <2>6, <2>7, <2>8
  <2> QED BY <2>1, <2>2, <2>9 DEF HoldsCopy
<1> QED BY <1>1, <1>2, StringInductive, PTL DEF StringSpec

-----------------------------------------------------------------------------
(* Stride.                                                                 *)

LEMMA DivisionIs ==
    ASSUME NEW n \in Nat \ {0}, NEW q \in Nat, NEW r \in 0 .. n - 1
    PROVE  (q * n + r) \div n = q
OBVIOUS

LEMMA SmallRemainder ==
    ASSUME NEW a \in Nat, NEW b \in Nat, a < b
    PROVE  a % b = a
OBVIOUS

\* A use takes the step to the next one, or from the last back to 0: the
\* counter of the stride's width does not wrap before that.
LEMMA AdvancedIs ==
    ASSUME NEW n \in 1 .. 2^StrideWidth - 1, NEW k \in 0 .. n - 1
    PROVE  ((k + 1) % 2^StrideWidth) % n = IF k + 1 = n THEN 0 ELSE k + 1
<1> DEFINE w == 2^StrideWidth
<1>1. w \in Int /\ n < w
  BY StrideAssumption
<1> HIDE DEF w
<1>2. (k + 1) % w = k + 1
  BY <1>1, SmallRemainder
<1>3. n % n = 0
  OBVIOUS
<1>4. k + 1 # n => (k + 1) % n = k + 1
  BY SmallRemainder
<1> QED BY <1>2, <1>3, <1>4 DEF w

\* So many whole rounds are behind a stride, and step uses more.
Rounds(q) == /\ uses = q * stride.stride + stride.step
             /\ fires = IF stride.form = "prefix" /\ stride.step # 0 THEN q + 1 ELSE q

StrideType == [stride : 1 .. 2^StrideWidth - 1, step : Nat, form : {"prefix", "postfix"}]

StrideInv == IF stride = NoStride THEN uses = 0 /\ fires = 0
             ELSE /\ stride \in StrideType
                  /\ stride.step < stride.stride
                  /\ \E q \in Nat : Rounds(q)

LEMMA StrideAdvances == StrideInv /\ AdvanceStride => StrideInv'
<1> SUFFICES ASSUME StrideInv, AdvanceStride PROVE StrideInv'
  OBVIOUS
<1> DEFINE n == stride.stride
           k == stride.step
           l == IF k + 1 = n THEN 0 ELSE k + 1
<1>1. PICK q \in Nat : Rounds(q)
  BY DEF StrideInv, AdvanceStride
<1>2. stride \in StrideType /\ k < n /\ n \in 1 .. 2^StrideWidth - 1 /\ k \in 0 .. n - 1
  BY DEF StrideInv, AdvanceStride, StrideType
<1>3. stride' = [stride EXCEPT !.step = l]
  BY <1>2, AdvancedIs DEF AdvanceStride, advanced
<1>4. l \in 0 .. n - 1
  BY <1>2
<1>5. stride' \in StrideType /\ stride'.stride = n /\ stride'.step = l
        /\ stride'.form = stride.form /\ stride' # NoStride
  BY <1>2, <1>3, <1>4, StrideAssumption DEF StrideType
<1>6. uses' = q * n + k + 1
  BY <1>1, <1>2 DEF AdvanceStride, Rounds
<1>7. fires' = IF IF stride.form = "prefix" THEN k = 0 ELSE l = 0 THEN fires + 1 ELSE fires
  BY <1>2, <1>3, <1>5 DEF AdvanceStride, IsTrue, advanced
<1>8. fires = IF stride.form = "prefix" /\ k # 0 THEN q + 1 ELSE q
  BY <1>1 DEF Rounds
<1>9. CASE k + 1 = n
  <2>1. uses' = (q + 1) * n + 0
    <3> HIDE DEF n, k
    <3> QED BY <1>2, <1>6, <1>9
  <2>2. fires' = q + 1
    BY <1>2, <1>7, <1>8, <1>9
  <2>3. Rounds(q + 1)'
    BY <1>5, <1>9, <2>1, <2>2 DEF Rounds
  <2> QED BY <1>2, <1>4, <1>5, <2>3 DEF StrideInv
<1>10. CASE k + 1 # n
  <2>1. fires' = IF stride.form = "prefix" THEN q + 1 ELSE q
    BY <1>2, <1>7, <1>8, <1>10
  <2>2. Rounds(q)'
    BY <1>2, <1>5, <1>6, <1>10, <2>1 DEF Rounds
  <2> QED BY <1>2, <1>4, <1>5, <2>2 DEF StrideInv
<1> QED BY <1>9, <1>10

LEMMA StrideInductive == StrideInv /\ [StrideNext]_strideVars => StrideInv'
<1> SUFFICES ASSUME StrideInv, [StrideNext]_strideVars PROVE StrideInv'
  OBVIOUS
<1>1. ASSUME NEW n \in 1 .. 2^StrideWidth - 1, NEW form \in {"prefix", "postfix"},
             MakeStride(n, form)
      PROVE  StrideInv'
  <2>1. stride' = [stride |-> n, step |-> 0, form |-> form] /\ uses' = 0 /\ fires' = 0
    BY <1>1 DEF MakeStride, StrideInv
  <2>2. stride' \in StrideType /\ stride'.step < stride'.stride /\ stride' # NoStride
    BY <2>1, StrideAssumption DEF StrideType
  <2>3. 0 = 0 * n + 0
    OBVIOUS
  <2>4. Rounds(0)'
    BY <2>1, <2>3 DEF Rounds
  <2> QED BY <2>1, <2>2, <2>4 DEF StrideInv
<1>2. CASE EndStride
  BY <1>2 DEF EndStride, StrideInv
<1>3. CASE UNCHANGED strideVars
  BY <1>3 DEF strideVars, StrideInv, Rounds
<1> QED BY <1>1, <1>2, <1>3, StrideAdvances DEF StrideNext

\* One in n results is true, for every width of the counters.
THEOREM StrideFires == StrideSpec => []FiresEveryNth
<1>1. StrideInit => StrideInv
  BY DEF StrideInit, StrideInv
<1>2. ASSUME StrideInv, stride # NoStride
      PROVE  fires = IF stride.form = "prefix"
                     THEN (uses + stride.stride - 1) \div stride.stride
                     ELSE uses \div stride.stride
  <2> DEFINE n == stride.stride
             k == stride.step
  <2>1. PICK q \in Nat : Rounds(q)
    BY <1>2 DEF StrideInv
  <2>2. stride \in StrideType /\ n \in Nat \ {0} /\ k \in 0 .. n - 1
    BY <1>2 DEF StrideInv, StrideType
  <2>3. uses = q * n + k /\ fires = IF stride.form = "prefix" /\ k # 0 THEN q + 1 ELSE q
    BY <2>1 DEF Rounds
  <2> HIDE DEF n, k
  <2>4. uses \div n = q
    BY <2>2, <2>3, DivisionIs
  <2>5. CASE k = 0
    <3>1. uses + n - 1 = q * n + (n - 1) /\ n - 1 \in 0 .. n - 1
      BY <2>2, <2>3, <2>5
    <3> QED BY <2>2, <2>3, <2>4, <2>5, <3>1, DivisionIs DEF n
  <2>6. CASE k # 0
    <3>1. uses + n - 1 = (q + 1) * n + (k - 1) /\ k - 1 \in 0 .. n - 1 /\ q + 1 \in Nat
      BY <2>2, <2>3, <2>6
    <3>2. (uses + n - 1) \div n = q + 1
      BY <2>2, <3>1, DivisionIs
    <3> QED BY <2>3, <2>4, <2>6, <3>2 DEF n
  <2> QED BY <2>5, <2>6
<1>3. StrideInv => FiresEveryNth
  BY <1>2 DEF FiresEveryNth
<1> QED BY <1>1, <1>3, StrideInductive, PTL DEF StrideSpec

-----------------------------------------------------------------------------
(* SizeGenerator.                                                          *)

GeneratorType == [min : Word, max : Word, step : Word, rows : Word, cols : Word]

\* The numbers min, min + step, and so on, below the end of the counters.
Chain(g) == {n \in Word : \E k \in Nat : n = g.min + k * g.step}

LEMMA WordsAreNat == Word \subseteq Nat /\ 2^WordWidth \in Int
BY WordAssumption DEF Word

\* The loops go through the elements of the chain up to the maximum.
LEMMA StepsAreInChain ==
    ASSUME NEW g \in GeneratorType
    PROVE  \A n \in Steps(g) : n \in Chain(g) /\ n <= g.max
<1> SUFFICES ASSUME NEW n \in Steps(g)
             PROVE  n \in Word /\ n <= g.max /\ \E k \in Nat : n = g.min + k * g.step
  BY DEF Chain
<1> DEFINE a == g.min
           s == g.step
<1>1. n \in Word /\ a \in Word /\ s \in Word /\ a <= n /\ n <= g.max
  BY DEF Steps, GeneratorType
<1>2. n = a \/ (s > 0 /\ (n - a) % s = 0)
  BY DEF Steps
<1>3. n \in Nat /\ a \in Nat /\ s \in Nat
  BY <1>1, WordsAreNat
<1> HIDE DEF a, s
<1>4. n = a => n = a + 0 * s
  BY <1>3
<1>5. ASSUME s > 0, (n - a) % s = 0 PROVE \E k \in Nat : n = a + k * s
  <2>1. n - a \in Nat
    BY <1>1, <1>3
  <2>2. \E k \in Nat : n - a = k * s
    BY <1>3, <1>5, <2>1
  <2> QED BY <1>3, <2>2
<1> QED BY <1>1, <1>2, <1>4, <1>5 DEF a, s

\* Between an element of the chain and the next there is none.
LEMMA NextInChain ==
    ASSUME NEW g \in GeneratorType, NEW n \in Chain(g), NEW c \in Chain(g), n < c
    PROVE  n + g.step <= c
<1> DEFINE a == g.min
           s == g.step
<1>1. PICK k \in Nat : n = a + k * s
  BY DEF Chain
<1>2. PICK l \in Nat : c = a + l * s
  BY DEF Chain
<1>3. a \in Nat /\ s \in Nat
  BY WordsAreNat DEF GeneratorType
<1> HIDE DEF a, s
<1>4. l <= k => l * s <= k * s
  BY <1>3
<1>5. l >= k + 1
  BY <1>1, <1>2, <1>3, <1>4
<1>6. l * s >= (k + 1) * s
  BY <1>3, <1>5
<1>7. n + s <= c
  BY <1>1, <1>2, <1>3, <1>6
<1> QED BY <1>7 DEF s

\* A counter at an element of the chain goes to the next one, or it wraps and
\* there was no next.
LEMMA PlusInChain ==
    ASSUME NEW g \in GeneratorType, NEW n \in Chain(g)
    PROVE  \/ /\ Plus(n, g.step) \in Chain(g)
              /\ \A c \in Chain(g) : c <= n \/ Plus(n, g.step) <= c
           \/ \A c \in Chain(g) : c <= n
<1> DEFINE a == g.min
           s == g.step
           w == 2^WordWidth
<1>1. PICK k \in Nat : n = a + k * s
  BY DEF Chain
<1>2. a \in Nat /\ s \in Nat /\ w \in Int /\ n \in Nat /\ n < w
  BY WordsAreNat DEF GeneratorType, Chain, Word
<1>3. \A c \in Chain(g) : c \in Nat /\ c < w /\ (c <= n \/ n + s <= c)
  BY <1>2, WordsAreNat, NextInChain DEF Chain, Word
<1> HIDE DEF a, s, w
<1>4. CASE n + s < w
  <2>1. Plus(n, s) = n + s
    BY <1>2, <1>4, SmallRemainder DEF Plus, w
  <2>2. n + s = a + (k + 1) * s
    BY <1>1, <1>2
  <2>3. n + s \in Word
    BY <1>2, <1>4 DEF Word, w
  <2>4. n + s \in Chain(g)
    BY <2>2, <2>3 DEF Chain, a, s
  <2> QED BY <1>3, <2>1, <2>4 DEF s
<1>5. CASE ~(n + s < w)
  BY <1>2, <1>3, <1>5
<1> QED BY <1>4, <1>5

\* What a call of loop() does to the object.
LEMMA MovedIs ==
    ASSUME NEW g \in GeneratorType
    PROVE  /\ Moved(g) \in GeneratorType
           /\ Steps(Moved(g)) = Steps(g) /\ Chain(Moved(g)) = Chain(g)
           /\ Moved(g).max = g.max
           /\ g.cols > g.max => /\ Moved(g).cols = g.min
                                /\ Moved(g).rows = Plus(g.rows, g.step)
           /\ ~(g.cols > g.max) => /\ Moved(g).cols = Plus(g.cols, g.step)
                                   /\ Moved(g).rows = g.rows
<1>1. \A a, b \in Word : Plus(a, b) \in Word
  BY WordsAreNat, WordAssumption DEF Plus, Word
<1>2. CASE g.cols > g.max
  <2> DEFINE h == [g EXCEPT !.cols = g.min]
  <2>1. /\ h \in GeneratorType /\ h.min = g.min /\ h.max = g.max /\ h.step = g.step
        /\ h.cols = g.min /\ h.rows = g.rows
    BY DEF GeneratorType
  <2>2. Moved(g) = [h EXCEPT !.rows = Plus(g.rows, g.step)]
    BY <1>2 DEF Moved
  <2>3. Plus(g.rows, g.step) \in Word
    BY <1>1 DEF GeneratorType
  <2> HIDE DEF h
  <2>4. /\ Moved(g) \in GeneratorType /\ Moved(g).min = g.min /\ Moved(g).max = g.max
        /\ Moved(g).step = g.step /\ Moved(g).cols = g.min
        /\ Moved(g).rows = Plus(g.rows, g.step)
    BY <2>1, <2>2, <2>3 DEF GeneratorType
  <2> QED BY <2>4, <1>2 DEF Steps, Chain
<1>3. CASE ~(g.cols > g.max)
  <2>1. Moved(g) = [g EXCEPT !.cols = Plus(g.cols, g.step)]
    BY <1>3 DEF Moved
  <2>2. Plus(g.cols, g.step) \in Word
    BY <1>1 DEF GeneratorType
  <2>3. /\ Moved(g) \in GeneratorType /\ Moved(g).min = g.min /\ Moved(g).max = g.max
        /\ Moved(g).step = g.step /\ Moved(g).cols = Plus(g.cols, g.step)
        /\ Moved(g).rows = g.rows
    BY <2>1, <2>2 DEF GeneratorType
  <2> QED BY <2>3, <1>3 DEF Steps, Chain
<1> QED BY <1>2, <1>3

\* The points of a row, and all of them.
RowDone(r) == \A c \in Steps(generator) : <<r, c>> \in visited
Covered == \A r \in Steps(generator) : RowDone(r)

\* The rows before the current one are done, unless the counter wrapped, and
\* in that so are the columns up to the current one, unless that wrapped.
RowsBehind == /\ generator.rows \in Chain(generator)
              /\ \A r \in Steps(generator) : r < generator.rows => RowDone(r)
ColumnsBehind ==
    \/ RowDone(generator.rows)
    \/ /\ generator.cols \in Chain(generator)
       /\ \A c \in Steps(generator) :
             c <= generator.cols => <<generator.rows, c>> \in visited

GeneratorInv ==
    /\ looping \in BOOLEAN
    /\ looping \/ generator # NoGenerator =>
          /\ generator \in GeneratorType
          /\ Covered \/ (looping /\ RowsBehind /\ ColumnsBehind)

LEMMA GridStarts ==
    ASSUME NEW min \in Word, NEW max \in Word, NEW step \in Word,
           GeneratorInv, MakeGenerator(min, max, step)
    PROVE  GeneratorInv'
<1>1. /\ generator' \in GeneratorType /\ looping' = TRUE /\ visited' = {<<min, min>>}
      /\ generator'.min = min /\ generator'.step = step
      /\ generator'.rows = min /\ generator'.cols = min
  BY DEF MakeGenerator, GeneratorType
<1>2. min \in Nat /\ step \in Nat
  BY WordsAreNat
<1>3. min = min + 0 * step
  BY <1>2
<1>4. min \in Chain(generator')
  BY <1>1, <1>3 DEF Chain
<1>5. \A n \in Steps(generator') : n \in Nat /\ min <= n
  BY <1>1, WordsAreNat DEF Steps
<1>6. \A n \in Steps(generator') : ~(n < min) /\ (n <= min => n = min)
  BY <1>2, <1>5
<1>7. RowsBehind' /\ ColumnsBehind'
  BY <1>1, <1>4, <1>6 DEF RowsBehind, ColumnsBehind, RowDone
<1> QED BY <1>1, <1>7 DEF GeneratorInv

\* Every point of the grid up to the current one is visited.
LEMMA GridAdvances == GeneratorInv /\ Loop => GeneratorInv'
<1> SUFFICES ASSUME GeneratorInv, Loop PROVE GeneratorInv'
  OBVIOUS
<1> DEFINE g == generator
           S == Steps(generator)
<1>1. looping /\ looping' \in BOOLEAN /\ g \in GeneratorType
        /\ (Covered \/ (RowsBehind /\ ColumnsBehind))
  BY DEF GeneratorInv, Loop
<1>2. /\ g.rows \in Nat /\ g.cols \in Nat /\ g.max \in Nat /\ g.min \in Nat
      /\ \A n \in S : n \in Nat /\ n <= g.max /\ n \in Chain(g) /\ g.min <= n
  BY <1>1, WordsAreNat, StepsAreInChain DEF GeneratorType, Steps
<1>3. CASE g.rows > g.max
  <2>1. UNCHANGED <<generator, visited>>
    BY <1>3 DEF Loop
  <2>2. \A r \in S : r < g.rows
    BY <1>2, <1>3
  <2>3. Covered
    BY <1>1, <2>2 DEF Covered, RowsBehind
  <2>4. Covered'
    BY <2>1, <2>3 DEF Covered, RowDone
  <2> QED BY <1>1, <2>1, <2>4 DEF GeneratorInv
<1>4. CASE ~(g.rows > g.max)
  <2>1. generator' = Moved(g) /\ looping' = looping
        /\ visited' = visited \cup {<<generator'.rows, generator'.cols>>}
    BY <1>4 DEF Loop
  <2>2. /\ generator' \in GeneratorType /\ Steps(generator') = S
        /\ Chain(generator') = Chain(g)
    BY <1>1, <2>1, MovedIs
  <2>3. \A r : RowDone(r) => RowDone(r)'
    BY <2>1, <2>2 DEF RowDone
  <2>4. CASE Covered
    <3>1. Covered'
      BY <2>2, <2>3, <2>4 DEF Covered
    <3> QED BY <1>1, <2>1, <2>2, <3>1 DEF GeneratorInv
  <2>5. CASE RowsBehind /\ ColumnsBehind /\ g.cols > g.max
    <3>1. generator'.cols = g.min /\ generator'.rows = Plus(g.rows, g.step)
      BY <1>1, <2>1, <2>5, MovedIs
    <3>2. \A c \in S : c <= g.cols
      BY <1>2, <2>5
    <3>3. RowDone(g.rows)
      BY <2>5, <3>2 DEF ColumnsBehind, RowDone
    <3>4. \A r \in S : r <= g.rows => RowDone(r)'
      BY <1>2, <2>3, <2>5, <3>3 DEF RowsBehind
    <3>5. CASE \A c \in Chain(g) : c <= g.rows
      <4>1. Covered'
        BY <1>2, <2>2, <3>4, <3>5 DEF Covered
      <4> QED BY <1>1, <2>1, <2>2, <4>1 DEF GeneratorInv
    <3>6. CASE /\ generator'.rows \in Chain(g)
               /\ \A c \in Chain(g) : c <= g.rows \/ generator'.rows <= c
      <4>1. generator'.rows \in Nat
        BY <3>6, WordsAreNat DEF Chain
      <4>2. \A r \in S : r < generator'.rows => r <= g.rows
        BY <1>2, <3>6, <4>1
      <4>3. RowsBehind'
        BY <2>2, <3>4, <3>6, <4>2 DEF RowsBehind
      <4>4. g.min = g.min + 0 * g.step
        <5>1. \A a, b \in Nat : a = a + 0 * b
          OBVIOUS
        <5>2. g.min \in Nat /\ g.step \in Nat
          BY <1>1, <1>2, WordsAreNat DEF GeneratorType
        <5> QED BY <5>1, <5>2
      <4>5. generator'.cols \in Chain(generator')
        BY <1>1, <2>2, <3>1, <4>4 DEF Chain, GeneratorType
      <4>6. \A c \in S : c <= g.min => c = g.min
        BY <1>2
      <4>7. ColumnsBehind'
        BY <2>1, <2>2, <3>1, <4>5, <4>6 DEF ColumnsBehind
      <4> QED BY <1>1, <2>1, <2>2, <4>3, <4>7 DEF GeneratorInv
    <3> QED BY <1>1, <2>5, <3>1, <3>5, <3>6, PlusInChain DEF RowsBehind
  <2>6. CASE RowsBehind /\ ColumnsBehind /\ ~(g.cols > g.max)
    <3>1. generator'.cols = Plus(g.cols, g.step) /\ generator'.rows = g.rows
      BY <1>1, <2>1, <2>6, MovedIs
    <3>2. RowsBehind'
      BY <2>2, <2>3, <2>6, <3>1 DEF RowsBehind
    <3>3. CASE RowDone(g.rows)
      <4>1. ColumnsBehind'
        BY <2>3, <3>1, <3>3 DEF ColumnsBehind
      <4> QED BY <1>1, <2>1, <2>2, <3>2, <4>1 DEF GeneratorInv
    <3>4. CASE /\ g.cols \in Chain(g)
               /\ \A c \in S : c <= g.cols => <<g.rows, c>> \in visited
      <4>1. CASE \A c \in Chain(g) : c <= g.cols
        <5>1. RowDone(g.rows)
          BY <1>2, <3>4, <4>1 DEF RowDone
        <5> QED BY <3>3, <5>1
      <4>2. CASE /\ generator'.cols \in Chain(g)
                 /\ \A c \in Chain(g) : c <= g.cols \/ generator'.cols <= c
        <5>1. generator'.cols \in Nat
          BY <4>2, WordsAreNat DEF Chain
        <5>2. \A c \in S : c <= generator'.cols => c <= g.cols \/ c = generator'.cols
          BY <1>2, <4>2, <5>1
        <5>3. ColumnsBehind'
          BY <2>1, <2>2, <3>1, <3>4, <4>2, <5>2 DEF ColumnsBehind
        <5> QED BY <1>1, <2>1, <2>2, <3>2, <5>3 DEF GeneratorInv
      <4> QED BY <1>1, <3>1, <3>4, <4>1, <4>2, PlusInChain
    <3> QED BY <2>6, <3>3, <3>4 DEF ColumnsBehind
  <2> QED BY <1>1, <2>4, <2>5, <2>6
<1> QED BY <1>3, <1>4

LEMMA GeneratorInductive == GeneratorInv /\ [GeneratorNext]_generatorVars => GeneratorInv'
<1> SUFFICES ASSUME GeneratorInv, [GeneratorNext]_generatorVars PROVE GeneratorInv'
  OBVIOUS
<1>1. CASE EndOfLoop
  BY <1>1 DEF EndOfLoop, GeneratorInv
<1>2. CASE UNCHANGED generatorVars
  BY <1>2 DEF generatorVars, GeneratorInv, Covered, RowDone, RowsBehind, ColumnsBehind
<1> QED BY <1>1, <1>2, GridStarts, GridAdvances DEF GeneratorNext

\* It needs no call of loop() that the program could leave out.
LEMMA GridSafe == GeneratorInit /\ [][GeneratorNext]_generatorVars => []GridCovered
<1>1. GeneratorInit => GeneratorInv
  BY DEF GeneratorInit, GeneratorInv
<1>2. GeneratorInv => GridCovered
  BY DEF GeneratorInv, GridCovered, Covered, RowDone
<1> QED BY <1>1, <1>2, GeneratorInductive, PTL

\* A loop that ends has been at every point of the two nested loops, whatever
\* the range, the step and the width of the counters.
THEOREM GridIsCovered == GeneratorSpec => []GridCovered
BY GridSafe, PTL DEF GeneratorSpec

-----------------------------------------------------------------------------
(* EigenTie.                                                               *)

TieTypeOK == /\ memory \in [Variables -> Scalars]
             /\ tie \in [Ties -> Seq(Variables)]
             /\ checksUnique \in BOOLEAN

\* What an assignment of n elements takes.
Assignable(n) == {ByValue(v) : v \in Vectors(Scalars, n)}
                     \cup {Reading(xs) : xs \in Vectors(Variables, n)}

\* The element the loop of _set reads, and the memories it goes through.
Element(m, other, k) == IF other.lazy THEN m[other.elements[k]] ELSE other.elements[k]
Writes(m, t, other, n) ==
    m = [k \in 0 .. n |-> IF k = 0 THEN memory
                          ELSE [m[k - 1] EXCEPT ![tie[t][k]] = Element(m[k - 1], other, k)]]

LEMMA WritesExist ==
    ASSUME NEW t, NEW other
    PROVE  \A n \in Nat : \E m : Writes(m, t, other, n)
<1> DEFINE S == {n \in Nat : \E m : Writes(m, t, other, n)}
<1>1. 0 \in S
  <2> DEFINE m == [k \in 0 .. 0 |-> memory]
  <2>1. Writes(m, t, other, 0)
    BY DEF Writes
  <2> QED BY <2>1
<1>2. ASSUME NEW n \in Nat, n \in S PROVE n + 1 \in S
  <2>1. PICK m : Writes(m, t, other, n)
    BY <1>2
  <2> DEFINE last == [m[n] EXCEPT ![tie[t][n + 1]] = Element(m[n], other, n + 1)]
             next == [k \in 0 .. n + 1 |-> IF k = n + 1 THEN last ELSE m[k]]
  <2>2. \A k \in 0 .. n : next[k] = m[k]
    OBVIOUS
  <2>3. next[n + 1] = last
    OBVIOUS
  <2>4. \A k \in 0 .. n :
           m[k] = IF k = 0 THEN memory
                  ELSE [m[k - 1] EXCEPT ![tie[t][k]] = Element(m[k - 1], other, k)]
    BY <2>1 DEF Writes
  <2> DEFINE Rhs(k) == IF k = 0 THEN memory
                       ELSE [next[k - 1] EXCEPT ![tie[t][k]] = Element(next[k - 1], other, k)]
  <2>5. \A k \in 0 .. n + 1 : next[k] = Rhs(k)
    <3> SUFFICES ASSUME NEW k \in 0 .. n + 1 PROVE next[k] = Rhs(k)
      OBVIOUS
    <3>1. CASE k = n + 1
      <4>1. next[k - 1] = m[n] /\ k # 0
        BY <3>1, <2>2
      <4> HIDE DEF next
      <4> QED BY <2>3, <3>1, <4>1
    <3>2. CASE k # n + 1
      <4>1. k \in 0 .. n /\ (k # 0 => k - 1 \in 0 .. n)
        BY <3>2
      <4> HIDE DEF next
      <4> QED BY <2>2, <2>4, <4>1
    <3> QED BY <3>1, <3>2
  <2>6. next = [k \in 0 .. n + 1 |-> next[k]]
    OBVIOUS
  <2> HIDE DEF next
  <2>7. Writes(next, t, other, n + 1)
    BY <2>5, <2>6 DEF Writes
  <2> QED BY <2>7
<1> HIDE DEF S
<1>3. Nat \subseteq S
  BY <1>1, <1>2, SetInduction
<1> QED BY <1>3 DEF S

LEMMA SetWrites ==
    ASSUME TieTypeOK, NEW t \in Ties, NEW other, Set(t, other)
    PROVE  \E m : Writes(m, t, other, Dim(t)) /\ memory' = m[Dim(t)]
<1> DEFINE m == CHOOSE g : Writes(g, t, other, Dim(t))
<1>1. memory' = m[Dim(t)]
  BY Zenon DEF Set, Written, Writes, Element
<1>2. Dim(t) \in Nat
  BY DEF TieTypeOK, Dim
<1>3. Writes(m, t, other, Dim(t))
  BY <1>2, WritesExist, Zenon
<1> QED BY <1>1, <1>3

LEMMA AssignableIs ==
    ASSUME NEW n, NEW other \in Assignable(n)
    PROVE  /\ other.lazy => other.elements \in [1 .. n -> Variables]
           /\ ~other.lazy => other.elements \in [1 .. n -> Scalars]
<1>1. CASE \E v \in Vectors(Scalars, n) : other = ByValue(v)
  BY <1>1 DEF Vectors, ByValue
<1>2. CASE \E xs \in Vectors(Variables, n) : other = Reading(xs)
  BY <1>2 DEF Vectors, Reading
<1> QED BY <1>1, <1>2 DEF Assignable

\* What the writes do to one memory: they keep its type, leave the variables
\* the tie does not refer to, and what was written of values stays written if
\* no variable is tied twice.
LEMMA WritesProperties ==
    ASSUME TieTypeOK, NEW t \in Ties, NEW other \in Assignable(Dim(t)),
           NEW m, Writes(m, t, other, Dim(t))
    PROVE  \A k \in 0 .. Dim(t) :
              /\ m[k] \in [Variables -> Scalars]
              /\ \A x \in Variables \ Refers(t) : m[k][x] = memory[x]
              /\ (\A i, j \in 1 .. Dim(t) : tie[t][i] = tie[t][j] => i = j) /\ ~other.lazy
                    => \A j \in 1 .. k : m[k][tie[t][j]] = other.elements[j]
<1> DEFINE D == Dim(t)
           Distinct == \A i, j \in 1 .. D : tie[t][i] = tie[t][j] => i = j
           Good(k) == /\ m[k] \in [Variables -> Scalars]
                      /\ \A x \in Variables \ Refers(t) : m[k][x] = memory[x]
                      /\ Distinct /\ ~other.lazy
                            => \A j \in 1 .. k : m[k][tie[t][j]] = other.elements[j]
           S == {k \in Nat : k <= D => Good(k)}
<1>1. D \in Nat /\ \A k \in 1 .. D : tie[t][k] \in Refers(t) /\ Refers(t) \subseteq Variables
  BY DEF TieTypeOK, Dim, Refers
<1>2. \A mem \in [Variables -> Scalars], k \in 1 .. D : Element(mem, other, k) \in Scalars
  BY AssignableIs DEF Element
<1>3. \A k \in 0 .. D :
         m[k] = IF k = 0 THEN memory
                ELSE [m[k - 1] EXCEPT ![tie[t][k]] = Element(m[k - 1], other, k)]
  BY <1>1 DEF Writes
<1>4. 0 \in S
  <2>1. m[0] = memory
    <3>1. 0 \in 0 .. D
      BY <1>1
    <3> QED BY <1>3, <3>1, Zenon
  <2> QED BY <2>1 DEF TieTypeOK
<1>5. ASSUME NEW k \in Nat, k \in S PROVE k + 1 \in S
  <2> SUFFICES ASSUME k + 1 <= D PROVE Good(k + 1)
    OBVIOUS
  <2>1. Good(k)
    BY <1>1, <1>5
  <2>2. k + 1 \in 0 .. D /\ k + 1 \in 1 .. D /\ k + 1 # 0 /\ k + 1 - 1 = k
    BY <1>1
  <2>3. m[k + 1] = [m[k] EXCEPT ![tie[t][k + 1]] = Element(m[k], other, k + 1)]
    BY <1>3, <2>2
  <2>4. tie[t][k + 1] \in Refers(t) /\ Refers(t) \subseteq Variables
    BY <1>1, <2>2
  <2>5. Element(m[k], other, k + 1) \in Scalars
    BY <1>2, <2>1, <2>2
  <2>6. m[k + 1] \in [Variables -> Scalars]
    BY <2>1, <2>3, <2>5
  <2>7. \A x \in Variables \ Refers(t) : m[k + 1][x] = memory[x]
    BY <2>1, <2>3, <2>4
  <2>8. ASSUME Distinct, ~other.lazy, NEW j \in 1 .. k + 1
        PROVE  m[k + 1][tie[t][j]] = other.elements[j]
    <3>1. CASE j = k + 1
      BY <2>1, <2>3, <2>4, <2>8, <3>1 DEF Element
    <3>2. CASE j # k + 1
      <4>1. j \in 1 .. k /\ j \in 1 .. D
        BY <1>1, <2>2, <3>2
      <4>2. tie[t][j] # tie[t][k + 1] /\ tie[t][j] \in Variables
        BY <1>1, <2>2, <2>8, <3>2, <4>1
      <4>3. m[k][tie[t][j]] = other.elements[j]
        BY <2>1, <2>8, <4>1
      <4> QED BY <2>1, <2>3, <2>4, <4>2, <4>3
    <3> QED BY <3>1, <3>2
  <2> QED BY <2>6, <2>7, <2>8
<1> HIDE DEF S
<1>6. Nat \subseteq S
  BY <1>4, <1>5, SetInduction
<1>7. \A k \in 0 .. D : k \in Nat /\ k <= D
  BY <1>1
<1>8. \A k \in 0 .. D : Good(k)
  BY <1>6, <1>7 DEF S
<1> QED BY <1>8

\* A tie that has as many variables as elements has none of them twice.
LEMMA UniqueIsDistinct ==
    ASSUME TieTypeOK, NEW t \in Ties, Unique(t)
    PROVE  \A i, j \in 1 .. Dim(t) : tie[t][i] = tie[t][j] => i = j
<1> DEFINE D == Dim(t)
           f == [k \in 1 .. D |-> tie[t][k]]
<1>1. D \in Nat /\ DOMAIN tie[t] = 1 .. D
  BY DEF TieTypeOK, Dim
<1>2. f \in Surjection(1 .. D, Refers(t))
  BY <1>1 DEF Refers, Surjection
<1>3. IsFiniteSet(1 .. D) /\ Cardinality(1 .. D) = D
  BY <1>1, FS_Interval
<1>4. f \in Injection(1 .. D, Refers(t))
  <2> HIDE DEF f, D
  <2> QED BY <1>2, <1>3, FS_SurjSameCardinalityImpliesInj DEF Unique, D
<1> QED BY <1>4 DEF Injection, IsInjective

\* The memory after an assignment.
LEMMA SetProperties ==
    ASSUME TieTypeOK, NEW t \in Ties, NEW other \in Assignable(Dim(t)), Set(t, other)
    PROVE  /\ memory' \in [Variables -> Scalars]
           /\ Untouched(t)
           /\ Unique(t) /\ ~other.lazy
                 => \A j \in 1 .. Dim(t) : memory'[tie[t][j]] = other.elements[j]
           /\ UNCHANGED <<tie, checksUnique>>
<1>1. PICK m : Writes(m, t, other, Dim(t)) /\ memory' = m[Dim(t)]
  BY SetWrites
<1>2. Dim(t) \in 0 .. Dim(t)
  BY DEF TieTypeOK, Dim
<1>3. UNCHANGED <<tie, checksUnique>>
  BY DEF Set
<1>4. /\ m[Dim(t)] \in [Variables -> Scalars]
      /\ \A x \in Variables \ Refers(t) : m[Dim(t)][x] = memory[x]
      /\ (\A i, j \in 1 .. Dim(t) : tie[t][i] = tie[t][j] => i = j) /\ ~other.lazy
            => \A j \in 1 .. Dim(t) : m[Dim(t)][tie[t][j]] = other.elements[j]
  BY <1>1, <1>2, WritesProperties
<1>5. Unique(t) => \A i, j \in 1 .. Dim(t) : tie[t][i] = tie[t][j] => i = j
  BY UniqueIsDistinct
<1> QED BY <1>1, <1>3, <1>4, <1>5, Zenon DEF Untouched

LEMMA ConvertIs ==
    ASSUME TieTypeOK, NEW t \in Ties
    PROVE  convert(t) \in Vectors(Scalars, Dim(t)) /\ DOMAIN tie[t] = 1 .. Dim(t)
             /\ Dim(t) \in Nat
BY DEF TieTypeOK, convert, Vectors, Dim

LEMMA TieInductive == TieTypeOK /\ [TieNext]_tieVars => TieTypeOK'
<1> SUFFICES ASSUME TieTypeOK, [TieNext]_tieVars PROVE TieTypeOK'
  OBVIOUS
<1>1. ASSUME NEW x \in Variables, WriteVariable(x) PROVE TieTypeOK'
  BY <1>1 DEF WriteVariable, TieTypeOK
<1>2. ASSUME NEW t \in Ties, MakeTie(t) PROVE TieTypeOK'
  <2>1. PICK n \in 1 .. MaxDim :
           \E xs \in Vectors(Variables, n) : tie' = [tie EXCEPT ![t] = xs]
    BY <1>2 DEF MakeTie
  <2>2. PICK xs \in Vectors(Variables, n) : tie' = [tie EXCEPT ![t] = xs]
    BY <2>1
  <2>3. xs \in Seq(Variables)
    BY TieAssumption DEF Vectors
  <2> QED BY <1>2, <2>2, <2>3 DEF MakeTie, TieTypeOK
<1>3. ASSUME NEW t \in Ties, NEW u \in Ties, ChainTie(t, u) PROVE TieTypeOK'
  BY <1>3 DEF ChainTie, TieTypeOK
<1>4. ASSUME NEW t \in Ties, NEW other \in Assignable(Dim(t)), Set(t, other)
      PROVE  TieTypeOK'
  <2>1. memory' \in [Variables -> Scalars] /\ UNCHANGED <<tie, checksUnique>>
    BY <1>4, SetProperties
  <2> QED BY <2>1 DEF TieTypeOK
<1>5. ASSUME NEW t \in Ties, NEW u \in Ties, AssignTie(t, u) PROVE TieTypeOK'
  <2>1. ByValue(convert(u)) \in Assignable(Dim(t))
    BY <1>5, ConvertIs DEF AssignTie, Assignable
  <2> QED BY <1>4, <1>5, <2>1 DEF AssignTie
<1>6. ASSUME NEW t \in Ties, NEW v \in Vectors(Scalars, Dim(t)), AssignVector(t, v)
      PROVE  TieTypeOK'
  BY <1>4, <1>6 DEF AssignVector, Assignable
<1>7. ASSUME NEW t \in Ties, NEW xs \in Vectors(Variables, Dim(t)), AssignExpression(t, xs)
      PROVE  TieTypeOK'
  BY <1>4, <1>7 DEF AssignExpression, Assignable
<1>8. CASE UNCHANGED tieVars
  BY <1>8 DEF tieVars, TieTypeOK
<1> QED BY <1>1, <1>2, <1>3, <1>5, <1>6, <1>7, <1>8 DEF TieNext

\* What an assignment of a tie or of a vector does, as the property says it.
LEMMA TieAssigned ==
    ASSUME TieTypeOK, NEW t \in Ties, NEW u \in Ties, AssignTie(t, u), Unique(t)
    PROVE  /\ convert(t)' = convert(u)
           /\ Untouched(t)
           /\ Refers(t) \cap Refers(u) = {} => EqualsTie(t, u)'
<1> DEFINE D == Dim(t)
           v == convert(u)
<1>1. /\ D \in Nat /\ Dim(u) = D /\ v \in Vectors(Scalars, D)
      /\ DOMAIN tie[t] = 1 .. D /\ DOMAIN tie[u] = 1 .. D
  BY ConvertIs DEF AssignTie
<1>2. ByValue(v) \in Assignable(D) /\ Set(t, ByValue(v))
  BY <1>1 DEF AssignTie, Assignable
<1>3. ~ByValue(v).lazy /\ ByValue(v).elements = v
  BY DEF ByValue
<1>4. /\ Untouched(t) /\ tie' = tie
      /\ \A j \in 1 .. D : memory'[tie[t][j]] = ByValue(v).elements[j]
  BY <1>2, <1>3, SetProperties
<1>5. \A j \in 1 .. D : memory'[tie[t][j]] = v[j] /\ v[j] = memory[tie[u][j]]
  BY <1>1, <1>3, <1>4 DEF convert
<1>6. convert(t)' = [j \in 1 .. D |-> memory'[tie[t][j]]]
  BY <1>1, <1>4 DEF convert
<1>7. v = [j \in 1 .. D |-> memory[tie[u][j]]]
  BY <1>1 DEF convert
<1>8. convert(t)' = convert(u)
  BY <1>5, <1>6, <1>7
<1>9. ASSUME Refers(t) \cap Refers(u) = {} PROVE EqualsTie(t, u)'
  <2>1. \A j \in 1 .. D : tie[u][j] \in Variables \ Refers(t)
    <3> SUFFICES ASSUME NEW j \in 1 .. D PROVE tie[u][j] \in Variables \ Refers(t)
      OBVIOUS
    <3>1. tie[u] \in Seq(Variables)
      BY DEF TieTypeOK
    <3>2. tie[u][j] \in Variables
      BY <1>1, <3>1
    <3>3. tie[u][j] \in Refers(u)
      BY <1>1 DEF Refers
    <3> QED BY <1>9, <3>2, <3>3
  <2>2. \A j \in 1 .. D : memory'[tie[u][j]] = memory[tie[u][j]]
    BY <1>4, <2>1 DEF Untouched
  <2> QED BY <1>1, <1>4, <1>5, <2>2 DEF EqualsTie
<1> QED BY <1>4, <1>8, <1>9

LEMMA VectorAssigned ==
    ASSUME TieTypeOK, NEW t \in Ties, NEW v \in Vectors(Scalars, Dim(t)),
           AssignVector(t, v), Unique(t) \/ checksUnique
    PROVE  EqualsVector(t, v)' /\ Untouched(t)
<1>1. ByValue(v) \in Assignable(Dim(t)) /\ Set(t, ByValue(v))
  BY DEF AssignVector, Assignable
<1>2. Unique(t)
  BY <1>1 DEF Set, MaySet
<1>3. ~ByValue(v).lazy /\ ByValue(v).elements = v
  BY DEF ByValue
<1>4. /\ Untouched(t) /\ tie' = tie
      /\ \A j \in 1 .. Dim(t) : memory'[tie[t][j]] = v[j]
  BY <1>1, <1>2, <1>3, SetProperties
<1>5. DOMAIN tie[t] = 1 .. Dim(t)
  BY ConvertIs
<1> QED BY <1>4, <1>5 DEF EqualsVector

\* A tie assigned from another takes the values that one had, and nothing else
\* changes, for ties of any variables and dimension.
THEOREM AssignmentIsSimultaneous == TieSpec => SimultaneousAssignment
<1>1. TieInit => TieTypeOK
  BY TieAssumption DEF TieInit, TieTypeOK
<1> DEFINE A == \A t \in Ties :
                   /\ \A u \in Ties :
                         AssignTie(t, u) /\ Unique(t) =>
                            /\ convert(t)' = convert(u)
                            /\ Untouched(t)
                            /\ Refers(t) \cap Refers(u) = {} => EqualsTie(t, u)'
                   /\ \A v \in Vectors(Scalars, Dim(t)) :
                         AssignVector(t, v) /\ (Unique(t) \/ checksUnique) =>
                            EqualsVector(t, v)' /\ Untouched(t)
<1>2. TieTypeOK => A
  BY TieAssigned, VectorAssigned
<1> HIDE DEF A
<1>3. TieTypeOK /\ [TieNext]_tieVars => [A]_tieVars
  BY <1>2
<1>4. TieSpec => [][A]_tieVars
  BY <1>1, <1>3, TieInductive, PTL DEF TieSpec
<1> QED BY <1>4 DEF A, SimultaneousAssignment

-----------------------------------------------------------------------------
(* TypeSequence: the type at an index.                                     *)

\* The recursion over the places of the sequence has one value: it calls the
\* functor at the number that was passed, if it comes to that.
LEMMA AppliedIs ==
    ASSUME NEW i \in Nat
    PROVE  runtime_int_to_type_impl(i) = IF i < Size THEN <<i>> ELSE << >>
<1> DEFINE Rhs(g, c) == IF ~IsValidIndex(c) THEN << >>
                        ELSE IF c = i THEN <<c>> ELSE g[c + 1]
           Fits(g) == g = [c \in 0 .. Size + 1 |-> Rhs(g, c)]
           f == [c \in 0 .. Size + 1 |-> IF c <= i /\ i < Size THEN <<i>> ELSE << >>]
           apply == CHOOSE g : Fits(g)
<1>1. Size \in Nat
  BY TypeAssumption DEF Size
<1>2. Fits(f)
  <2>1. ASSUME NEW c \in 0 .. Size + 1 PROVE f[c] = Rhs(f, c)
    <3>1. CASE c < Size
      <4>1. c + 1 \in 0 .. Size + 1
        BY <1>1, <3>1
      <4>2. f[c + 1] = IF c + 1 <= i /\ i < Size THEN <<i>> ELSE << >>
        BY <4>1
      <4>3. f[c] = IF c <= i /\ i < Size THEN <<i>> ELSE << >>
        OBVIOUS
      <4> HIDE DEF f
      <4> QED BY <1>1, <3>1, <4>2, <4>3 DEF IsValidIndex
    <3>2. CASE ~(c < Size)
      <4>1. f[c] = << >>
        BY <1>1, <3>2
      <4> QED BY <3>2, <4>1 DEF IsValidIndex
    <3> QED BY <3>1, <3>2
  <2>2. f = [c \in 0 .. Size + 1 |-> f[c]]
    OBVIOUS
  <2> HIDE DEF f
  <2> QED BY <2>1, <2>2
<1>3. Fits(apply)
  BY <1>2, Zenon
<1>4. \A c \in 0 .. Size + 1 : apply[c] = Rhs(apply, c)
  <2> HIDE DEF apply
  <2> QED BY <1>3
<1>5. \A c \in 0 .. Size + 1 : f[c] = Rhs(f, c)
  <2> HIDE DEF f
  <2> QED BY <1>2
<1> DEFINE S == {n \in Nat : n <= Size => apply[Size - n] = f[Size - n]}
<1> HIDE DEF f, apply, Fits
<1>6. 0 \in S
  <2>1. Size \in 0 .. Size + 1 /\ ~IsValidIndex(Size) /\ Size - 0 = Size
    BY <1>1 DEF IsValidIndex
  <2> QED BY <1>1, <1>4, <1>5, <2>1
<1>7. ASSUME NEW n \in Nat, n \in S PROVE n + 1 \in S
  <2> SUFFICES ASSUME n + 1 <= Size PROVE apply[Size - (n + 1)] = f[Size - (n + 1)]
    OBVIOUS
  <2> DEFINE c == Size - (n + 1)
  <2>1. c \in 0 .. Size + 1 /\ c + 1 = Size - n /\ n <= Size
    BY <1>1
  <2>2. apply[c + 1] = f[c + 1]
    BY <1>7, <2>1
  <2> HIDE DEF c
  <2>3. apply[c] = f[c]
    BY <1>4, <1>5, <2>1, <2>2
  <2> QED BY <2>3 DEF c
<1> HIDE DEF S
<1>8. Size \in S
  BY <1>1, <1>6, <1>7, SetInduction
<1>9. apply[0] = f[0]
  BY <1>1, <1>8 DEF S
<1>10. f[0] = IF i < Size THEN <<i>> ELSE << >>
  BY <1>1 DEF f
<1>11. runtime_int_to_type_impl(i) = apply[0]
  BY Zenon DEF runtime_int_to_type_impl, apply, Fits
<1> QED BY <1>9, <1>10, <1>11

\* The least place of a type that is in the sequence.
LEMMA FoundIndexIs ==
    ASSUME NEW i \in 0 .. Size - 1
    PROVE  find_index(At(i)) <= i /\ At(find_index(At(i))) = At(i)
<1> DEFINE T == {j \in 0 .. Size - 1 : At(j) = At(i)}
           FirstAt(j) == j \in 0 .. Size - 1 /\ At(j) = At(i)
                           /\ \A k \in 0 .. j - 1 : At(k) # At(i)
<1>1. Size \in Nat
  BY TypeAssumption DEF Size
<1>2. T \in SUBSET Nat /\ T # {}
  BY <1>1
<1>3. PICK j \in T : \A k \in T : j <= k
  BY <1>2, LeastNumber
<1>4. \A k \in 0 .. j - 1 : k \in 0 .. Size - 1 /\ ~(j <= k)
  BY <1>1
<1>5. FirstAt(j)
  BY <1>3, <1>4
<1>6. find_index(At(i)) = CHOOSE k : FirstAt(k)
  BY Zenon DEF find_index
<1>7. FirstAt(find_index(At(i)))
  BY <1>5, <1>6, Zenon
<1>8. i \in T /\ find_index(At(i)) \in 0 .. Size - 1
  BY <1>7
<1>9. ~(i < find_index(At(i)))
  <2>1. i < find_index(At(i)) => i \in 0 .. find_index(At(i)) - 1
    BY <1>8
  <2> QED BY <1>7, <2>1
<1> QED BY <1>1, <1>7, <1>8, <1>9

\* What the last call of apply_at called.
AppliedInv == passedIndex \in 0 .. 2^IndexWidth - 1 =>
                 applied = IF passedIndex < Size THEN <<passedIndex>> ELSE << >>

LEMMA AppliedInductive == AppliedInv /\ [TypeNext]_typeVars => AppliedInv'
<1> SUFFICES ASSUME AppliedInv, [TypeNext]_typeVars PROVE AppliedInv'
  OBVIOUS
<1>1. ASSUME NEW i \in Indices, apply_at(i) PROVE AppliedInv'
  <2> DEFINE w == 2^IndexWidth
  <2>1. w \in Int
    BY TypeAssumption
  <2> HIDE DEF w
  <2>2. ASSUME i \in 0 .. w - 1 PROVE i \in Nat /\ i % w = i
    BY <2>1, <2>2, SmallRemainder
  <2>3. passedIndex' = i /\ applied' = runtime_int_to_type_impl(i % w)
    BY <1>1 DEF apply_at, Narrowed, w
  <2>4. i \in 0 .. w - 1 => applied' = IF i < Size THEN <<i>> ELSE << >>
    BY <2>2, <2>3, AppliedIs
  <2> QED BY <2>3, <2>4 DEF AppliedInv, w
<1>2. ASSUME NEW id, Insert(id) \/ Erase(id) PROVE AppliedInv'
  BY <1>2 DEF Insert, Erase, AppliedInv
<1>3. CASE UNCHANGED typeVars
  BY <1>3 DEF typeVars, AppliedInv
<1> QED BY <1>1, <1>2, <1>3, Zenon DEF TypeNext, InsertEmpty

\* The functor is called once with the type at the number passed, for every
\* sequence and every number its index type holds.
THEOREM AppliesToTypeAtIndex == TypeSpec => []AppliesAtIndex
<1>1. TypeInit => AppliedInv
  BY TypeAssumption DEF TypeInit, AppliedInv, Size
<1>2. AppliedInv => AppliesAtIndex
  <2>1. \A i \in 0 .. 2^IndexWidth - 1 : i < Size => i \in 0 .. Size - 1
    BY TypeAssumption DEF Size
  <2> QED BY <2>1, FoundIndexIs DEF AppliedInv, AppliesAtIndex
<1> QED BY <1>1, <1>2, AppliedInductive, PTL DEF TypeSpec

-----------------------------------------------------------------------------
(* Dispatch.                                                               *)

\* The recursion over the constants of a range comes to the value that was
\* passed, if that is in the range.
LEMMA RecursionFindsValue ==
    ASSUME NEW min \in Int, NEW max \in Int, NEW val \in min .. max
    PROVE  call_type_from_int_impl(val, min, max) = val
<1> DEFINE Rhs(g, iter) == IF iter = max THEN (IF val > max THEN Error ELSE max)
                           ELSE IF val = iter THEN iter ELSE g[iter + 1]
           Fits(g) == g = [iter \in min .. max |-> Rhs(g, iter)]
           f == [iter \in min .. max |-> IF iter <= val THEN val ELSE max]
           from == CHOOSE g : Fits(g)
<1>1. Fits(f)
  <2>1. ASSUME NEW iter \in min .. max PROVE f[iter] = Rhs(f, iter)
    <3>1. f[iter] = IF iter <= val THEN val ELSE max
      OBVIOUS
    <3>2. CASE iter = max
      BY <3>1, <3>2
    <3>3. CASE iter # max
      <4>1. f[iter + 1] = IF iter + 1 <= val THEN val ELSE max
        BY <3>3
      <4> HIDE DEF f
      <4> QED BY <3>1, <3>3, <4>1
    <3> QED BY <3>2, <3>3
  <2>2. f = [iter \in min .. max |-> f[iter]]
    OBVIOUS
  <2> HIDE DEF f
  <2> QED BY <2>1, <2>2
<1>2. Fits(from)
  BY <1>1, Zenon
<1>3. \A iter \in min .. max : from[iter] = Rhs(from, iter)
  <2> HIDE DEF from
  <2> QED BY <1>2
<1> DEFINE S == {n \in Nat : n <= val - min => from[val - n] = val}
<1> HIDE DEF f, from, Fits
<1>4. 0 \in S
  <2>1. from[val] = Rhs(from, val) /\ val - 0 = val
    BY <1>3
  <2> QED BY <2>1
<1>5. ASSUME NEW n \in Nat, n \in S PROVE n + 1 \in S
  <2> SUFFICES ASSUME n + 1 <= val - min PROVE from[val - (n + 1)] = val
    OBVIOUS
  <2> DEFINE iter == val - (n + 1)
  <2>1. iter \in min .. max /\ iter # max /\ iter # val /\ iter + 1 = val - n
          /\ n <= val - min
    OBVIOUS
  <2>2. from[iter + 1] = val
    BY <1>5, <2>1
  <2> HIDE DEF iter
  <2>3. from[iter] = val
    BY <1>3, <2>1, <2>2
  <2> QED BY <2>3 DEF iter
<1> HIDE DEF S
<1>6. val - min \in S /\ val - (val - min) = min
  BY <1>4, <1>5, SetInduction
<1>7. from[min] = val
  BY <1>6 DEF S
<1>8. call_type_from_int_impl(val, min, max) = from[min]
  BY Zenon DEF call_type_from_int_impl, from, Fits
<1> QED BY <1>7, <1>8

\* A value is refused, or it selects the constant that stands for it.
LEMMA SelectedIs ==
    ASSUME NEW t \in ParameterType, NEW val \in Int
    PROVE  /\ Selected(t, val) = Error <=> ~Accepts(t, val)
           /\ Accepts(t, val) =>
                 /\ Selected(t, val) \in Int
                 /\ IF t.kind = "bool" THEN Selected(t, val) # 0 <=> val # 0
                                       ELSE Selected(t, val) = val
<1>1. CASE t = BoolParameter
  <2>1. t.kind = "bool"
    BY <1>1 DEF BoolParameter
  <2> QED BY <2>1, DispatchAssumption DEF Selected, Accepts
<1>2. CASE t \in [kind : {"int"}, min : Int, max : Int]
  <2>1. t.kind # "bool" /\ t.min \in Int /\ t.max \in Int
    BY <1>2
  <2>2. CASE val \in t.min .. t.max
    <3>1. ~(val < t.min \/ val > t.max)
      BY <2>1, <2>2
    <3>2. Selected(t, val) = val
      BY <2>1, <2>2, <3>1, RecursionFindsValue DEF Selected, call_type_from_int_range
    <3> QED BY <2>1, <2>2, <3>2, DispatchAssumption DEF Accepts
  <2>3. CASE val \notin t.min .. t.max
    <3>1. val < t.min \/ val > t.max
      BY <2>1, <2>3
    <3> QED BY <2>1, <2>3, <3>1 DEF Accepts, Selected, call_type_from_int_range
  <2> QED BY <2>2, <2>3
<1> QED BY <1>1, <1>2 DEF ParameterType

\* The template argument for the i-th value.
Passed(i) == LET c == Selected(signature[i], input[i])
             IN  IF caller = "FusionMapToTemplate" THEN <<Keys[i], c>> ELSE c

\* The recursion is behind values that were accepted, and has their constants.
DispatchInv ==
    /\ signature \in Seq(ParameterType) /\ input \in Seq(Int)
    /\ Len(input) = Len(signature)
    /\ params \in Seq(Int \cup ({Keys[i] : i \in Nat} \X Int))
    /\ Len(params) <= Len(input)
    /\ \A i \in 1 .. Len(params) :
          params[i] = Passed(i) /\ Accepts(signature[i], input[i])
    /\ result \in {"idle", "running", "called", "error"}
    /\ result = "idle" => params = << >>
    /\ result = "called" => Len(params) = Len(input)
    /\ result = "error" => \E i \in 1 .. Len(input) : ~Accepts(signature[i], input[i])

LEMMA DispatchInductive == DispatchInv /\ [DispatchNext]_dispatchVars => DispatchInv'
<1> SUFFICES ASSUME DispatchInv, [DispatchNext]_dispatchVars PROVE DispatchInv'
  OBVIOUS
<1>1. ASSUME NEW sig \in Signatures, NEW function,
             NEW values \in [DOMAIN sig -> Arguments], Start(sig, function, values)
      PROVE  DispatchInv'
  <2>1. sig \in Seq(ParameterType) /\ Len(sig) \in Nat /\ DOMAIN sig = 1 .. Len(sig)
    BY DispatchAssumption
  <2>2. values \in Seq(Int) /\ Len(values) = Len(sig)
    <3>1. values \in [1 .. Len(sig) -> Int]
      BY <2>1, DispatchAssumption
    <3> QED BY <2>1, <3>1
  <2>3. params = << >> /\ params' = params /\ Len(params) = 0
    BY <1>1 DEF Start, DispatchInv
  <2> QED BY <1>1, <2>1, <2>2, <2>3 DEF Start, DispatchInv
<1>2. CASE Convert
  <2> DEFINE i == Len(params) + 1
             c == Selected(signature[i], input[i])
             d == IF caller = "FusionMapToTemplate" THEN <<Keys[i], c>> ELSE c
  <2>1. /\ result = "running" /\ i \in 1 .. Len(input) /\ i \in Nat
        /\ signature[i] \in ParameterType /\ input[i] \in Int
        /\ UNCHANGED <<signature, caller, input>>
    BY <1>2 DEF Convert, DispatchInv
  <2>2. c = Error <=> ~Accepts(signature[i], input[i])
    BY <2>1, SelectedIs
  <2>3. CASE c = Error
    <3>1. result' = "error" /\ params' = params
      BY <1>2, <2>3, Zenon DEF Convert
    <3>2. \E j \in 1 .. Len(input) : ~Accepts(signature[j], input[j])
      BY <2>1, <2>2, <2>3
    <3> QED BY <2>1, <3>1, <3>2 DEF DispatchInv, Passed
  <2>4. CASE c # Error
    <3>1. params' = Append(params, d) /\ result' = result
      BY <1>2, <2>4, Zenon DEF Convert
    <3>2. c \in Int
      BY <2>1, <2>2, <2>4, SelectedIs
    <3>3. d \in Int \cup ({Keys[j] : j \in Nat} \X Int)
      BY <2>1, <3>2
    <3>4. d = Passed(i)
      BY DEF Passed
    <3> HIDE DEF d, c
    <3>5. /\ params' \in Seq(Int \cup ({Keys[j] : j \in Nat} \X Int))
          /\ Len(params') = i /\ params'[i] = d
          /\ \A j \in 1 .. Len(params) : params'[j] = params[j]
      BY <3>1, <3>3 DEF DispatchInv
    <3>6. \A j \in 1 .. i : j = i \/ j \in 1 .. Len(params)
      BY DEF DispatchInv
    <3>7. \A j : Passed(j)' = Passed(j)
      BY <2>1 DEF Passed
    <3>8. \A j \in 1 .. i : params'[j] = Passed(j) /\ Accepts(signature[j], input[j])
      BY <2>2, <2>4, <3>4, <3>5, <3>6 DEF DispatchInv
    <3> QED BY <2>1, <3>1, <3>5, <3>7, <3>8 DEF DispatchInv
  <2> QED BY <2>3, <2>4
<1>3. CASE CallOp
  BY <1>3 DEF CallOp, DispatchInv, Passed
<1>4. CASE Return
  BY <1>4 DEF Return, DispatchInv
<1>5. CASE UNCHANGED dispatchVars
  BY <1>5 DEF dispatchVars, DispatchInv, Passed
<1> QED BY <1>1, <1>2, <1>3, <1>4, <1>5 DEF DispatchNext

\* An operation is called with the values that were passed, and unless one of
\* them is out of the range of its type, for signatures of any length.
THEOREM OperationGetsInput == DispatchSpec => []CalledWithInput
<1>1. DispatchInit => DispatchInv
  BY DEF DispatchInit, DispatchInv
<1>2. ASSUME DispatchInv PROVE CalledWithInput
  <2>1. DOMAIN input = 1 .. Len(input)
    BY <1>2 DEF DispatchInv
  <2>2. ASSUME result = "called", NEW i \in 1 .. Len(input)
        PROVE  /\ Accepts(signature[i], input[i]) /\ params[i] = Passed(i)
               /\ IF signature[i].kind = "bool"
                  THEN Selected(signature[i], input[i]) # 0 <=> input[i] # 0
                  ELSE Selected(signature[i], input[i]) = input[i]
    <3>1. signature[i] \in ParameterType /\ input[i] \in Int
            /\ Accepts(signature[i], input[i]) /\ params[i] = Passed(i)
      BY <1>2, <2>2 DEF DispatchInv
    <3> QED BY <3>1, SelectedIs
  <2>3. result = "error" => ~\A i \in DOMAIN input : Accepts(signature[i], input[i])
    BY <1>2, <2>1 DEF DispatchInv
  <2>4. ASSUME result = "called", NEW i \in DOMAIN input
        PROVE  LET c == IF caller = "FusionMapToTemplate" THEN params[i][2] ELSE params[i]
               IN  /\ caller = "FusionMapToTemplate" => params[i][1] = Keys[i]
                   /\ IF signature[i].kind = "bool" THEN c # 0 <=> input[i] # 0
                                                    ELSE c = input[i]
    <3> DEFINE s == Selected(signature[i], input[i])
    <3>1. IF signature[i].kind = "bool" THEN s # 0 <=> input[i] # 0 ELSE s = input[i]
      BY <2>1, <2>2, <2>4
    <3>2. params[i] = IF caller = "FusionMapToTemplate" THEN <<Keys[i], s>> ELSE s
      BY <2>1, <2>2, <2>4 DEF Passed
    <3> HIDE DEF s
    <3>3. CASE caller = "FusionMapToTemplate"
      <4>1. params[i][1] = Keys[i] /\ params[i][2] = s
        BY <3>2, <3>3
      <4> QED BY <3>1, <3>3, <4>1, Zenon
    <3>4. CASE caller # "FusionMapToTemplate"
      BY <3>1, <3>2, <3>4, Zenon
    <3> QED BY <3>3, <3>4, Zenon
  <2>5. result = "called" => \A i \in DOMAIN input : Accepts(signature[i], input[i])
    BY <2>1, <2>2
  <2> QED BY <2>3, <2>4, <2>5, Zenon DEF CalledWithInput
<1> QED BY <1>1, <1>2, DispatchInductive, PTL DEF DispatchSpec

-----------------------------------------------------------------------------
(* SceneSearch: the order of a depth-first search.  The definitions have   *)
(* the scene, ch, and the nodes of the name, w, as parameters, so that a   *)
(* step that leaves both alone leaves what is defined by them alone.       *)

Scenes == {ch \in [Node -> Seq(Node)] :
              \A n \in Node : /\ Len(ch[n]) <= MaxChildren
                              /\ \A i \in 1 .. Len(ch[n]) : n < ch[n][i]}

PositionsOf(ch) == {p \in Node \X (0 .. MaxChildren) : p[2] <= Len(ch[p[1]])}
ChildAt(ch, p) == ch[p[1]][p[2]]
Shorter(p) == <<p[1], p[2] - 1>>
Inside(ch, p) == <<ChildAt(ch, p), Len(ch[ChildAt(ch, p)])>>
VisitedAt(ch, g, p) == IF p[2] = 0 THEN <<p[1]>> ELSE g[Shorter(p)] \o g[Inside(ch, p)]
Orders(ch, g) == g = [p \in PositionsOf(ch) |-> VisitedAt(ch, g, p)]
OrderOf(ch) == CHOOSE g : Orders(ch, g)

LEMMA PreorderIs == \A n : Preorder(n) = OrderOf(children)[<<n, Len(children[n])>>]
BY Zenon DEF Preorder, OrderOf, Orders, VisitedAt, Shorter, Inside, ChildAt, PositionsOf,
             Positions

\* The places the search of a place goes through come earlier in the count of
\* what is left: children have higher numbers.
Left(p) == (NodeCount - p[1]) * (MaxChildren + 1) + p[2]

LEMMA RankIsNat ==
    ASSUME NEW ch \in Scenes, NEW p \in PositionsOf(ch)
    PROVE  Left(p) \in Nat
<1> DEFINE a == NodeCount - p[1]
           b == MaxChildren + 1
<1>1. a \in Nat /\ b \in Nat /\ p[2] \in Nat
  BY SceneAssumption DEF PositionsOf, Node
<1> HIDE DEF a, b
<1>2. a * b \in Nat
  BY <1>1
<1>3. a * b + p[2] \in Nat
  BY <1>1, <1>2
<1> QED BY <1>3 DEF Left, a, b

LEMMA RankFalls ==
    ASSUME NEW ch \in Scenes, NEW p \in PositionsOf(ch), p[2] # 0
    PROVE  /\ ChildAt(ch, p) \in Node
           /\ Shorter(p) \in PositionsOf(ch) /\ Left(Shorter(p)) < Left(p)
           /\ Inside(ch, p) \in PositionsOf(ch) /\ Left(Inside(ch, p)) < Left(p)
<1> DEFINE n == p[1]
           j == p[2]
           c == ChildAt(ch, p)
           l == Len(ch[c])
           M == MaxChildren
<1>1. /\ n \in Node /\ j \in 1 .. Len(ch[n]) /\ j \in 1 .. M /\ M \in Nat
      /\ p = <<n, j>>
  BY SceneAssumption DEF PositionsOf, Scenes
<1>2. c \in Node /\ n < c /\ ch[c] \in Seq(Node) /\ l <= M
  BY <1>1 DEF Scenes, ChildAt
<1>3. l \in Nat
  BY <1>2
<1> HIDE DEF n, j, c, l, M
<1>4. n \in Nat /\ c \in Nat /\ NodeCount \in Nat /\ c <= NodeCount
  BY <1>1, <1>2, SceneAssumption DEF Node
<1>5. Shorter(p) = <<n, j - 1>> /\ Inside(ch, p) = <<c, l>>
  BY <1>1 DEF Shorter, Inside, n, j, c, l
<1>6. <<n, j - 1>> \in PositionsOf(ch) /\ <<c, l>> \in PositionsOf(ch)
  <2>1. j - 1 \in 0 .. M /\ l \in 0 .. M
    BY <1>1, <1>2, <1>3
  <2>2. j - 1 <= Len(ch[n]) /\ l <= Len(ch[c])
    <3>1. ch[n] \in Seq(Node)
      BY <1>1 DEF Scenes
    <3> QED BY <1>1, <1>3, <3>1 DEF l
  <2> QED BY <1>1, <1>2, <2>1, <2>2 DEF PositionsOf, M
<1>7. Left(p) = (NodeCount - n) * (M + 1) + j
  BY DEF Left, n, j, M
<1>8. Left(<<n, j - 1>>) < Left(p)
  <2>1. Left(<<n, j - 1>>) = (NodeCount - n) * (M + 1) + (j - 1)
    BY DEF Left, M
  <2>2. (NodeCount - n) * (M + 1) \in Int
    BY <1>1, <1>4
  <2> QED BY <1>1, <1>7, <2>1, <2>2
<1>9. Left(<<c, l>>) < Left(p)
  <2>1. Left(<<c, l>>) = (NodeCount - c) * (M + 1) + l
    BY DEF Left, M
  <2>2. NodeCount - c + 1 <= NodeCount - n
    BY <1>2, <1>4
  <2>3. (NodeCount - c + 1) * (M + 1) <= (NodeCount - n) * (M + 1)
    BY <1>1, <1>4, <2>2
  <2>4. (NodeCount - c + 1) * (M + 1) = (NodeCount - c) * (M + 1) + M + 1
    BY <1>1, <1>4
  <2>5. (NodeCount - c) * (M + 1) \in Int /\ (NodeCount - n) * (M + 1) \in Int
    BY <1>1, <1>4
  <2> QED BY <1>1, <1>2, <1>3, <1>7, <2>1, <2>3, <2>4, <2>5
<1> QED BY <1>2, <1>5, <1>6, <1>8, <1>9 DEF c

\* There is such an order: up to every rank, and so for all places.
LEMMA OrderExists ==
    ASSUME NEW ch \in Scenes
    PROVE  Orders(ch, OrderOf(ch))
<1> DEFINE P(k) == {p \in PositionsOf(ch) : Left(p) < k}
           Upto(g, k) == g = [p \in P(k) |-> VisitedAt(ch, g, p)]
           S == {k \in Nat : \E g : Upto(g, k)}
<1>1. \A p \in PositionsOf(ch) : Left(p) \in Nat
  BY RankIsNat
<1>2. 0 \in S
  <2> DEFINE g == [p \in P(0) |-> << >>]
  <2>1. \A p \in PositionsOf(ch) : ~(Left(p) < 0)
    BY <1>1
  <2>2. P(0) = {}
    BY <2>1
  <2> HIDE DEF P
  <2>3. Upto(g, 0)
    BY <2>2
  <2> QED BY <2>3
<1>3. ASSUME NEW k \in Nat, k \in S PROVE k + 1 \in S
  <2>1. PICK g : Upto(g, k)
    BY <1>3
  <2> DEFINE h == [p \in P(k + 1) |-> VisitedAt(ch, g, p)]
  <2>2. \A p \in P(k) : p \in P(k + 1)
    BY <1>1
  <2>3. \A p \in P(k) : h[p] = g[p]
    <3>1. \A p \in P(k) : g[p] = VisitedAt(ch, g, p)
      <4> HIDE DEF P
      <4> QED BY <2>1
    <3> QED BY <2>2, <3>1
  <2>4. ASSUME NEW p \in P(k + 1), p[2] # 0
        PROVE  Shorter(p) \in P(k) /\ Inside(ch, p) \in P(k)
    <3>1. /\ Shorter(p) \in PositionsOf(ch) /\ Left(Shorter(p)) < Left(p)
          /\ Inside(ch, p) \in PositionsOf(ch) /\ Left(Inside(ch, p)) < Left(p)
      BY <2>4, RankFalls
    <3>2. \A a, b \in Nat : a < b /\ b < k + 1 => a < k
      OBVIOUS
    <3> QED BY <1>1, <3>1, <3>2
  <2> HIDE DEF P
  <2>5. \A p \in P(k + 1) : h[p] = VisitedAt(ch, h, p)
    <3> SUFFICES ASSUME NEW p \in P(k + 1) PROVE h[p] = VisitedAt(ch, h, p)
      OBVIOUS
    <3>1. h[p] = VisitedAt(ch, g, p)
      OBVIOUS
    <3> HIDE DEF h
    <3>2. p[2] # 0 => h[Shorter(p)] = g[Shorter(p)] /\ h[Inside(ch, p)] = g[Inside(ch, p)]
      BY <2>3, <2>4
    <3> QED BY <3>1, <3>2 DEF VisitedAt
  <2>6. h = [p \in P(k + 1) |-> h[p]]
    OBVIOUS
  <2> HIDE DEF h
  <2>7. Upto(h, k + 1)
    BY <2>5, <2>6
  <2> QED BY <2>7
<1> HIDE DEF S
<1>4. Nat \subseteq S
  BY <1>2, <1>3, SetInduction
<1> DEFINE most == (NodeCount + 1) * (MaxChildren + 1)
<1>5. most \in Nat
  BY SceneAssumption
<1>6. \A p \in PositionsOf(ch) : Left(p) < most
  <2> SUFFICES ASSUME NEW p \in PositionsOf(ch) PROVE Left(p) < most
    OBVIOUS
  <2> DEFINE n == p[1]
             j == p[2]
             M == MaxChildren
  <2>1. n \in Nat /\ n <= NodeCount /\ NodeCount \in Nat /\ M \in Nat /\ j \in 0 .. M
    BY SceneAssumption DEF PositionsOf, Node
  <2>2. Left(p) = (NodeCount - n) * (M + 1) + j
    BY DEF Left
  <2> HIDE DEF n, j
  <2>3. (NodeCount - n) * (M + 1) <= NodeCount * (M + 1)
    BY <2>1
  <2>4. (NodeCount + 1) * (M + 1) = NodeCount * (M + 1) + M + 1
    BY <2>1
  <2>5. (NodeCount - n) * (M + 1) \in Int /\ NodeCount * (M + 1) \in Int
    BY <2>1
  <2> QED BY <2>1, <2>2, <2>3, <2>4, <2>5
<1>7. P(most) = PositionsOf(ch)
  BY <1>6
<1> HIDE DEF P, most
<1>8. \E g : Orders(ch, g)
  BY <1>4, <1>5, <1>7 DEF S, Orders
<1> QED BY <1>8, Zenon DEF OrderOf

\* The order has the place's own node first, then what the search of its
\* children comes to.
LEMMA OrderIs ==
    ASSUME NEW ch \in Scenes
    PROVE  \A p \in PositionsOf(ch) : /\ OrderOf(ch)[p] = VisitedAt(ch, OrderOf(ch), p)
                                      /\ OrderOf(ch)[p] \in Seq(Node)
<1> DEFINE g == OrderOf(ch)
           S == {k \in Nat : \A p \in PositionsOf(ch) : Left(p) < k => g[p] \in Seq(Node)}
<1>1. \A p \in PositionsOf(ch) : g[p] = VisitedAt(ch, g, p)
  <2>1. Orders(ch, g)
    BY OrderExists
  <2> HIDE DEF g
  <2> QED BY <2>1 DEF Orders
<1> HIDE DEF g
<1>2. 0 \in S
  <2>1. \A p \in PositionsOf(ch) : ~(Left(p) < 0)
    BY RankIsNat
  <2> QED BY <2>1
<1>3. ASSUME NEW k \in Nat, k \in S PROVE k + 1 \in S
  <2> SUFFICES ASSUME NEW p \in PositionsOf(ch), Left(p) < k + 1 PROVE g[p] \in Seq(Node)
    OBVIOUS
  <2>1. CASE p[2] = 0
    <3>1. g[p] = <<p[1]>> /\ p[1] \in Node
      BY <1>1, <2>1 DEF VisitedAt, PositionsOf
    <3> QED BY <3>1
  <2>2. CASE p[2] # 0
    <3>1. /\ Shorter(p) \in PositionsOf(ch) /\ Left(Shorter(p)) < Left(p)
          /\ Inside(ch, p) \in PositionsOf(ch) /\ Left(Inside(ch, p)) < Left(p)
      BY <2>2, RankFalls
    <3>2. \A a, b \in Nat : a < b /\ b < k + 1 => a < k
      OBVIOUS
    <3>3. Left(Shorter(p)) < k /\ Left(Inside(ch, p)) < k
      BY <3>1, <3>2, RankIsNat
    <3>4. g[Shorter(p)] \in Seq(Node) /\ g[Inside(ch, p)] \in Seq(Node)
      BY <1>3, <3>1, <3>3
    <3>5. g[p] = g[Shorter(p)] \o g[Inside(ch, p)]
      BY <1>1, <2>2, Zenon DEF VisitedAt
    <3>6. \A a, b \in Seq(Node) : a \o b \in Seq(Node)
      OBVIOUS
    <3> QED BY <3>4, <3>5, <3>6, Zenon
  <2> QED BY <2>1, <2>2
<1> HIDE DEF S
<1>4. ASSUME NEW p \in PositionsOf(ch) PROVE g[p] \in Seq(Node)
  <2>1. Left(p) \in Nat /\ Left(p) + 1 \in Nat /\ Left(p) < Left(p) + 1
    BY RankIsNat
  <2>2. Left(p) + 1 \in S
    BY <1>2, <1>3, <2>1, SetInduction
  <2> QED BY <2>1, <2>2 DEF S
<1> QED BY <1>1, <1>4 DEF g

\* The first node of the name in a sequence of nodes.
Named(s, w) == {i \in DOMAIN s : s[i] \in w}
Hit(s, w) == IF Named(s, w) = {} THEN NULL ELSE s[Min(Named(s, w))]

LEMMA HitIs ==
    ASSUME NEW s \in Seq(Node), NEW w, NEW i \in 1 .. Len(s), s[i] \in w,
           \A j \in 1 .. i - 1 : s[j] \notin w
    PROVE  Hit(s, w) = s[i]
<1>1. i \in Named(s, w) /\ Named(s, w) \in SUBSET Nat
  BY DEF Named
<1>2. \A j \in Named(s, w) : i <= j
  BY DEF Named
<1>3. Min(Named(s, w)) = i
  BY <1>1, <1>2, LeastIsMin
<1> QED BY <1>1, <1>3 DEF Hit

LEMMA HitExists ==
    ASSUME NEW s \in Seq(Node), NEW w
    PROVE  IF Named(s, w) = {} THEN Hit(s, w) = NULL
           ELSE \E i \in 1 .. Len(s) : /\ s[i] \in w /\ Hit(s, w) = s[i] /\ s[i] # NULL
                                       /\ \A j \in 1 .. i - 1 : s[j] \notin w
<1>1. CASE Named(s, w) = {}
  BY <1>1 DEF Hit
<1>2. CASE Named(s, w) # {}
  <2>1. Named(s, w) \in SUBSET Nat
    BY DEF Named
  <2>2. PICK i \in Named(s, w) : \A j \in Named(s, w) : i <= j
    BY <1>2, <2>1, LeastNumber
  <2>3. i \in 1 .. Len(s) /\ s[i] \in w /\ s[i] \in Node
    BY DEF Named
  <2>4. \A j \in 1 .. i - 1 : s[j] \notin w
    <3>1. \A j \in 1 .. i - 1 : j \in DOMAIN s /\ ~(i <= j)
      BY <2>3
    <3> QED BY <2>2, <3>1 DEF Named
  <2>5. Hit(s, w) = s[i] /\ s[i] # NULL
    BY <2>3, <2>4, HitIs, SceneAssumption DEF Node
  <2> QED BY <1>2, <2>3, <2>4, <2>5
<1> QED BY <1>1, <1>2

LEMMA HitOne ==
    ASSUME NEW n \in Node, NEW w
    PROVE  Hit(<<n>>, w) = IF n \in w THEN n ELSE NULL
<1>1. <<n>> \in Seq(Node) /\ Len(<<n>>) = 1 /\ <<n>>[1] = n
  OBVIOUS
<1>2. CASE n \in w
  BY <1>1, <1>2, HitIs
<1>3. CASE n \notin w
  <2>1. Named(<<n>>, w) = {}
    BY <1>3 DEF Named
  <2> QED BY <1>3, <2>1 DEF Hit
<1> QED BY <1>2, <1>3

LEMMA HitBoth ==
    ASSUME NEW s \in Seq(Node), NEW t \in Seq(Node), NEW w
    PROVE  Hit(s \o t, w) = IF Hit(s, w) # NULL THEN Hit(s, w) ELSE Hit(t, w)
<1>1. /\ s \o t \in Seq(Node) /\ Len(s \o t) = Len(s) + Len(t)
      /\ \A i \in 1 .. Len(s) : (s \o t)[i] = s[i]
      /\ \A i \in 1 .. Len(t) : (s \o t)[Len(s) + i] = t[i]
      /\ \A i \in 1 .. Len(s) + Len(t) : i \in 1 .. Len(s) \/ i - Len(s) \in 1 .. Len(t)
  OBVIOUS
<1>2. CASE Named(s, w) # {}
  <2>1. PICK i \in 1 .. Len(s) : /\ s[i] \in w /\ Hit(s, w) = s[i] /\ s[i] # NULL
                                 /\ \A j \in 1 .. i - 1 : s[j] \notin w
    BY <1>2, HitExists
  <2>2. i \in 1 .. Len(s \o t) /\ \A j \in 1 .. i - 1 : (s \o t)[j] \notin w
    BY <1>1, <2>1
  <2>3. Hit(s \o t, w) = (s \o t)[i]
    BY <1>1, <2>1, <2>2, HitIs
  <2> QED BY <1>1, <2>1, <2>3
<1>3. CASE Named(s, w) = {} /\ Named(t, w) # {}
  <2>1. PICK i \in 1 .. Len(t) : /\ t[i] \in w /\ Hit(t, w) = t[i]
                                 /\ \A j \in 1 .. i - 1 : t[j] \notin w
    BY <1>3, HitExists
  <2>2. \A j \in 1 .. Len(s) : s[j] \notin w
    BY <1>3 DEF Named
  <2>3. Len(s) + i \in 1 .. Len(s \o t) /\ (s \o t)[Len(s) + i] = t[i]
    BY <1>1, <2>1
  <2>4. ASSUME NEW j \in 1 .. Len(s) + i - 1 PROVE (s \o t)[j] \notin w
    <3>1. CASE j \in 1 .. Len(s)
      BY <1>1, <2>2, <3>1
    <3>2. CASE j \notin 1 .. Len(s)
      <4>1. j - Len(s) \in 1 .. i - 1 /\ j - Len(s) \in 1 .. Len(t)
              /\ Len(s) + (j - Len(s)) = j
        BY <3>2
      <4> QED BY <1>1, <2>1, <4>1
    <3> QED BY <3>1, <3>2
  <2>5. Hit(s \o t, w) = t[i]
    <3> DEFINE r == s \o t
               k == Len(s) + i
    <3>1. r \in Seq(Node) /\ k \in 1 .. Len(r) /\ r[k] = t[i] /\ r[k] \in w
            /\ \A j \in 1 .. k - 1 : r[j] \notin w
      BY <1>1, <2>1, <2>3, <2>4
    <3> HIDE DEF r, k
    <3>2. Hit(r, w) = r[k]
      BY <3>1, HitIs
    <3> QED BY <3>1, <3>2 DEF r
  <2>6. Hit(s, w) = NULL
    BY <1>3 DEF Hit
  <2> QED BY <2>1, <2>5, <2>6
<1>4. CASE Named(s, w) = {} /\ Named(t, w) = {}
  <2>1. \A j \in 1 .. Len(s) : s[j] \notin w
    BY <1>4 DEF Named
  <2>2. \A j \in 1 .. Len(t) : t[j] \notin w
    BY <1>4 DEF Named
  <2>3. ASSUME NEW j \in 1 .. Len(s) + Len(t) PROVE (s \o t)[j] \notin w
    <3>1. CASE j \in 1 .. Len(s)
      BY <1>1, <2>1, <3>1
    <3>2. CASE j - Len(s) \in 1 .. Len(t)
      <4>1. Len(s) + (j - Len(s)) = j
        OBVIOUS
      <4> QED BY <1>1, <2>2, <3>2, <4>1
    <3> QED BY <1>1, <3>1, <3>2
  <2>4. Named(s \o t, w) = {}
    BY <1>1, <2>3 DEF Named
  <2> QED BY <1>4, <2>4 DEF Hit
<1> QED BY <1>2, <1>3, <1>4

\* What a search of n finds among n and its first j children.
FirstAt(ch, w, n, j) == Hit(OrderOf(ch)[<<n, j>>], w)
WholeAt(ch, w, n) == FirstAt(ch, w, n, Len(ch[n]))

LEMMA FirstIs ==
    ASSUME NEW ch \in Scenes, NEW w, NEW n \in Node, NEW j \in 0 .. Len(ch[n])
    PROVE  /\ FirstAt(ch, w, n, 0) = IF n \in w THEN n ELSE NULL
           /\ j # 0 => FirstAt(ch, w, n, j) =
                 IF FirstAt(ch, w, n, j - 1) # NULL THEN FirstAt(ch, w, n, j - 1)
                 ELSE WholeAt(ch, w, ch[n][j])
<1> DEFINE g == OrderOf(ch)
           c == ch[n][j]
<1>1. ch[n] \in Seq(Node) /\ Len(ch[n]) \in 0 .. MaxChildren
  BY SceneAssumption DEF Scenes
<1>2. <<n, 0>> \in PositionsOf(ch) /\ <<n, j>> \in PositionsOf(ch)
  BY <1>1, SceneAssumption DEF PositionsOf
<1>3. g[<<n, 0>>] = <<n>>
  BY <1>2, OrderIs DEF VisitedAt
<1>4. ASSUME j # 0
      PROVE  /\ g[<<n, j>>] = g[<<n, j - 1>>] \o g[<<c, Len(ch[c])>>]
             /\ g[<<n, j - 1>>] \in Seq(Node) /\ g[<<c, Len(ch[c])>>] \in Seq(Node)
  <2>1. Shorter(<<n, j>>) = <<n, j - 1>> /\ Inside(ch, <<n, j>>) = <<c, Len(ch[c])>>
    BY DEF Shorter, Inside, ChildAt
  <2>2. <<n, j - 1>> \in PositionsOf(ch) /\ <<c, Len(ch[c])>> \in PositionsOf(ch)
    BY <1>2, <1>4, <2>1, RankFalls
  <2>3. g[<<n, j>>] = VisitedAt(ch, g, <<n, j>>)
    BY <1>2, OrderIs
  <2>4. g[<<n, j - 1>>] \in Seq(Node) /\ g[<<c, Len(ch[c])>>] \in Seq(Node)
    BY <2>2, OrderIs
  <2> HIDE DEF g
  <2> QED BY <1>4, <2>1, <2>3, <2>4 DEF VisitedAt
<1>5. FirstAt(ch, w, n, 0) = IF n \in w THEN n ELSE NULL
  BY <1>3, HitOne DEF FirstAt
<1>6. j # 0 => FirstAt(ch, w, n, j) =
                 IF FirstAt(ch, w, n, j - 1) # NULL THEN FirstAt(ch, w, n, j - 1)
                 ELSE WholeAt(ch, w, c)
  <2> SUFFICES ASSUME j # 0
               PROVE  FirstAt(ch, w, n, j) =
                         IF FirstAt(ch, w, n, j - 1) # NULL THEN FirstAt(ch, w, n, j - 1)
                         ELSE WholeAt(ch, w, c)
    OBVIOUS
  <2> DEFINE a == g[<<n, j - 1>>]
             b == g[<<c, Len(ch[c])>>]
  <2>1. g[<<n, j>>] = a \o b /\ a \in Seq(Node) /\ b \in Seq(Node)
    BY <1>4
  <2>2. /\ FirstAt(ch, w, n, j) = Hit(g[<<n, j>>], w)
        /\ FirstAt(ch, w, n, j - 1) = Hit(a, w) /\ WholeAt(ch, w, c) = Hit(b, w)
    BY Zenon DEF FirstAt, WholeAt
  <2> HIDE DEF a, b, c, g
  <2> QED BY <2>1, <2>2, HitBoth
<1> QED BY <1>5, <1>6

\* What is found is found whatever children come after it.
LEMMA FirstStays ==
    ASSUME NEW ch \in Scenes, NEW w, NEW n \in Node, NEW j \in 0 .. Len(ch[n]),
           FirstAt(ch, w, n, j) # NULL
    PROVE  WholeAt(ch, w, n) = FirstAt(ch, w, n, j)
<1> DEFINE S == {k \in Nat : j + k <= Len(ch[n])
                               => FirstAt(ch, w, n, j + k) = FirstAt(ch, w, n, j)}
<1>1. Len(ch[n]) \in Nat
  BY DEF Scenes
<1>2. 0 \in S
  OBVIOUS
<1>3. ASSUME NEW k \in Nat, k \in S PROVE k + 1 \in S
  <2> SUFFICES ASSUME j + (k + 1) <= Len(ch[n])
               PROVE  FirstAt(ch, w, n, j + (k + 1)) = FirstAt(ch, w, n, j)
    OBVIOUS
  <2> DEFINE i == j + (k + 1)
  <2>1. i \in 0 .. Len(ch[n]) /\ i # 0 /\ i - 1 = j + k /\ j + k <= Len(ch[n])
    BY <1>1
  <2>2. FirstAt(ch, w, n, i - 1) = FirstAt(ch, w, n, j)
    BY <1>3, <2>1
  <2> HIDE DEF i
  <2>3. FirstAt(ch, w, n, i) = FirstAt(ch, w, n, i - 1)
    <3>1. FirstAt(ch, w, n, i) =
             IF FirstAt(ch, w, n, i - 1) # NULL THEN FirstAt(ch, w, n, i - 1)
             ELSE WholeAt(ch, w, ch[n][i])
      BY <2>1, FirstIs
    <3> QED BY <2>2, <3>1
  <2> QED BY <2>2, <2>3 DEF i
<1> HIDE DEF S
<1>4. Len(ch[n]) - j \in S /\ j + (Len(ch[n]) - j) = Len(ch[n])
  BY <1>1, <1>2, <1>3, SetInduction
<1> QED BY <1>4 DEF S, WholeAt

-----------------------------------------------------------------------------
(* SceneSearch: the search.                                                *)

SceneTypeOK == /\ children \in Scenes
               /\ start \in Node \cup {NULL}
               /\ frames \in Seq([node : Node, searched : Nat])
               /\ phase \in {"idle", "calling", "returning"}
               /\ foundNode \in Node \cup {NULL}

\* A frame whose call waits for the one above it, or for the one being made,
\* has found nothing below the children before the one it waits for.
WaitsFor(ch, w, fr, n) == /\ fr.searched \in 1 .. Len(ch[fr.node])
                          /\ FirstAt(ch, w, fr.node, fr.searched - 1) = NULL
                          /\ ch[fr.node][fr.searched] = n

FramesWait(ch, w, fs) ==
    /\ \A d \in 1 .. Len(fs) : fs[d].searched \in 0 .. Len(ch[fs[d].node])
    /\ \A d \in 1 .. Len(fs) - 1 : WaitsFor(ch, w, fs[d], fs[d + 1].node)

\* What the call that returns has found is what its search so far finds.
SceneInv ==
    /\ SceneTypeOK
    /\ FramesWait(children, wanted, frames)
    /\ frames # << >> => frames[1].node = start
    /\ phase = "calling" =>
          IF frames = << >> THEN foundNode = start
          ELSE WaitsFor(children, wanted, frames[Len(frames)], foundNode)
    /\ phase = "returning" /\ frames # << >> =>
          foundNode = FirstAt(children, wanted, frames[Len(frames)].node,
                              frames[Len(frames)].searched)
    /\ phase = "returning" /\ frames = << >> =>
          foundNode = IF start = NULL THEN NULL ELSE WholeAt(children, wanted, start)
    /\ phase = "idle" =>
          /\ frames = << >>
          /\ start # NULL => foundNode = WholeAt(children, wanted, start)

LEMMA ChildAdded ==
    ASSUME SceneInv, NEW n \in Node, NEW c \in Node, AddChild(n, c)
    PROVE  SceneInv'
<1>1. children' = [children EXCEPT ![n] = Append(@, c)]
        /\ n < c /\ Len(children[n]) < MaxChildren
        /\ UNCHANGED <<wanted, start, frames, phase, foundNode>>
  BY DEF AddChild
<1>2. children \in Scenes /\ children[n] \in Seq(Node)
  BY DEF SceneInv, SceneTypeOK, Scenes
<1>3. DEFINE s == Append(children[n], c)
<1>4. /\ s \in Seq(Node) /\ Len(s) = Len(children[n]) + 1
      /\ \A i \in 1 .. Len(s) : n < s[i]
  <2>1. /\ s \in Seq(Node) /\ Len(s) = Len(children[n]) + 1 /\ s[Len(s)] = c
        /\ \A i \in 1 .. Len(children[n]) : s[i] = children[n][i]
    BY <1>2
  <2>2. \A i \in 1 .. Len(s) : i \in 1 .. Len(children[n]) \/ i = Len(s)
    BY <1>2, <2>1
  <2>3. \A i \in 1 .. Len(children[n]) : n < children[n][i]
    BY <1>2 DEF Scenes
  <2> HIDE DEF s
  <2> QED BY <1>1, <2>1, <2>2, <2>3
<1>5. Len(s) <= MaxChildren
  BY <1>1, <1>2, <1>4, SceneAssumption
<1>6. children' = [children EXCEPT ![n] = s]
  BY <1>1, Zenon
<1> HIDE DEF s
<1>7. children' \in Scenes
  BY <1>2, <1>4, <1>5, <1>6 DEF Scenes
<1>8. phase = "idle" /\ start = NULL /\ frames = << >>
  BY DEF SceneInv, AddChild
<1> QED BY <1>1, <1>7, <1>8 DEF SceneInv, SceneTypeOK, FramesWait

LEMMA ElementOf ==
    ASSUME NEW S, NEW s \in Seq(S), NEW i \in 1 .. Len(s)
    PROVE  s[i] \in S
OBVIOUS

\* The last of the frames, and those below it.
LEMMA LastOf ==
    ASSUME NEW S, NEW fs \in Seq(S), fs # << >>
    PROVE  /\ Len(fs) \in Nat /\ Len(fs) \in 1 .. Len(fs) /\ fs[Len(fs)] \in S
           /\ Front(fs) \in Seq(S) /\ Len(Front(fs)) = Len(fs) - 1
           /\ \A d \in 1 .. Len(fs) - 1 : Front(fs)[d] = fs[d]
<1>1. Len(fs) \in Nat /\ Len(fs) \in 1 .. Len(fs) /\ fs[Len(fs)] \in S
  OBVIOUS
<1> DEFINE n == Len(fs) - 1
<1>2. n \in Nat /\ n <= Len(fs)
  BY <1>1
<1> HIDE DEF n
<1>3. SubSeq(fs, 1, n) = [i \in 1 .. n |-> fs[i]]
  BY <1>2
<1>4. \A i \in 1 .. n : fs[i] \in S
  BY <1>2, ElementOf
<1>5. Front(fs) = [i \in 1 .. n |-> fs[i]]
  BY <1>3 DEF Front, n
<1>6. /\ Front(fs) \in Seq(S) /\ Len(Front(fs)) = n
      /\ \A d \in 1 .. n : Front(fs)[d] = fs[d]
  BY <1>2, <1>4, <1>5
<1> QED BY <1>1, <1>6 DEF n

\* A child's find is the find, when none before it has any.
LEMMA FirstIsChild ==
    ASSUME NEW ch \in Scenes, NEW w, NEW n \in Node, NEW j, j \in 1 .. Len(ch[n]),
           FirstAt(ch, w, n, j - 1) = NULL
    PROVE  FirstAt(ch, w, n, j) = WholeAt(ch, w, ch[n][j])
<1>1. j \in 0 .. Len(ch[n]) /\ j # 0
  OBVIOUS
<1>2. ASSUME NEW i \in 0 .. Len(ch[n]), i # 0, FirstAt(ch, w, n, i - 1) = NULL
      PROVE  FirstAt(ch, w, n, i) = WholeAt(ch, w, ch[n][i])
  BY <1>2, FirstIs, SMTT(30)
<1> QED BY <1>1, <1>2

LEMMA EnterNodeStep ==
    ASSUME SceneInv, EnterNode
    PROVE  SceneInv'
<1> DEFINE k == Len(frames)
           fr == frames[k]
           x == foundNode
           ch == children
           w == wanted
<1>1. /\ SceneTypeOK /\ k \in Nat /\ ch \in Scenes /\ UNCHANGED <<children, wanted, start>>
      /\ phase = "calling"
  BY DEF SceneInv, SceneTypeOK, EnterNode
<1>2. IF frames = << >> THEN x = start ELSE WaitsFor(ch, w, fr, x)
  BY <1>1 DEF SceneInv
<1>3. frames # << >> => k \in 1 .. k /\ fr \in [node : Node, searched : Nat] /\ x \in Node
  <2> SUFFICES ASSUME frames # << >>
               PROVE  k \in 1 .. k /\ fr \in [node : Node, searched : Nat] /\ x \in Node
    OBVIOUS
  <2>1. k \in 1 .. k /\ fr \in [node : Node, searched : Nat]
    BY <1>1, LastOf DEF SceneTypeOK
  <2>2. ch[fr.node] \in Seq(Node)
    BY <1>1, <2>1 DEF Scenes
  <2>3. fr.searched \in 1 .. Len(ch[fr.node]) /\ ch[fr.node][fr.searched] = x
    BY <1>2 DEF WaitsFor
  <2> QED BY <2>1, <2>2, <2>3
<1>4. FramesWait(ch, w, frames) /\ (frames # << >> => frames[1].node = start)
  BY DEF SceneInv
<1>5. x # NULL => x \in Node /\ Len(ch[x]) \in Nat
  BY <1>1 DEF SceneTypeOK, Scenes
<1>6. CASE x = NULL
  <2>1. frames = << >> /\ start = NULL
    BY <1>2, <1>3, <1>6, SceneAssumption DEF Node
  <2>2. phase' = "returning" /\ UNCHANGED <<frames, foundNode>>
    BY <1>6, Zenon DEF EnterNode
  <2> QED BY <1>1, <1>4, <1>6, <2>1, <2>2 DEF SceneInv, SceneTypeOK
<1>7. CASE x # NULL /\ x \in w
  <2>1. phase' = "returning" /\ UNCHANGED <<frames, foundNode>>
    BY <1>7, Zenon DEF EnterNode
  <2>2. FirstAt(ch, w, x, 0) = x
    BY <1>1, <1>5, <1>7, FirstIs
  <2>3. WholeAt(ch, w, x) = x
    BY <1>1, <1>5, <1>7, <2>2, FirstStays
  <2>4. frames # << >> => FirstAt(ch, w, fr.node, fr.searched) = x
    <3> SUFFICES ASSUME frames # << >> PROVE FirstAt(ch, w, fr.node, fr.searched) = x
      OBVIOUS
    <3> DEFINE m == fr.node
               j == fr.searched
    <3>1. /\ m \in Node /\ j \in 1 .. Len(ch[m])
          /\ FirstAt(ch, w, m, j - 1) = NULL /\ ch[m][j] = x
      BY <1>2, <1>3 DEF WaitsFor
    <3> HIDE DEF m, j
    <3>2. FirstAt(ch, w, m, j) = WholeAt(ch, w, ch[m][j])
      BY <1>1, <3>1, FirstIsChild
    <3> QED BY <2>3, <3>1, <3>2 DEF m, j
  <2>5. frames = << >> => start # NULL /\ x = WholeAt(ch, w, start)
    BY <1>2, <1>7, <2>3
  <2> QED BY <1>1, <1>4, <2>1, <2>4, <2>5 DEF SceneInv, SceneTypeOK
<1>8. CASE x # NULL /\ x \notin w
  <2> DEFINE new == [node |-> x, searched |-> 0]
             fs == Append(frames, new)
  <2>1. frames' = fs /\ phase' = "returning" /\ foundNode' = NULL
    BY <1>8, Zenon DEF EnterNode
  <2>2. new \in [node : Node, searched : Nat] /\ new.node = x /\ new.searched = 0
    BY <1>5, <1>8
  <2> HIDE DEF new
  <2>3. /\ fs \in Seq([node : Node, searched : Nat]) /\ Len(fs) = k + 1
        /\ fs[k + 1] = new /\ \A d \in 1 .. k : fs[d] = frames[d]
    BY <1>1, <2>2 DEF SceneTypeOK
  <2> HIDE DEF fs
  <2>4. FirstAt(ch, w, x, 0) = NULL
    BY <1>1, <1>5, <1>8, FirstIs
  <2>5. \A d \in 1 .. k + 1 : fs[d].searched \in 0 .. Len(ch[fs[d].node])
    <3>1. \A d \in 1 .. k + 1 : d \in 1 .. k \/ d = k + 1
      BY <1>1
    <3>2. \A d \in 1 .. k : fs[d].searched \in 0 .. Len(ch[fs[d].node])
      BY <1>4, <2>3 DEF FramesWait
    <3>3. fs[k + 1].searched \in 0 .. Len(ch[fs[k + 1].node])
      BY <1>5, <1>8, <2>2, <2>3
    <3> QED BY <3>1, <3>2, <3>3
  <2>6. \A d \in 1 .. k : WaitsFor(ch, w, fs[d], fs[d + 1].node)
    <3>1. ASSUME NEW d \in 1 .. k, d # k PROVE WaitsFor(ch, w, fs[d], fs[d + 1].node)
      <4>1. d \in 1 .. k - 1 /\ d + 1 \in 1 .. k
        BY <1>1, <3>1
      <4>2. WaitsFor(ch, w, frames[d], frames[d + 1].node)
        BY <1>4, <4>1 DEF FramesWait
      <4> QED BY <2>3, <4>1, <4>2
    <3>2. ASSUME k \in 1 .. k PROVE WaitsFor(ch, w, fs[k], fs[k + 1].node)
      <4>1. frames # << >>
        BY <3>2
      <4>2. WaitsFor(ch, w, fr, x)
        BY <1>2, <4>1
      <4> QED BY <2>2, <2>3, <3>2, <4>2
    <3> QED BY <3>1, <3>2
  <2>7. FramesWait(ch, w, fs)
    BY <1>1, <2>3, <2>5, <2>6 DEF FramesWait
  <2>8. fs[1].node = start
    <3>1. CASE frames = << >>
      <4>1. k = 0
        BY <3>1
      <4> QED BY <1>2, <2>2, <2>3, <3>1, <4>1
    <3>2. CASE frames # << >>
      BY <1>3, <1>4, <2>3, <3>2
    <3> QED BY <3>1, <3>2
  <2>9. fs # << >> /\ Len(fs) = k + 1 /\ fs[k + 1].node = x /\ fs[k + 1].searched = 0
    BY <1>1, <2>2, <2>3
  <2> QED BY <1>1, <2>1, <2>3, <2>4, <2>7, <2>8, <2>9 DEF SceneInv, SceneTypeOK
<1> QED BY <1>6, <1>7, <1>8

LEMMA NextChildStep ==
    ASSUME SceneInv, NextChild
    PROVE  SceneInv'
<1> DEFINE k == Len(frames)
           fr == frames[k]
           m == fr.node
           j == fr.searched
           ch == children
           w == wanted
           fs == [frames EXCEPT ![k].searched = @ + 1]
<1>1. /\ SceneTypeOK /\ ch \in Scenes /\ UNCHANGED <<children, wanted, start>>
      /\ phase = "returning" /\ foundNode = NULL /\ frames # << >>
      /\ FramesWait(ch, w, frames) /\ frames[1].node = start
      /\ phase' = "calling"
  BY DEF SceneInv, SceneTypeOK, NextChild
<1>2. k \in Nat /\ k \in 1 .. k /\ fr \in [node : Node, searched : Nat]
  BY <1>1, LastOf DEF SceneTypeOK
<1>3. m \in Node /\ j \in Nat /\ j < Len(ch[m]) /\ ch[m] \in Seq(Node)
        /\ foundNode' = ch[m][j + 1] /\ frames' = fs
  <2>1. j < Len(ch[m]) /\ foundNode' = ch[m][j + 1] /\ frames' = fs
    BY DEF NextChild, MoreChildren, Top, Last
  <2>2. m \in Node /\ j \in Nat
    BY <1>2
  <2> QED BY <1>1, <2>1, <2>2 DEF Scenes
<1>4. FirstAt(ch, w, m, j) = NULL
  BY <1>1 DEF SceneInv
<1>5. /\ fs \in Seq([node : Node, searched : Nat]) /\ Len(fs) = k
      /\ \A d \in 1 .. k : d # k => fs[d] = frames[d]
      /\ fs[k].node = m /\ fs[k].searched = j + 1
  <2> DEFINE new == [fr EXCEPT !.searched = j + 1]
  <2>1. new \in [node : Node, searched : Nat] /\ new.node = m /\ new.searched = j + 1
    BY <1>2
  <2>2. fs = [frames EXCEPT ![k] = new]
    OBVIOUS
  <2> HIDE DEF new, fs
  <2> QED BY <1>1, <1>2, <2>1, <2>2 DEF SceneTypeOK
<1> HIDE DEF fs
<1>6. \A d \in 1 .. k : fs[d].node = frames[d].node
  BY <1>5
<1>7. WaitsFor(ch, w, fs[k], foundNode')
  <2>1. j + 1 \in 1 .. Len(ch[m]) /\ (j + 1) - 1 = j
    BY <1>3
  <2> QED BY <1>3, <1>4, <1>5, <2>1 DEF WaitsFor
<1>8. FramesWait(ch, w, fs)
  <2>1. \A d \in 1 .. k : fs[d].searched \in 0 .. Len(ch[fs[d].node])
    <3>1. \A d \in 1 .. k : d # k => fs[d].searched \in 0 .. Len(ch[fs[d].node])
      BY <1>1, <1>5 DEF FramesWait
    <3>2. fs[k].searched \in 0 .. Len(ch[fs[k].node])
      BY <1>3, <1>5
    <3> QED BY <3>1, <3>2
  <2>2. \A d \in 1 .. k - 1 : WaitsFor(ch, w, fs[d], fs[d + 1].node)
    <3> SUFFICES ASSUME NEW d \in 1 .. k - 1
                 PROVE  WaitsFor(ch, w, fs[d], fs[d + 1].node)
      OBVIOUS
    <3>1. d \in 1 .. k /\ d # k /\ d + 1 \in 1 .. k
      BY <1>2
    <3>2. WaitsFor(ch, w, frames[d], frames[d + 1].node)
      BY <1>1 DEF FramesWait
    <3> QED BY <1>5, <1>6, <3>1, <3>2
  <2> QED BY <1>5, <2>1, <2>2 DEF FramesWait
<1>9. fs # << >> /\ fs[1].node = start
  BY <1>1, <1>2, <1>5, <1>6
<1>10. foundNode' \in Node
  BY <1>3
<1> QED BY <1>1, <1>3, <1>5, <1>7, <1>8, <1>9, <1>10 DEF SceneInv, SceneTypeOK

LEMMA ReturnNodeStep ==
    ASSUME SceneInv, ReturnNode
    PROVE  SceneInv'
<1> DEFINE k == Len(frames)
           fr == frames[k]
           n == fr.node
           s == fr.searched
           ch == children
           w == wanted
           fs == Front(frames)
<1>1. /\ SceneTypeOK /\ ch \in Scenes
      /\ UNCHANGED <<children, wanted, start, phase, foundNode>>
      /\ phase = "returning" /\ frames # << >>
      /\ FramesWait(ch, w, frames) /\ frames[1].node = start
      /\ frames' = fs
  BY DEF SceneInv, SceneTypeOK, ReturnNode
<1>2. k \in Nat /\ k \in 1 .. k /\ fr \in [node : Node, searched : Nat]
  BY <1>1, LastOf DEF SceneTypeOK
<1>3. n \in Node /\ s \in 0 .. Len(ch[n]) /\ ch[n] \in Seq(Node)
        /\ (foundNode # NULL \/ ~(s < Len(ch[n])))
  <2>1. foundNode # NULL \/ ~(s < Len(ch[n]))
    BY DEF ReturnNode, MoreChildren, Top, Last
  <2>2. n \in Node /\ s \in 0 .. Len(ch[n])
    BY <1>1, <1>2 DEF FramesWait
  <2> QED BY <1>1, <2>1, <2>2 DEF Scenes
<1>4. foundNode = FirstAt(ch, w, n, s)
  BY <1>1 DEF SceneInv
<1> HIDE DEF n, s
<1>5. foundNode = WholeAt(ch, w, n)
  <2>1. CASE foundNode # NULL
    BY <1>1, <1>3, <1>4, <2>1, FirstStays
  <2>2. CASE ~(s < Len(ch[n]))
    <3>1. s = Len(ch[n])
      BY <1>3, <2>2
    <3> QED BY <1>4, <3>1 DEF WholeAt
  <2> QED BY <1>3, <2>1, <2>2
<1>6. /\ fs \in Seq([node : Node, searched : Nat]) /\ Len(fs) = k - 1
      /\ \A d \in 1 .. k - 1 : fs[d] = frames[d]
  BY <1>1, LastOf DEF SceneTypeOK
<1> HIDE DEF fs
<1>7. FramesWait(ch, w, fs)
  <2>1. \A d \in 1 .. k - 1 : d \in 1 .. k /\ (d # k - 1 => d \in 1 .. (k - 1) - 1)
    BY <1>2
  <2>2. \A d \in 1 .. k - 1 : fs[d].searched \in 0 .. Len(ch[fs[d].node])
    BY <1>1, <1>6, <2>1 DEF FramesWait
  <2>3. \A d \in 1 .. (k - 1) - 1 : d \in 1 .. k - 1 /\ d + 1 \in 1 .. k - 1
    BY <1>2
  <2>4. \A d \in 1 .. (k - 1) - 1 : WaitsFor(ch, w, fs[d], fs[d + 1].node)
    BY <1>1, <1>6, <2>3 DEF FramesWait
  <2> QED BY <1>6, <2>2, <2>4 DEF FramesWait
<1>8. CASE k = 1
  <2>1. fs = << >>
    BY <1>6, <1>8
  <2>2. n = start /\ start # NULL
    BY <1>1, <1>3, <1>8, SceneAssumption DEF Node, n
  <2> QED BY <1>1, <1>5, <1>6, <1>7, <2>1, <2>2 DEF SceneInv, SceneTypeOK
<1>9. CASE k # 1
  <2> DEFINE d == k - 1
             m == frames[d].node
             j == frames[d].searched
  <2>1. d \in 1 .. k - 1 /\ d \in 1 .. k /\ d + 1 = k /\ 1 \in 1 .. k - 1
    <3> HIDE DEF k
    <3> QED BY <1>2, <1>9
  <2>2. WaitsFor(ch, w, frames[d], n)
    BY <1>1, <2>1 DEF FramesWait, n
  <2>3. m \in Node
    <3>1. frames \in Seq([node : Node, searched : Nat]) /\ d \in 1 .. Len(frames)
      BY <1>1, <2>1 DEF SceneTypeOK
    <3> HIDE DEF d
    <3>2. frames[d] \in [node : Node, searched : Nat]
      BY <3>1, ElementOf
    <3> QED BY <3>2
  <2>4. /\ j \in 1 .. Len(ch[m])
        /\ FirstAt(ch, w, m, j - 1) = NULL /\ ch[m][j] = n
    BY <2>2 DEF WaitsFor
  <2>5. fs # << >> /\ fs[1].node = start /\ Len(fs) = d /\ fs[d].node = m
          /\ fs[d].searched = j
    BY <1>1, <1>2, <1>6, <2>1
  <2> HIDE DEF d, m, j
  <2>6. FirstAt(ch, w, m, j) = WholeAt(ch, w, ch[m][j])
    BY <1>1, <2>3, <2>4, FirstIsChild
  <2>7. foundNode = FirstAt(ch, w, m, j)
    BY <1>5, <2>4, <2>6
  <2> QED BY <1>1, <1>6, <1>7, <2>5, <2>7 DEF SceneInv, SceneTypeOK
<1> QED BY <1>8, <1>9

LEMMA SceneInductive == SceneInv /\ [SceneNext]_sceneVars => SceneInv'
<1> SUFFICES ASSUME SceneInv, [SceneNext]_sceneVars PROVE SceneInv'
  OBVIOUS
<1>1. ASSUME NEW n \in Node, SetName(n) PROVE SceneInv'
  BY <1>1 DEF SetName, SceneInv, SceneTypeOK, FramesWait
<1>2. ASSUME NEW n \in Node \cup {NULL}, Search(n) PROVE SceneInv'
  BY <1>2 DEF Search, SceneInv, SceneTypeOK, FramesWait
<1>3. CASE Finish
  BY <1>3 DEF Finish, SceneInv, SceneTypeOK
<1>4. CASE UNCHANGED sceneVars
  BY <1>4 DEF sceneVars, SceneInv, SceneTypeOK
<1> QED BY <1>1, <1>2, <1>3, <1>4, ChildAdded, EnterNodeStep, NextChildStep,
           ReturnNodeStep DEF SceneNext

\* A search returns the first node of the name in depth-first order, in a scene
\* of any size in which children come after their parents.
THEOREM SearchFindsFirst == SceneSpec => []FindsFirst
<1>1. SceneInit => SceneInv
  <2> SUFFICES ASSUME SceneInit PROVE SceneInv
    OBVIOUS
  <2>1. children = [n \in Node |-> << >>] /\ frames = << >> /\ Len(<< >>) = 0
    BY DEF SceneInit
  <2>2. children \in Scenes
    BY <2>1, SceneAssumption DEF Scenes
  <2> QED BY <2>1, <2>2 DEF SceneInit, SceneInv, SceneTypeOK, FramesWait
<1>2. ASSUME SceneInv PROVE FindsFirst
  <2>1. phase = "idle" /\ start # NULL =>
           foundNode = Hit(OrderOf(children)[<<start, Len(children[start])>>], wanted)
    BY <1>2 DEF SceneInv, WholeAt, FirstAt
  <2>2. phase = "idle" /\ start # NULL => foundNode = Hit(Preorder(start), wanted)
    BY <2>1, PreorderIs
  <2> QED BY <2>2, Zenon DEF FindsFirst, Hit, Named
<1> QED BY <1>1, <1>2, SceneInductive, PTL DEF SceneSpec

-----------------------------------------------------------------------------
(* Composition.                                                            *)

\* A step of a program is a step of one header, or none.
LEMMA OneHeaderSteps ==
    ASSUME [Next]_headerVars
    PROVE  /\ [RangedNext]_rangedVars /\ [StoreNext]_storeVars
           /\ [GuardNext]_guardVars /\ [PairNext]_pairVars /\ [TieNext]_tieVars
           /\ [CubeNext]_cubeVars /\ [DispatchNext]_dispatchVars /\ [TypeNext]_typeVars
           /\ [StrideNext]_strideVars /\ [GeneratorNext]_generatorVars
           /\ [StringNext]_stringVars /\ [SceneNext]_sceneVars /\ [PathNext]_pathVars
<1>1. CASE Next
  BY <1>1, Zenon DEF Next, Others
<1>2. CASE UNCHANGED headerVars
  BY <1>2, Zenon DEF headerVars
<1> QED BY <1>1, <1>2

\* A program that uses one of the headers uses it as that header's own
\* specification says.  That the loop of a SizeGenerator goes on is left out:
\* its safety does not need it.
THEOREM HeadersAreComponents ==
    Spec => /\ PathSpec /\ RangedSpec /\ StoreSpec /\ GuardSpec /\ PairSpec /\ TieSpec
            /\ CubeSpec /\ DispatchSpec /\ TypeSpec /\ StrideSpec /\ StringSpec
            /\ SceneSpec /\ GeneratorInit /\ [][GeneratorNext]_generatorVars
<1>1. Init => /\ PathInit /\ RangedInit /\ StoreInit /\ GuardInit /\ PairInit /\ TieInit
              /\ CubeInit /\ DispatchInit /\ TypeInit /\ StrideInit /\ GeneratorInit
              /\ StringInit /\ SceneInit
  BY DEF Init
<1> QED BY <1>1, OneHeaderSteps, PTL
        DEF Spec, PathSpec, RangedSpec, StoreSpec, GuardSpec, PairSpec, TieSpec, CubeSpec,
            DispatchSpec, TypeSpec, StrideSpec, StringSpec, SceneSpec

\* What is proved of a header's objects holds of the programs that use them.
THEOREM ObjectsKeepPromises ==
    Spec => /\ []TemplatesReadBack /\ []DirectoriesReadBack
            /\ []CheckedInRange /\ []NumbersStable
            /\ []KeepsBothInOrder /\ []InterchangeableKeys
            /\ []FaceIsPartOfCube /\ []HandlesAreKeys /\ []HoldsCopy
            /\ ImplementsDuty
BY HeadersAreComponents, TemplatesAreReadBack, DirectoriesAreReadBack,
   CheckedObjectsInRange, NumbersAreStable, PairsKeepBoth, PairsAreInterchangeable,
   FacesArePartOfCube, HandlesServeAsKeys, StringsAreHeld, GuardsImplementDuty, PTL

\* What is proved of a header's operations holds in the programs that call them.
THEOREM OperationsKeepPromises ==
    Spec => /\ []FiresEveryNth /\ []GridCovered /\ []CalledWithInput
            /\ []AppliesAtIndex /\ []FindsFirst
            /\ SimultaneousAssignment
BY HeadersAreComponents, StrideFires, GridSafe, OperationGetsInput,
   AppliesToTypeAtIndex, SearchFindsFirst, AssignmentIsSimultaneous, PTL

=============================================================================
