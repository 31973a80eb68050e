------------------------- MODULE ReceiveBufferProofs -------------------------
(***************************************************************************)
(* ReceiveBuffer for every capacity, every set of values and any number of *)
(* buffers: the windows stay inside their arrays, and every operation does *)
(* to the values held what BoundedSequence says.                           *)
(***************************************************************************)
EXTENDS ReceiveBuffer, SequenceTheorems, TLAPS

\* A buffer whose window lies inside its array.
Window == {x \in [begin : 0..Capacity, pastEnd : 0..Capacity,
                  contents : [Index -> Values]] : x.begin <= x.pastEnd}

\* The values a buffer holds, as ImplementsSequence sees them.
Held(x) == [i \in 1..size(x) |-> At(x, i - 1)]

\* The size of a buffer fits its array, and what its window shows are values.
LEMMA SizeProperties ==
  ASSUME NEW x \in Window
  PROVE  /\ size(x) \in 0..Capacity
         /\ \A i \in 0..size(x) - 1 : At(x, i) \in Values
BY BufferAssumption DEF Window, size, At, Index

\* What a buffer holds is a sequence of values, as long as the window.
LEMMA HeldProperties ==
  ASSUME NEW x \in Window
  PROVE  /\ Held(x) \in Seq(Values)
         /\ Len(Held(x)) = size(x)
         /\ \A i \in 1..size(x) : Held(x)[i] = At(x, i - 1)
<1>1. size(x) \in Nat
  BY SizeProperties, BufferAssumption
<1>2. Held(x) \in [1..size(x) -> Values]
  BY <1>1, SizeProperties DEF Held
<1>3. Held(x) \in Seq(Values)
  BY <1>1, <1>2, SeqDef
<1>4. DOMAIN Held(x) = 1..Len(Held(x)) /\ Len(Held(x)) \in Nat
  BY <1>3, LenProperties
<1>5. DOMAIN Held(x) = 1..size(x)
  BY DEF Held
<1>6. Len(Held(x)) = size(x)
  BY <1>1, <1>4, <1>5
<1> QED
  BY <1>3, <1>6 DEF Held

\* Two windows that show the same values hold the same sequence.
LEMMA HeldEqual ==
  ASSUME NEW x \in Window, NEW s \in Seq(Values), Len(s) = size(x),
         \A i \in 1..size(x) : s[i] = At(x, i - 1)
  PROVE  Held(x) = s
BY HeldProperties, SeqEqual

\* What a caller passes is a sequence of values.
LEMMA GivenIsSeq ==
  ASSUME NEW n \in Nat, NEW s \in [1..n -> Values]
  PROVE  s \in Seq(Values) /\ Len(s) = n
<1>1. s \in Seq(Values)
  BY SeqDef
<1>2. Len(s) \in Nat /\ DOMAIN s = 1..Len(s)
  BY <1>1, LenProperties
<1> QED
  BY <1>1, <1>2

\* idealContentsCopy gives the destination what the source holds, also where
\* source and destination are one buffer.
LEMMA MovedProperties ==
  ASSUME NEW source \in Window, NEW dest \in Window
  PROVE  /\ Moved(source, dest) \in Window
         /\ size(Moved(source, dest)) = size(source)
         /\ Held(Moved(source, dest)) = Held(source)
<1> DEFINE m == Moved(source, dest)
<1>1. size(source) \in 0..Capacity
  BY SizeProperties
<1>2. \A k \in Index : k < size(source) => At(source, k) \in Values
  BY SizeProperties, BufferAssumption DEF Index
<1>3. m \in Window
  BY <1>1, <1>2, BufferAssumption DEF Moved, Window
<1>4. size(m) = size(source)
  BY <1>1, BufferAssumption DEF Moved, size
<1>5. \A i \in 1..size(m) : Held(source)[i] = At(m, i - 1)
  BY <1>1, <1>4, HeldProperties, BufferAssumption DEF Moved, At, Index
<1> QED
  BY <1>3, <1>4, <1>5, HeldProperties, HeldEqual

\* ensure_space makes the room it is asked for and moves no value in the sequence.
LEMMA EnsureSpaceProperties ==
  ASSUME NEW x \in Window, NEW n \in 0..Capacity - size(x)
  PROVE  /\ ensure_space(x, n) \in Window
         /\ ensure_space(x, n).pastEnd + n <= Capacity
         /\ size(ensure_space(x, n)) = size(x)
         /\ Held(ensure_space(x, n)) = Held(x)
<1> DEFINE e == IF size(x) = 0 THEN [x EXCEPT !.begin = 0, !.pastEnd = 0] ELSE x
<1>1. size(x) \in 0..Capacity
  BY SizeProperties
<1>2. e \in Window /\ size(e) = size(x)
  <2>1. CASE size(x) = 0
    <3> DEFINE y == [x EXCEPT !.begin = 0]
    <3>1. y \in [begin : 0..Capacity, pastEnd : 0..Capacity, contents : [Index -> Values]]
      BY BufferAssumption DEF Window
    <3>2. y.begin = 0
      BY DEF Window
    <3>3. e = [y EXCEPT !.pastEnd = 0]
      BY <2>1
    <3> HIDE DEF y
    <3>4. [y EXCEPT !.pastEnd = 0] \in Window
      BY <3>1, <3>2, BufferAssumption DEF Window
    <3> QED
      BY <2>1, <3>1, <3>2, <3>3, <3>4 DEF size
  <2>2. CASE size(x) # 0
    BY <2>2
  <2> QED
    BY <2>1, <2>2
<1>3. Held(e) = Held(x)
  <2>1. \A i \in 1..size(e) : Held(x)[i] = At(e, i - 1)
    BY <1>1, <1>2, HeldProperties DEF At
  <2> QED
    BY <1>2, <2>1, HeldProperties, HeldEqual
<1>4. Moved(e, e).pastEnd + n <= Capacity
  BY <1>1, <1>2, BufferAssumption DEF Moved
<1>5. ensure_space(x, n) = IF e.pastEnd + n <= Capacity THEN e ELSE Moved(e, e)
  BY DEF ensure_space
<1> HIDE DEF e
<1> QED
  BY <1>2, <1>3, <1>4, <1>5, MovedProperties

\* A buffer with its end and its array replaced.
Rewritten(x, p, c) == [x EXCEPT !.pastEnd = p, !.contents = c]

\* It is a buffer when the new end is behind its beginning.
LEMMA RewrittenProperties ==
  ASSUME NEW x \in Window, NEW p \in x.begin..Capacity, NEW c \in [Index -> Values]
  PROVE  /\ Rewritten(x, p, c) \in Window
         /\ Rewritten(x, p, c).begin = x.begin
         /\ Rewritten(x, p, c).pastEnd = p
         /\ Rewritten(x, p, c).contents = c
<1> DEFINE y == [x EXCEPT !.pastEnd = p]
<1>1. y \in [begin : 0..Capacity, pastEnd : 0..Capacity, contents : [Index -> Values]]
  BY BufferAssumption DEF Window
<1>2. y.begin = x.begin /\ y.pastEnd = p
  BY DEF Window
<1>3. Rewritten(x, p, c) = [y EXCEPT !.contents = c]
  BY DEF Rewritten
<1> HIDE DEF y
<1> QED
  BY <1>1, <1>2, <1>3, BufferAssumption DEF Window

\* Values written behind the window are appended to the sequence, as many as
\* the window then grows by.
LEMMA FilledProperties ==
  ASSUME NEW x \in Window, NEW m \in 0..Capacity - size(x),
         NEW s \in [1..m -> Values], NEW n \in 0..m
  PROVE  /\ Filled(x, s, n) \in Window
         /\ size(Filled(x, s, n)) = size(x) + n
         /\ Held(Filled(x, s, n)) = Held(x) \o SubSeq(s, 1, n)
<1>0. size(x) \in 0..Capacity /\ m \in Nat /\ n \in Nat
  BY SizeProperties, BufferAssumption
<1>1. s \in Seq(Values) /\ Len(s) = m
  BY <1>0, GivenIsSeq
<1> DEFINE e == ensure_space(x, m)
           c == [k \in Index |-> IF k - e.pastEnd \in 0..m - 1
                                    THEN s[k - e.pastEnd + 1] ELSE e.contents[k]]
           f == Filled(x, s, n)
<1>2. /\ e \in Window /\ e.pastEnd + m <= Capacity
      /\ size(e) = size(x) /\ Held(e) = Held(x)
  BY EnsureSpaceProperties
<1>3. f = Rewritten(e, e.pastEnd + n, c)
  BY <1>1 DEF Filled, Rewritten
<1>4. c \in [Index -> Values]
  BY <1>0, <1>2, BufferAssumption DEF Window, Index
<1>5. e.pastEnd + n \in e.begin..Capacity
  BY <1>0, <1>2, BufferAssumption DEF Window
<1> HIDE DEF e, c, f
<1>6. /\ f \in Window /\ f.begin = e.begin /\ f.pastEnd = e.pastEnd + n
      /\ f.contents = c
  BY <1>2, <1>3, <1>4, <1>5, RewrittenProperties
<1>7. size(f) = size(x) + n
  BY <1>0, <1>2, <1>6, BufferAssumption DEF size, Window
<1>8. /\ SubSeq(s, 1, n) \in Seq(Values) /\ Len(SubSeq(s, 1, n)) = n
      /\ \A i \in 1..n : SubSeq(s, 1, n)[i] = s[i]
  BY <1>0, <1>1, SubSeqProperties, ElementOfSeq
<1> DEFINE t == Held(x) \o SubSeq(s, 1, n)
<1>9. Held(x) \in Seq(Values) /\ Len(Held(x)) = size(x)
  BY HeldProperties
<1>10. /\ t \in Seq(Values) /\ Len(t) = size(f)
       /\ \A i \in 1..size(f) : t[i] = IF i <= size(x) THEN Held(x)[i]
                                       ELSE SubSeq(s, 1, n)[i - size(x)]
  <2>1. /\ t \in Seq(Values)
        /\ Len(t) = Len(Held(x)) + Len(SubSeq(s, 1, n))
        /\ \A i \in 1..Len(Held(x)) + Len(SubSeq(s, 1, n)) :
              t[i] = IF i <= Len(Held(x)) THEN Held(x)[i]
                     ELSE SubSeq(s, 1, n)[i - Len(Held(x))]
    BY <1>8, <1>9, ConcatProperties
  <2> HIDE DEF t
  <2> QED
    BY <1>7, <1>8, <1>9, <2>1
<1> HIDE DEF t
<1> DEFINE first == e.begin
           past == e.pastEnd
<1>11. /\ first \in Nat /\ past \in Nat /\ Capacity \in Nat
       /\ past = first + size(x)
       /\ past + m <= Capacity
  BY <1>0, <1>2, BufferAssumption DEF Window, size
<1>12. \A k \in Index : c[k] = IF k - past \in 0..m - 1 THEN s[k - past + 1]
                                                       ELSE e.contents[k]
  BY DEF c
<1>13. \A i : At(e, i) = e.contents[first + i] /\ At(f, i) = c[first + i]
  BY <1>6 DEF At
<1> HIDE DEF first, past
<1>14. ASSUME NEW i \in 1..size(f)
       PROVE  t[i] = At(f, i - 1)
  <2> DEFINE k == first + (i - 1)
  <2>1. k \in Index
    BY <1>0, <1>7, <1>11 DEF Index
  <2>2. CASE i <= size(x)
    <3>1. t[i] = At(e, i - 1)
      BY <1>0, <1>2, <1>7, <1>10, <2>2, HeldProperties
    <3>2. ~(k - past \in 0..m - 1)
      BY <1>0, <1>7, <1>11, <2>2
    <3> QED
      BY <1>12, <1>13, <2>1, <3>1, <3>2
  <2>3. CASE i > size(x)
    <3>1. i - size(x) \in 1..n
      BY <1>0, <1>7, <2>3
    <3>2. t[i] = s[i - size(x)]
      BY <1>0, <1>8, <1>10, <2>3, <3>1
    <3>3. i \in Int /\ k - past = i - size(x) - 1
      BY <1>0, <1>7, <1>11
    <3>4. k - past \in 0..m - 1 /\ k - past + 1 = i - size(x)
      BY <1>0, <3>1, <3>3
    <3> QED
      BY <1>12, <1>13, <2>1, <3>2, <3>4
  <2> QED
    BY <1>0, <1>7, <2>2, <2>3
<1> QED
  BY <1>6, <1>7, <1>10, <1>14, HeldEqual DEF f, t

\* The window that a removal at one end leaves.
LEMMA Advanced ==
  ASSUME NEW x \in Window, NEW n \in 0..size(x), NEW y,
         y = [x EXCEPT !.begin = x.begin + n]
  PROVE  /\ y \in Window
         /\ y.begin = x.begin + n /\ y.pastEnd = x.pastEnd /\ y.contents = x.contents
<1> DEFINE first == x.begin
           past == x.pastEnd
<1>1. /\ first \in Nat /\ past \in Nat /\ Capacity \in Nat
      /\ size(x) = past - first /\ past <= Capacity /\ first <= past
  BY BufferAssumption DEF Window, size
<1> HIDE DEF first, past
<1>2. first + n \in 0..past /\ first + n \in 0..Capacity
  BY <1>1
<1> QED
  BY <1>2 DEF Window, first, past

\* The same at the back.
LEMMA CutBack ==
  ASSUME NEW x \in Window, NEW n \in 0..size(x), NEW y,
         y = [x EXCEPT !.pastEnd = x.pastEnd - n]
  PROVE  /\ y \in Window
         /\ y.begin = x.begin /\ y.pastEnd = x.pastEnd - n /\ y.contents = x.contents
<1> DEFINE first == x.begin
           past == x.pastEnd
<1>1. /\ first \in Nat /\ past \in Nat /\ Capacity \in Nat
      /\ size(x) = past - first /\ past <= Capacity /\ first <= past
  BY BufferAssumption DEF Window, size
<1> HIDE DEF first, past
<1>2. past - n \in first..past /\ past - n \in 0..Capacity
  BY <1>1
<1> QED
  BY <1>2 DEF Window, first, past

\* A window narrowed over the same array shows a part of the sequence.
LEMMA Narrowed ==
  ASSUME NEW x \in Window, NEW y \in Window, y.contents = x.contents,
         x.begin <= y.begin, y.pastEnd <= x.pastEnd
  PROVE  Held(y) = SubSeq(Held(x), y.begin - x.begin + 1, y.pastEnd - x.begin)
<1> DEFINE a == y.begin - x.begin + 1
           b == y.pastEnd - x.begin
           t == SubSeq(Held(x), a, b)
<1>1. a \in Nat \ {0} /\ b \in Nat /\ b <= size(x) /\ size(y) = b - a + 1 /\ size(y) \in Nat
  BY DEF Window, size
<1>2. \A i : At(y, i) = x.contents[y.begin + i] /\ At(x, i) = x.contents[x.begin + i]
  BY DEF At
<1>3. \A i \in Int : x.begin + (a + i - 1 - 1) = y.begin + (i - 1)
  BY DEF Window
<1> HIDE DEF a, b
<1>4. \A i \in a..b : Held(x)[i] \in Values
  BY <1>1, HeldProperties, ElementOfSeq, SizeProperties
<1>5. /\ t \in Seq(Values)
      /\ Len(t) = IF a <= b THEN b - a + 1 ELSE 0
      /\ \A i \in 1..b - a + 1 : t[i] = Held(x)[a + i - 1]
  BY <1>1, <1>4, SubSeqProperties
<1> HIDE DEF t
<1>6. Len(t) = size(y)
  BY <1>1, <1>5
<1>7. ASSUME NEW i \in 1..size(y)
      PROVE  t[i] = At(y, i - 1)
  <2> DEFINE q == a + i - 1
  <2>1. t[i] = Held(x)[q] /\ q \in 1..size(x)
    BY <1>1, <1>5, SizeProperties
  <2>2. x.begin + (q - 1) = y.begin + (i - 1)
    BY <1>1, <1>3
  <2> HIDE DEF q
  <2>3. t[i] = At(x, q - 1)
    BY <2>1, HeldProperties
  <2> QED
    BY <1>2, <2>2, <2>3
<1> QED
  BY <1>5, <1>6, <1>7, HeldEqual DEF a, b, t

\* pop_front drops values at the front and returns the first one.
LEMMA FrontProperties ==
  ASSUME NEW x \in Window, NEW n \in 1..size(x), NEW y,
         y = [x EXCEPT !.begin = x.begin + n]
  PROVE  /\ y \in Window
         /\ Held(y) = SubSeq(Held(x), n + 1, Len(Held(x)))
         /\ At(x, 0) = Head(Held(x)) /\ At(x, 0) \in Values
<1>1. size(x) \in Nat /\ n \in 0..size(x) /\ n \in Nat
  BY SizeProperties, BufferAssumption
<1>2. /\ y \in Window
      /\ y.begin = x.begin + n /\ y.pastEnd = x.pastEnd /\ y.contents = x.contents
  BY <1>1, Advanced
<1>3. /\ x.begin <= y.begin /\ y.pastEnd <= x.pastEnd
      /\ y.begin - x.begin + 1 = n + 1 /\ y.pastEnd - x.begin = size(x)
  BY <1>1, <1>2 DEF Window, size
<1>4. Held(y) = SubSeq(Held(x), n + 1, Len(Held(x)))
  BY <1>2, <1>3, Narrowed, HeldProperties
<1>5. At(x, 0) = Held(x)[1] /\ Held(x)[1] = Head(Held(x))
  BY <1>1, HeldProperties
<1>6. 0 \in 0..size(x) - 1
  BY <1>1
<1>7. At(x, 0) \in Values
  BY <1>6, SizeProperties
<1> QED
  BY <1>2, <1>4, <1>5, <1>7

\* pop_back drops values at the back and returns the last one.
LEMMA BackProperties ==
  ASSUME NEW x \in Window, NEW n \in 1..size(x), NEW y,
         y = [x EXCEPT !.pastEnd = x.pastEnd - n]
  PROVE  /\ y \in Window
         /\ Held(y) = SubSeq(Held(x), 1, Len(Held(x)) - n)
         /\ At(x, size(x) - 1) = Held(x)[Len(Held(x))]
         /\ At(x, size(x) - 1) \in Values
<1>1. size(x) \in Nat /\ n \in 0..size(x) /\ n \in Nat
  BY SizeProperties, BufferAssumption
<1>2. /\ y \in Window
      /\ y.begin = x.begin /\ y.pastEnd = x.pastEnd - n /\ y.contents = x.contents
  BY <1>1, CutBack
<1>3. /\ x.begin <= y.begin /\ y.pastEnd <= x.pastEnd
      /\ y.begin - x.begin + 1 = 1 /\ y.pastEnd - x.begin = size(x) - n
  BY <1>1, <1>2 DEF Window, size
<1>4. Held(y) = SubSeq(Held(x), 1, Len(Held(x)) - n)
  BY <1>2, <1>3, Narrowed, HeldProperties
<1>5. At(x, size(x) - 1) = Held(x)[Len(Held(x))]
  BY <1>1, HeldProperties
<1>6. size(x) - 1 \in 0..size(x) - 1
  BY <1>1
<1>7. At(x, size(x) - 1) \in Values
  BY <1>6, SizeProperties
<1> QED
  BY <1>2, <1>4, <1>5, <1>7

\* A sequence without its values i + 1 to j.
LEMMA CutProperties ==
  ASSUME NEW h \in Seq(Values), NEW i \in 0..Len(h), NEW j \in i..Len(h)
  PROVE  LET t == SubSeq(h, 1, i) \o SubSeq(h, j + 1, Len(h))
         IN  /\ t \in Seq(Values)
             /\ Len(t) = Len(h) - (j - i)
             /\ \A q \in 1..Len(h) - (j - i) :
                   t[q] = IF q <= i THEN h[q] ELSE h[q + (j - i)]
<1> DEFINE u == SubSeq(h, 1, i)
           w == SubSeq(h, j + 1, Len(h))
<1>1. Len(h) \in Nat /\ i \in Nat /\ j \in Nat
  BY LenProperties
<1>2. /\ u \in Seq(Values) /\ Len(u) = i
      /\ \A q \in 1..i : u[q] = h[q]
  BY <1>1, SubSeqProperties, ElementOfSeq
<1>3. \A q \in j + 1..Len(h) : h[q] \in Values
  BY <1>1, ElementOfSeq
<1>4. /\ w \in Seq(Values) /\ Len(w) = Len(h) - j
      /\ \A q \in 1..Len(h) - j : w[q] = h[j + q]
  <2>1. /\ w \in Seq(Values)
        /\ Len(w) = IF j + 1 <= Len(h) THEN Len(h) - (j + 1) + 1 ELSE 0
        /\ \A q \in 1..Len(h) - (j + 1) + 1 : w[q] = h[j + 1 + q - 1]
    BY <1>1, <1>3, SubSeqProperties
  <2> HIDE DEF w
  <2>2. \A q \in Int : j + 1 + q - 1 = j + q
    BY <1>1
  <2> QED
    BY <1>1, <2>1, <2>2
<1> HIDE DEF u, w
<1>5. /\ u \o w \in Seq(Values)
      /\ Len(u \o w) = Len(u) + Len(w)
      /\ \A q \in 1..Len(u) + Len(w) :
            (u \o w)[q] = IF q <= Len(u) THEN u[q] ELSE w[q - Len(u)]
  BY <1>2, <1>4, ConcatProperties
<1> DEFINE t == u \o w
<1> HIDE DEF t
<1>6. t \in Seq(Values) /\ Len(t) = Len(h) - (j - i)
  BY <1>1, <1>2, <1>4, <1>5 DEF t
<1>7. ASSUME NEW q \in 1..Len(h) - (j - i)
      PROVE  t[q] = IF q <= i THEN h[q] ELSE h[q + (j - i)]
  <2>1. t[q] = IF q <= i THEN u[q] ELSE w[q - i]
    BY <1>1, <1>2, <1>4, <1>5 DEF t
  <2>2. CASE q <= i
    BY <1>1, <1>2, <2>1, <2>2
  <2>3. CASE q > i
    <3>1. q - i \in 1..Len(h) - j /\ j + (q - i) = q + (j - i) /\ ~(q <= i)
      BY <1>1, <2>3
    <3> QED
      BY <1>4, <2>1, <3>1
  <2> QED
    BY <1>1, <2>2, <2>3
<1> QED
  BY <1>6, <1>7 DEF t, u, w

\* erase of values in the middle copies down those behind them.
LEMMA ErasedMiddle ==
  ASSUME NEW x \in Window, NEW i \in 1..size(x) - 1, NEW j \in i + 1..size(x) - 1
  PROVE  /\ Erased(x, i, j) \in Window
         /\ Held(Erased(x, i, j)) =
               SubSeq(Held(x), 1, i) \o SubSeq(Held(x), j + 1, Len(Held(x)))
<1> DEFINE h == Held(x)
           t == SubSeq(h, 1, i) \o SubSeq(h, j + 1, Len(h))
           first == x.begin
           past == x.pastEnd
           len == size(x)
           old == x.contents
           c == [k \in Index |-> IF k - (first + i) \in 0..len - j - 1
                                    THEN old[k + (j - i)] ELSE old[k]]
           y == Erased(x, i, j)
<1>1. /\ first \in Nat /\ past \in Nat /\ len \in Nat /\ Capacity \in Nat
      /\ past = first + len /\ past <= Capacity
      /\ i \in Nat /\ j \in Nat
  BY BufferAssumption DEF Window, size
<1>2. old \in [Index -> Values]
  BY DEF Window
<1>3. y = Rewritten(x, past - (j - i), c)
  BY <1>1 DEF Erased, Rewritten
<1>4. h \in Seq(Values) /\ Len(h) = len
  BY HeldProperties
<1>5. \A q \in 1..len : h[q] = At(x, q - 1)
  BY HeldProperties
<1>6. \A q : At(x, q) = old[first + q]
  BY DEF At
<1> HIDE DEF h, first, past, len, old, y
<1>7. c \in [Index -> Values]
  <2>1. ASSUME NEW k \in Index, k - (first + i) \in 0..len - j - 1
        PROVE  k + (j - i) \in Index
    BY <1>1, <2>1 DEF Index
  <2> QED
    BY <1>2, <2>1
<1>8. past - (j - i) \in first..Capacity
  BY <1>1 DEF len
<1>9. /\ y \in Window /\ y.begin = first /\ y.pastEnd = past - (j - i)
      /\ y.contents = c
  BY <1>3, <1>7, <1>8, RewrittenProperties DEF first
<1>10. size(y) = len - (j - i)
  BY <1>1, <1>9 DEF size
<1>11. /\ t \in Seq(Values) /\ Len(t) = len - (j - i)
       /\ \A q \in 1..len - (j - i) : t[q] = IF q <= i THEN h[q] ELSE h[q + (j - i)]
  <2>1. i \in 0..Len(h) /\ j \in i..Len(h)
    BY <1>1, <1>4 DEF len
  <2>2. /\ t \in Seq(Values) /\ Len(t) = Len(h) - (j - i)
        /\ \A q \in 1..Len(h) - (j - i) : t[q] = IF q <= i THEN h[q] ELSE h[q + (j - i)]
    BY <1>4, <2>1, CutProperties
  <2> QED
    BY <1>4, <2>2
<1>12. \A q : At(y, q) = c[first + q]
  BY <1>9 DEF At
<1> HIDE DEF c, t
<1>13. ASSUME NEW q \in 1..len - (j - i)
       PROVE  t[q] = At(y, q - 1)
  <2> DEFINE k == first + (q - 1)
  <2>1. q \in Int /\ k \in Index
    BY <1>1 DEF Index, len
  <2>2. c[k] = IF k - (first + i) \in 0..len - j - 1 THEN old[k + (j - i)] ELSE old[k]
    BY <2>1 DEF c
  <2>3. CASE q <= i
    <3>1. ~(k - (first + i) \in 0..len - j - 1) /\ q \in 1..len
      BY <1>1, <2>1, <2>3 DEF len
    <3> QED
      BY <1>5, <1>6, <1>11, <1>12, <2>2, <2>3, <3>1
  <2>4. CASE q > i
    <3>1. k - (first + i) = q - 1 - i
      BY <1>1, <2>1
    <3>2. k - (first + i) \in 0..len - j - 1 /\ q + (j - i) \in 1..len /\ ~(q <= i)
      BY <1>1, <2>1, <2>4, <3>1 DEF len
    <3>3. first + (q + (j - i) - 1) = k + (j - i)
      BY <1>1, <2>1
    <3> QED
      BY <1>5, <1>6, <1>11, <1>12, <2>2, <3>2, <3>3
  <2> QED
    BY <2>1, <1>1, <2>3, <2>4
<1> QED
  BY <1>9, <1>10, <1>11, <1>13, HeldEqual DEF t, h, y

\* erase removes the values of its range and no other, from wherever it is.
LEMMA ErasedProperties ==
  ASSUME NEW x \in Window, NEW i \in 0..size(x) - 1, NEW j \in i + 1..size(x)
  PROVE  /\ Erased(x, i, j) \in Window
         /\ Held(Erased(x, i, j)) =
               SubSeq(Held(x), 1, i) \o SubSeq(Held(x), j + 1, Len(Held(x)))
<1>1. size(x) \in Nat /\ i \in Nat /\ j \in Nat
  BY SizeProperties, BufferAssumption
<1>2. Held(x) \in Seq(Values) /\ Len(Held(x)) = size(x)
  BY HeldProperties
<1>3. \A q \in 1..size(x) : Held(x)[q] \in Values
  BY <1>2, ElementOfSeq
<1>4. CASE i = 0
  <2>1. j \in 1..size(x) /\ j - i = j
    BY <1>1, <1>4
  <2>2. Erased(x, i, j) = [x EXCEPT !.begin = x.begin + j]
    BY <1>4, <2>1 DEF Erased
  <2>3. /\ Erased(x, i, j) \in Window
        /\ Held(Erased(x, i, j)) = SubSeq(Held(x), j + 1, Len(Held(x)))
    BY <2>1, <2>2, FrontProperties
  <2>4. SubSeq(Held(x), 1, i) = << >>
    BY <1>4, SubSeqEmpty
  <2>5. SubSeq(Held(x), j + 1, Len(Held(x))) \in Seq(Values)
    BY <2>3, HeldProperties
  <2> QED
    BY <2>3, <2>4, <2>5, ConcatEmptySeq
<1>5. CASE i # 0 /\ j = size(x)
  <2>1. j - i \in 1..size(x) /\ Len(Held(x)) - (j - i) = i
    BY <1>1, <1>2, <1>5
  <2>2. Erased(x, i, j) = [x EXCEPT !.pastEnd = x.pastEnd - (j - i)]
    BY <1>5 DEF Erased
  <2>3. /\ Erased(x, i, j) \in Window
        /\ Held(Erased(x, i, j)) = SubSeq(Held(x), 1, i)
    BY <2>1, <2>2, BackProperties
  <2>4. SubSeq(Held(x), j + 1, Len(Held(x))) = << >>
    <3>1. j + 1 \in Int /\ Len(Held(x)) \in Int /\ Len(Held(x)) < j + 1
      BY <1>1, <1>2, <1>5
    <3> QED
      BY <3>1, SubSeqEmpty
  <2>5. SubSeq(Held(x), 1, i) \in Seq(Values)
    BY <2>3, HeldProperties
  <2> QED
    BY <2>3, <2>4, <2>5, ConcatEmptySeq
<1>6. CASE i # 0 /\ j # size(x)
  <2>1. i \in 1..size(x) - 1 /\ j \in i + 1..size(x) - 1
    BY <1>1, <1>6
  <2> QED
    BY <2>1, ErasedMiddle
<1> QED
  BY <1>4, <1>5, <1>6

\* A buffer with one of its values replaced.
Written(x, i, v) == [x EXCEPT !.contents[x.begin + i] = v]

\* An assignment through operator[] replaces the value at that place.
LEMMA WriteProperties ==
  ASSUME NEW x \in Window, NEW i \in 0..size(x) - 1, NEW v \in Values
  PROVE  /\ Written(x, i, v) \in Window
         /\ Held(Written(x, i, v)) = [Held(x) EXCEPT ![i + 1] = v]
<1> DEFINE y == Written(x, i, v)
           first == x.begin
           past == x.pastEnd
           len == size(x)
           old == x.contents
           h == Held(x)
           t == [h EXCEPT ![i + 1] = v]
<1>1. /\ first \in Nat /\ past \in Nat /\ len \in Nat /\ Capacity \in Nat
      /\ past = first + len /\ past <= Capacity /\ i \in Nat
  BY BufferAssumption DEF Window, size
<1>2. old \in [Index -> Values]
  BY DEF Window
<1>3. [old EXCEPT ![first + i] = v] \in [Index -> Values]
  BY <1>2
<1>4. y = [x EXCEPT !.contents = [old EXCEPT ![first + i] = v]]
  BY DEF Written
<1> HIDE DEF y
<1>5. /\ y \in Window /\ y.begin = first /\ y.pastEnd = past
      /\ y.contents = [old EXCEPT ![first + i] = v]
  BY <1>3, <1>4 DEF Window
<1>6. size(y) = len
  BY <1>5 DEF size
<1>7. h \in Seq(Values) /\ Len(h) = len /\ \A q \in 1..len : h[q] = At(x, q - 1)
  BY HeldProperties
<1>8. \A q : At(x, q) = old[first + q] /\ At(y, q) = y.contents[first + q]
  BY <1>5 DEF At
<1>9. i + 1 \in 1..len
  BY <1>1
<1> HIDE DEF first, past, len, old, h
<1>10. /\ t \in Seq(Values) /\ Len(t) = len
       /\ \A q \in 1..len : t[q] = IF q = i + 1 THEN v ELSE h[q]
  BY <1>7, <1>9, ExceptSeq
<1> HIDE DEF t
<1>11. ASSUME NEW q \in 1..len
       PROVE  t[q] = At(y, q - 1)
  <2> DEFINE k == first + (q - 1)
  <2>1. k \in Index /\ (q = i + 1 <=> k = first + i)
    BY <1>1 DEF Index
  <2>2. At(x, q - 1) = old[k] /\ At(y, q - 1) = y.contents[k]
    BY <1>8
  <2> HIDE DEF k
  <2>3. y.contents[k] = IF k = first + i THEN v ELSE old[k]
    BY <1>2, <1>5, <2>1
  <2> QED
    BY <1>7, <1>10, <2>1, <2>2, <2>3
<1> QED
  BY <1>5, <1>6, <1>10, <1>11, HeldEqual DEF t, h, y

\* An empty window holds the empty sequence.
LEMMA EmptyWindow ==
  ASSUME NEW x \in Window, size(x) = 0
  PROVE  Held(x) = << >>
<1>1. << >> \in Seq(Values) /\ Len(<< >>) = 0
  BY EmptySeq
<1>2. 1..size(x) = {}
  OBVIOUS
<1> QED
  BY <1>1, <1>2, HeldEqual

\* clear leaves an empty buffer, whatever it held.
LEMMA ClearProperties ==
  ASSUME NEW x \in Window, NEW y, y = [x EXCEPT !.begin = 0, !.pastEnd = 0]
  PROVE  y \in Window /\ Held(y) = << >>
<1> DEFINE z == [x EXCEPT !.begin = 0]
<1>1. z \in [begin : 0..Capacity, pastEnd : 0..Capacity, contents : [Index -> Values]]
  BY BufferAssumption DEF Window
<1>2. z.begin = 0
  BY DEF Window
<1>3. y = [z EXCEPT !.pastEnd = 0]
  OBVIOUS
<1> HIDE DEF z
<1>4. y \in Window /\ y.begin = 0 /\ y.pastEnd = 0
  BY <1>1, <1>2, <1>3, BufferAssumption DEF Window
<1>5. size(y) = 0
  BY <1>4 DEF size
<1> QED
  BY <1>4, <1>5, EmptyWindow

-----------------------------------------------------------------------------
(* The operations, each as an operation of the sequences.                  *)

\* The type invariant says of every buffer that it is a window.
LEMMA TypeIsWindows ==
  TypeOK <=> /\ buf \in [Buffers -> Window]
             /\ given \in Seq(Values)
             /\ ret \in Values \cup Int \cup {NoValue}
BY DEF TypeOK, Window

\* One operation changes one buffer, and of the sequences the one it holds.
LEMMA OneBufferChanges ==
  ASSUME TypeOK, NEW b \in Buffers, NEW x \in Window, NEW s \in Seq(Values),
         NEW r \in Values \cup Int \cup {NoValue}, Adds(b, x, s, r)
  PROVE  /\ TypeOK'
         /\ Contents' = [Contents EXCEPT ![b] = Held(x)]
<1>1. buf \in [Buffers -> Window] /\ buf' = [buf EXCEPT ![b] = x]
  BY TypeIsWindows DEF Adds
<1>2. TypeOK'
  <2>1. buf' \in [Buffers -> Window]
    BY <1>1
  <2> QED
    BY <2>1 DEF Adds, TypeOK, Window
<1>3. Contents = [a \in Buffers |-> Held(buf[a])]
  BY DEF Contents, Held
<1>4. Contents' = [a \in Buffers |-> Held(buf'[a])]
  BY DEF Contents, Held
<1>5. \A a \in Buffers : Held(buf'[a]) = IF a = b THEN Held(x) ELSE Held(buf[a])
  BY <1>1
<1> QED
  BY <1>2, <1>3, <1>4, <1>5

\* What a caller adds, it adds at the back.
LEMMA PushBackStep ==
  ASSUME TypeOK, NEW b \in Buffers, PushBack(b)
  PROVE  TypeOK' /\ Sequence!Add(b)
<1> DEFINE x == buf[b]
<1>1. x \in Window /\ Contents[b] = Held(x)
  BY TypeIsWindows DEF Contents, Held
<1>2. size(x) \in 0..Capacity /\ Len(Held(x)) = size(x) /\ Capacity \in Nat
  BY <1>1, SizeProperties, HeldProperties, BufferAssumption
<1> HIDE DEF x
<1>3. PICK m \in 0..Capacity - size(x) :
         \E s \in [1..m -> Values] : Adds(b, Filled(x, s, Len(s)), s, NoValue)
  BY DEF PushBack, UpTo, x
<1>4. PICK s \in [1..m -> Values] : Adds(b, Filled(x, s, Len(s)), s, NoValue)
  BY <1>3
<1>5. m \in Nat /\ m \in 0..m
  BY <1>2
<1>6. s \in Seq(Values) /\ Len(s) = m
  BY <1>5, GivenIsSeq
<1>7. SubSeq(s, 1, m) = s
  BY <1>6, SubSeqFull
<1>8. /\ Filled(x, s, m) \in Window
      /\ Held(Filled(x, s, m)) = Held(x) \o s
  BY <1>1, <1>5, <1>7, FilledProperties
<1>9. Adds(b, Filled(x, s, m), s, NoValue)
  BY <1>4, <1>6
<1>10. TypeOK' /\ Contents' = [Contents EXCEPT ![b] = Held(x) \o s]
  BY <1>6, <1>8, <1>9, OneBufferChanges
<1>11. given' = s /\ ret' = NoValue
  BY <1>9 DEF Adds
<1>12. Len(Contents[b]) + Len(given') <= Capacity
  BY <1>1, <1>2, <1>6, <1>11
<1> QED
  BY <1>1, <1>6, <1>10, <1>11, <1>12 DEF Sequence!Add

\* A constructor adds what it is given to nothing.
LEMMA ConstructStep ==
  ASSUME TypeOK, NEW b \in Buffers, Construct(b)
  PROVE  TypeOK' /\ Sequence!Add(b)
<1>1. Capacity \in Nat
  BY BufferAssumption
<1>2. Empty \in Window /\ size(Empty) = 0
  BY BufferAssumption DEF Empty, Window, size
<1>3. Held(Empty) = << >>
  BY <1>2, EmptyWindow
<1>4. Contents[b] = << >>
  <2>1. buf[b] \in Window /\ size(buf[b]) = 0 /\ Contents[b] = Held(buf[b])
    BY TypeIsWindows DEF Construct, Contents, Held
  <2> QED
    BY <2>1, EmptyWindow
<1>5. PICK m \in 0..Capacity :
         \E s \in [1..m -> Values] : Adds(b, Filled(Empty, s, Len(s)), s, NoValue)
  BY DEF Construct, UpTo
<1>6. PICK s \in [1..m -> Values] : Adds(b, Filled(Empty, s, Len(s)), s, NoValue)
  BY <1>5
<1>7. m \in Nat /\ m \in 0..m /\ m \in 0..Capacity - size(Empty)
  BY <1>1, <1>2
<1>8. s \in Seq(Values) /\ Len(s) = m
  BY <1>7, GivenIsSeq
<1>9. SubSeq(s, 1, m) = s
  BY <1>8, SubSeqFull
<1>10. /\ Filled(Empty, s, m) \in Window
       /\ Held(Filled(Empty, s, m)) = Contents[b] \o s
  BY <1>2, <1>3, <1>4, <1>7, <1>9, FilledProperties
<1>11. Adds(b, Filled(Empty, s, m), s, NoValue)
  BY <1>6, <1>8
<1>12. TypeOK' /\ Contents' = [Contents EXCEPT ![b] = Contents[b] \o s]
  BY <1>8, <1>10, <1>11, OneBufferChanges
<1>13. given' = s /\ ret' = NoValue
  BY <1>11 DEF Adds
<1>14. Len(Contents[b]) + Len(given') <= Capacity
  BY <1>1, <1>4, <1>8, <1>13, EmptySeq
<1> QED
  BY <1>8, <1>12, <1>13, <1>14 DEF Sequence!Add

\* What every operation finds in the buffer it works on.
LEMMA BufferIsWindow ==
  ASSUME TypeOK, NEW b \in Buffers
  PROVE  /\ buf[b] \in Window /\ Contents[b] = Held(buf[b])
         /\ Contents[b] \in Seq(Values) /\ Len(Contents[b]) = size(buf[b])
         /\ size(buf[b]) \in 0..Capacity /\ size(buf[b]) \in Nat /\ Capacity \in Nat
<1>1. buf[b] \in Window /\ Contents[b] = Held(buf[b])
  BY TypeIsWindows DEF Contents, Held
<1>2. size(buf[b]) \in 0..Capacity /\ Capacity \in Nat
  BY <1>1, SizeProperties, BufferAssumption
<1> QED
  BY <1>1, <1>2, HeldProperties

\* Of what the functor writes, as much as it returns is added.
LEMMA BufferFromFunctorStep ==
  ASSUME TypeOK, NEW b \in Buffers, BufferFromFunctor(b)
  PROVE  TypeOK' /\ Sequence!AddFrom(b)
<1> DEFINE x == buf[b]
<1>1. /\ x \in Window /\ Contents[b] = Held(x) /\ Len(Contents[b]) = size(x)
      /\ size(x) \in 0..Capacity /\ Capacity \in Nat
  BY BufferIsWindow
<1> HIDE DEF x
<1>2. PICK m \in 0..(Capacity - size(x)) :
         \E s \in [1..m -> Values], actual \in 0..m :
            Adds(b, Filled(x, s, actual), s, actual)
  BY DEF BufferFromFunctor, x
<1>3. PICK s \in [1..m -> Values], actual \in 0..m :
         Adds(b, Filled(x, s, actual), s, actual)
  BY <1>2
<1>4. m \in Nat
  BY <1>1
<1>5. s \in Seq(Values) /\ Len(s) = m
  BY <1>4, GivenIsSeq
<1>6. /\ Filled(x, s, actual) \in Window
      /\ Held(Filled(x, s, actual)) = Contents[b] \o SubSeq(s, 1, actual)
  BY <1>1, FilledProperties
<1>7. actual \in Values \cup Int \cup {NoValue}
  BY <1>4
<1>8. TypeOK' /\ Contents' = [Contents EXCEPT ![b] = Contents[b] \o SubSeq(s, 1, actual)]
  BY <1>3, <1>5, <1>6, <1>7, OneBufferChanges
<1>9. given' = s /\ ret' = actual
  BY <1>3 DEF Adds
<1>10. Len(Contents[b]) + Len(given') <= Capacity /\ ret' \in 0..Len(given')
  BY <1>1, <1>5, <1>9
<1> QED
  BY <1>5, <1>8, <1>9, <1>10 DEF Sequence!AddFrom

\* An operation that adds nothing and makes a buffer x leaves the values of x.
LEMMA BecomesProperties ==
  ASSUME TypeOK, NEW b \in Buffers, NEW x \in Window,
         NEW r \in Values \cup Int \cup {NoValue}, Becomes(b, x, r)
  PROVE  /\ TypeOK'
         /\ Contents' = [Contents EXCEPT ![b] = Held(x)]
         /\ given' = << >> /\ ret' = r
<1>1. << >> \in Seq(Values) /\ Adds(b, x, << >>, r)
  BY EmptySeq DEF Becomes
<1>2. TypeOK' /\ Contents' = [Contents EXCEPT ![b] = Held(x)]
  BY <1>1, OneBufferChanges
<1> QED
  BY <1>1, <1>2 DEF Adds

\* pop_front removes values at the front.
LEMMA PopFrontStep ==
  ASSUME TypeOK, NEW b \in Buffers, PopFront(b)
  PROVE  TypeOK' /\ Sequence!RemoveFront(b)
<1> DEFINE x == buf[b]
<1>1. /\ x \in Window /\ Contents[b] = Held(x) /\ Len(Contents[b]) = size(x)
  BY BufferIsWindow
<1>2. PICK n \in 1..size(x) :
         Becomes(b, [x EXCEPT !.begin = x.begin + n], At(x, 0))
  BY DEF PopFront
<1> DEFINE y == [x EXCEPT !.begin = x.begin + n]
<1>3. Becomes(b, y, At(x, 0))
  BY <1>2
<1> HIDE DEF x
<1>4. /\ y \in Window
      /\ Held(y) = SubSeq(Held(x), n + 1, Len(Held(x)))
      /\ At(x, 0) = Head(Held(x)) /\ At(x, 0) \in Values
  BY <1>1, FrontProperties
<1> HIDE DEF y
<1>5. /\ TypeOK'
      /\ Contents' = [Contents EXCEPT ![b] = Held(y)]
      /\ given' = << >> /\ ret' = At(x, 0)
  BY <1>3, <1>4, BecomesProperties
<1> QED
  BY <1>1, <1>4, <1>5 DEF Sequence!RemoveFront

\* pop_back removes values at the back.
LEMMA PopBackStep ==
  ASSUME TypeOK, NEW b \in Buffers, PopBack(b)
  PROVE  TypeOK' /\ Sequence!RemoveBack(b)
<1> DEFINE x == buf[b]
<1>1. /\ x \in Window /\ Contents[b] = Held(x) /\ Len(Contents[b]) = size(x)
  BY BufferIsWindow
<1>2. PICK n \in 1..size(x) :
         Becomes(b, [x EXCEPT !.pastEnd = x.pastEnd - n], At(x, size(x) - 1))
  BY DEF PopBack
<1> DEFINE y == [x EXCEPT !.pastEnd = x.pastEnd - n]
<1>3. Becomes(b, y, At(x, size(x) - 1))
  BY <1>2
<1> HIDE DEF x
<1>4. /\ y \in Window
      /\ Held(y) = SubSeq(Held(x), 1, Len(Held(x)) - n)
      /\ At(x, size(x) - 1) = Held(x)[Len(Held(x))]
      /\ At(x, size(x) - 1) \in Values
  BY <1>1, BackProperties
<1> HIDE DEF y
<1>5. /\ TypeOK'
      /\ Contents' = [Contents EXCEPT ![b] = Held(y)]
      /\ given' = << >> /\ ret' = At(x, size(x) - 1)
  BY <1>3, <1>4, BecomesProperties
<1> QED
  BY <1>1, <1>4, <1>5 DEF Sequence!RemoveBack

\* erase removes the values of its range and returns the index behind them.
LEMMA EraseRangeStep ==
  ASSUME TypeOK, NEW b \in Buffers, EraseRange(b)
  PROVE  TypeOK' /\ Sequence!Erase(b)
<1> DEFINE x == buf[b]
<1>1. /\ x \in Window /\ Contents[b] = Held(x) /\ Len(Contents[b]) = size(x)
      /\ size(x) \in Nat
  BY BufferIsWindow
<1>2. PICK i \in 0..size(x) - 1 : \E j \in i + 1..size(x) : Becomes(b, Erased(x, i, j), i)
  BY DEF EraseRange
<1>3. PICK j \in i + 1..size(x) : Becomes(b, Erased(x, i, j), i)
  BY <1>2
<1> HIDE DEF x
<1>4. /\ Erased(x, i, j) \in Window
      /\ Held(Erased(x, i, j)) =
            SubSeq(Held(x), 1, i) \o SubSeq(Held(x), j + 1, Len(Held(x)))
  BY <1>1, ErasedProperties
<1>5. i \in Values \cup Int \cup {NoValue}
  BY <1>1
<1>6. /\ TypeOK'
      /\ Contents' = [Contents EXCEPT ![b] = Held(Erased(x, i, j))]
      /\ given' = << >> /\ ret' = i
  BY <1>3, <1>4, <1>5, BecomesProperties
<1> QED
  BY <1>1, <1>4, <1>6 DEF Sequence!Erase

\* A value written through a reference is written where it is in the sequence.
LEMMA WriteElementStep ==
  ASSUME TypeOK, NEW b \in Buffers, WriteElement(b)
  PROVE  TypeOK' /\ Sequence!Write(b)
<1> DEFINE x == buf[b]
<1>1. /\ x \in Window /\ Contents[b] = Held(x) /\ Len(Contents[b]) = size(x)
      /\ size(x) \in Nat
  BY BufferIsWindow
<1>2. PICK i \in 0..size(x) - 1, v \in Values :
         Becomes(b, Written(x, i, v), NoValue)
  BY DEF WriteElement, Written
<1> DEFINE y == Written(x, i, v)
<1>3. Becomes(b, y, NoValue)
  BY <1>2
<1> HIDE DEF x
<1>4. y \in Window /\ Held(y) = [Held(x) EXCEPT ![i + 1] = v]
  BY <1>1, WriteProperties
<1> HIDE DEF y
<1>5. /\ TypeOK'
      /\ Contents' = [Contents EXCEPT ![b] = Held(y)]
      /\ given' = << >> /\ ret' = NoValue
  BY <1>3, <1>4, BecomesProperties
<1>6. i + 1 \in 1..Len(Contents[b])
  BY <1>1
<1>7. Contents' = [Contents EXCEPT ![b][i + 1] = v]
  BY <1>1, <1>4, <1>5
<1> QED
  BY <1>5, <1>6, <1>7 DEF Sequence!Write

\* clear leaves the empty sequence.
LEMMA ClearStep ==
  ASSUME TypeOK, NEW b \in Buffers, Clear(b)
  PROVE  TypeOK' /\ Sequence!Clear(b)
<1> DEFINE y == [buf[b] EXCEPT !.begin = 0, !.pastEnd = 0]
<1>1. Becomes(b, y, NoValue)
  BY DEF Clear
<1>2. y \in Window /\ Held(y) = << >>
  BY BufferIsWindow, ClearProperties
<1> HIDE DEF y
<1>3. /\ TypeOK'
      /\ Contents' = [Contents EXCEPT ![b] = Held(y)]
      /\ given' = << >> /\ ret' = NoValue
  BY <1>1, <1>2, BecomesProperties
<1> QED
  BY <1>2, <1>3 DEF Sequence!Clear

\* The copies give a buffer the values of the other one, or leave it its own.
LEMMA AssignStep ==
  ASSUME TypeOK, NEW b \in Buffers, NEW c \in Buffers,
         CopyConstruct(b, c) \/ Assign(b, c)
  PROVE  TypeOK' /\ Sequence!Assign(b, c)
<1>1. Empty \in Window
  BY BufferAssumption DEF Empty, Window
<1>2. PICK d \in Window : Becomes(b, Moved(buf[c], d), NoValue)
  BY <1>1, BufferIsWindow DEF CopyConstruct, Assign
<1> DEFINE y == Moved(buf[c], d)
<1>3. y \in Window /\ Held(y) = Contents[c]
  BY BufferIsWindow, MovedProperties
<1>4. Becomes(b, y, NoValue)
  BY <1>2
<1> HIDE DEF y
<1>5. /\ TypeOK'
      /\ Contents' = [Contents EXCEPT ![b] = Held(y)]
      /\ given' = << >> /\ ret' = NoValue
  BY <1>3, <1>4, BecomesProperties
<1> QED
  BY <1>3, <1>5 DEF Sequence!Assign

-----------------------------------------------------------------------------
(* The theorems.                                                           *)

\* Buffers fresh from the default constructor are empty sequences.
LEMMA InitStep == Init => TypeOK /\ Sequence!Init
<1> SUFFICES ASSUME Init
             PROVE  TypeOK /\ Sequence!Init
  OBVIOUS
<1>1. Empty \in Window /\ size(Empty) = 0
  BY BufferAssumption DEF Empty, Window, size
<1>2. << >> \in Seq(Values)
  BY EmptySeq
<1>3. TypeOK
  BY <1>1, <1>2, TypeIsWindows DEF Init
<1>4. Contents = [b \in Buffers |-> Held(buf[b])]
  BY DEF Contents, Held
<1>5. \A b \in Buffers : Held(buf[b]) = << >>
  BY <1>1, EmptyWindow DEF Init
<1> QED
  BY <1>3, <1>4, <1>5 DEF Init, Sequence!Init

\* Every step keeps the windows in their arrays and is a step of the sequences.
LEMMA NextStep ==
  ASSUME TypeOK, [Next]_vars
  PROVE  TypeOK' /\ [Sequence!Next]_(Sequence!vars)
<1>1. CASE UNCHANGED vars
  BY <1>1 DEF vars, TypeOK, Contents, size, At, Sequence!vars
<1>2. ASSUME Next
      PROVE  TypeOK' /\ Sequence!Next
  <2>1. PICK b \in Buffers : \/ Construct(b)
                             \/ PushBack(b)
                             \/ BufferFromFunctor(b)
                             \/ PopFront(b)
                             \/ PopBack(b)
                             \/ EraseRange(b)
                             \/ WriteElement(b)
                             \/ Clear(b)
                             \/ \E c \in Buffers : CopyConstruct(b, c) \/ Assign(b, c)
    BY <1>2 DEF Next
  <2>2. /\ TypeOK'
        /\ \/ Sequence!Add(b)
           \/ Sequence!AddFrom(b)
           \/ Sequence!RemoveFront(b)
           \/ Sequence!RemoveBack(b)
           \/ Sequence!Erase(b)
           \/ Sequence!Write(b)
           \/ Sequence!Clear(b)
           \/ \E c \in Buffers : Sequence!Assign(b, c)
    BY <2>1, ConstructStep, PushBackStep, BufferFromFunctorStep, PopFrontStep,
       PopBackStep, EraseRangeStep, WriteElementStep, ClearStep, AssignStep
  <2> QED
    BY <2>2 DEF Sequence!Next
<1> QED
  BY <1>1, <1>2

\* verify_invariants never fails: after every operation each window lies inside
\* its array, whatever sequence of calls led there.
THEOREM WindowsAreSound == Spec => []TypeOK
BY InitStep, NextStep, PTL DEF Spec

\* Every buffer is the sequence of the values added and not yet removed, for
\* every capacity, wherever the window has slid to.
THEOREM BufferIsSequence == Spec => ImplementsSequence
BY InitStep, NextStep, WindowsAreSound, PTL
DEF Spec, ImplementsSequence, Sequence!Spec

=============================================================================
