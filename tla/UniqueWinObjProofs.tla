-------------------------- MODULE UniqueWinObjProofs --------------------------
(***************************************************************************)
(* Proofs about UniqueWinObj, for any objects, wrappers and handles: every *)
(* open handle has one owner, what an object would delete is open, and     *)
(* handles change hands as HandleOwnership says.                           *)
(***************************************************************************)
EXTENDS UniqueWinObj, FiniteSetTheorems, TLAPS

Agents == Objects \cup Wrappers \cup {Client}

\* The agent a will close h, or pass it on.
Has(a, h) == \/ a \in Objects /\ v[a] = h
             \/ a \in Wrappers /\ wrap[a] # NoWrapper /\ wrap[a].active /\ wrap[a].v = h
             \/ a = Client /\ h \in mine

\* An open handle is somebody's and a closed one nobody's, and no two have it.
Owned == \A h \in Handles :
            /\ h \in open <=> \E a \in Agents : Has(a, h)
            /\ \A a, b \in Agents : Has(a, h) /\ Has(b, h) => a = b

\* No object has the value that only objects of the other type call invalid,
\* nor will a wrapper give it one, and a wrapper's object exists.
InTerms == /\ \A o \in Objects : v[o] \in Handles \cup Failures(o) \cup {Gone}
           /\ \A w \in Wrappers :
                 wrap[w] # NoWrapper =>
                     /\ v[wrap[w].obj] # Gone
                     /\ wrap[w].v \in Handles \cup Failures(wrap[w].obj)

WinObjInv == TypeOK /\ Owned /\ InTerms

-----------------------------------------------------------------------------
(* What a step can do to the ownership of handles.                         *)

SameOwners == /\ open' = open
              /\ \A b \in Agents, g \in Handles : Has(b, g)' <=> Has(b, g)

\* The handle h is a's from now on; other handles stay whose they are.
NowOf(h, a) == \A b \in Agents, g \in Handles :
                  Has(b, g)' <=> IF g = h THEN b = a ELSE Has(b, g)

Opened(h, a) == h \notin open /\ open' = open \cup {h} /\ NowOf(h, a)

PassedOn(h, a) == h \in open /\ open' = open /\ NowOf(h, a)

\* The object o has h and nothing else; what it had before is closed.
Taken(o, h) == /\ h \in open
               /\ open' = open \ {g \in Handles \ {h} : Has(o, g)}
               /\ \A b \in Agents, g \in Handles :
                     Has(b, g)' <=> IF g = h THEN b = o ELSE b # o /\ Has(b, g)

ClosedBy(h, a) == /\ Has(a, h)
                  /\ open' = open \ {h}
                  /\ \A b \in Agents, g \in Handles : Has(b, g)' <=> g # h /\ Has(b, g)

Transfer ==
    \/ SameOwners
    \/ \E h \in Handles :
          \/ \E a \in Wrappers \cup {Client} : Opened(h, a)
          \/ \E o \in Objects : Taken(o, h)
          \/ \E o \in Objects : Has(o, h) /\ PassedOn(h, Client)
          \/ \E w, u \in Wrappers : Has(w, h) /\ PassedOn(h, u)
          \/ \E a \in Objects \cup {Client} : ClosedBy(h, a)

\* Each of these keeps one owner for every open handle.
LEMMA TransferKeepsOwned == Owned /\ open \subseteq Handles /\ Transfer => Owned'
<1> SUFFICES ASSUME Owned, open \subseteq Handles, Transfer PROVE Owned'
  OBVIOUS
<1> USE DEF Owned, Agents
<1>1. CASE SameOwners
  BY <1>1 DEF SameOwners
<1>2. ASSUME NEW h \in Handles, NEW a \in Wrappers \cup {Client}, Opened(h, a) PROVE Owned'
  BY <1>2 DEF Opened, NowOf
<1>3. ASSUME NEW h \in Handles, NEW o \in Objects, Taken(o, h) PROVE Owned'
  BY <1>3 DEF Taken
<1>4. ASSUME NEW h \in Handles, NEW a \in Agents, PassedOn(h, a) PROVE Owned'
  BY <1>4 DEF PassedOn, NowOf
<1>5. ASSUME NEW h \in Handles, NEW a \in Agents, ClosedBy(h, a) PROVE Owned'
  BY <1>5 DEF ClosedBy
<1> QED BY <1>1, <1>2, <1>3, <1>4, <1>5 DEF Transfer

-----------------------------------------------------------------------------
(* The invariant is inductive.                                             *)

\* A value is valid to an object exactly if it is a handle.
LEMMA ValidIsHandle ==
    ASSUME TypeOK, InTerms, NEW o \in Objects
    PROVE  valid(o) <=> v[o] \in Handles
BY WinObjAssumption DEF TypeOK, InTerms, valid, Failures

LEMMA WinObjInitInv == Init => WinObjInv
BY WinObjAssumption DEF Init, WinObjInv, TypeOK, Owned, InTerms, Has, Agents

\* The values of an object's type.
LEMMA InvalidValue ==
    ASSUME NEW o \in Objects
    PROVE  /\ invalid_value(o) \in Failures(o) /\ invalid_value(o) \in HANDLE \ Handles
           /\ Failures(o) \subseteq HANDLE \ Handles /\ Gone \notin HANDLE
BY WinObjAssumption DEF invalid_value, Failures, HANDLE

\* Steps that change what the object o has, and what x of another object p or
\* of the client becomes o's, are told apart by what o and p have after them.
LEMMA ObjectSteps ==
    ASSUME WinObjInv, NEW o \in Objects,
           \/ Construct(o) \/ Release(o) \/ Reset(o) \/ Destroy(o)
           \/ \E p \in Objects : MoveConstruct(o, p) \/ MoveAssign(o, p)
    PROVE  TypeOK' /\ InTerms' /\ Transfer
<1> USE DEF WinObjInv
<1>1. CASE Construct(o)
  <2>1. PICK x \in mine \cup Failures(o) :
           v[o] = Gone /\ v' = [v EXCEPT ![o] = x] /\ mine' = mine \ {x}
    BY <1>1 DEF Construct
  <2>2. UNCHANGED <<wrap, open>> /\ x \in HANDLE /\ x # Gone
    BY <1>1, InvalidValue, WinObjAssumption DEF Construct, TypeOK, HANDLE
  <2>3. v'[o] = x /\ \A q \in Objects \ {o} : v'[q] = v[q]
    BY <2>1 DEF TypeOK
  <2>4. TypeOK'
    BY <2>1, <2>2 DEF TypeOK
  <2>5. InTerms'
    BY <2>1, <2>2, <2>3 DEF TypeOK, InTerms
  <2>6. CASE x \in mine
    <3>1. Has(Client, x) /\ x \in Handles /\ x \in open
      BY <2>6 DEF Has, TypeOK, Owned, Agents
    <3>2. Taken(o, x)
      BY <2>1, <2>2, <2>3, <3>1, WinObjAssumption DEF Taken, Has, Owned, Agents, TypeOK
    <3> QED BY <2>4, <2>5, <3>1, <3>2 DEF Transfer
  <2>7. CASE x \notin mine
    <3>1. x \notin Handles /\ mine' = mine
      BY <2>1, <2>7, InvalidValue DEF TypeOK
    <3>2. SameOwners
      BY <2>1, <2>2, <2>3, <3>1, WinObjAssumption DEF SameOwners, Has, Agents
    <3> QED BY <2>4, <2>5, <3>2 DEF Transfer
  <2> QED BY <2>6, <2>7
<1>2. CASE Release(o)
  <2>1. /\ v' = [v EXCEPT ![o] = invalid_value(o)] /\ v[o] # Gone
        /\ mine' = IF valid(o) THEN mine \cup {v[o]} ELSE mine
        /\ UNCHANGED <<wrap, open>>
    BY <1>2 DEF Release
  <2>2. v'[o] = invalid_value(o) /\ \A q \in Objects \ {o} : v'[q] = v[q]
    BY <2>1 DEF TypeOK
  <2>3. TypeOK'
    BY <2>1, InvalidValue, ValidIsHandle DEF TypeOK
  <2>4. InTerms'
    BY <2>1, <2>2, InvalidValue DEF TypeOK, InTerms
  <2>5. CASE valid(o)
    <3>1. Has(o, v[o]) /\ v[o] \in Handles /\ v[o] \in open
      BY <2>5, ValidIsHandle DEF Has, Owned, Agents
    <3>2. NowOf(v[o], Client)
      BY <2>1, <2>2, <2>5, <3>1, InvalidValue, WinObjAssumption DEF NowOf, Has, Owned, Agents
    <3> QED BY <2>1, <2>3, <2>4, <3>1, <3>2 DEF PassedOn, Transfer
  <2>6. CASE ~valid(o)
    <3>1. SameOwners
      BY <2>1, <2>2, <2>6, ValidIsHandle, InvalidValue DEF SameOwners, Has, Agents
    <3> QED BY <2>3, <2>4, <3>1 DEF Transfer
  <2> QED BY <2>5, <2>6
<1>3. CASE Reset(o)
  <2>1. PICK x \in mine \cup Failures(o) \cup {v[o]} :
           /\ open' = open \ Closed(o, x)
           /\ v' = [v EXCEPT ![o] = x]
           /\ mine' = mine \ {x}
    BY <1>3 DEF Reset
  <2>2. wrap' = wrap /\ v[o] # Gone /\ x # Gone
    BY <1>3, InvalidValue, WinObjAssumption DEF Reset, TypeOK
  <2>3. v'[o] = x /\ \A q \in Objects \ {o} : v'[q] = v[q]
    BY <2>1 DEF TypeOK
  <2>4. TypeOK'
    BY <2>1, <2>2, InvalidValue DEF TypeOK, HANDLE
  <2>5. InTerms'
    BY <2>1, <2>2, <2>3 DEF TypeOK, InTerms
  <2>6. CASE x \in mine
    <3>1. Has(Client, x) /\ x \in Handles /\ x \in open /\ x # v[o]
      BY <2>6, WinObjAssumption DEF Has, TypeOK, Owned, Agents
    <3>2. open' = open \ {g \in Handles \ {x} : Has(o, g)}
      BY <2>1, <3>1, ValidIsHandle, WinObjAssumption DEF Closed, Has, TypeOK
    <3>3. Taken(o, x)
      BY <2>1, <2>2, <2>3, <3>1, <3>2, WinObjAssumption DEF Taken, Has, Owned, Agents
    <3> QED BY <2>4, <2>5, <3>1, <3>3 DEF Transfer
  <2>7. CASE x = v[o]
    <3>1. v' = v /\ open' = open
      BY <2>1, <2>7 DEF Closed, TypeOK
    <3>2. mine' = mine
      BY <2>1, <2>7, WinObjAssumption DEF TypeOK, Owned, Has, Agents
    <3> QED BY <2>2, <2>4, <2>5, <3>1, <3>2 DEF Transfer, SameOwners, Has
  <2>8. CASE x \notin mine /\ x # v[o]
    <3>1. x \notin Handles /\ mine' = mine
      BY <2>1, <2>8, InvalidValue DEF TypeOK
    <3>2. CASE valid(o)
      <4>1. Has(o, v[o]) /\ v[o] \in Handles
        BY <3>2, ValidIsHandle DEF Has
      <4>2. open' = open \ {v[o]}
        BY <2>1, <2>8, <3>2 DEF Closed
      <4>3. ClosedBy(v[o], o)
        BY <2>2, <2>3, <3>1, <4>1, <4>2, WinObjAssumption DEF ClosedBy, Has, Owned, Agents
      <4> QED BY <2>4, <2>5, <4>1, <4>3 DEF Transfer
    <3>3. CASE ~valid(o)
      <4>1. SameOwners
        BY <2>1, <2>2, <2>3, <3>1, <3>3, ValidIsHandle DEF SameOwners, Has, Agents, Closed
      <4> QED BY <2>4, <2>5, <4>1 DEF Transfer
    <3> QED BY <3>2, <3>3
  <2> QED BY <2>6, <2>7, <2>8
<1>4. CASE Destroy(o)
  <2>1. /\ v' = [v EXCEPT ![o] = Gone] /\ UNCHANGED <<wrap, mine>>
        /\ open' = open \ (IF valid(o) THEN {v[o]} ELSE {})
        /\ \A w \in Wrappers : wrap[w] # NoWrapper => wrap[w].obj # o
    BY <1>4 DEF Destroy
  <2>2. v'[o] = Gone /\ \A q \in Objects \ {o} : v'[q] = v[q]
    BY <2>1 DEF TypeOK
  <2>3. TypeOK'
    BY <2>1 DEF TypeOK
  <2>4. InTerms'
    BY <2>1, <2>2 DEF TypeOK, InTerms
  <2>5. CASE valid(o)
    <3>1. Has(o, v[o]) /\ v[o] \in Handles
      BY <2>5, ValidIsHandle DEF Has
    <3>2. ClosedBy(v[o], o)
      BY <2>1, <2>2, <2>5, <3>1, WinObjAssumption DEF ClosedBy, Has, Owned, Agents
    <3> QED BY <2>3, <2>4, <3>1, <3>2 DEF Transfer
  <2>6. CASE ~valid(o)
    <3>1. SameOwners
      BY <2>1, <2>2, <2>6, ValidIsHandle, WinObjAssumption DEF SameOwners, Has, Agents
    <3> QED BY <2>3, <2>4, <3>1 DEF Transfer
  <2> QED BY <2>5, <2>6
<1>5. ASSUME NEW p \in Objects, MoveConstruct(o, p) \/ MoveAssign(o, p)
      PROVE  TypeOK' /\ InTerms' /\ Transfer
  <2>1. /\ v' = [v EXCEPT ![o] = Converted(o, p), ![p] = Left(p)]
        /\ o # p /\ v[p] # Gone /\ UNCHANGED <<wrap, mine>>
    BY <1>5 DEF MoveConstruct, MoveAssign
  <2>2. /\ v'[o] = Converted(o, p) /\ v'[p] = Left(p)
        /\ \A q \in Objects \ {o, p} : v'[q] = v[q]
    BY <2>1 DEF TypeOK
  <2>3. open' = open \ Closed(o, invalid_value(o))
    BY <1>5 DEF MoveConstruct, MoveAssign, Closed, valid
  <2>4. open' = open \ {g \in Handles : Has(o, g)}
    BY <2>3, ValidIsHandle, InvalidValue, WinObjAssumption DEF Closed, Has
  <2>5. CASE valid(p)
    <3>1. /\ Has(p, v[p]) /\ v[p] \in Handles /\ v[p] \in open
          /\ v'[o] = v[p] /\ v'[p] = invalid_value(p)
      BY <2>2, <2>5, ValidIsHandle DEF Has, Owned, Agents, Converted, Left
    <3>2. TypeOK'
      BY <2>1, <2>3, <2>5, <3>1, InvalidValue DEF TypeOK, HANDLE, Converted, Left
    <3>3. InTerms'
      BY <2>1, <2>2, <3>1, InvalidValue, WinObjAssumption DEF TypeOK, InTerms, Failures
    <3>4. ~Has(o, v[p])
      BY <2>1, <3>1 DEF Owned, Agents
    <3>5. \A g \in Handles : /\ Has(o, g)' <=> g = v[p]
                             /\ ~Has(p, g)'
                             /\ Has(p, g) <=> g = v[p]
      BY <3>1, InvalidValue, WinObjAssumption DEF Has
    <3>6. \A b \in Agents \ {o, p}, g \in Handles : Has(b, g)' <=> Has(b, g)
      BY <2>1, <2>2, WinObjAssumption DEF Has, Agents
    <3>7. \A b \in Agents : Has(b, v[p]) <=> b = p
      BY <3>1 DEF Owned, Agents
    <3>8. Taken(o, v[p])
      BY <2>1, <2>4, <3>1, <3>4, <3>5, <3>6, <3>7 DEF Taken, Agents
    <3> QED BY <3>1, <3>2, <3>3, <3>8 DEF Transfer
  <2>6. CASE ~valid(p)
    <3>1. v[p] \notin Handles /\ v'[o] = invalid_value(o) /\ v'[p] = v[p]
      BY <2>2, <2>6, ValidIsHandle DEF Converted, Left
    <3>2. TypeOK'
      BY <2>1, <2>3, <2>6, <3>1, InvalidValue DEF TypeOK, HANDLE, Converted, Left
    <3>3. InTerms'
      BY <2>1, <2>2, <3>1, InvalidValue, WinObjAssumption DEF TypeOK, InTerms, Failures
    <3>4. CASE valid(o)
      <4>1. Has(o, v[o]) /\ v[o] \in Handles
        BY <3>4, ValidIsHandle DEF Has
      <4>2. open' = open \ {v[o]}
        BY <2>4, <4>1, WinObjAssumption DEF Has
      <4>3. \A g \in Handles : ~Has(o, g)' /\ (Has(o, g) <=> g = v[o])
        BY <3>1, <4>1, InvalidValue, WinObjAssumption DEF Has
      <4>4. \A b \in Agents \ {o}, g \in Handles : Has(b, g)' <=> Has(b, g)
        BY <2>1, <2>2, <3>1, WinObjAssumption DEF Has, Agents
      <4>5. \A b \in Agents : Has(b, v[o]) <=> b = o
        BY <4>1 DEF Owned, Agents
      <4>6. ClosedBy(v[o], o)
        BY <4>1, <4>2, <4>3, <4>4, <4>5 DEF ClosedBy
      <4> QED BY <3>2, <3>3, <4>1, <4>6 DEF Transfer
    <3>5. CASE ~valid(o)
      <4>1. SameOwners
        BY <2>1, <2>2, <2>3, <3>1, <3>5, ValidIsHandle, InvalidValue
           DEF SameOwners, Has, Agents, Closed
      <4> QED BY <3>2, <3>3, <4>1 DEF Transfer
    <3> QED BY <3>4, <3>5
  <2> QED BY <2>5, <2>6
<1> QED BY <1>1, <1>2, <1>3, <1>4, <1>5

\* Steps of the output wrapper w.
LEMMA WrapperSteps ==
    ASSUME WinObjInv, NEW w \in Wrappers,
           \/ Store(w) \/ DestroyWrapper(w)
           \/ \E o \in Objects : Attach(w, o)
           \/ \E u \in Wrappers : MoveWrapper(w, u)
    PROVE  TypeOK' /\ InTerms' /\ Transfer
<1> USE DEF WinObjInv
<1> DEFINE Wraps == [obj : Objects, v : HANDLE, active : BOOLEAN]
<1>0. NoWrapper \notin Wraps
  BY WinObjAssumption DEF HANDLE
<1>1. ASSUME NEW o \in Objects, Attach(w, o) PROVE TypeOK' /\ InTerms' /\ Transfer
  <2> DEFINE x == [obj |-> o, v |-> invalid_value(o), active |-> TRUE]
  <2>1. /\ wrap[w] = NoWrapper /\ v[o] # Gone /\ UNCHANGED <<v, open, mine>>
        /\ x \in Wraps /\ x.v = invalid_value(o) /\ x.obj = o
    BY <1>1, InvalidValue DEF Attach
  <2>2. wrap' = [wrap EXCEPT ![w] = x]
    BY <1>1 DEF Attach
  <2> HIDE DEF x
  <2>3. \A u \in Wrappers : wrap'[u] = IF u = w THEN x ELSE wrap[u]
    BY <2>2 DEF TypeOK
  <2>4. TypeOK'
    BY <2>1, <2>2 DEF TypeOK
  <2>5. InTerms'
    BY <2>1, <2>3, InvalidValue DEF InTerms
  <2>6. SameOwners
    BY <2>1, <2>3, InvalidValue DEF SameOwners, Has, Agents
  <2> QED BY <2>4, <2>5, <2>6 DEF Transfer
<1>2. CASE Store(w)
  <2>1. PICK x \in (Handles \ open) \cup Failures(wrap[w].obj) :
           /\ wrap' = [wrap EXCEPT ![w].v = x]
           /\ open' = open \cup ({x} \cap Handles)
    BY <1>2 DEF Store
  <2>2. /\ wrap[w] # NoWrapper /\ wrap[w].active /\ wrap[w].v \notin Handles
        /\ UNCHANGED <<v, mine>>
        /\ wrap[w] \in Wraps
    BY <1>2 DEF Store, TypeOK
  <2>3. x \in HANDLE /\ (x \in Handles <=> x \in Handles \ open)
    BY <2>2, InvalidValue DEF HANDLE
  <2> DEFINE y == [wrap[w] EXCEPT !.v = x]
  <2>4. /\ wrap'[w] = y /\ y \in Wraps /\ y.v = x /\ y.active /\ y.obj = wrap[w].obj
        /\ \A u \in Wrappers \ {w} : wrap'[u] = wrap[u]
    BY <2>1, <2>2, <2>3 DEF TypeOK
  <2>5. y # NoWrapper
    BY <1>0, <2>4
  <2> HIDE DEF y
  <2>6. TypeOK'
    BY <2>1, <2>2, <2>4 DEF TypeOK
  <2>7. InTerms'
    BY <2>1, <2>2, <2>4 DEF InTerms
  <2>8. \A b \in Agents \ {w}, g \in Handles : Has(b, g)' <=> Has(b, g)
    BY <2>2, <2>4 DEF Has, Agents
  <2>9. \A g \in Handles : (Has(w, g)' <=> g = x) /\ ~Has(w, g)
    BY <2>2, <2>4, <2>5, WinObjAssumption DEF Has
  <2>10. CASE x \in Handles
    <3>1. /\ x \notin open /\ open' = open \cup {x}
          /\ \A b \in Agents : ~Has(b, x)
      BY <2>1, <2>3, <2>10 DEF Owned
    <3>2. NowOf(x, w)
      BY <2>8, <2>9, <3>1 DEF NowOf
    <3> QED BY <2>6, <2>7, <2>10, <3>1, <3>2 DEF Opened, Transfer
  <2>11. CASE x \notin Handles
    <3>1. SameOwners
      BY <2>1, <2>8, <2>9, <2>11 DEF SameOwners
    <3> QED BY <2>6, <2>7, <3>1 DEF Transfer
  <2> QED BY <2>10, <2>11
<1>3. ASSUME NEW u \in Wrappers, MoveWrapper(w, u) PROVE TypeOK' /\ InTerms' /\ Transfer
  <2> DEFINE y == [wrap[w] EXCEPT !.active = FALSE]
  <2>1. /\ wrap[w] # NoWrapper /\ wrap[u] = NoWrapper /\ u # w
        /\ wrap' = [wrap EXCEPT ![u] = wrap[w], ![w].active = FALSE]
        /\ UNCHANGED <<v, open, mine>> /\ wrap[w] \in Wraps
    BY <1>3 DEF MoveWrapper, TypeOK
  <2>2. /\ wrap'[u] = wrap[w] /\ wrap'[w] = y
        /\ y \in Wraps /\ y.v = wrap[w].v /\ ~y.active /\ y.obj = wrap[w].obj
        /\ \A t \in Wrappers \ {u, w} : wrap'[t] = wrap[t]
    BY <2>1 DEF TypeOK
  <2> HIDE DEF y
  <2>3. TypeOK'
    BY <2>1, <2>2 DEF TypeOK
  <2>4. InTerms'
    BY <2>1, <2>2 DEF InTerms
  <2>5. \A b \in Agents \ {u, w}, g \in Handles : Has(b, g)' <=> Has(b, g)
    BY <2>1, <2>2 DEF Has, Agents
  <2>6. \A g \in Handles : ~Has(u, g) /\ ~Has(w, g)' /\ (Has(u, g)' <=> Has(w, g))
    BY <2>1, <2>2, WinObjAssumption DEF Has
  <2>7. CASE wrap[w].active /\ wrap[w].v \in Handles
    <3>1. PICK h \in Handles : h = wrap[w].v
      BY <2>7
    <3>2. \A g \in Handles : Has(w, g) <=> g = h
      BY <2>1, <2>7, <3>1, WinObjAssumption DEF Has
    <3>3. h \in open /\ \A b \in Agents : Has(b, h) => b = w
      BY <3>2 DEF Owned, Agents
    <3>4. NowOf(h, u)
      BY <2>1, <2>5, <2>6, <3>2, <3>3 DEF NowOf, Agents
    <3> QED BY <2>1, <2>3, <2>4, <3>2, <3>3, <3>4 DEF PassedOn, Transfer
  <2>8. CASE ~(wrap[w].active /\ wrap[w].v \in Handles)
    <3>1. \A g \in Handles : ~Has(w, g)
      BY <2>8, WinObjAssumption DEF Has
    <3>2. SameOwners
      BY <2>1, <2>5, <2>6, <3>1 DEF SameOwners
    <3> QED BY <2>3, <2>4, <3>2 DEF Transfer
  <2> QED BY <2>7, <2>8
<1>4. CASE DestroyWrapper(w)
  <2> DEFINE o == wrap[w].obj
             x == wrap[w].v
  <2>1. /\ wrap[w] # NoWrapper /\ wrap' = [wrap EXCEPT ![w] = NoWrapper] /\ mine' = mine
        /\ IF wrap[w].active THEN open' = open \ Closed(o, x) /\ v' = [v EXCEPT ![o] = x]
                             ELSE UNCHANGED <<open, v>>
    BY <1>4 DEF DestroyWrapper
  <2>2. /\ o \in Objects /\ x \in HANDLE /\ v[o] # Gone /\ x \in Handles \cup Failures(o)
    BY <2>1 DEF TypeOK, InTerms
  <2>3. wrap'[w] = NoWrapper /\ \A u \in Wrappers \ {w} : wrap'[u] = wrap[u]
    BY <2>1 DEF TypeOK
  <2>4. PICK a \in Objects, y \in HANDLE : a = o /\ y = x
    BY <2>2
  <2> HIDE DEF o, x
  <2>5. CASE ~wrap[w].active
    <3>1. TypeOK' /\ InTerms'
      BY <2>1, <2>3, <2>5 DEF TypeOK, InTerms
    <3>2. SameOwners
      BY <2>1, <2>3, <2>5, WinObjAssumption DEF SameOwners, Has, Agents
    <3> QED BY <3>1, <3>2 DEF Transfer
  <2>6. CASE wrap[w].active
    <3>1. open' = open \ Closed(a, y) /\ v' = [v EXCEPT ![a] = y]
      BY <2>1, <2>4, <2>6
    <3>2. v'[a] = y /\ y # Gone /\ \A q \in Objects \ {a} : v'[q] = v[q]
      BY <3>1, InvalidValue DEF TypeOK
    <3>3. TypeOK'
      BY <2>1, <2>3, <3>1, <3>2 DEF TypeOK
    <3>4. InTerms'
      BY <2>2, <2>3, <2>4, <3>2 DEF InTerms, TypeOK
    <3>5. \A b \in Agents \ {a, w}, g \in Handles : Has(b, g)' <=> Has(b, g)
      BY <2>1, <2>3, <3>2 DEF Has, Agents
    <3>6. \A g \in Handles : /\ ~Has(w, g)' /\ (Has(w, g) <=> g = y)
                             /\ (Has(a, g)' <=> g = y) /\ (Has(a, g) <=> g = v[a])
      BY <2>1, <2>3, <2>4, <2>6, <3>2, WinObjAssumption DEF Has, x
    <3>7. CASE y \in Handles
      <4>1. y \in open /\ (\A b \in Agents : Has(b, y) <=> b = w) /\ y # v[a] /\ a # w
        BY <3>6, <3>7, WinObjAssumption DEF Owned, Agents
      <4>2. open' = open \ {g \in Handles \ {y} : Has(a, g)}
        BY <3>1, <3>6, <4>1, ValidIsHandle DEF Closed
      <4>3. Taken(a, y)
        BY <3>5, <3>6, <4>1, <4>2, WinObjAssumption DEF Taken, Agents
      <4> QED BY <3>3, <3>4, <3>7, <4>3 DEF Transfer
    <3>8. CASE y \notin Handles /\ v[a] \in Handles
      <4>1. PICK h \in Handles : h = v[a]
        BY <3>8
      <4>2. open' = open \ {h} /\ Has(a, h)
        BY <3>1, <3>6, <3>8, <4>1, ValidIsHandle DEF Closed
      <4>3. \A b \in Agents : Has(b, h) => b = a
        BY <4>2 DEF Owned, Agents
      <4>4. ClosedBy(h, a)
        BY <3>5, <3>6, <3>8, <4>1, <4>2, <4>3 DEF ClosedBy
      <4> QED BY <3>3, <3>4, <4>4 DEF Transfer
    <3>9. CASE y \notin Handles /\ v[a] \notin Handles
      <4>1. open' = open
        BY <3>1, <3>9, ValidIsHandle DEF Closed
      <4>2. SameOwners
        BY <3>5, <3>6, <3>9, <4>1 DEF SameOwners
      <4> QED BY <3>3, <3>4, <4>2 DEF Transfer
    <3> QED BY <3>7, <3>8, <3>9
  <2> QED BY <2>5, <2>6
<1> QED BY <1>1, <1>2, <1>3, <1>4

\* Every step is a transfer and keeps the values in their objects' terms.
LEMMA StepTransfers ==
    ASSUME WinObjInv, [Next]_vars
    PROVE  TypeOK' /\ InTerms' /\ Transfer
<1> USE DEF WinObjInv
<1>1. CASE OpenHandle
  <2>1. PICK h \in Handles \ open : open' = open \cup {h} /\ mine' = mine \cup {h}
    BY <1>1 DEF OpenHandle
  <2>2. UNCHANGED <<v, wrap>>
    BY <1>1 DEF OpenHandle
  <2>3. TypeOK' /\ InTerms'
    BY <2>1, <2>2 DEF TypeOK, InTerms
  <2>4. \A b \in Agents : ~Has(b, h)
    BY <2>1 DEF Owned
  <2>5. NowOf(h, Client)
    BY <2>1, <2>2, <2>4, WinObjAssumption DEF NowOf, Has, Agents
  <2> QED BY <2>1, <2>3, <2>5 DEF Opened, Transfer
<1>2. CASE CloseHandle
  <2>1. PICK h \in mine : open' = open \ {h} /\ mine' = mine \ {h}
    BY <1>2 DEF CloseHandle
  <2>2. UNCHANGED <<v, wrap>>
    BY <1>2 DEF CloseHandle
  <2>3. TypeOK' /\ InTerms'
    BY <2>1, <2>2 DEF TypeOK, InTerms
  <2>4. h \in Handles /\ Has(Client, h) /\ \A b \in Agents : Has(b, h) => b = Client
    BY <2>1 DEF Owned, Has, Agents, TypeOK
  <2>5. ClosedBy(h, Client)
    BY <2>1, <2>2, <2>4, WinObjAssumption DEF ClosedBy, Has, Agents
  <2> QED BY <2>3, <2>4, <2>5 DEF Transfer
<1>3. CASE UNCHANGED vars
  <2>1. TypeOK' /\ InTerms'
    BY <1>3 DEF vars, TypeOK, InTerms
  <2>2. SameOwners
    BY <1>3 DEF vars, SameOwners, Has
  <2> QED BY <2>1, <2>2 DEF Transfer
<1> QED BY <1>1, <1>2, <1>3, ObjectSteps, WrapperSteps DEF Next

LEMMA WinObjInductive == WinObjInv /\ [Next]_vars => WinObjInv'
<1> SUFFICES ASSUME WinObjInv, [Next]_vars PROVE WinObjInv'
  OBVIOUS
<1>1. open \subseteq Handles /\ Owned
  BY DEF WinObjInv, TypeOK
<1> QED BY <1>1, StepTransfers, TransferKeepsOwned DEF WinObjInv

-----------------------------------------------------------------------------
(* What follows from it.                                                   *)

\* The invariant holds of every behaviour.
THEOREM WinObjInvariant == Spec => []WinObjInv
BY WinObjInitInv, WinObjInductive, PTL DEF Spec

\* Objects and wrappers hold HANDLEs.
THEOREM WinObjTypeCorrect == Spec => []TypeOK
<1>1. WinObjInv => TypeOK
  BY DEF WinObjInv
<1> QED BY <1>1, WinObjInvariant, PTL

\* An open handle has one owner, and a closed one none.
LEMMA OneOwnerEach ==
    ASSUME WinObjInv, NEW h \in Handles
    PROVE  /\ Owners(h) = {a \in Agents : Has(a, h)}
           /\ h \notin open => Owners(h) = {}
           /\ h \in open => \E a \in Agents : Owners(h) = {a}
<1>1. Owners(h) = {a \in Agents : Has(a, h)}
  BY WinObjAssumption DEF Owners, Has, Agents
<1> QED BY <1>1 DEF WinObjInv, Owned

\* No open handle is leaked, and none has two owners.
THEOREM HandlesAreOwnedOnce == Spec => []OwnedOnce
<1>1. WinObjInv => OwnedOnce
  <2> SUFFICES ASSUME WinObjInv, NEW h \in open PROVE Cardinality(Owners(h)) = 1
    BY DEF OwnedOnce
  <2>1. PICK a \in Agents : Owners(h) = {a}
    BY OneOwnerEach DEF WinObjInv, TypeOK
  <2> QED BY <2>1, FS_Singleton
<1> QED BY <1>1, WinObjInvariant, PTL

\* What an object would delete is open.
THEOREM DeletedHandlesAreOpen == Spec => []DeletesOpen
<1>1. WinObjInv => DeletesOpen
  BY ValidIsHandle DEF WinObjInv, DeletesOpen, Owned, Has, Agents
<1> QED BY <1>1, WinObjInvariant, PTL

-----------------------------------------------------------------------------
(* The refinement of HandleOwnership.                                      *)

\* The owners, as ImplementsOwnership maps them.
ownerBar == [h \in Handles |-> IF h \notin open \/ Owners(h) = {} THEN Nobody
                              ELSE CHOOSE who \in Owners(h) : TRUE]

\* ownerBar names the agent that has the handle.
OwnersNamed ==
    /\ ownerBar = [g \in Handles |-> ownerBar[g]]
    /\ \A g \in Handles :
          /\ \A a \in Agents : ownerBar[g] = a <=> Has(a, g)
          /\ g \notin open => ownerBar[g] = Nobody
          /\ g \in open => ownerBar[g] \in Agents

LEMMA OwnerIs == WinObjInv => OwnersNamed
<1> SUFFICES ASSUME WinObjInv, NEW h \in Handles
             PROVE  /\ \A a \in Agents : ownerBar[h] = a <=> Has(a, h)
                    /\ h \notin open => ownerBar[h] = Nobody
                    /\ h \in open => ownerBar[h] \in Agents
  BY DEF OwnersNamed, ownerBar
<1>1. Nobody \notin Agents
  BY WinObjAssumption DEF Agents
<1>2. CASE h \in open
  <2>1. PICK a \in Agents : Owners(h) = {a}
    BY <1>2, OneOwnerEach
  <2>2. ownerBar[h] = a
    BY <1>2, <2>1 DEF ownerBar
  <2>3. \A b \in Agents : Has(b, h) <=> b = a
    BY <2>1, OneOwnerEach
  <2> QED BY <1>2, <2>2, <2>3
<1>3. CASE h \notin open
  <2>1. ownerBar[h] = Nobody
    BY <1>3 DEF ownerBar
  <2>2. \A a \in Agents : ~Has(a, h)
    BY <1>3 DEF WinObjInv, Owned
  <2> QED BY <1>1, <1>3, <2>1, <2>2
<1> QED BY <1>2, <1>3

\* Each transfer is a step of HandleOwnership, or changes no owner.
LEMMA TransferIsAllowed ==
    ASSUME OwnersNamed, OwnersNamed', Transfer
    PROVE  [Ownership!Next]_<<ownerBar, open>>
<1> USE DEF OwnersNamed
<1>1. Nobody \notin Agents /\ Client \in Agents
  BY WinObjAssumption DEF Agents
<1>2. CASE SameOwners
  <2>1. \A g \in Handles : ownerBar'[g] = ownerBar[g]
    BY <1>2 DEF SameOwners
  <2> QED BY <1>2, <2>1 DEF SameOwners
<1>3. ASSUME NEW h \in Handles, NEW a \in Agents, open' = open \/ open' = open \cup {h},
             h \in open', NowOf(h, a)
      PROVE  ownerBar' = [ownerBar EXCEPT ![h] = a]
  <2>1. ownerBar'[h] = a
    BY <1>3 DEF NowOf
  <2>2. \A g \in Handles \ {h} : ownerBar'[g] = ownerBar[g]
    BY <1>3 DEF NowOf
  <2> QED BY <2>1, <2>2
<1>4. ASSUME NEW h \in Handles, NEW a \in Wrappers \cup {Client}, Opened(h, a)
      PROVE  Ownership!Open(h)
  <2>1. ownerBar' = [ownerBar EXCEPT ![h] = a]
    BY <1>3, <1>4 DEF Opened, Agents
  <2> QED BY <1>4, <2>1 DEF Opened, Ownership!Open, ownerBar
<1>5. ASSUME NEW h \in Handles, NEW o \in Objects, Taken(o, h)
      PROVE  Ownership!Take(o, h)
  <2> DEFINE had == {g \in Handles : ownerBar[g] = o} \ {h}
  <2>1. /\ o \in Agents /\ h \in open /\ ownerBar'[h] = o
        /\ had = {g \in Handles \ {h} : Has(o, g)} /\ open' = open \ had
    BY <1>5 DEF Taken, Agents
  <2>2. ASSUME NEW g \in Handles \ {h}
        PROVE  ownerBar'[g] = IF ownerBar[g] = o THEN Nobody ELSE ownerBar[g]
    <3>1. CASE Has(o, g)
      BY <1>5, <2>1, <3>1 DEF Taken
    <3>2. CASE ~Has(o, g)
      <4>1. g \in open' <=> g \in open
        BY <1>5, <3>2 DEF Taken
      <4> QED BY <1>5, <2>1, <3>2, <4>1 DEF Taken
    <3> QED BY <3>1, <3>2
  <2>3. ownerBar' = [g \in Handles |-> CASE g = h     -> o
                                       [] g \in had -> Nobody
                                       [] OTHER     -> ownerBar[g]]
    BY <2>1, <2>2
  <2> QED BY <2>1, <2>3 DEF Ownership!Take, Ownership!OwnedBy, ownerBar
<1>6. ASSUME NEW h \in Handles,
             \/ \E o \in Objects : Has(o, h) /\ PassedOn(h, Client)
             \/ \E w, u \in Wrappers : Has(w, h) /\ PassedOn(h, u)
      PROVE  Ownership!HandOver(h)
  <2>1. \/ ownerBar[h] \in Objects /\ ownerBar' = [ownerBar EXCEPT ![h] = Client]
        \/ /\ ownerBar[h] \in Wrappers
           /\ \E u \in Wrappers : ownerBar' = [ownerBar EXCEPT ![h] = u]
    BY <1>1, <1>3, <1>6 DEF PassedOn, Agents
  <2>2. open' = open
    BY <1>6 DEF PassedOn
  <2> QED BY <2>1, <2>2 DEF Ownership!HandOver, ownerBar
<1>7. ASSUME NEW h \in Handles, NEW a \in Objects \cup {Client}, ClosedBy(h, a)
      PROVE  Ownership!Close(h)
  <2>1. ownerBar[h] = a /\ ownerBar'[h] = Nobody /\ h \in open /\ open' = open \ {h}
    BY <1>1, <1>7 DEF ClosedBy, Agents
  <2>2. \A g \in Handles \ {h} : ownerBar'[g] = ownerBar[g]
    BY <1>7 DEF ClosedBy
  <2>3. ownerBar[h] \in Objects \cup {Client} /\ ownerBar' = [ownerBar EXCEPT ![h] = Nobody]
    BY <2>1, <2>2
  <2> QED BY <2>1, <2>3 DEF Ownership!Close, ownerBar
<1> QED BY <1>2, <1>4, <1>5, <1>6, <1>7 DEF Transfer, Ownership!Next

\* Handles change hands and are closed only as HandleOwnership says: no step
\* leaves an open handle without an owner, and none closes more than the handle
\* that one object, or the client, gives up.
THEOREM WinObjImplementsOwnership == Spec => ImplementsOwnership
<1>1. Init => Ownership!Init
  BY DEF Init, Ownership!Init
<1>2. ASSUME WinObjInv, OwnersNamed, OwnersNamed', [Next]_vars
      PROVE  [Ownership!Next]_<<ownerBar, open>>
  BY <1>2, StepTransfers, TransferIsAllowed
<1> QED
  BY <1>1, <1>2, WinObjInvariant, OwnerIs, PTL
     DEF Spec, ImplementsOwnership, Ownership!Spec, Ownership!vars, ownerBar

=============================================================================
