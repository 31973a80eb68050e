------------------------ MODULE LockFreeBufferProofs ------------------------
(***************************************************************************)
(* LockFreeBuffer for any set of items: in any build its state is of its   *)
(* types; in an ordered build the two flags keep the threads apart, and    *)
(* the buffer implements OnePlaceBuffer.                                   *)
(***************************************************************************)
EXTENDS LockFreeBuffer, TLAPS

\* The accesses of an ordered build come one at a time, the flag last.
LEMMA Stepwise ==
  ASSUME Ordered, NEW todo \in Stages, NEW a, MayAccess(a, todo)
  PROVE  \/ a = "begin" /\ todo = Copying \cup {"flag"} /\ todo \ {a} = {"end", "flag"}
         \/ a = "end" /\ todo = {"end", "flag"} /\ todo \ {a} = {"flag"}
         \/ a = "flag" /\ todo = {"flag"} /\ todo \ {a} = {}
BY DEF Stages, Copying, MayAccess

\* A constructed buffer is empty.
LEMMA InitInv == Init => Inv
BY ItemAssumption DEF Init, Inv, TypeOK, Stages, Copying

\* No step of either thread breaks the invariant.
LEMMA NextInv ==
  ASSUME Ordered, Inv, [Next]_vars
  PROVE  Inv'
<1> USE ItemAssumption DEF Inv, TypeOK, sendVars, recvVars
<1>1. ASSUME NEW i \in Items, Send(i)
      PROVE  Inv'
  BY <1>1 DEF Send
<1>2. CASE SendTest
  <2>1. UNCHANGED <<val, sent, received, out, recvTodo, got>>
    BY <1>2 DEF SendTest
  <2>2. CASE sent = received
    <3>1. /\ sendTodo' = Copying \cup {"flag"} /\ item # NoItem
          /\ UNCHANGED <<item, accepted>> /\ recvTodo = {}
      BY <1>2, <2>2 DEF SendTest
    <3> QED
      BY <2>1, <2>2, <3>1 DEF Stages, Copying
  <2>3. CASE sent # received
    <3>1. item' = NoItem /\ accepted' = FALSE /\ sendTodo = {} /\ sendTodo' = {}
      BY <1>2, <2>3 DEF SendTest
    <3> QED
      BY <2>1, <2>3, <3>1 DEF Stages, Copying
  <2> QED
    BY <2>2, <2>3
<1>3. CASE SendAccess
  <2>1. CASE SendDone("begin") /\ val' = Torn /\ UNCHANGED sent
    <3>1. sendTodo = Copying \cup {"flag"} /\ sendTodo' = {"end", "flag"}
      BY <2>1, Stepwise DEF SendDone
    <3>2. sent = received /\ UNCHANGED <<item, accepted>> /\ recvTodo = {}
      BY <2>1, <3>1 DEF SendDone, Copying
    <3> QED
      BY <1>3, <2>1, <3>1, <3>2 DEF SendAccess, Stages, Copying
  <2>2. CASE SendDone("end") /\ val' = item /\ UNCHANGED sent
    <3>1. sendTodo = {"end", "flag"} /\ sendTodo' = {"flag"}
      BY <2>2, Stepwise DEF SendDone
    <3>2. sent = received /\ UNCHANGED <<item, accepted>> /\ recvTodo = {}
      BY <2>2, <3>1 DEF SendDone
    <3> QED
      BY <1>3, <2>2, <3>1, <3>2 DEF SendAccess, Stages, Copying
  <2>3. CASE SendDone("flag") /\ sent' = BitNot(received) /\ UNCHANGED val
    <3>1. sendTodo = {"flag"} /\ sendTodo' = {}
      BY <2>3, Stepwise DEF SendDone
    <3>2. item' = NoItem /\ accepted' = TRUE /\ val \in Items /\ recvTodo = {}
      BY <2>3, <3>1 DEF SendDone
    <3>3. sent' \in {0, -1} /\ sent' # received
      BY <2>3 DEF BitNot
    <3> QED
      BY <1>3, <2>3, <3>1, <3>2, <3>3 DEF SendAccess, Stages
  <2> QED
    BY <1>3, <2>1, <2>2, <2>3 DEF SendAccess
<1>4. CASE ReceiveTest
  BY <1>4 DEF ReceiveTest, Stages, Copying
<1>5. CASE ReceiveAccess
  <2>1. recvTodo # {} /\ sendTodo = {} /\ val \in Items
    BY <1>5 DEF ReceiveAccess, ReceiveDone, MayAccess
  <2>2. CASE out' = val /\ UNCHANGED received /\ ReceiveDone("begin")
    <3>1. recvTodo = Copying \cup {"flag"} /\ recvTodo' = {"end", "flag"}
      BY <2>2, Stepwise DEF ReceiveDone
    <3>2. got' = got
      BY <2>2, <3>1 DEF ReceiveDone, Copying
    <3> QED
      BY <1>5, <2>1, <2>2, <3>1, <3>2 DEF ReceiveAccess, Stages, Copying
  <2>3. CASE /\ out' = IF out = val THEN val ELSE Torn
             /\ UNCHANGED received
             /\ ReceiveDone("end")
    <3>1. recvTodo = {"end", "flag"} /\ recvTodo' = {"flag"}
      BY <2>3, Stepwise DEF ReceiveDone
    <3>2. got' = got /\ out' = val
      BY <2>3, <3>1 DEF ReceiveDone
    <3> QED
      BY <1>5, <2>1, <2>3, <3>1, <3>2 DEF ReceiveAccess, Stages
  <2>4. CASE received' = sent /\ UNCHANGED out /\ ReceiveDone("flag")
    <3>1. recvTodo = {"flag"} /\ recvTodo' = {}
      BY <2>4, Stepwise DEF ReceiveDone
    <3>2. got' = out
      BY <2>4, <3>1 DEF ReceiveDone
    <3> QED
      BY <1>5, <2>1, <2>4, <3>1, <3>2 DEF ReceiveAccess, Stages
  <2> QED
    BY <1>5, <2>2, <2>3, <2>4 DEF ReceiveAccess
<1>6. CASE UNCHANGED vars
  BY <1>6 DEF vars, Stages
<1> QED
  BY <1>1, <1>2, <1>3, <1>4, <1>5, <1>6 DEF Next

\* The invariant holds of every behaviour of an ordered build.
THEOREM OrderedInvariant ==
  ASSUME Ordered
  PROVE  Spec => []Inv
BY InitInv, NextInv, PTL DEF Spec

\* In an ordered build _val is never written while it is read.
THEOREM ThreadsAreExclusive ==
  ASSUME Ordered
  PROVE  Spec => []Exclusive
<1>1. Inv => Exclusive
  BY DEF Inv, Exclusive
<1> QED
  BY <1>1, OrderedInvariant, PTL

\* The types need no order of the accesses, only that a send past its test
\* still has its argument.
TypeInv == TypeOK /\ (sendTodo # {} => item # NoItem)

\* No step of either thread breaks the types, in whichever order a build makes
\* the accesses.
LEMMA NextTypeInv ==
  ASSUME TypeInv, [Next]_vars
  PROVE  TypeInv'
<1> USE ItemAssumption DEF TypeInv, TypeOK, sendVars, recvVars
<1>1. ASSUME NEW i \in Items, Send(i)
      PROVE  TypeInv'
  BY <1>1 DEF Send
<1>2. CASE SendTest
  BY <1>2 DEF SendTest
<1>3. CASE SendAccess
  <2>1. ASSUME NEW a, SendDone(a)
        PROVE  /\ sendTodo # {} /\ sendTodo' = sendTodo \ {a}
               /\ item' \in Items \cup {NoItem} /\ accepted' \in BOOLEAN
               /\ sendTodo' # {} => item' # NoItem
    BY <2>1 DEF SendDone, MayAccess
  <2>2. val' \in Items \cup {Torn} /\ sent' \in {0, -1}
    BY <1>3, <2>1 DEF SendAccess, BitNot
  <2> QED
    BY <1>3, <2>1, <2>2 DEF SendAccess
<1>4. CASE ReceiveTest
  BY <1>4 DEF ReceiveTest
<1>5. CASE ReceiveAccess
  <2>1. out' \in Items \cup {Torn, NoItem} /\ received' \in {0, -1}
    BY <1>5 DEF ReceiveAccess
  <2>2. recvTodo' \subseteq recvTodo /\ got' \in Items \cup {Torn, NoItem}
    BY <1>5, <2>1 DEF ReceiveAccess, ReceiveDone
  <2> QED
    BY <1>5, <2>1, <2>2 DEF ReceiveAccess
<1>6. CASE UNCHANGED vars
  BY <1>6 DEF vars
<1> QED
  BY <1>1, <1>2, <1>3, <1>4, <1>5, <1>6 DEF Next

\* The flags are 0 or ~0 and the calls hold items or nothing, in any build.
THEOREM TypesAreKept == Spec => []TypeOK
<1>1. Init => TypeInv
  BY ItemAssumption DEF Init, TypeInv, TypeOK
<1>2. TypeInv => TypeOK
  BY DEF TypeInv
<1> QED
  BY <1>1, <1>2, NextTypeInv, PTL DEF Spec

-----------------------------------------------------------------------------
(* An ordered build implements OnePlaceBuffer.                             *)

\* The item in the place, as ImplementsPlace maps it.
placeBar == IF sent = received THEN NoItem ELSE val

\* Setting _sent puts the item there.
LEMMA PutStep ==
  ASSUME Ordered, Inv, SendAccess
  PROVE  Place!Put \/ UNCHANGED Place!vars
<1> USE DEF Inv, recvVars
<1>1. sendTodo # {} /\ sent = received /\ placeBar = NoItem
  BY DEF SendAccess, SendDone, MayAccess, placeBar
<1>2. ASSUME NEW a, SendDone(a), a # "flag", UNCHANGED sent
      PROVE  UNCHANGED Place!vars
  <2>1. UNCHANGED <<item, accepted>>
    BY <1>2, Stepwise DEF SendDone
  <2>2. UNCHANGED <<received, got>>
    BY DEF SendAccess
  <2> QED
    BY <1>1, <1>2, <2>1, <2>2 DEF Place!vars
<1>3. ASSUME SendDone("flag"), sent' = BitNot(received), UNCHANGED val
      PROVE  Place!Put
  <2>1. sendTodo = {"flag"}
    BY <1>3, Stepwise DEF SendDone
  <2>2. val = item /\ item # NoItem /\ item' = NoItem /\ accepted' = TRUE
    BY <1>3, <2>1 DEF SendDone
  <2>3. sent' # received /\ UNCHANGED <<received, got>>
    BY <1>3 DEF BitNot, SendAccess, TypeOK
  <2>4. placeBar' = item
    BY <1>3, <2>2, <2>3 DEF placeBar
  <2> QED
    BY <1>1, <2>2, <2>3, <2>4 DEF Place!Put, placeBar
<1> QED
  BY <1>2, <1>3 DEF SendAccess

\* Setting _received takes what is there.
LEMMA TakeStep ==
  ASSUME Ordered, Inv, ReceiveAccess
  PROVE  Place!Take \/ UNCHANGED Place!vars
<1> USE DEF Inv, sendVars
<1>1. recvTodo # {} /\ sent # received /\ val \in Items
  BY DEF ReceiveAccess, ReceiveDone, MayAccess
<1>2. UNCHANGED <<val, sent, item, accepted>>
  BY DEF ReceiveAccess
<1>3. ASSUME NEW a, ReceiveDone(a), a # "flag", UNCHANGED received
      PROVE  UNCHANGED Place!vars
  <2>1. UNCHANGED got
    BY <1>3, Stepwise DEF ReceiveDone
  <2> QED
    BY <1>2, <1>3, <2>1 DEF Place!vars
<1>4. ASSUME received' = sent, UNCHANGED out, ReceiveDone("flag")
      PROVE  Place!Take
  <2>1. recvTodo = {"flag"}
    BY <1>4, Stepwise DEF ReceiveDone
  <2>2. got' = val
    BY <1>4, <2>1 DEF ReceiveDone
  <2>3. placeBar = val /\ val # NoItem /\ placeBar' = NoItem
    BY <1>1, <1>2, <1>4, ItemAssumption DEF placeBar
  <2> QED
    BY <1>2, <2>2, <2>3 DEF Place!Take, placeBar
<1> QED
  BY <1>3, <1>4 DEF ReceiveAccess

\* In an ordered build the two flags and _val are a place for one item.
THEOREM OrderedImplementsPlace ==
  ASSUME Ordered
  PROVE  Spec => ImplementsPlace
<1>1. Init => Place!Init
  BY DEF Init, Place!Init
<1>2. ASSUME Inv, [Next]_vars
      PROVE  [Place!Next]_(Place!vars)
  <2> USE DEF sendVars, recvVars
  <2>1. ASSUME NEW i \in Items, Send(i)
        PROVE  Place!Offer
    BY <2>1 DEF Send, Place!Offer
  <2>2. CASE SendTest
    <3>1. CASE sent = received
      BY <2>2, <3>1 DEF SendTest, Place!vars
    <3>2. CASE sent # received
      <4>1. val # NoItem
        BY <1>2, <3>2, ItemAssumption DEF Inv
      <4> QED
        BY <2>2, <3>2, <4>1 DEF SendTest, Place!Refuse, Place!Next
    <3> QED
      BY <3>1, <3>2
  <2>3. CASE SendAccess
    BY <1>2, <2>3, PutStep DEF Place!Next
  <2>4. CASE ReceiveTest
    BY <2>4 DEF ReceiveTest, Place!Miss, Place!Next, Place!vars
  <2>5. CASE ReceiveAccess
    BY <1>2, <2>5, TakeStep DEF Place!Next
  <2>6. CASE UNCHANGED vars
    BY <2>6 DEF vars, Place!vars
  <2> QED
    BY <1>2, <2>1, <2>2, <2>3, <2>4, <2>5, <2>6 DEF Next, Place!Next
<1> QED
  BY <1>1, <1>2, OrderedInvariant, PTL DEF Spec, ImplementsPlace

=============================================================================
