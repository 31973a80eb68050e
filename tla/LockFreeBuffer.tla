---------------------------- MODULE LockFreeBuffer ----------------------------
(***************************************************************************)
(* util::LockFreeBuffer: _val handed from a producer to a consumer by two  *)
(* int flags, _sent written by the producer and _received by the consumer, *)
(* equal when the buffer is empty.                                         *)
(*                                                                         *)
(* Once a call has passed its test, todo holds the accesses it has still   *)
(* to make.  The copy of a T is not atomic: it begins and ends, and in     *)
(* between _val holds no item.  Ordered says whether the build keeps the   *)
(* copy before the flag, as volatile flags with acquire and release        *)
(* semantics do (LOCKFREEBUFFER_NEEDVOLATILE with Visual C++, which the    *)
(* header's link describes); the default build may make the accesses to    *)
(* unrelated variables in either order.                                    *)
(***************************************************************************)
EXTENDS Integers

CONSTANTS Items, NoItem, Torn, Ordered

ASSUME ItemAssumption == /\ NoItem \notin Items
                         /\ Torn \notin Items \cup {NoItem}
                         /\ Ordered \in BOOLEAN

VARIABLES
    val,       \* _val, Torn before the first copy and during every copy
    sent,      \* _sent
    received,  \* _received
    item,      \* send: its argument, NoItem when no send is in progress
    sendTodo,  \* send: the accesses after its test
    accepted,  \* send: what the last one returned
    out,       \* receive: what it has copied
    recvTodo,  \* receive: the accesses after its test
    got        \* receive: the item of the last one, NoItem if it returned false

sendVars == <<item, sendTodo, accepted>>
recvVars == <<out, recvTodo, got>>
vars     == <<val, sent, received, item, sendTodo, accepted, out, recvTodo, got>>

Copying == {"begin", "end"}

\* Mutant of BitNot: ! for ~.
LogicalNot(i) == IF i = 0 THEN 1 ELSE 0

\* ~ of a two's complement int.
BitNot(i) == -i - 1

Init == /\ val = Torn
        /\ sent = 0
        /\ received = 0
        /\ item = NoItem
        /\ sendTodo = {}
        /\ accepted = FALSE
        /\ out = NoItem
        /\ recvTodo = {}
        /\ got = NoItem

\* Mutant of MayAccess: an ordered build that does not order.
MayAccessUnordered(a, todo) == /\ a \in todo
                               /\ a = "end" => "begin" \notin todo

\* Access a of a call whose pending accesses are todo may be the next one: a
\* copy begins before it ends, and an ordered build touches the flag last.
MayAccess(a, todo) == /\ a \in todo
                      /\ a = "end" => "begin" \notin todo
                      /\ a = "flag" /\ Ordered => todo = {"flag"}

-----------------------------------------------------------------------------
(* send                                                                    *)

Send(i) == /\ item = NoItem
           /\ item' = i
           /\ UNCHANGED <<val, sent, received, sendTodo, accepted, recvVars>>

\* Mutant of SendTest: the newest item replaces one not yet received.
SendTestOverwrite == /\ item # NoItem
                     /\ sendTodo = {}
                     /\ sendTodo' = Copying \cup {"flag"}
                     /\ UNCHANGED <<val, sent, received, item, accepted, recvVars>>

\* Mutant of SendTest: a send that spins until the buffer is empty.
SendTestSpin == /\ item # NoItem
                /\ sendTodo = {}
                /\ sent = received
                /\ sendTodo' = Copying \cup {"flag"}
                /\ UNCHANGED <<val, sent, received, item, accepted, recvVars>>

SendTest == /\ item # NoItem
            /\ sendTodo = {}
            /\ \/ /\ sent = received
                  /\ sendTodo' = Copying \cup {"flag"}
                  /\ UNCHANGED <<item, accepted>>
               \/ /\ sent # received
                  /\ item' = NoItem
                  /\ accepted' = FALSE
                  /\ UNCHANGED sendTodo
            /\ UNCHANGED <<val, sent, received, recvVars>>

\* The access a is made; the last one returns true.
SendDone(a) == /\ MayAccess(a, sendTodo)
               /\ sendTodo' = sendTodo \ {a}
               /\ IF sendTodo = {a} THEN item' = NoItem /\ accepted' = TRUE
                                    ELSE UNCHANGED <<item, accepted>>

SendAccess == /\ \/ SendDone("begin") /\ val' = Torn /\ UNCHANGED sent
                 \/ SendDone("end") /\ val' = item /\ UNCHANGED sent
                 \/ SendDone("flag") /\ sent' = BitNot(received) /\ UNCHANGED val
              /\ UNCHANGED <<received, recvVars>>

-----------------------------------------------------------------------------
(* receive                                                                 *)

ReceiveTest == /\ recvTodo = {}
               /\ \/ /\ sent # received
                     /\ recvTodo' = Copying \cup {"flag"}
                     /\ UNCHANGED got
                  \/ /\ sent = received
                     /\ got' = NoItem
                     /\ UNCHANGED recvTodo
               /\ UNCHANGED <<val, sent, received, out, sendVars>>

ReceiveDone(a) == /\ MayAccess(a, recvTodo)
                  /\ recvTodo' = recvTodo \ {a}
                  /\ got' = IF recvTodo = {a} THEN out' ELSE got

\* A copy during which _val changes yields no item.
ReceiveAccess ==
    /\ \/ out' = val /\ UNCHANGED received /\ ReceiveDone("begin")
       \/ /\ out' = IF out = val THEN val ELSE Torn
          /\ UNCHANGED received
          /\ ReceiveDone("end")
       \/ received' = sent /\ UNCHANGED out /\ ReceiveDone("flag")
    /\ UNCHANGED <<val, sent, sendVars>>

-----------------------------------------------------------------------------
(* The producer and the consumer.                                          *)

Next == \/ \E i \in Items : Send(i)
        \/ SendTest
        \/ SendAccess
        \/ ReceiveTest
        \/ ReceiveAccess

\* Neither thread has to call, or to go on with a call it has begun.
Spec == Init /\ [][Next]_vars

\* What it means for each thread to keep running inside its calls.
ProducerRuns == WF_vars(SendTest) /\ WF_vars(SendAccess)
ConsumerRuns == WF_vars(ReceiveAccess)

-----------------------------------------------------------------------------
(* Properties.                                                             *)

\* The flags are 0 or ~0, and the calls hold items or nothing.
TypeOK == /\ val \in Items \cup {Torn}
          /\ sent \in {0, -1}
          /\ received \in {0, -1}
          /\ item \in Items \cup {NoItem}
          /\ sendTodo \subseteq Copying \cup {"flag"}
          /\ accepted \in BOOLEAN
          /\ out \in Items \cup {Torn, NoItem}
          /\ recvTodo \subseteq Copying \cup {"flag"}
          /\ got \in Items \cup {Torn, NoItem}

\* send and receive are never both past their tests, so _val is never written
\* while it is read: the flags alone keep the two threads apart.
Exclusive == sendTodo = {} \/ recvTodo = {}

\* The inductive invariant of an ordered build.  A send past its test owns an
\* empty buffer, a receive past its test a full one; a full buffer holds an
\* item, and each side's copy is complete before its flag.
Stages == {{}, Copying \cup {"flag"}, {"end", "flag"}, {"flag"}}
Inv == /\ TypeOK
       /\ sendTodo \in Stages
       /\ recvTodo \in Stages
       /\ sendTodo # {} => sent = received /\ item # NoItem
       /\ recvTodo # {} => sent # received
       /\ sendTodo = {"flag"} => val = item
       /\ sent # received => val \in Items
       /\ recvTodo \in {{"end", "flag"}, {"flag"}} => out = val

\* "A buffer with one producer and one consumer, and no OS locks"
\* (LockFreeBuffer.h:47): what a receive that returns true has handed over is
\* an item somebody sent, whole.
HandsOverItems == got # Torn

\* LockFreeBuffer is a place for one item.  send takes effect when it sets
\* _sent, receive when it sets _received, and what a receive returns is what
\* the send before it put there.
Place == INSTANCE OnePlaceBuffer
             WITH place <- IF sent = received THEN NoItem ELSE val
ImplementsPlace == Place!Init /\ [][Place!Next]_(Place!vars)

\* No call waits for the other thread: a send ends if only the producer keeps
\* running, a receive if only the consumer does, though the other thread has
\* stopped in the middle of a call of its own and for ever.
CallsReturn == /\ ProducerRuns => (item # NoItem ~> item = NoItem)
               /\ ConsumerRuns => (recvTodo # {} ~> recvTodo = {})

=============================================================================
