------------------------- MODULE ReviewSessionProofs -------------------------
(***************************************************************************)
(* Proofs about ReviewSession for any number of messages, pumps, cancels,  *)
(* confirms and session objects.                                           *)
(***************************************************************************)
EXTENDS ReviewSession, TLAPS, SequenceTheorems

-----------------------------------------------------------------------------
(* The queue operators                                                     *)

\* Taking one message out of a queue leaves a queue that is one shorter.
LEMMA WithoutType ==
    ASSUME NEW S, NEW q \in Seq(S), NEW idx \in 1..Len(q)
    PROVE  Without(q, idx) \in Seq(S) /\ Len(Without(q, idx)) = Len(q) - 1
  <1> DEFINE front == SubSeq(q, 1, idx - 1)
             back  == SubSeq(q, idx + 1, Len(q))
  <1>1. front \in Seq(S) /\ Len(front) = idx - 1
    BY SubSeqProperties
  <1>2. back \in Seq(S) /\ Len(back) = Len(q) - idx
    BY SubSeqProperties
  <1>3. Without(q, idx) = front \o back
    BY DEF Without, RemoveAt
  <1> HIDE DEF front, back
  <1>4. front \o back \in Seq(S) /\ Len(front \o back) = Len(front) + Len(back)
    BY <1>1, <1>2, ConcatProperties
  <1> QED
    BY <1>1, <1>2, <1>3, <1>4, LenProperties

\* Reordering keeps the length.
LEMMA ReorderType ==
    ASSUME NEW S, NEW q \in Seq(S), NEW ids \in ReorderIds(q)
    PROVE  ids \in Seq(S) /\ Len(ids) = Len(q)
  <1>1. ids \in [1..Len(q) -> S]
    BY DEF ReorderIds
  <1> QED
    BY <1>1, LenProperties

-----------------------------------------------------------------------------
(* Type correctness                                                        *)

USE SessionAssumption DEF Sessions

\* A session object stays one when a message joins, leaves or is reordered.
LEMMA SessionFields ==
    ASSUME NEW x \in Session, NEW q \in Seq(Items), NEW n \in Nat, NEW c \in BOOLEAN
    PROVE  [x EXCEPT !.queue = q, !.waiting = n, !.cancelRequested = c] \in Session
  BY DEF Session

LEMMA EnqueueFields ==
    ASSUME NEW x \in Session, NEW q \in Seq(Items), NEW n \in Nat
    PROVE  [x EXCEPT !.queue = q, !.waiting = n, !.pumping = TRUE] \in Session
  BY DEF Session

LEMMA TypeInit == Init => TypeOK
  <1> SUFFICES ASSUME Init PROVE TypeOK
    OBVIOUS
  <1>1. sess \in [Sessions -> Session]
    BY DEF Init, NewSession, Session
  <1>2. conv \in [done : BOOLEAN, msgs : Seq(Message)]
    <2> DEFINE first == AgentRow(Kind = "clarify", FALSE)
    <2>1. first \in Message
      BY DEF AgentRow, Message
    <2>2. conv = [done |-> FALSE, msgs |-> <<first>>]
      BY DEF Init
    <2> HIDE DEF first
    <2>3. <<first>> \in Seq(Message)
      BY <2>1
    <2> QED
      BY <2>2, <2>3
  <1>3. item \in [Items -> [st : ItemState, s : 0..MaxSessions]]
        /\ pump \in [Pumps -> [pc : PumpState, s : 0..MaxSessions]]
    BY DEF Init, ItemState, PumpState
  <1>4. cancel \in [Cancels -> [pc : {"new", "mark", "abort", "done"},
                               s : 0..MaxSessions]]
        /\ confirm \in [Confirms -> {"new", "ready", "wrapup", "routed", "refused"}]
    BY DEF Init
  <1>5. /\ \A i \in Items : item[i].st = "new"
        /\ \A p \in Pumps : pump[p].pc = "none"
        /\ \A k \in Cancels : cancel[k].pc = "new"
    BY DEF Init
  <1>6. /\ reg = 0 /\ created = 0 /\ lock = None /\ routed = 0
        /\ halted = FALSE
    BY DEF Init
  <1> QED
    <2>1. reg \in 0..MaxSessions /\ created \in 0..MaxSessions /\ routed \in Nat
      BY <1>6
    <2>2. lock \in Pumps \cup Confirms \cup {None} /\ halted \in BOOLEAN
      BY <1>6
    <2>3. /\ \A i \in Items : item[i].st \in {"choice", "lock"} => item[i].s # 0
          /\ \A p \in Pumps : pump[p].pc # "none" => pump[p].s # 0
          /\ \A k \in Cancels : cancel[k].pc = "mark" => cancel[k].s # 0
      BY <1>5
    <2> QED
      BY <1>1, <1>2, <1>3, <1>4, <2>1, <2>2, <2>3, Zenon DEF TypeOK

LEMMA RowTypes ==
    /\ \A i \in Items \cup {None} : HumanRow(i) \in Message
    /\ \A a, c \in BOOLEAN : AgentRow(a, c) \in Message
  BY DEF HumanRow, AgentRow, Message

LEMMA SweptType ==
    ASSUME NEW x \in Session
    PROVE  Swept(x) \in Session
  <1>1. <<>> \in Seq(Items)
    OBVIOUS
  <1>2. [x EXCEPT !.queue = <<>>, !.waiting = 0, !.cancelRequested = TRUE] \in Session
    BY <1>1, SessionFields, Zenon
  <1> QED
    BY <1>2 DEF Swept

\* The session that a request finds or creates
\* is a session object.
LEMMA GetOrCreateType ==
    ASSUME reg \in 0..MaxSessions, created \in 0..MaxSessions, GetOrCreate
    PROVE  reg' \in Sessions /\ created' \in 0..MaxSessions
  BY DEF GetOrCreate


\* TypeOK by variable, for the steps below.
SessT == sess \in [Sessions -> Session]
ItemT == item \in [Items -> [st : ItemState, s : 0..MaxSessions]]
PumpT == pump \in [Pumps -> [pc : PumpState, s : 0..MaxSessions]]
ConvT == conv \in [done : BOOLEAN, msgs : Seq(Message)]
CancelT == cancel \in [Cancels -> [pc : {"new", "mark", "abort", "done"},
                                  s : 0..MaxSessions]]
ItemRef == \A i \in Items : item[i].st \in {"choice", "lock"} => item[i].s # 0
PumpRef == \A p \in Pumps : pump[p].pc # "none" => pump[p].s # 0
CancelRef == \A k \in Cancels : cancel[k].pc = "mark" => cancel[k].s # 0
RestT == /\ reg \in 0..MaxSessions
         /\ created \in 0..MaxSessions
         /\ lock \in Pumps \cup Confirms \cup {None}
         /\ routed \in Nat
         /\ confirm \in [Confirms -> {"new", "ready", "wrapup", "routed", "refused"}]
         /\ halted \in BOOLEAN

LEMMA TypeParts ==
    TypeOK <=> /\ SessT /\ ItemT /\ PumpT /\ ConvT /\ CancelT
               /\ ItemRef /\ PumpRef /\ CancelRef /\ RestT
  BY DEF TypeOK, SessT, ItemT, PumpT, ConvT, CancelT, ItemRef, PumpRef, CancelRef, RestT

LEMMA TypeItems ==
    ASSUME SessT, ItemT, PumpT, ConvT, CancelT, ItemRef, PumpRef, CancelRef, RestT,
           NEW i \in Items,
           \/ Submit(i) \/ SubmitRefused(i) \/ CheckTranscript(i)
           \/ EnqueueRefused(i) \/ Enqueue(i) \/ RemoveQueuedItem(i)
    PROVE  SessT' /\ ItemT' /\ PumpT' /\ ItemRef' /\ PumpRef' /\ RestT'
           /\ UNCHANGED <<conv, cancel>>
  <1>1. CASE Submit(i)
    <2>1. reg' \in Sessions /\ created' \in 0..MaxSessions
      BY <1>1, GetOrCreateType DEF Submit, RestT
    <2>2. ItemT' /\ ItemRef'
      BY <1>1, <2>1 DEF Submit, ItemT, ItemRef, ItemState
    <2> QED
      BY <1>1, <2>1, <2>2 DEF Submit, SessT, PumpT, PumpRef, RestT
  <1>2. CASE SubmitRefused(i) \/ CheckTranscript(i) \/ EnqueueRefused(i)
    <2>1. PICK st \in {"refused", "lock"} :
            /\ item' = [item EXCEPT ![i].st = st]
            /\ st = "lock" => item[i].st = "choice"
      BY <1>2 DEF SubmitRefused, CheckTranscript, EnqueueRefused, SetItem
    <2>2. ItemT' /\ ItemRef'
      BY <2>1 DEF ItemT, ItemRef, ItemState
    <2> QED
      BY <1>2, <2>2 DEF SubmitRefused, CheckTranscript, EnqueueRefused,
                       SessT, PumpT, PumpRef, RestT
  <1>3. CASE Enqueue(i)
    <2> DEFINE t == item[i].s
    <2>1. t \in Sessions
      BY <1>3 DEF Enqueue, ItemT, ItemRef
    <2>2. sess[t] \in Session
      BY <2>1 DEF SessT
    <2>3. Append(sess[t].queue, i) \in Seq(Items)
      BY <2>2, AppendProperties DEF Session
    <2>4. SessT'
      <3> DEFINE q == Append(sess[t].queue, i)
                 n == sess[t].waiting + 1
                 y == [sess[t] EXCEPT !.queue = q, !.waiting = n, !.pumping = TRUE]
      <3>1. sess' = [sess EXCEPT ![t] = y]
        BY <1>3 DEF Enqueue
      <3>2. q \in Seq(Items) /\ n \in Nat
        BY <2>2, <2>3 DEF Session
      <3> HIDE DEF q, n, t
      <3>3. y \in Session
        BY <2>2, <3>2, EnqueueFields
      <3> HIDE DEF y
      <3> QED
        BY <2>1, <3>1, <3>3 DEF SessT
    <2>5. ItemT' /\ ItemRef'
      BY <1>3 DEF Enqueue, SetItem, ItemT, ItemRef, ItemState
    <2>6. PumpT' /\ PumpRef'
      <3>1. \/ pump' = pump
            \/ \E p \in Pumps : pump' = [pump EXCEPT ![p] = [pc |-> "loop", s |-> t]]
        BY <1>3 DEF Enqueue
      <3> QED
        BY <2>1, <3>1 DEF PumpT, PumpRef, PumpState
    <2> QED
      BY <1>3, <2>4, <2>5, <2>6 DEF Enqueue, RestT
  <1>4. CASE RemoveQueuedItem(i)
    <2>1. reg \in Sessions /\ sess[reg] \in Session
      BY <1>4 DEF RemoveQueuedItem, RestT, SessT
    <2>2. PICK idx \in 1..Len(sess[reg].queue) :
            sess' = [sess EXCEPT ![reg].queue = Without(@, idx),
                                 ![reg].waiting = OneLess(@)]
      BY <1>4 DEF RemoveQueuedItem
    <2>3. Without(sess[reg].queue, idx) \in Seq(Items)
      BY <2>1, WithoutType DEF Session
    <2>4. OneLess(sess[reg].waiting) \in Nat
      BY <2>1 DEF OneLess, Session
    <2>5. SessT'
      BY <2>1, <2>2, <2>3, <2>4 DEF Session, SessT
    <2>6. ItemT' /\ ItemRef'
      BY <1>4 DEF RemoveQueuedItem, SetItem, ItemT, ItemRef, ItemState
    <2> QED
      BY <1>4, <2>5, <2>6 DEF RemoveQueuedItem, PumpT, PumpRef, RestT
  <1> QED
    BY <1>1, <1>2, <1>3, <1>4
       DEF Submit, SubmitRefused, CheckTranscript, EnqueueRefused, Enqueue,
           RemoveQueuedItem

LEMMA TypePumps ==
    ASSUME SessT, ItemT, PumpT, ConvT, CancelT, ItemRef, PumpRef, CancelRef, RestT,
           NEW p \in Pumps, PumpStep(p)
    PROVE  SessT' /\ ItemT' /\ PumpT' /\ ConvT' /\ ItemRef' /\ PumpRef' /\ RestT'
           /\ UNCHANGED cancel
  <1> DEFINE t == pump[p].s
  <1>0. pump[p].pc # "none" => t \in Sessions /\ sess[t] \in Session
    BY DEF PumpT, PumpRef, SessT
  \* What most steps do to the goroutine and to a message.
  <1>a. ASSUME NEW l \in PumpState, Goto(p, l), pump[p].pc # "none"
        PROVE  PumpT' /\ PumpRef'
    BY <1>a DEF Goto, PumpT, PumpRef
  <1>b. ASSUME NEW i, NEW st \in ItemState \ {"choice", "lock"}, SetItem(i, st)
        PROVE  ItemT' /\ ItemRef'
    BY <1>b DEF SetItem, ItemT, ItemRef
  <1>c. ASSUME pump' = [pump EXCEPT ![p] = [pc |-> "none", s |-> 0]]
        PROVE  PumpT' /\ PumpRef'
    BY <1>c DEF PumpT, PumpRef, PumpState
  <1> HIDE DEF t
  <1>d. ASSUME NEW m \in Message, NEW d \in BOOLEAN,
               conv' = [done |-> d, msgs |-> Append(conv.msgs, m)]
        PROVE  ConvT'
    <2>1. Append(conv.msgs, m) \in Seq(Message)
      BY AppendProperties DEF ConvT
    <2> QED
      BY <1>d, <2>1 DEF ConvT
  <1> USE DEF PumpState, ItemState
  <1>1. CASE Dequeue(p)
    <2> DEFINE q == Tail(sess[t].queue)
               i == Head(sess[t].queue)
               n == OneLess(sess[t].waiting)
    <2>0. t \in Sessions /\ sess[t] \in Session /\ sess[t].queue # <<>>
      BY <1>1, <1>0 DEF Dequeue, t
    <2>1. i \in Items /\ q \in Seq(Items) /\ n \in Nat
      <3>1. sess[t].queue \in Seq(Items) /\ sess[t].waiting \in Nat
        BY <2>0 DEF Session
      <3>2. n \in Nat
        BY <3>1 DEF OneLess
      <3> QED
        BY <2>0, <3>1, <3>2, HeadTailProperties
    <2>2. sess' = [sess EXCEPT ![t].queue = q, ![t].waiting = n, ![t].active = i,
                               ![t].cancelRequested = FALSE]
      BY <1>1 DEF Dequeue, t
    <2>3. SetItem(i, "active") /\ Goto(p, "exec") /\ pump[p].pc = "loop"
      BY <1>1 DEF Dequeue, t
    <2>4. UNCHANGED <<reg, created, lock, conv, routed, cancel, confirm, halted>>
      BY <1>1 DEF Dequeue
    <2> HIDE DEF q, i, n
    <2>5. SessT'
      BY <2>1, <2>2, <2>3, <1>0 DEF SessT, Session
    <2> QED
      BY <2>3, <2>4, <2>5, <1>a, <1>b DEF ConvT, RestT
  <1>2. CASE Drained(p)
    BY <1>2, <1>a DEF Drained, SessT, ItemT, ItemRef, ConvT, RestT
  <1>3. CASE TurnBegin(p)
    <2>1. sess[t].active \in Items \cup {None}
      BY <1>3, <1>0 DEF TurnBegin, Session
    <2>2. HumanRow(sess[t].active) \in Message
      BY <2>1, RowTypes
    <2>3. ConvT'
      <3>1. conv' = [done |-> conv.done,
                     msgs |-> Append(conv.msgs, HumanRow(sess[t].active))]
        BY <1>3 DEF TurnBegin, ConvT, t
      <3> QED
        BY <2>2, <3>1, <1>d DEF ConvT
    <2> QED
      BY <1>3, <2>3, <1>a DEF TurnBegin, Acquire, SessT, ItemT, ItemRef, RestT
  <1>4. CASE TurnRefused(p)
    BY <1>4, <1>a, <1>b DEF TurnRefused, SessT, ConvT, RestT
  <1>5. CASE TurnReturns(p)
    <2>1. ConvT' /\ routed' \in Nat
      <3>1. sess[t].cancelRequested \in BOOLEAN
        BY <1>5, <1>0 DEF TurnReturns, Session
      <3>2. /\ conv.done \in BOOLEAN
            /\ \A x : [conv EXCEPT !.msgs = x] = [done |-> conv.done, msgs |-> x]
        BY DEF ConvT
      <3>3. PICK a \in BOOLEAN, c \in BOOLEAN, d \in BOOLEAN :
              /\ conv' = [done |-> d, msgs |-> Append(conv.msgs, AgentRow(a, c))]
              /\ routed' = routed \/ routed' = routed + 1
        <4> DEFINE Saved(x, y) == Append(conv.msgs, AgentRow(x, y))
        <4>1. \/ \E x \in BOOLEAN :
                    /\ conv' = [conv EXCEPT !.msgs = Saved(x, sess[t].cancelRequested)]
                    /\ routed' = routed
              \/ conv' = [conv EXCEPT !.msgs = Saved(FALSE, TRUE)] /\ routed' = routed
              \/ conv' = [done |-> TRUE, msgs |-> Saved(FALSE, FALSE)] /\ routed' = routed + 1
          BY <1>5, Zenon DEF TurnReturns, t
        <4>2. TRUE \in BOOLEAN /\ FALSE \in BOOLEAN
          OBVIOUS
        <4> QED
          BY <3>1, <3>2, <4>1, <4>2, Zenon
      <3>4. AgentRow(a, c) \in Message
        BY RowTypes
      <3>5. ConvT'
        BY <3>3, <3>4, <1>d, Zenon
      <3>6. routed \in Nat
        BY DEF RestT
      <3>7. routed' \in Nat
        BY <3>3, <3>6
      <3> QED
        BY <3>5, <3>7
    <2> QED
      BY <1>5, <2>1, <1>a, <1>b DEF TurnReturns, SessT, RestT
  <1>6. CASE EndTurn(p)
    <2>1. SessT'
      BY <1>6, <1>0 DEF EndTurn, SessT, Session, t
    <2> QED
      BY <1>6, <2>1, <1>a DEF EndTurn, ItemT, ItemRef, ConvT, RestT
  <1>7. CASE Exit(p)
    <2>1. SessT'
      BY <1>7, <1>0 DEF Exit, SessT, Session, t
    <2> QED
      BY <1>7, <2>1, <1>a DEF Exit, ItemT, ItemRef, ConvT, RestT
  <1>8. CASE Drop(p)
    BY <1>8, <1>c DEF Drop, SessT, ItemT, ItemRef, ConvT, RestT
  <1>9. CASE Restart(p)
    <2>1. SessT'
      <3>1. sess' = sess \/ sess' = [sess EXCEPT ![t].pumping = TRUE]
        BY <1>9 DEF Restart, t
      <3>2. t \in Sessions /\ sess[t] \in Session
        BY <1>9, <1>0 DEF Restart
      <3>3. CASE sess' = sess
        BY <3>3 DEF SessT
      <3>4. CASE sess' = [sess EXCEPT ![t].pumping = TRUE]
        BY <3>2, <3>4 DEF SessT, Session
      <3> QED
        BY <3>1, <3>3, <3>4
    <2> QED
      BY <1>9, <2>1, <1>a, <1>c DEF Restart, ItemT, ItemRef, ConvT, RestT
  <1> QED
    BY PumpStep(p), <1>1, <1>2, <1>3, <1>4, <1>5, <1>6, <1>7, <1>8, <1>9
       DEF PumpStep, Dequeue, Drained, TurnBegin, TurnRefused, TurnReturns,
           EndTurn, Exit, Drop, Restart

LEMMA TypeReorder ==
    ASSUME SessT, RestT, ReorderQueuedItems
    PROVE  SessT'
  <1>1. reg \in Sessions /\ sess[reg] \in Session
    BY DEF ReorderQueuedItems, RestT, SessT
  <1>2. PICK ids \in ReorderIds(sess[reg].queue) :
          sess' = [sess EXCEPT ![reg].queue = ids]
    BY DEF ReorderQueuedItems
  <1>3. ids \in Seq(Items)
    BY <1>1, ReorderType DEF Session
  <1> QED
    BY <1>1, <1>2, <1>3 DEF SessT, Session

LEMMA TypeCancels ==
    ASSUME SessT, ItemT, CancelT, ItemRef, CancelRef, RestT,
           NEW k \in Cancels,
           CancelLookup(k) \/ CancelMark(k) \/ CancelAbort(k)
    PROVE  SessT' /\ ItemT' /\ CancelT' /\ ItemRef' /\ CancelRef' /\ RestT'
           /\ UNCHANGED <<pump, conv>>
  <1>1. CASE CancelLookup(k)
    BY <1>1 DEF CancelLookup, SessT, ItemT, CancelT, ItemRef, CancelRef, RestT
  <1>2. CASE CancelMark(k)
    <2> DEFINE t == cancel[k].s
    <2>1. t \in Sessions /\ sess[t] \in Session
      BY <1>2 DEF CancelMark, CancelT, CancelRef, SessT
    <2>2. CancelT' /\ CancelRef'
      BY <1>2 DEF CancelMark, CancelT, CancelRef
    <2>3. SessT'
      <3>1. \/ sess' = [sess EXCEPT ![t] = Swept(sess[t])]
            \/ sess' = [sess EXCEPT ![t].cancelRequested = TRUE]
        BY <1>2 DEF CancelMark
      <3>2. CASE sess' = [sess EXCEPT ![t] = Swept(sess[t])]
        <4>1. Swept(sess[t]) \in Session
          BY <2>1, SweptType
        <4> QED
          BY <2>1, <3>2, <4>1 DEF SessT
      <3>3. CASE sess' = [sess EXCEPT ![t].cancelRequested = TRUE]
        BY <2>1, <3>3 DEF SessT, Session
      <3> QED
        BY <3>1, <3>2, <3>3
    <2>4. ItemT' /\ ItemRef'
      <3>1. PICK W : \/ item' = item
                     \/ item' = [i \in Items |-> IF i \in W
                                     THEN [item[i] EXCEPT !.st = "cleared"] ELSE item[i]]
        BY <1>2 DEF CancelMark
      <3> QED
        BY <3>1 DEF ItemT, ItemRef, ItemState
    <2> QED
      BY <1>2, <2>2, <2>3, <2>4 DEF CancelMark, RestT
  <1>3. CASE CancelAbort(k)
    BY <1>3 DEF CancelAbort, SessT, ItemT, CancelT, ItemRef, CancelRef, RestT
  <1> QED
    BY <1>1, <1>2, <1>3 DEF CancelLookup, CancelMark, CancelAbort

LEMMA TypeConfirms ==
    ASSUME ConvT, RestT, NEW c \in Confirms,
           ConfirmReady(c) \/ ConfirmBegin(c) \/ ConfirmEnd(c)
    PROVE  ConvT' /\ RestT' /\ UNCHANGED <<sess, item, pump, cancel>>
  <1>1. CASE ConfirmReady(c)
    BY <1>1 DEF ConfirmReady, ConvT, RestT
  <1>a. ASSUME NEW m \in Message, NEW d \in BOOLEAN,
               conv' = [done |-> d, msgs |-> Append(conv.msgs, m)]
        PROVE  ConvT'
    <2>1. Append(conv.msgs, m) \in Seq(Message)
      BY AppendProperties DEF ConvT
    <2> QED
      BY <1>a, <2>1 DEF ConvT
  <1>2. CASE ConfirmBegin(c)
    <2>1. ConvT'
      <3>1. \/ conv' = conv
            \/ conv' = [done |-> TRUE, msgs |-> Append(conv.msgs, HumanRow(None))]
        BY <1>2 DEF ConfirmBegin
      <3>2. CASE conv' = conv
        BY <3>2 DEF ConvT
      <3> QED
        BY <3>1, <3>2, <1>a, RowTypes
    <2> QED
      BY <1>2, <2>1 DEF ConfirmBegin, Acquire, RestT
  <1>3. CASE ConfirmEnd(c)
    <2>1. ConvT'
      <3>1. \E a, d \in BOOLEAN :
               conv' = [done |-> d, msgs |-> Append(conv.msgs, AgentRow(a, FALSE))]
        BY <1>3 DEF ConfirmEnd
      <3> QED
        BY <3>1, <1>a, RowTypes
    <2>2. routed' \in Nat /\ lock' = None
      <3>1. (routed' = routed \/ routed' = routed + 1) /\ lock' = None
        BY <1>3 DEF ConfirmEnd
      <3>2. routed \in Nat
        BY DEF RestT
      <3> QED
        BY <3>1, <3>2
    <2>3. confirm' \in [Confirms -> {"new", "ready", "wrapup", "routed", "refused"}]
      BY <1>3 DEF ConfirmEnd, RestT
    <2>4. UNCHANGED <<reg, created, sess, item, pump, cancel, halted>>
      BY <1>3 DEF ConfirmEnd
    <2> QED
      BY <2>1, <2>2, <2>3, <2>4 DEF RestT
  <1> QED
    BY <1>1, <1>2, <1>3 DEF ConfirmReady, ConfirmBegin, ConfirmEnd

LEMMA TypeNext == TypeOK /\ [Next]_vars => TypeOK'
  <1> SUFFICES ASSUME TypeOK, [Next]_vars PROVE TypeOK'
    OBVIOUS
  <1>0. SessT /\ ItemT /\ PumpT /\ ConvT /\ CancelT
        /\ ItemRef /\ PumpRef /\ CancelRef /\ RestT
    BY TypeParts
  <1> SUFFICES SessT' /\ ItemT' /\ PumpT' /\ ConvT' /\ CancelT'
               /\ ItemRef' /\ PumpRef' /\ CancelRef' /\ RestT'
    BY DEF TypeOK, SessT, ItemT, PumpT, ConvT, CancelT, ItemRef, PumpRef, CancelRef, RestT
  <1>1. ASSUME NEW i \in Items,
               \/ Submit(i) \/ SubmitRefused(i) \/ CheckTranscript(i)
               \/ EnqueueRefused(i) \/ Enqueue(i) \/ RemoveQueuedItem(i)
        PROVE  SessT' /\ ItemT' /\ PumpT' /\ ConvT' /\ CancelT'
               /\ ItemRef' /\ PumpRef' /\ CancelRef' /\ RestT'
    BY <1>0, <1>1, TypeItems DEF ConvT, CancelT, CancelRef
  <1>2. CASE ReorderQueuedItems
    BY <1>0, <1>2, TypeReorder
       DEF ReorderQueuedItems, ItemT, PumpT, ConvT, CancelT, ItemRef, PumpRef,
           CancelRef, RestT
  <1>3. ASSUME NEW p \in Pumps, PumpStep(p)
        PROVE  SessT' /\ ItemT' /\ PumpT' /\ ConvT' /\ CancelT'
               /\ ItemRef' /\ PumpRef' /\ CancelRef' /\ RestT'
    BY <1>0, <1>3, TypePumps DEF CancelT, CancelRef
  <1>4. ASSUME NEW k \in Cancels,
               CancelLookup(k) \/ CancelMark(k) \/ CancelAbort(k)
        PROVE  SessT' /\ ItemT' /\ PumpT' /\ ConvT' /\ CancelT'
               /\ ItemRef' /\ PumpRef' /\ CancelRef' /\ RestT'
    BY <1>0, <1>4, TypeCancels DEF PumpT, PumpRef, ConvT
  <1>5. ASSUME NEW c \in Confirms,
               ConfirmReady(c) \/ ConfirmBegin(c) \/ ConfirmEnd(c)
        PROVE  SessT' /\ ItemT' /\ PumpT' /\ ConvT' /\ CancelT'
               /\ ItemRef' /\ PumpRef' /\ CancelRef' /\ RestT'
    BY <1>0, <1>5, TypeConfirms
       DEF SessT, ItemT, PumpT, CancelT, ItemRef, PumpRef, CancelRef
  <1>6. CASE Halt \/ UNCHANGED vars
    BY <1>0, <1>6
       DEF Halt, vars, SessT, ItemT, PumpT, ConvT, CancelT, ItemRef, PumpRef,
           CancelRef, RestT
  <1> QED
    BY <1>1, <1>2, <1>3, <1>4, <1>5, <1>6 DEF Next

\* Every reachable state is well typed, and no handler locks a session it does
\* not hold, for any number of clients, pumps and session objects.
THEOREM TypeCorrect == Spec => []TypeOK
  <1> QED
    BY TypeInit, TypeNext, PTL DEF Spec

-----------------------------------------------------------------------------
(* The dialogue: one turn at a time, one hand-over                         *)

\* The inductive strengthening of OneTurnAtATime and RoutedOnce: who holds the
\* dialogue's lock, and what the conversation looks like meanwhile.  A confirm
\* closes the conversation before its slow wrap-up, so it is the lock that keeps
\* turns out until the wrap-up fails and reopens it.
LockDiscipline ==
    /\ \A p \in Pumps : pump[p].pc = "turn" => lock = p /\ ~conv.done
    /\ \A c \in Confirms : confirm[c] = "wrapup" =>
          lock = c /\ conv.done /\ routed = 0
    /\ RoutedOnce

LEMMA LockInit == Init => LockDiscipline
  BY DEF Init, LockDiscipline, RoutedOnce

\* Steps that touch neither the lock nor the conversation, and neither enter nor
\* leave a turn.
LEMMA LockUntouched ==
    ASSUME LockDiscipline, UNCHANGED <<lock, conv, routed, confirm>>,
           \A p \in Pumps : pump'[p].pc = "turn" => pump[p].pc = "turn"
    PROVE  LockDiscipline'
  BY DEF LockDiscipline, RoutedOnce

LEMMA LockNext == TypeOK /\ LockDiscipline /\ [Next]_vars => LockDiscipline'
  <1> SUFFICES ASSUME TypeOK, LockDiscipline, [Next]_vars PROVE LockDiscipline'
    OBVIOUS
  <1>0. /\ pump \in [Pumps -> [pc : PumpState, s : 0..MaxSessions]]
        /\ conv \in [done : BOOLEAN, msgs : Seq(Message)]
        /\ confirm \in [Confirms -> {"new", "ready", "wrapup", "routed", "refused"}]
        /\ routed \in Nat
    BY DEF TypeOK
  <1>1. ASSUME NEW i \in Items,
               \/ Submit(i) \/ SubmitRefused(i) \/ CheckTranscript(i)
               \/ EnqueueRefused(i) \/ Enqueue(i) \/ RemoveQueuedItem(i)
        PROVE  LockDiscipline'
    <2>1. UNCHANGED <<lock, conv, routed, confirm>>
      BY <1>1 DEF Submit, SubmitRefused, CheckTranscript, EnqueueRefused, Enqueue,
                  RemoveQueuedItem
    <2>2. \/ pump' = pump
          \/ \E p \in Pumps : \E t : pump' = [pump EXCEPT ![p] = [pc |-> "loop", s |-> t]]
      BY <1>1 DEF Submit, SubmitRefused, CheckTranscript, EnqueueRefused, Enqueue,
                  RemoveQueuedItem
    <2> QED
      BY <1>0, <2>1, <2>2, LockUntouched
  <1>2. ASSUME NEW p \in Pumps,
               \/ Dequeue(p) \/ Drained(p) \/ TurnRefused(p) \/ EndTurn(p)
               \/ Exit(p) \/ Drop(p) \/ Restart(p)
        PROVE  LockDiscipline'
    <2>1. UNCHANGED <<lock, conv, routed, confirm>>
      BY <1>2 DEF Dequeue, Drained, TurnRefused, EndTurn, Exit, Drop, Restart
    <2>2. \/ \E l \in PumpState \ {"turn"} : pump' = [pump EXCEPT ![p].pc = l]
          \/ pump' = [pump EXCEPT ![p] = [pc |-> "none", s |-> 0]]
      BY <1>2 DEF Dequeue, Drained, TurnRefused, EndTurn, Exit, Drop, Restart, Goto,
                  PumpState
    <2>3. /\ pump'[p].pc # "turn"
          /\ \A q \in Pumps \ {p} : pump'[q] = pump[q]
      BY <1>0, <2>2
    <2>4. \A q \in Pumps : pump'[q].pc = "turn" => pump[q].pc = "turn"
      BY <2>3
    <2> QED
      BY <2>1, <2>4, LockUntouched
  <1>3. ASSUME NEW p \in Pumps, TurnBegin(p)
        PROVE  LockDiscipline'
    <2>1. /\ lock = None /\ lock' = p /\ ~conv.done /\ conv'.done = conv.done
          /\ pump' = [pump EXCEPT ![p].pc = "turn"]
          /\ UNCHANGED <<routed, confirm>>
      BY <1>0, <1>3 DEF TurnBegin, Acquire, Closed, Goto
    <2> QED
      BY <1>0, <2>1 DEF LockDiscipline, RoutedOnce
  <1>4. ASSUME NEW p \in Pumps, TurnReturns(p)
        PROVE  LockDiscipline'
    <2>1. /\ pump[p].pc = "turn"
          /\ pump' = [pump EXCEPT ![p].pc = "ending"]
          /\ UNCHANGED confirm
      BY <1>4 DEF TurnReturns, Goto
    <2>2. \/ /\ \E m : conv' = [conv EXCEPT !.msgs = m]
             /\ routed' = routed
          \/ /\ \E m : conv' = [done |-> TRUE, msgs |-> m]
             /\ routed' = routed + 1
      BY <1>4, Zenon DEF TurnReturns
    <2>3. \/ conv'.done = conv.done /\ routed' = routed
          \/ conv'.done = TRUE /\ routed' = routed + 1
      BY <1>0, <2>2
    <2>4. lock = p /\ ~conv.done /\ routed = 0
      BY <1>0, <2>1 DEF LockDiscipline, RoutedOnce
    <2>5. /\ \A q \in Pumps \ {p} : pump[q].pc # "turn"
          /\ \A c \in Confirms : confirm[c] # "wrapup"
      BY <2>4 DEF LockDiscipline
    <2>6. /\ \A q \in Pumps : pump'[q].pc # "turn"
          /\ \A c \in Confirms : confirm'[c] # "wrapup"
      BY <1>0, <2>1, <2>5
    <2> QED
      BY <2>3, <2>4, <2>6 DEF LockDiscipline, RoutedOnce
  <1>5. ASSUME NEW k \in Cancels,
               CancelLookup(k) \/ CancelMark(k) \/ CancelAbort(k)
        PROVE  LockDiscipline'
    BY <1>5, LockUntouched DEF CancelLookup, CancelMark, CancelAbort
  <1>6. ASSUME NEW c \in Confirms, ConfirmReady(c)
        PROVE  LockDiscipline'
    <2>1. \A d \in Confirms : confirm'[d] = "wrapup" => confirm[d] = "wrapup"
      BY <1>0, <1>6 DEF ConfirmReady
    <2> QED
      BY <1>6, <2>1 DEF ConfirmReady, LockDiscipline, RoutedOnce
  <1>7. ASSUME NEW c \in Confirms, ConfirmBegin(c)
        PROVE  LockDiscipline'
    <2>1. lock = None
      BY <1>7 DEF ConfirmBegin, Acquire
    <2>2. /\ \A q \in Pumps : pump[q].pc # "turn"
          /\ \A d \in Confirms : confirm[d] # "wrapup"
      BY <2>1 DEF LockDiscipline
    <2>3. CASE conv.done
      <3>1. UNCHANGED <<lock, conv, routed, pump>>
            /\ confirm' = [confirm EXCEPT ![c] = "refused"]
        BY <1>7, <2>3 DEF ConfirmBegin, Closed
      <3> QED
        BY <1>0, <2>2, <3>1 DEF LockDiscipline, RoutedOnce
    <2>4. CASE ~conv.done
      <3>1. /\ lock' = c /\ conv'.done = TRUE /\ UNCHANGED <<routed, pump>>
            /\ confirm' = [confirm EXCEPT ![c] = "wrapup"]
        BY <1>7, <2>4 DEF ConfirmBegin, Closed, Acquire
      <3>2. routed = 0
        BY <1>0, <2>4 DEF LockDiscipline, RoutedOnce
      <3> QED
        BY <1>0, <2>2, <3>1, <3>2 DEF LockDiscipline, RoutedOnce
    <2> QED
      BY <2>3, <2>4
  <1>8. ASSUME NEW c \in Confirms, ConfirmEnd(c)
        PROVE  LockDiscipline'
    <2>1. confirm[c] = "wrapup" /\ lock = c /\ conv.done /\ routed = 0
      BY <1>8 DEF ConfirmEnd, LockDiscipline
    <2>2. /\ \A q \in Pumps : pump[q].pc # "turn"
          /\ \A d \in Confirms \ {c} : confirm[d] # "wrapup"
      BY <2>1 DEF LockDiscipline
    <2>3. \/ /\ routed' = routed + 1
             /\ \E m : conv' = [done |-> TRUE, msgs |-> m]
          \/ routed' = routed
      BY <1>8, Zenon DEF ConfirmEnd
    <2>4. \/ routed' = routed + 1 /\ conv'.done
          \/ routed' = routed
      BY <2>3
    <2>5. \E l \in {"routed", "refused"} : confirm' = [confirm EXCEPT ![c] = l]
      BY <1>8, Zenon DEF ConfirmEnd
    <2>6. /\ pump' = pump
          /\ confirm'[c] # "wrapup" /\ \A d \in Confirms \ {c} : confirm'[d] = confirm[d]
      BY <1>0, <1>8, <2>5 DEF ConfirmEnd
    <2> QED
      BY <1>0, <2>1, <2>2, <2>4, <2>6 DEF LockDiscipline, RoutedOnce
  <1>9. CASE ReorderQueuedItems \/ Halt \/ UNCHANGED vars
    BY <1>9, LockUntouched DEF ReorderQueuedItems, Halt, vars
  <1> QED
    BY <1>1, <1>2, <1>3, <1>4, <1>5, <1>6, <1>7, <1>8, <1>9 DEF Next, PumpStep

LEMMA LockAlways == Spec => []LockDiscipline
  <1> QED
    BY LockInit, LockNext, TypeCorrect, PTL DEF Spec

\* However many pumps and confirms there are, and even when several session
\* objects of the key are being drained, one provider call works on the dialogue
\* at a time.
THEOREM OneTurn == Spec => []OneTurnAtATime
  <1>1. LockDiscipline => OneTurnAtATime
    BY DEF LockDiscipline, OneTurnAtATime
  <1> QED
    BY <1>1, LockAlways, PTL

\* The run is handed on at most once.
THEOREM HandedOverOnce == Spec => []RoutedOnce
  <1>1. LockDiscipline => RoutedOnce
    BY DEF LockDiscipline
  <1> QED
    BY <1>1, LockAlways, PTL

\* After the hand-over no step changes the transcript.
THEOREM TranscriptStays == Spec => TranscriptFinal
  <1>1. TypeOK /\ LockDiscipline /\ [Next]_vars => [routed > 0 => conv' = conv]_vars
    <2> SUFFICES ASSUME TypeOK, LockDiscipline, Next, routed > 0
                 PROVE  conv' = conv
      BY DEF vars
    <2>1. /\ conv.done
          /\ \A p \in Pumps : pump[p].pc # "turn"
          /\ \A c \in Confirms : confirm[c] # "wrapup"
      BY DEF LockDiscipline, RoutedOnce, TypeOK
    <2> QED
      BY <2>1 DEF Next, PumpStep, Submit, SubmitRefused, CheckTranscript,
                  EnqueueRefused, Enqueue, RemoveQueuedItem, ReorderQueuedItems,
                  Dequeue, Drained, TurnBegin, TurnRefused, TurnReturns, EndTurn,
                  Exit, Drop, Restart, CancelLookup, CancelMark, CancelAbort,
                  ConfirmReady, ConfirmBegin, ConfirmEnd, Halt, Closed
  <1> QED
    BY <1>1, TypeCorrect, LockAlways, PTL DEF Spec, TranscriptFinal

-----------------------------------------------------------------------------
(* The queue and the goroutine that drains it: the counter is right, one   *)
(* pump drains a session, no wake-up is lost.                              *)

(* The counter                                                             *)

LEMMA AccountingInit == Init => QueueAccounting
  BY DEF Init, NewSession, QueueAccounting

\* A step that edits one session and leaves its counter right.
LEMMA AccountingEdit ==
    ASSUME QueueAccounting, NEW t \in Sessions,
           \A u \in Sessions \ {t} : sess'[u] = sess[u],
           sess'[t].waiting = Len(sess'[t].queue),
           sess'[t].waiting <= MaxReviewQueueItems
    PROVE  QueueAccounting'
  BY DEF QueueAccounting

\* A step that edits neither queue nor counter.
LEMMA AccountingKept ==
    ASSUME QueueAccounting,
           \A s \in Sessions : /\ sess'[s].queue = sess[s].queue
                               /\ sess'[s].waiting = sess[s].waiting
    PROVE  QueueAccounting'
  BY DEF QueueAccounting

\* What TypeOK says of one session.
LEMMA SessionParts ==
    ASSUME TypeOK, NEW t \in Sessions
    PROVE  /\ sess[t] \in Session
           /\ sess[t].queue \in Seq(Items) /\ sess[t].waiting \in Nat
           /\ DOMAIN sess = Sessions
           /\ Len(sess[t].queue) \in Nat
  <1>1. sess \in [Sessions -> Session]
    BY DEF TypeOK
  <1>2. sess[t] \in Session /\ DOMAIN sess = Sessions
    BY <1>1
  <1>3. sess[t].queue \in Seq(Items) /\ sess[t].waiting \in Nat
    BY <1>2 DEF Session
  <1> QED
    BY <1>2, <1>3, LenProperties

\* The session a request or a pump works on exists.
LEMMA SessionOf ==
    ASSUME TypeOK
    PROVE  /\ reg # 0 => reg \in Sessions
           /\ \A i \in Items : item[i].st \in {"choice", "lock"} => item[i].s \in Sessions
           /\ \A p \in Pumps : pump[p].pc # "none" => pump[p].s \in Sessions
           /\ \A k \in Cancels : cancel[k].pc = "mark" => cancel[k].s \in Sessions
  BY DEF TypeOK

LEMMA AccountingNext == TypeOK /\ QueueAccounting /\ [Next]_vars => QueueAccounting'
  <1> SUFFICES ASSUME TypeOK, QueueAccounting, [Next]_vars PROVE QueueAccounting'
    OBVIOUS
  <1>0. sess \in [Sessions -> Session]
    BY DEF TypeOK
  <1>1. ASSUME NEW i \in Items, Enqueue(i) PROVE QueueAccounting'
    <2> DEFINE t == item[i].s
               q == Append(sess[t].queue, i)
               n == sess[t].waiting + 1
    <2>1. t \in Sessions
      BY <1>1, SessionOf DEF Enqueue
    <2>2. /\ sess' = [sess EXCEPT ![t].queue = q, ![t].waiting = n, ![t].pumping = TRUE]
          /\ sess[t].waiting < MaxReviewQueueItems
      BY <1>1 DEF Enqueue
    <2>3. /\ Len(q) = Len(sess[t].queue) + 1
          /\ sess[t].waiting = Len(sess[t].queue) /\ sess[t].waiting \in Nat
      <3>1. sess[t].queue \in Seq(Items) /\ sess[t].waiting \in Nat
        BY <2>1, SessionParts, Zenon
      <3>2. Len(q) = Len(sess[t].queue) + 1
        BY <3>1, AppendProperties
      <3>3. sess[t].waiting = Len(sess[t].queue)
        BY <2>1, Zenon DEF QueueAccounting
      <3> QED
        BY <3>1, <3>2, <3>3
    <2>4. n = sess[t].waiting + 1
      OBVIOUS
    <2> HIDE DEF t, q, n
    <2>5. n = Len(q) /\ n <= MaxReviewQueueItems
      BY <2>2, <2>3, <2>4
    <2>6. sess[t] \in Session
      BY <1>0, <2>1
    <2>7. sess'[t].queue = q /\ sess'[t].waiting = n
      BY <1>0, <2>1, <2>2, <2>6 DEF Session
    <2>8. \A u \in Sessions \ {t} : sess'[u] = sess[u]
      BY <1>0, <2>2
    <2> QED
      BY <2>1, <2>7, <2>8, <2>5, AccountingEdit
  <1>2. ASSUME NEW p \in Pumps, Dequeue(p) PROVE QueueAccounting'
    <2> DEFINE t == pump[p].s
               i == Head(sess[t].queue)
               q == Tail(sess[t].queue)
               n == OneLess(sess[t].waiting)
    <2>1. t \in Sessions /\ sess[t].queue # <<>>
      BY <1>2, SessionOf DEF Dequeue
    <2>2. sess' = [sess EXCEPT ![t].queue = q, ![t].waiting = n, ![t].active = i,
                               ![t].cancelRequested = FALSE]
      BY <1>2 DEF Dequeue
    <2>3. /\ Len(q) = Len(sess[t].queue) - 1 /\ Len(sess[t].queue) \in Nat \ {0}
          /\ sess[t].waiting = Len(sess[t].queue)
          /\ sess[t].waiting <= MaxReviewQueueItems
      <3>1. sess[t].queue \in Seq(Items)
        BY <2>1, SessionParts
      <3>2. Len(q) = Len(sess[t].queue) - 1 /\ Len(sess[t].queue) \in Nat \ {0}
        BY <2>1, <3>1, HeadTailProperties, EmptySeq
      <3> QED
        BY <2>1, <3>2 DEF QueueAccounting
    <2>4. n = Len(q) /\ n <= MaxReviewQueueItems
      BY <2>3 DEF OneLess
    <2> HIDE DEF t, q, n, i
    <2> QED
      BY <1>0, <2>1, <2>2, <2>4, AccountingEdit DEF Session
  <1>3. ASSUME NEW i \in Items, RemoveQueuedItem(i) PROVE QueueAccounting'
    <2>1. reg \in Sessions
      BY <1>3, SessionOf DEF RemoveQueuedItem
    <2>2. PICK idx \in 1..Len(sess[reg].queue) :
            sess' = [sess EXCEPT ![reg].queue = Without(@, idx),
                                 ![reg].waiting = OneLess(@)]
      BY <1>3 DEF RemoveQueuedItem
    <2> DEFINE q == Without(sess[reg].queue, idx)
               n == OneLess(sess[reg].waiting)
    <2>3. sess' = [sess EXCEPT ![reg].queue = q, ![reg].waiting = n]
      BY <2>2
    <2>4. Len(q) = Len(sess[reg].queue) - 1
      BY <2>1, <2>2, SessionParts, WithoutType
    <2>5. n = Len(q) /\ n <= MaxReviewQueueItems
      <3>1. /\ sess[reg].waiting = Len(sess[reg].queue)
            /\ sess[reg].waiting <= MaxReviewQueueItems
            /\ sess[reg].waiting \in Nat \ {0}
        BY <2>1, <2>2, SessionParts DEF QueueAccounting
      <3> QED
        BY <2>4, <3>1 DEF OneLess
    <2> HIDE DEF q, n
    <2> QED
      BY <1>0, <2>1, <2>3, <2>5, AccountingEdit DEF Session
  <1>4. CASE ReorderQueuedItems
    <2>1. reg \in Sessions
      BY <1>4, SessionOf DEF ReorderQueuedItems
    <2>2. PICK ids \in ReorderIds(sess[reg].queue) :
            sess' = [sess EXCEPT ![reg].queue = ids]
      BY <1>4 DEF ReorderQueuedItems
    <2>3. Len(ids) = Len(sess[reg].queue)
      BY <2>1, SessionParts, ReorderType
    <2>4. /\ sess[reg].waiting = Len(sess[reg].queue)
          /\ sess[reg].waiting <= MaxReviewQueueItems
      BY <2>1 DEF QueueAccounting
    <2> QED
      BY <1>0, <2>1, <2>2, <2>3, <2>4, AccountingEdit DEF Session
  <1>5. ASSUME NEW k \in Cancels, CancelMark(k) PROVE QueueAccounting'
    <2> DEFINE t == cancel[k].s
    <2>1. t \in Sessions
      BY <1>5, SessionOf DEF CancelMark
    <2>2. CASE Kind = "review"
      <3> DEFINE x == Swept(sess[t])
      <3>1. sess' = [sess EXCEPT ![t] = x]
        BY <1>5, <2>2 DEF CancelMark
      <3>2. x.queue = <<>> /\ x.waiting = 0
        BY <2>1, SessionParts DEF Swept, Session
      <3>3. x.waiting = Len(x.queue) /\ x.waiting <= MaxReviewQueueItems
        BY <3>2
      <3> HIDE DEF x, t
      <3> QED
        BY <1>0, <2>1, <3>1, <3>3, AccountingEdit
    <2>3. CASE Kind # "review"
      <3>1. sess' = [sess EXCEPT ![t].cancelRequested = TRUE]
        BY <1>5, <2>3 DEF CancelMark
      <3> HIDE DEF t
      <3> QED
        BY <1>0, <2>1, <3>1, AccountingKept DEF Session
    <2> QED
      BY <2>2, <2>3
  <1>6. ASSUME NEW p \in Pumps, EndTurn(p) \/ Exit(p) \/ Restart(p)
        PROVE  QueueAccounting'
    <2> DEFINE t == pump[p].s
    <2>1. t \in Sessions
      BY <1>6, SessionOf DEF EndTurn, Exit, Restart
    <2>2. \/ sess' = sess
          \/ sess' = [sess EXCEPT ![t].active = None, ![t].cancelRequested = FALSE]
          \/ sess' = [sess EXCEPT ![t].pumping = FALSE]
          \/ sess' = [sess EXCEPT ![t].pumping = TRUE]
      BY <1>6 DEF EndTurn, Exit, Restart
    <2> HIDE DEF t
    <2>3. CASE sess' = sess
      BY <2>3, AccountingKept
    <2>4. CASE sess' = [sess EXCEPT ![t].active = None, ![t].cancelRequested = FALSE]
      BY <1>0, <2>1, <2>4, AccountingKept DEF Session
    <2>5. CASE sess' = [sess EXCEPT ![t].pumping = FALSE]
      BY <1>0, <2>1, <2>5, AccountingKept DEF Session
    <2>6. CASE sess' = [sess EXCEPT ![t].pumping = TRUE]
      BY <1>0, <2>1, <2>6, AccountingKept DEF Session
    <2> QED
      BY <2>2, <2>3, <2>4, <2>5, <2>6
  <1>7. CASE sess' = sess
    BY <1>7, AccountingKept
  <1> QED
    BY <1>1, <1>2, <1>3, <1>4, <1>5, <1>6, <1>7
       DEF Next, PumpStep, vars, Submit, SubmitRefused, CheckTranscript,
           EnqueueRefused, Drained, TurnBegin, TurnRefused, TurnReturns, Drop,
           CancelLookup, CancelAbort, ConfirmReady, ConfirmBegin, ConfirmEnd, Halt

\* The waiting counter that admission, the ready gate and the UI read is the
\* length of the queue and stays within the cap, for any cap and any clients.
THEOREM AccountingAlways == Spec => []QueueAccounting
  <1> QED
    BY AccountingInit, AccountingNext, TypeCorrect, PTL DEF Spec

-----------------------------------------------------------------------------
(* The pump                                                                *)

\* SinglePump and NoLostWakeup are inductive together with QueueAccounting,
\* by which a session that Exit finds idle has an empty queue.
Wake == SinglePump /\ NoLostWakeup

Drains == {"loop", "exec", "turn", "ending", "exit"}

LEMMA WakeInit == Init => Wake
  BY DEF Init, NewSession, Wake, SinglePump, NoLostWakeup, Draining

\* A request that starts no pump, stops none, and leaves a queue empty that was
\* empty.
LEMMA WakeQuiet ==
    ASSUME Wake, pump' = pump,
           \A s \in Sessions : /\ sess'[s].pumping = sess[s].pumping
                               /\ sess'[s].queue # <<>> => sess[s].queue # <<>>
    PROVE  Wake'
  <1>1. SinglePump'
    <2>1. \A p, s : Draining(p, s)' <=> Draining(p, s)
      BY DEF Draining
    <2> QED
      BY <2>1 DEF Wake, SinglePump
  <1>2. NoLostWakeup'
    BY DEF Wake, NoLostWakeup
  <1> QED
    BY <1>1, <1>2 DEF Wake

\* A step of a pump that goes on draining its session.
LEMMA WakeDrains ==
    ASSUME TypeOK, Wake, NEW p \in Pumps, NEW l \in Drains,
           pump[p].pc \in Drains, Goto(p, l),
           \A s \in Sessions : /\ sess'[s].pumping = sess[s].pumping
                               /\ sess'[s].queue # <<>> => sess[s].queue # <<>>
    PROVE  Wake'
  <1>0. pump \in [Pumps -> [pc : PumpState, s : 0..MaxSessions]]
    BY DEF TypeOK
  <1>1. /\ \A q \in Pumps : pump'[q].s = pump[q].s
        /\ \A q \in Pumps \ {p} : pump'[q].pc = pump[q].pc
        /\ pump'[p].pc = l
    BY <1>0 DEF Goto
  <1>2. \A q \in Pumps, s \in Sessions : Draining(q, s)' <=> Draining(q, s)
    BY <1>1 DEF Draining, Drains
  <1>3. SinglePump'
    BY <1>2 DEF Wake, SinglePump
  <1>4. \A q \in Pumps, s \in Sessions :
          pump[q].pc = "restart" /\ pump[q].s = s
              => pump'[q].pc = "restart" /\ pump'[q].s = s
    BY <1>1 DEF Drains
  <1>5. NoLostWakeup'
    BY <1>4 DEF Wake, NoLostWakeup
  <1> QED
    BY <1>3, <1>5 DEF Wake

\* An idle goroutine adopts a session that nobody drains.
LEMMA WakeAdopts ==
    ASSUME SinglePump, NEW p \in Pumps, NEW t \in Sessions,
           pump[p].pc \notin Drains, ~sess[t].pumping,
           pump'[p].pc = "loop", pump'[p].s = t,
           \A r \in Pumps \ {p} : pump'[r] = pump[r],
           sess'[t].pumping,
           \A u \in Sessions \ {t} : sess'[u] = sess[u]
    PROVE  SinglePump'
  <1>1. \A r \in Pumps : ~Draining(r, t)
    BY DEF SinglePump
  <1>2. \A s \in Sessions : ~Draining(p, s)
    BY DEF Draining, Drains
  <1>3. Draining(p, t)' /\ \A s \in Sessions \ {t} : ~Draining(p, s)'
    BY DEF Draining
  <1>4. \A r \in Pumps \ {p}, s \in Sessions : Draining(r, s)' <=> Draining(r, s)
    BY DEF Draining
  <1>5. ASSUME NEW s \in Sessions \ {t}
        PROVE  /\ sess'[s].pumping <=> \E r \in Pumps : Draining(r, s)'
               /\ \A r, q \in Pumps : Draining(r, s)' /\ Draining(q, s)' => r = q
    <2>1. \A r \in Pumps : Draining(r, s)' <=> Draining(r, s)
      BY <1>2, <1>3, <1>4
    <2> QED
      BY <2>1 DEF SinglePump
  <1>6. /\ \E r \in Pumps : Draining(r, t)'
        /\ \A r, q \in Pumps : Draining(r, t)' /\ Draining(q, t)' => r = q
    BY <1>1, <1>3, <1>4
  <1> QED
    BY <1>5, <1>6 DEF SinglePump

LEMMA WakeEnqueue ==
    ASSUME TypeOK, Wake, NEW i \in Items, Enqueue(i)
    PROVE  Wake'
  <1> DEFINE t == item[i].s
             q == Append(sess[t].queue, i)
             n == sess[t].waiting + 1
  <1>0. /\ sess \in [Sessions -> Session]
        /\ pump \in [Pumps -> [pc : PumpState, s : 0..MaxSessions]]
    BY DEF TypeOK
  <1>1. t \in Sessions
    BY SessionOf DEF Enqueue
  <1>2. sess' = [sess EXCEPT ![t].queue = q, ![t].waiting = n, ![t].pumping = TRUE]
    BY DEF Enqueue
  <1>3. \/ sess[t].pumping /\ pump' = pump
        \/ /\ ~sess[t].pumping
           /\ \E p \in Pumps : /\ pump[p].pc = "none"
                               /\ pump' = [pump EXCEPT ![p] = [pc |-> "loop", s |-> t]]
    BY DEF Enqueue
  <1> HIDE DEF t, q, n
  <1>4. /\ sess'[t].pumping
        /\ \A u \in Sessions \ {t} : sess'[u] = sess[u]
    BY <1>0, <1>1, <1>2 DEF Session
  <1>5. CASE sess[t].pumping /\ pump' = pump
    <2>1. \A p, s : Draining(p, s)' <=> Draining(p, s)
      BY <1>5 DEF Draining
    <2>2. SinglePump'
      BY <1>1, <1>4, <1>5, <2>1 DEF Wake, SinglePump
    <2>3. NoLostWakeup'
      BY <1>4, <1>5 DEF Wake, NoLostWakeup
    <2> QED
      BY <2>2, <2>3 DEF Wake
  <1>6. ASSUME ~sess[t].pumping, NEW p \in Pumps, pump[p].pc = "none",
               pump' = [pump EXCEPT ![p] = [pc |-> "loop", s |-> t]]
        PROVE  Wake'
    <2>1. /\ pump'[p].pc = "loop" /\ pump'[p].s = t
          /\ \A r \in Pumps \ {p} : pump'[r] = pump[r]
      BY <1>0, <1>6
    <2>4. SinglePump'
      BY <1>1, <1>4, <1>6, <2>1, WakeAdopts DEF Wake, Drains
    <2>5. NoLostWakeup'
      BY <1>4, <1>6, <2>1 DEF Wake, NoLostWakeup
    <2> QED
      BY <2>4, <2>5 DEF Wake
  <1> QED
    BY <1>3, <1>5, <1>6

\* The pump clears its flag; it is about to decide again if anything waits.
LEMMA WakeExit ==
    ASSUME TypeOK, QueueAccounting, Wake, NEW p \in Pumps, Exit(p)
    PROVE  Wake'
  <1> DEFINE t == pump[p].s
  <1>0. /\ sess \in [Sessions -> Session]
        /\ pump \in [Pumps -> [pc : PumpState, s : 0..MaxSessions]]
    BY DEF TypeOK
  <1>1. t \in Sessions /\ Draining(p, t)
    BY SessionOf DEF Exit, Draining
  <1>2. PICK l \in {"drop", "restart"} :
          pump' = [pump EXCEPT ![p].pc = l] /\ (l = "drop" => Idle(t))
    BY DEF Exit, Goto
  <1>3. sess' = [sess EXCEPT ![t].pumping = FALSE]
    BY DEF Exit
  <1> HIDE DEF t
  <1>4. /\ ~sess'[t].pumping
        /\ \A u \in Sessions \ {t} : sess'[u] = sess[u]
        /\ \A u \in Sessions : sess'[u].queue = sess[u].queue
    BY <1>0, <1>1, <1>3 DEF Session
  <1>5. /\ pump'[p].pc = l /\ pump'[p].s = pump[p].s
        /\ \A r \in Pumps \ {p} : pump'[r] = pump[r]
    BY <1>0, <1>2
  <1>6. pump[p].s = t /\ pump[p].pc = "exit"
    BY DEF t, Exit
  <1>7. /\ \A r \in Pumps \ {p} : ~Draining(r, t)
        /\ \A s \in Sessions : ~Draining(p, s)'
        /\ \A s \in Sessions \ {t} : ~Draining(p, s)
        /\ \A r \in Pumps \ {p}, s \in Sessions : Draining(r, s)' <=> Draining(r, s)
    BY <1>1, <1>2, <1>5, <1>6 DEF Draining, Wake, SinglePump
  <1>8. SinglePump'
    BY <1>4, <1>7 DEF Wake, SinglePump
  <1>9. l = "drop" => sess[t].queue = <<>>
    <2>1. Idle(t) => Len(sess[t].queue) = 0
      BY <1>1 DEF Idle, QueueAccounting
    <2> QED
      BY <1>1, <1>2, <2>1, SessionParts, EmptySeq
  <1>10. NoLostWakeup'
    BY <1>1, <1>2, <1>4, <1>5, <1>6, <1>9 DEF Wake, NoLostWakeup
  <1> QED
    BY <1>8, <1>10 DEF Wake

\* The pump decides again; if it stops, nothing waits or another drains.
LEMMA WakeRestart ==
    ASSUME TypeOK, QueueAccounting, Wake, NEW p \in Pumps, Restart(p)
    PROVE  Wake'
  <1> DEFINE t == pump[p].s
  <1>0. /\ sess \in [Sessions -> Session]
        /\ pump \in [Pumps -> [pc : PumpState, s : 0..MaxSessions]]
    BY DEF TypeOK
  <1>1. t \in Sessions
    BY SessionOf DEF Restart
  <1>2. CASE NeedsPump(t)
    <2>1. /\ sess' = [sess EXCEPT ![t].pumping = TRUE]
          /\ pump' = [pump EXCEPT ![p].pc = "loop"]
          /\ ~sess[t].pumping
      BY <1>2 DEF Restart, Goto, NeedsPump
    <2>2. pump[p].s = t /\ pump[p].pc = "restart"
      BY DEF t, Restart
    <2> HIDE DEF t
    <2>3. /\ sess'[t].pumping
          /\ \A u \in Sessions \ {t} : sess'[u] = sess[u]
      BY <1>0, <1>1, <2>1 DEF Session
    <2>4. /\ pump'[p].pc = "loop" /\ pump'[p].s = t
          /\ \A r \in Pumps \ {p} : pump'[r] = pump[r]
      BY <1>0, <2>1, <2>2
    <2>6. SinglePump'
      BY <1>1, <2>1, <2>2, <2>3, <2>4, WakeAdopts DEF Wake, Drains
    <2>7. NoLostWakeup'
      BY <2>2, <2>3, <2>4 DEF Wake, NoLostWakeup
    <2> QED
      BY <2>6, <2>7 DEF Wake
  <1>3. CASE ~NeedsPump(t)
    <2>1. sess' = sess /\ pump' = [pump EXCEPT ![p] = [pc |-> "none", s |-> 0]]
      BY <1>3 DEF Restart
    <2>2. pump[p].s = t /\ pump[p].pc = "restart"
      BY DEF t, Restart
    <2>3. sess[t].queue # <<>> => sess[t].pumping
      <3>1. sess[t].waiting = Len(sess[t].queue) /\ sess[t].queue \in Seq(Items)
        BY <1>1, SessionParts DEF QueueAccounting
      <3>2. sess[t].queue # <<>> => sess[t].waiting > 0
        BY <3>1, EmptySeq, LenProperties
      <3> QED
        BY <1>3, <3>2 DEF NeedsPump
    <2> HIDE DEF t
    <2>4. /\ pump'[p].pc = "none"
          /\ \A r \in Pumps \ {p} : pump'[r] = pump[r]
      BY <1>0, <2>1
    <2>5. \A r \in Pumps, s \in Sessions : Draining(r, s)' <=> Draining(r, s)
      BY <2>2, <2>4 DEF Draining
    <2>6. SinglePump'
      BY <2>1, <2>5 DEF Wake, SinglePump
    <2>7. NoLostWakeup'
      BY <2>1, <2>2, <2>3, <2>4 DEF Wake, NoLostWakeup
    <2> QED
      BY <2>6, <2>7 DEF Wake
  <1> QED
    BY <1>2, <1>3

LEMMA WakeNext ==
    TypeOK /\ QueueAccounting /\ Wake /\ [Next]_vars => Wake'
  <1> SUFFICES ASSUME TypeOK, QueueAccounting, Wake, [Next]_vars PROVE Wake'
    OBVIOUS
  <1>0. sess \in [Sessions -> Session]
    BY DEF TypeOK
  <1>1. ASSUME NEW i \in Items, RemoveQueuedItem(i) PROVE Wake'
    <2>1. reg \in Sessions /\ sess[reg].queue # <<>>
      <3>1. reg \in Sessions /\ 1..Len(sess[reg].queue) # {}
        BY <1>1, SessionOf DEF RemoveQueuedItem
      <3> QED
        BY <3>1, EmptySeq
    <2>2. \E q, n : sess' = [sess EXCEPT ![reg].queue = q, ![reg].waiting = n]
      BY <1>1 DEF RemoveQueuedItem
    <2>3. pump' = pump
      BY <1>1 DEF RemoveQueuedItem
    <2> QED
      BY <1>0, <2>1, <2>2, <2>3, WakeQuiet DEF Session
  <1>2. CASE ReorderQueuedItems
    <2>1. reg \in Sessions /\ sess[reg].queue # <<>> /\ pump' = pump
      BY <1>2, SessionOf DEF ReorderQueuedItems
    <2>2. \E q : sess' = [sess EXCEPT ![reg].queue = q]
      BY <1>2 DEF ReorderQueuedItems
    <2> QED
      BY <1>0, <2>1, <2>2, WakeQuiet DEF Session
  <1>3. ASSUME NEW k \in Cancels, CancelMark(k) PROVE Wake'
    <2> DEFINE t == cancel[k].s
    <2>1. t \in Sessions /\ pump' = pump
      BY <1>3, SessionOf DEF CancelMark
    <2>2. \/ sess' = [sess EXCEPT ![t] = Swept(sess[t])]
          \/ sess' = [sess EXCEPT ![t].cancelRequested = TRUE]
      BY <1>3 DEF CancelMark
    <2> HIDE DEF t
    <2>3. CASE sess' = [sess EXCEPT ![t] = Swept(sess[t])]
      <3> DEFINE x == Swept(sess[t])
      <3>1. x.queue = <<>> /\ x.pumping = sess[t].pumping
        BY <2>1, SessionParts DEF Swept, Session
      <3>2. sess' = [sess EXCEPT ![t] = x]
        BY <2>3
      <3> HIDE DEF x
      <3> QED
        BY <1>0, <2>1, <3>1, <3>2, WakeQuiet
    <2>4. CASE sess' = [sess EXCEPT ![t].cancelRequested = TRUE]
      BY <1>0, <2>1, <2>4, WakeQuiet DEF Session
    <2> QED
      BY <2>2, <2>3, <2>4
  <1>4. ASSUME NEW p \in Pumps, Dequeue(p) PROVE Wake'
    <2> DEFINE t == pump[p].s
    <2>1. t \in Sessions /\ sess[t].queue # <<>>
      BY <1>4, SessionOf DEF Dequeue
    <2>2. pump[p].pc = "loop" /\ Goto(p, "exec")
      BY <1>4 DEF Dequeue
    <2>3. \E q, n, i : sess' = [sess EXCEPT ![t].queue = q, ![t].waiting = n,
                                            ![t].active = i, ![t].cancelRequested = FALSE]
      BY <1>4 DEF Dequeue
    <2> HIDE DEF t
    <2>4. \A s \in Sessions : /\ sess'[s].pumping = sess[s].pumping
                              /\ sess'[s].queue # <<>> => sess[s].queue # <<>>
      BY <1>0, <2>1, <2>3 DEF Session
    <2> QED
      BY <2>2, <2>4, WakeDrains DEF Drains
  <1>5. ASSUME NEW p \in Pumps,
               \/ Drained(p) \/ TurnBegin(p) \/ TurnRefused(p) \/ TurnReturns(p)
        PROVE  Wake'
    <2>1. sess' = sess
      BY <1>5 DEF Drained, TurnBegin, TurnRefused, TurnReturns
    <2>2. pump[p].pc \in Drains /\ \E l \in Drains : Goto(p, l)
      BY <1>5 DEF Drained, TurnBegin, TurnRefused, TurnReturns, Drains
    <2> QED
      BY <2>1, <2>2, WakeDrains
  <1>6. ASSUME NEW p \in Pumps, EndTurn(p) PROVE Wake'
    <2> DEFINE t == pump[p].s
    <2>1. t \in Sessions
      BY <1>6, SessionOf DEF EndTurn
    <2>2. pump[p].pc = "ending" /\ Goto(p, "loop")
      BY <1>6 DEF EndTurn
    <2>3. sess' = [sess EXCEPT ![t].active = None, ![t].cancelRequested = FALSE]
      BY <1>6 DEF EndTurn
    <2> HIDE DEF t
    <2>4. \A s \in Sessions : /\ sess'[s].pumping = sess[s].pumping
                              /\ sess'[s].queue = sess[s].queue
      BY <1>0, <2>1, <2>3 DEF Session
    <2> QED
      BY <2>2, <2>4, WakeDrains DEF Drains
  <1>7. ASSUME NEW p \in Pumps, Drop(p) PROVE Wake'
    <2>0. pump \in [Pumps -> [pc : PumpState, s : 0..MaxSessions]]
      BY DEF TypeOK
    <2>1. /\ sess' = sess /\ pump[p].pc = "drop"
          /\ pump' = [pump EXCEPT ![p] = [pc |-> "none", s |-> 0]]
      BY <1>7 DEF Drop
    <2>2. /\ pump'[p].pc = "none"
          /\ \A r \in Pumps \ {p} : pump'[r] = pump[r]
      BY <2>0, <2>1
    <2>3. \A r \in Pumps, s \in Sessions : Draining(r, s)' <=> Draining(r, s)
      BY <2>1, <2>2 DEF Draining
    <2>4. SinglePump'
      BY <2>1, <2>3 DEF Wake, SinglePump
    <2>5. NoLostWakeup'
      BY <2>1, <2>2 DEF Wake, NoLostWakeup
    <2> QED
      BY <2>4, <2>5 DEF Wake
  <1>8. CASE sess' = sess /\ pump' = pump
    BY <1>8, WakeQuiet
  <1> QED
    BY <1>1, <1>2, <1>3, <1>4, <1>5, <1>6, <1>7, <1>8, WakeEnqueue, WakeExit, WakeRestart
       DEF Next, PumpStep, vars, Submit, SubmitRefused, CheckTranscript,
           EnqueueRefused, CancelLookup, CancelAbort, ConfirmReady,
           ConfirmBegin, ConfirmEnd, Halt

LEMMA WakeAlways == Spec => []Wake
  <1> QED
    BY WakeInit, WakeNext, TypeCorrect, AccountingAlways, PTL DEF Spec

\* A session is never drained by two goroutines, and its pumping flag tells
\* whether one drains it.
THEOREM OnePump == Spec => []SinglePump
  <1>1. Wake => SinglePump
    BY DEF Wake
  <1> QED
    BY <1>1, WakeAlways, PTL

\* No message is left in a queue that nobody drains or is about to look at.
THEOREM WakeupKept == Spec => []NoLostWakeup
  <1>1. Wake => NoLostWakeup
    BY DEF Wake
  <1> QED
    BY <1>1, WakeAlways, PTL
=============================================================================
