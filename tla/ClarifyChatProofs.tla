-------------------------- MODULE ClarifyChatProofs -------------------------
(***************************************************************************)
(* Proofs about ClarifyChat for any messages, texts and bounds.            *)
(***************************************************************************)
EXTENDS ClarifyChat, ListFilterProofs, SequenceTheorems

-----------------------------------------------------------------------------
(* Lists                                                                   *)

LEMMA RemoveRow ==
  ASSUME NEW S, NEW q \in Seq(S), NEW n \in 1..Len(q)
  PROVE  /\ RemoveAt(q, n) \in Seq(S) /\ Len(RemoveAt(q, n)) = Len(q) - 1
         /\ Rows(RemoveAt(q, n)) \subseteq Rows(q)
         /\ Rows(q) \ {q[n]} \subseteq Rows(RemoveAt(q, n))
<1> DEFINE a == SubSeq(q, 1, n - 1)
           b == SubSeq(q, n + 1, Len(q))
<1>1. Len(q) \in Nat /\ n \in Nat /\ n <= Len(q) /\ n >= 1
  OBVIOUS
<1>2. a \in Seq(S) /\ Len(a) = n - 1 /\ \A i \in 1..n - 1 : a[i] = q[i]
  BY <1>1
<1>3. /\ b \in Seq(S) /\ Len(b) = Len(q) - n
      /\ \A i \in 1..Len(q) - n : b[i] = q[n + i]
  BY <1>1
<1>4. RemoveAt(q, n) = a \o b
  BY DEF RemoveAt
<1> HIDE DEF a, b
<1>5. /\ a \o b \in Seq(S) /\ Len(a \o b) = Len(a) + Len(b)
      /\ \A i \in 1..Len(a) + Len(b) :
           (a \o b)[i] = IF i <= Len(a) THEN a[i] ELSE b[i - Len(a)]
  BY <1>2, <1>3, ConcatProperties
<1>6. Rows(a \o b) \subseteq Rows(q)
  <2> SUFFICES ASSUME NEW i \in 1..Len(a \o b)
               PROVE  (a \o b)[i] \in Rows(q)
    BY DEF Rows
  <2> SUFFICES \E j \in 1..Len(q) : (a \o b)[i] = q[j]
    BY DEF Rows
  <2>1. i \in Nat /\ i >= 1 /\ i <= Len(q) - 1
    BY <1>1, <1>2, <1>3, <1>5
  <2>2. CASE i < n
    <3>1. (a \o b)[i] = a[i] /\ a[i] = q[i]
      BY <1>1, <1>2, <1>5, <2>1, <2>2
    <3> QED  BY <1>1, <2>1, <3>1
  <2>3. CASE ~(i < n)
    <3>1. i - Len(a) \in 1..Len(q) - n /\ n + (i - Len(a)) = i + 1
      BY <1>1, <1>2, <2>1, <2>3
    <3>2. (a \o b)[i] = b[i - Len(a)] /\ b[i - Len(a)] = q[i + 1]
      BY <1>1, <1>2, <1>3, <1>5, <2>1, <2>3, <3>1
    <3> QED  BY <1>1, <2>1, <3>2
  <2> QED  BY <2>2, <2>3
<1>7. Rows(q) \ {q[n]} \subseteq Rows(a \o b)
  <2> SUFFICES ASSUME NEW i \in 1..Len(q), i # n
               PROVE  q[i] \in Rows(a \o b)
    BY DEF Rows
  <2> SUFFICES \E j \in 1..Len(a \o b) : (a \o b)[j] = q[i]
    BY DEF Rows
  <2>1. CASE i < n
    <3>1. i \in 1..Len(a) + Len(b) /\ i <= Len(a)
      BY <1>1, <1>2, <1>3, <2>1
    <3>2. (a \o b)[i] = a[i] /\ a[i] = q[i]
      BY <1>1, <1>2, <1>5, <2>1, <3>1
    <3> QED  BY <1>5, <3>1, <3>2
  <2>2. CASE i > n
    <3>1. /\ i - 1 \in 1..Len(a) + Len(b) /\ ~(i - 1 <= Len(a))
          /\ (i - 1) - Len(a) = i - n /\ i - n \in 1..Len(q) - n
          /\ n + (i - n) = i
      BY <1>1, <1>2, <1>3, <2>2
    <3>2. (a \o b)[i - 1] = b[i - n] /\ b[i - n] = q[i]
      BY <1>3, <1>5, <3>1
    <3> QED  BY <1>5, <3>1, <3>2
  <2> QED  BY <1>1, <2>1, <2>2
<1>8. Len(a \o b) = Len(q) - 1
  BY <1>1, <1>2, <1>3, <1>5
<1> QED  BY <1>4, <1>5, <1>6, <1>7, <1>8

\* The place of the first row that passes a test, or 0.
LEMMA FirstPlace ==
  ASSUME NEW S, NEW q \in Seq(S), NEW it
  PROVE  LET n == SelectInSeq(q, LAMBDA x : x.id /\ x.it = it)
         IN /\ n \in 0..Len(q)
            /\ n > 0 => q[n].id /\ q[n].it = it
<1> DEFINE I == {i \in 1..Len(q) : q[i].id /\ q[i].it = it}
<1>1. SelectInSeq(q, LAMBDA x : x.id /\ x.it = it) = IF I # {} THEN Min(I) ELSE 0
  BY DEF SelectInSeq
<1>2. I # {} => Min(I) \in I
  <2> SUFFICES ASSUME I # {} PROVE Min(I) \in I
    OBVIOUS
  <2>1. \E x \in I : \A y \in I : x <= y
    <3>1. I \in SUBSET Nat
      OBVIOUS
    <3> HIDE DEF I
    <3> QED  BY <3>1, LeastNumber
  <2> HIDE DEF I
  <2> QED  BY <2>1 DEF Min
<1>3. Len(q) \in Nat
  OBVIOUS
<1> QED  BY <1>1, <1>2, <1>3

-----------------------------------------------------------------------------
(* The screen                                                              *)

TurnRow == [role : {"human", "agent"}, m : Messages, st : Saved \cup Shown]

LEMMA TurnsType ==
  ASSUME NEW St \in SUBSET (Saved \cup Shown), NEW s \in Seq(Exchange(St))
  PROVE  Turns(s) \in Seq(TurnRow)
<1> DEFINE r == IF s # <<>> /\ Last(s).st = "open" THEN 2 * Len(s) - 1
                                                   ELSE 2 * Len(s)
           T == [i \in 1..r |->
                   LET e == s[(i + 1) \div 2]
                   IN IF i % 2 = 1 THEN [role |-> "human", m |-> e.m, st |-> "open"]
                                   ELSE [role |-> "agent", m |-> e.m, st |-> e.st]]
<1>1. Len(s) \in Nat /\ (s # <<>> => Len(s) >= 1)
  OBVIOUS
<1>2. r \in Nat /\ r <= 2 * Len(s)
  BY <1>1
<1>3. ASSUME NEW i \in 1..r PROVE T[i] \in TurnRow
  <2> HIDE DEF r
  <2>1. i \in Nat /\ i >= 1 /\ i <= 2 * Len(s)
    BY <1>2, <1>3
  <2>2. (i + 1) \div 2 \in 1..Len(s)
    BY <1>1, <2>1
  <2>3. s[(i + 1) \div 2] \in Exchange(St)
    BY <2>2
  <2>4. s[(i + 1) \div 2].m \in Messages /\ s[(i + 1) \div 2].st \in Saved \cup Shown
    BY <2>3 DEF Exchange
  <2> QED  BY <1>3, <2>4 DEF TurnRow, Saved
<1>4. Turns(s) = T
  BY DEF Turns
<1>5. T \in [1..r -> TurnRow]
  <2> HIDE DEF r
  <2> QED  BY <1>3
<1> HIDE DEF T, r
<1> QED  BY <1>2, <1>4, <1>5

\* The rows of the transcript that the live bubbles repeat can be counted.
LEMMA ScreenType ==
  ASSUME NEW conv \in Seq(Exchange(Saved)), NEW live \in Seq(Exchange(Shown))
  PROVE  mergePersistedAndLiveTurns(conv, live) \in Seq(TurnRow)
<1> DEFINE p == Turns(conv)
           l == Turns(live)
           Match(k) == \A n \in 1..k : MatchTurn(p[Len(p) - k + n], l[n])
           most == IF Len(p) < Len(l) THEN Len(p) ELSE Len(l)
           matched == CHOOSE k \in 0..most :
                        Match(k) /\ \A j \in k + 1 .. most : ~Match(j)
<1>1. p \in Seq(TurnRow) /\ l \in Seq(TurnRow)
  BY TurnsType
<1>2. most \in Nat /\ most <= Len(l)
  <2> HIDE DEF p, l
  <2> QED  BY <1>1
<1>3. Match(0)
  OBVIOUS
<1>4. matched \in 0..most
  <2> HIDE DEF p, l, most, Match
  <2> DEFINE D == {d \in 0..most : Match(most - d)}
  <2>1. D \in SUBSET Nat /\ most \in D
    BY <1>2, <1>3
  <2>2. PICK d \in D : \A e \in D : d <= e
    <3> HIDE DEF D
    <3> QED  BY <2>1, LeastNumber
  <2>3. most - d \in 0..most /\ Match(most - d)
    BY <1>2, <2>2
  <2>4. ASSUME NEW j \in most - d + 1 .. most PROVE ~Match(j)
    <3>1. most - j \in 0..most /\ most - j < d /\ most - (most - j) = j
      BY <1>2, <2>3, <2>4
    <3>2. most - j \notin D
      BY <2>2, <3>1
    <3> QED  BY <3>1, <3>2
  <2>5. \E k \in 0..most : Match(k) /\ \A j \in k + 1 .. most : ~Match(j)
    BY <2>3, <2>4
  <2> QED  BY <2>5
<1>5. \/ mergePersistedAndLiveTurns(conv, live) \in {p \o l, p}
      \/ mergePersistedAndLiveTurns(conv, live) = p \o SubSeq(l, matched + 1, Len(l))
      \/ /\ mergePersistedAndLiveTurns(conv, live) = Front(p) \o Tail(l)
         /\ live # <<>> /\ conv # <<>>
  BY DEF mergePersistedAndLiveTurns
<1>6. live # <<>> /\ conv # <<>> => l # <<>> /\ p # <<>>
  <2>1. live # <<>> => Len(l) >= 1
    BY DEF Turns
  <2>2. conv # <<>> => Len(p) >= 1
    BY DEF Turns
  <2> HIDE DEF p, l
  <2> QED  BY <1>1, <2>1, <2>2
<1> HIDE DEF p, l, matched, most
<1>7. SubSeq(l, matched + 1, Len(l)) \in Seq(TurnRow)
  <2>1. matched \in Nat /\ matched <= Len(l) /\ Len(l) \in Nat
    BY <1>1, <1>2, <1>4
  <2> QED  BY <1>1, <2>1
<1>8. l # <<>> /\ p # <<>> => Front(p) \in Seq(TurnRow) /\ Tail(l) \in Seq(TurnRow)
  BY <1>1 DEF Front
<1>9. /\ p \o l \in Seq(TurnRow) /\ p \o SubSeq(l, matched + 1, Len(l)) \in Seq(TurnRow)
      /\ l # <<>> /\ p # <<>> => Front(p) \o Tail(l) \in Seq(TurnRow)
  BY <1>1, <1>7, <1>8, ConcatProperties
<1> QED  BY <1>1, <1>5, <1>6, <1>9

-----------------------------------------------------------------------------
(* The handlers of the chat                                                *)

ChatRow == [it : Item, id : BOOLEAN]
Chats == [queued : Seq(ChatRow), live : Seq(Exchange(Shown)), liveAgentIdx : Nat,
          thinking : BOOLEAN, validating : BOOLEAN]

\* The bubble the index points at is there and streams.
Streaming(c) ==
  c.liveAgentIdx > 0 =>
    c.liveAgentIdx <= Len(c.live) /\ c.live[c.liveAgentIdx].st = "stream"
ChatOK(c) == c \in Chats /\ Streaming(c)

\* Nothing but the panel tells c from d in what the panel and spinners need.
SamePanel(c, d) == d.queued = c.queued /\ d.validating = c.validating

Stopped(c) == c.queued = <<>> /\ c.liveAgentIdx = 0

LEMMA NoItemApart == NoItem \notin Item
BY ChatAssumption DEF Item, NoItem

\* What an update of a chat changes, and what it leaves.
WithLive(c, l, i) == [c EXCEPT !.live = l, !.liveAgentIdx = i]
WithPanel(c, q, t) == [c EXCEPT !.queued = q, !.thinking = t]
WithSpinners(c, t, v) == [c EXCEPT !.thinking = t, !.validating = v]

LEMMA WithLiveFields ==
  ASSUME NEW c \in Chats, NEW l \in Seq(Exchange(Shown)), NEW i \in Nat
  PROVE  LET d == WithLive(c, l, i)
         IN /\ d \in Chats /\ d.live = l /\ d.liveAgentIdx = i
            /\ SamePanel(c, d) /\ d.thinking = c.thinking
<1> DEFINE d == WithLive(c, l, i)
<1>1. d \in Chats
  BY DEF Chats, WithLive
<1>2. d.live = l /\ d.liveAgentIdx = i /\ d.queued = c.queued
  BY DEF Chats, WithLive
<1>3. d.validating = c.validating
  BY DEF Chats, WithLive
<1>4. d.thinking = c.thinking
  BY DEF Chats, WithLive
<1> QED  BY <1>1, <1>2, <1>3, <1>4 DEF SamePanel

LEMMA WithPanelFields ==
  ASSUME NEW c \in Chats, NEW q \in Seq(ChatRow), NEW t \in BOOLEAN
  PROVE  LET d == WithPanel(c, q, t)
         IN /\ d \in Chats /\ d.queued = q /\ d.thinking = t
            /\ d.live = c.live /\ d.liveAgentIdx = c.liveAgentIdx
            /\ d.validating = c.validating
<1> DEFINE d == WithPanel(c, q, t)
<1>1. d \in Chats
  BY DEF Chats, WithPanel
<1>2. d.queued = q /\ d.live = c.live /\ d.liveAgentIdx = c.liveAgentIdx
  BY DEF Chats, WithPanel
<1>3. d.validating = c.validating
  BY DEF Chats, WithPanel
<1>4. d.thinking = t
  BY DEF Chats, WithPanel
<1> QED  BY <1>1, <1>2, <1>3, <1>4

LEMMA WithSpinnersFields ==
  ASSUME NEW c \in Chats, NEW t \in BOOLEAN, NEW v \in BOOLEAN
  PROVE  LET d == WithSpinners(c, t, v)
         IN /\ d \in Chats /\ d.queued = c.queued /\ d.live = c.live
            /\ d.liveAgentIdx = c.liveAgentIdx
            /\ d.thinking = t /\ d.validating = v
<1> DEFINE d == WithSpinners(c, t, v)
<1>1. d \in Chats
  BY DEF Chats, WithSpinners
<1>2. d.queued = c.queued /\ d.live = c.live /\ d.liveAgentIdx = c.liveAgentIdx
  BY DEF Chats, WithSpinners
<1>3. d.validating = v
  BY DEF Chats, WithSpinners
<1>4. d.thinking = t
  BY DEF Chats, WithSpinners
<1> QED  BY <1>1, <1>2, <1>3, <1>4

LEMMA StopOK ==
  ASSUME NEW c, ChatOK(c), NEW st \in Shown
  PROVE  /\ ChatOK(Stop(c, st)) /\ SamePanel(c, Stop(c, st))
         /\ Stop(c, st).liveAgentIdx = 0 /\ Stop(c, st).thinking = c.thinking
<1> DEFINE l == [c.live EXCEPT ![c.liveAgentIdx].st = st]
<1>1. CASE c.liveAgentIdx = 0
  BY <1>1 DEF Stop, SamePanel
<1>2. CASE c.liveAgentIdx # 0
  <2>1. c.liveAgentIdx \in 1..Len(c.live)
    BY <1>2 DEF ChatOK, Chats, Streaming
  <2>2. c.live \in Seq(Exchange(Shown))
    BY DEF ChatOK, Chats
  <2>3. l \in Seq(Exchange(Shown))
    <3>1. c.live[c.liveAgentIdx] \in Exchange(Shown)
      BY <2>1, <2>2
    <3>2. [c.live[c.liveAgentIdx] EXCEPT !.st = st] \in Exchange(Shown)
      BY <3>1 DEF Exchange
    <3> QED  BY <2>1, <2>2, <3>2
  <2>4. Stop(c, st) = WithLive(c, l, 0)
    BY <1>2 DEF Stop, WithLive
  <2> HIDE DEF l
  <2>5. /\ Stop(c, st) \in Chats /\ Stop(c, st).liveAgentIdx = 0
        /\ SamePanel(c, Stop(c, st)) /\ Stop(c, st).thinking = c.thinking
    BY <2>3, <2>4, WithLiveFields DEF ChatOK
  <2> QED  BY <2>5 DEF ChatOK, Streaming
<1> QED  BY <1>1, <1>2

LEMMA StreamOK ==
  ASSUME NEW c, ChatOK(c), NEW m \in Messages
  PROVE  /\ ChatOK(Stream(c, m)) /\ SamePanel(c, Stream(c, m))
         /\ Stream(c, m).liveAgentIdx = 1 /\ Stream(c, m).thinking = c.thinking
<1> DEFINE l == <<[m |-> m, st |-> "stream"]>>
<1>1. l \in Seq(Exchange(Shown)) /\ Len(l) = 1 /\ l[1].st = "stream"
  BY DEF Exchange, Shown
<1>2. Stream(c, m) = WithLive(c, l, 1)
  BY DEF Stream, WithLive
<1> HIDE DEF l
<1>3. /\ Stream(c, m) \in Chats /\ Stream(c, m).liveAgentIdx = 1
      /\ Stream(c, m).live = l
      /\ SamePanel(c, Stream(c, m)) /\ Stream(c, m).thinking = c.thinking
  BY <1>1, <1>2, WithLiveFields DEF ChatOK
<1> DEFINE d == Stream(c, m)
<1> HIDE DEF d
<1>4. Streaming(d)
  <2>1. d.live = l /\ d.liveAgentIdx = 1
    BY <1>3 DEF d
  <2>2. d.liveAgentIdx <= Len(d.live)
    BY <1>1, <2>1
  <2>3. d.live[d.liveAgentIdx] = l[1]
    BY <2>1
  <2> QED  BY <1>1, <2>2, <2>3 DEF Streaming
<1> QED  BY <1>3, <1>4 DEF ChatOK, d

LEMMA IdleOK ==
  ASSUME NEW c, ChatOK(c)
  PROVE  LET d == forceAuthoritativeIdle(c)
         IN /\ ChatOK(d) /\ Stopped(d) /\ ~d.thinking
            /\ d.validating = c.validating
<1> DEFINE s == Stop(c, "fail")
<1>1. ChatOK(s) /\ SamePanel(c, s) /\ s.liveAgentIdx = 0
  BY StopOK DEF Shown
<1>2. forceAuthoritativeIdle(c) = WithPanel(s, <<>>, FALSE)
  BY DEF forceAuthoritativeIdle, WithPanel
<1> HIDE DEF s
<1> DEFINE d == forceAuthoritativeIdle(c)
<1> HIDE DEF d
<1>3. /\ d \in Chats /\ d.queued = <<>> /\ d.liveAgentIdx = s.liveAgentIdx
      /\ d.thinking = FALSE /\ d.validating = s.validating
  <2>1. d = WithPanel(s, <<>>, FALSE)
    BY <1>2 DEF d
  <2>2. <<>> \in Seq(ChatRow) /\ s \in Chats /\ FALSE \in BOOLEAN
    BY <1>1 DEF ChatOK
  <2> QED  BY <2>1, <2>2, WithPanelFields
<1>4. d.validating = c.validating
  BY <1>1, <1>3 DEF SamePanel
<1> QED  BY <1>1, <1>3, <1>4 DEF ChatOK, Streaming, Stopped, d

\* The panel that shows a queue and nothing else.
Panel(items) == [n \in 1..Len(items) |-> [it |-> items[n], id |-> TRUE]]

LEMMA PanelType ==
  ASSUME NEW items \in Seq(Item)
  PROVE  /\ Panel(items) \in Seq(ChatRow) /\ Len(Panel(items)) = Len(items)
         /\ \A n \in 1..Len(items) : /\ Panel(items)[n].id
                                     /\ Panel(items)[n].it = items[n]
BY DEF Panel, ChatRow

LEMMA RebuiltOK ==
  ASSUME NEW c, ChatOK(c), NEW items \in Seq(Item), NEW busy \in BOOLEAN
  PROVE  /\ Rebuilt(c, items, busy) \in Seq(ChatRow)
         /\ busy => Rebuilt(c, items, busy) = Panel(items)
<1> DEFINE rows == Panel(items)
           most == IF c.liveAgentIdx > 0 \/ busy THEN Len(items) ELSE Len(items) + 1
           kept == IF most < Len(c.queued) THEN most ELSE Len(c.queued)
           extra == SubSeq(c.queued, Len(items) + 1, kept)
<1>1. rows \in Seq(ChatRow)
  BY PanelType
<1>2. Len(items) \in Nat /\ c.queued \in Seq(ChatRow) /\ Len(c.queued) \in Nat
  BY DEF ChatOK, Chats
<1>3. most \in Nat /\ kept \in Nat /\ kept <= Len(c.queued)
      /\ (busy => kept < Len(items) + 1)
  BY <1>2
<1>4. Rebuilt(c, items, busy) = rows \o extra
  BY DEF Rebuilt, Panel
<1> HIDE DEF rows, most, kept
<1>5. extra \in Seq(ChatRow)
  BY <1>2, <1>3, SubSeqProperties
<1>6. busy => extra = <<>>
  BY <1>2, <1>3, SubSeqEmpty
<1> HIDE DEF extra
<1> QED  BY <1>1, <1>4, <1>5, <1>6, ConcatProperties, ConcatEmptySeq DEF rows

LEMMA QueueStateOK ==
  ASSUME NEW c, ChatOK(c), NEW conv, NEW items \in Seq(Item), NEW busy \in BOOLEAN,
         NEW act \in Item \cup {NoItem},
         NEW d, d = applyQueueState(c, conv, items, busy, act)
  PROVE  /\ ChatOK(d) /\ d.validating = c.validating
         /\ items = <<>> /\ ~busy /\ act = NoItem => Stopped(d) /\ ~d.thinking
         /\ busy => d.queued = Panel(items)
<1> DEFINE b == [c EXCEPT !.queued = Rebuilt(c, items, busy)]
           s == IF /\ busy /\ act # NoItem /\ c.liveAgentIdx = 0
                   /\ ~persistedCompletedLiveHuman(conv, act.m)
                  THEN Stream(b, act.m) ELSE b
           e == IF busy THEN s ELSE Stop(s, "fail")
           t == e.liveAgentIdx > 0 \/ e.queued # <<>> \/ busy
<1>1. CASE items = <<>> /\ ~busy /\ act = NoItem
  <2>1. d = forceAuthoritativeIdle(c)
    BY <1>1 DEF applyQueueState
  <2> HIDE DEF b, s, e, t
  <2>2. ChatOK(d) /\ Stopped(d) /\ ~d.thinking
    BY <2>1, IdleOK
  <2>3. d.validating = c.validating
    BY <2>1, IdleOK
  <2> QED  BY <1>1, <2>2, <2>3
<1>2. CASE ~(items = <<>> /\ ~busy /\ act = NoItem)
  <2>1. d = [e EXCEPT !.thinking = t]
    BY <1>2 DEF applyQueueState
  <2>2. b = WithPanel(c, Rebuilt(c, items, busy), c.thinking)
    BY DEF WithPanel, ChatOK, Chats
  <2>3. /\ b \in Chats /\ b.queued = Rebuilt(c, items, busy)
        /\ b.live = c.live /\ b.liveAgentIdx = c.liveAgentIdx
        /\ b.validating = c.validating
    <3>1. c \in Chats /\ c.thinking \in BOOLEAN
      BY DEF ChatOK, Chats
    <3>2. Rebuilt(c, items, busy) \in Seq(ChatRow)
      BY RebuiltOK
    <3> HIDE DEF b
    <3> QED  BY <2>2, <3>1, <3>2, WithPanelFields
  <2> HIDE DEF b
  <2>4. ChatOK(b)
    <3>1. Streaming(b)
      <4>1. b.live = c.live /\ b.liveAgentIdx = c.liveAgentIdx
        BY <2>3
      <4> QED  BY <4>1 DEF ChatOK, Streaming
    <3> QED  BY <2>3, <3>1 DEF ChatOK
  <2>5. ChatOK(s) /\ SamePanel(b, s)
    <3>1. act # NoItem => act.m \in Messages
      BY DEF Item
    <3>2. CASE s = b
      BY <2>4, <3>2 DEF SamePanel
    <3>3. CASE s # b
      <4>1. s = Stream(b, act.m) /\ act # NoItem
        BY <3>3
      <4> HIDE DEF s
      <4> QED  BY <2>4, <3>1, <4>1, StreamOK
    <3> QED  BY <3>2, <3>3
  <2> HIDE DEF s
  <2>6. ChatOK(e) /\ SamePanel(s, e)
    <3>1. CASE busy
      BY <2>5, <3>1 DEF SamePanel
    <3>2. CASE ~busy
      <4>1. e = Stop(s, "fail") /\ "fail" \in Shown
        BY <3>2 DEF Shown
      <4> HIDE DEF e
      <4> QED  BY <2>5, <4>1, StopOK
    <3> QED  BY <3>1, <3>2
  <2> HIDE DEF e
  <2>7. d = WithPanel(e, e.queued, t)
    <3> HIDE DEF t
    <3> QED  BY <2>1, <2>6 DEF WithPanel, ChatOK, Chats
  <2>8. /\ d \in Chats /\ d.queued = e.queued /\ d.live = e.live
        /\ d.liveAgentIdx = e.liveAgentIdx /\ d.validating = e.validating
    <3>1. e \in Chats /\ e.queued \in Seq(ChatRow) /\ t \in BOOLEAN
      BY <2>6 DEF ChatOK, Chats
    <3> HIDE DEF t
    <3> QED  BY <2>7, <3>1, WithPanelFields
  <2>9. Streaming(d)
    <3>1. d.live = e.live /\ d.liveAgentIdx = e.liveAgentIdx
      BY <2>8
    <3> QED  BY <2>6, <3>1 DEF ChatOK, Streaming
  <2>10. d.validating = c.validating
    BY <2>3, <2>5, <2>6, <2>8 DEF SamePanel
  <2>11. busy => d.queued = Panel(items)
    BY <2>3, <2>5, <2>6, <2>8, RebuiltOK DEF SamePanel
  <2>12. ChatOK(d)
    BY <2>8, <2>9 DEF ChatOK
  <2> HIDE DEF b, s, e, t
  <2> QED  BY <1>2, <2>10, <2>11, <2>12
<1> QED  BY <1>1, <1>2

LEMMA BeginOK ==
  ASSUME NEW c, ChatOK(c), NEW it \in Item, NEW d, d = turn_begin(c, it)
  PROVE  /\ ChatOK(d) /\ d.validating = c.validating /\ d.thinking
         /\ \/ d.queued = c.queued
            \/ \E n \in 1..Len(c.queued) :
                 /\ c.queued[n].id /\ c.queued[n].it = it
                 /\ d.queued = RemoveAt(c.queued, n)
<1> DEFINE n == SelectInSeq(c.queued, LAMBDA q : q.id /\ q.it = it)
           q1 == IF n = 0 THEN c.queued ELSE RemoveAt(c.queued, n)
           cover == c.live # <<>> /\ Last(c.live).st = "fail"
                                  /\ Same(Last(c.live).m, it.m)
           l == IF cover THEN [c.live EXCEPT ![Len(c.live)].st = "stream"]
                         ELSE Append(c.live, [m |-> it.m, st |-> "stream"])
           a == [c EXCEPT !.live = l, !.liveAgentIdx = Len(l)]
<1>1. /\ c \in Chats /\ c.queued \in Seq(ChatRow) /\ Len(c.queued) \in Nat
      /\ c.live \in Seq(Exchange(Shown)) /\ Len(c.live) \in Nat
  BY DEF ChatOK, Chats
<1>2. n \in 0..Len(c.queued) /\ (n > 0 => c.queued[n].id /\ c.queued[n].it = it)
  BY <1>1, FirstPlace
<1>3. q1 \in Seq(ChatRow)
  <2> HIDE DEF n
  <2>1. n # 0 => n \in 1..Len(c.queued)
    BY <1>1, <1>2
  <2> QED  BY <1>1, <2>1, RemoveRow
<1>4. l \in Seq(Exchange(Shown)) /\ Len(l) > 0 /\ Len(l) \in Nat
      /\ l[Len(l)].st = "stream"
  <2>1. CASE cover
    <3>1. c.live[Len(c.live)] \in Exchange(Shown) /\ Len(c.live) > 0
      BY <1>1, <2>1
    <3>2. [c.live[Len(c.live)] EXCEPT !.st = "stream"] \in Exchange(Shown)
      BY <3>1 DEF Exchange, Shown
    <3>3. l = [c.live EXCEPT ![Len(c.live)].st = "stream"]
      BY <2>1
    <3>4. l \in Seq(Exchange(Shown)) /\ Len(l) = Len(c.live)
      BY <1>1, <3>1, <3>2, <3>3
    <3>5. l[Len(c.live)] = [c.live[Len(c.live)] EXCEPT !.st = "stream"]
      BY <1>1, <3>1, <3>3
    <3>6. l[Len(c.live)].st = "stream"
      BY <3>1, <3>5 DEF Exchange
    <3> QED  BY <1>1, <3>1, <3>4, <3>6
  <2>2. CASE ~cover
    <3>1. [m |-> it.m, st |-> "stream"] \in Exchange(Shown)
      BY DEF Item, Exchange, Shown
    <3>2. l = Append(c.live, [m |-> it.m, st |-> "stream"])
      BY <2>2
    <3> HIDE DEF l, cover
    <3>3. /\ l \in Seq(Exchange(Shown)) /\ Len(l) = Len(c.live) + 1
          /\ l[Len(c.live) + 1] = [m |-> it.m, st |-> "stream"]
      BY <1>1, <3>1, <3>2, AppendProperties
    <3> QED  BY <1>1, <3>3
  <2> QED  BY <2>1, <2>2
<1>5. a = WithLive(c, l, Len(l))
  BY DEF WithLive
<1>6. d = WithPanel(a, q1, TRUE)
  BY DEF turn_begin, WithPanel
<1> HIDE DEF l, q1
<1>7. /\ a \in Chats /\ a.live = l /\ a.liveAgentIdx = Len(l)
      /\ a.queued = c.queued /\ a.validating = c.validating
  <2> HIDE DEF a
  <2> QED  BY <1>1, <1>4, <1>5, WithLiveFields DEF SamePanel
<1> HIDE DEF a
<1>8. /\ d \in Chats /\ d.queued = q1 /\ d.thinking = TRUE
      /\ d.live = a.live /\ d.liveAgentIdx = a.liveAgentIdx
      /\ d.validating = a.validating
  <2> DEFINE t == TRUE
  <2>1. t \in BOOLEAN /\ a \in Chats
    BY <1>7
  <2>2. d = WithPanel(a, q1, t)
    BY <1>6
  <2> HIDE DEF t
  <2>3. d \in Chats /\ d.queued = q1 /\ d.live = a.live
        /\ d.liveAgentIdx = a.liveAgentIdx
    BY <1>3, <2>1, <2>2, WithPanelFields
  <2>4. d.thinking = t
    BY <1>3, <2>1, <2>2, WithPanelFields
  <2>5. d.validating = a.validating
    BY <1>3, <2>1, <2>2, WithPanelFields
  <2> QED  BY <2>3, <2>4, <2>5 DEF t
<1>9. ChatOK(d)
  <2>1. d.live = l /\ d.liveAgentIdx = Len(l)
    BY <1>7, <1>8
  <2> QED  BY <1>4, <1>8, <2>1 DEF ChatOK, Streaming
<1>10. \/ d.queued = c.queued
       \/ \E k \in 1..Len(c.queued) :
            /\ c.queued[k].id /\ c.queued[k].it = it
            /\ d.queued = RemoveAt(c.queued, k)
  <2> HIDE DEF n
  <2>1. CASE n = 0
    BY <1>8, <2>1 DEF q1
  <2>2. CASE n # 0
    <3>1. n \in 1..Len(c.queued) /\ c.queued[n].id /\ c.queued[n].it = it
      BY <1>1, <1>2, <2>2
    <3>2. d.queued = RemoveAt(c.queued, n)
      BY <1>8, <2>2 DEF q1
    <3> QED  BY <3>1, <3>2
  <2> QED  BY <2>1, <2>2
<1>11. d.validating = c.validating
  BY <1>7, <1>8
<1>12. d.thinking
  BY <1>8
<1> QED  BY <1>9, <1>10, <1>11, <1>12

LEMMA EndOK ==
  ASSUME NEW c, ChatOK(c), NEW st \in Shown, NEW d, d = EndFrame(c, st)
  PROVE  /\ ChatOK(d) /\ d.validating = c.validating /\ d.liveAgentIdx = 0
         /\ d.thinking => d.queued # <<>>
         /\ Rows(d.queued) = {q \in Rows(c.queued) : q.id}
         /\ (\A n \in 1..Len(c.queued) : c.queued[n].id) => d.queued = c.queued
<1> DEFINE s == Stop(c, st)
           known == Keep(s.queued, {q \in Rows(s.queued) : q.id})
           t == known # <<>>
<1>1. /\ ChatOK(s) /\ s.queued = c.queued /\ s.validating = c.validating
      /\ s.liveAgentIdx = 0
  BY StopOK DEF SamePanel
<1>2. d = WithPanel(s, known, t)
  BY DEF EndFrame, settleAfterTurnEnd, WithPanel
<1> HIDE DEF s
<1>3. s.queued \in Seq(ChatRow) /\ s \in Chats
  BY <1>1 DEF ChatOK, Chats
<1>4. /\ known \in Seq(ChatRow)
      /\ Rows(known) = Rows(s.queued) \cap {q \in Rows(s.queued) : q.id}
  <2> DEFINE K == {q \in Rows(s.queued) : q.id}
  <2> HIDE DEF K
  <2>1. Keep(s.queued, K) \in Seq(ChatRow \cap K) /\ Rows(Keep(s.queued, K)) = Rows(s.queued) \cap K
    BY <1>3, KeepRows
  <2>2. Keep(s.queued, K) \in Seq(ChatRow)
    BY <2>1
  <2> QED  BY <2>1, <2>2 DEF K
<1>5. (\A n \in 1..Len(s.queued) : s.queued[n].id) => known = s.queued
  <2> SUFFICES ASSUME \A n \in 1..Len(s.queued) : s.queued[n].id
               PROVE  known = s.queued
    OBVIOUS
  <2> DEFINE K == {q \in Rows(s.queued) : q.id}
  <2>1. Rows(s.queued) \subseteq K
    BY DEF Rows
  <2> HIDE DEF K
  <2>2. Keep(s.queued, K) = s.queued
    BY <1>3, <2>1, KeepAll
  <2> QED  BY <2>2 DEF K
<1> HIDE DEF known
<1>6. /\ d \in Chats /\ d.queued = known /\ d.thinking = t
      /\ d.live = s.live /\ d.liveAgentIdx = s.liveAgentIdx
      /\ d.validating = s.validating
  <2>1. t \in BOOLEAN
    OBVIOUS
  <2> HIDE DEF t
  <2> QED  BY <1>2, <1>3, <1>4, <2>1, WithPanelFields
<1>7. ChatOK(d) /\ d.liveAgentIdx = 0
  BY <1>1, <1>6 DEF ChatOK, Streaming
<1>8. d.validating = c.validating
  BY <1>1, <1>6
<1>9. d.thinking => d.queued # <<>>
  BY <1>6
<1>10. Rows(d.queued) = {q \in Rows(c.queued) : q.id}
  BY <1>1, <1>4, <1>6
<1>11. (\A n \in 1..Len(c.queued) : c.queued[n].id) => d.queued = c.queued
  BY <1>1, <1>5, <1>6
<1> QED  BY <1>7, <1>8, <1>9, <1>10, <1>11

LEMMA WatchPersistedOK ==
  ASSUME NEW c, ChatOK(c), NEW old, NEW new, NEW d, d = WatchPersisted(c, old, new)
  PROVE  /\ ChatOK(d) /\ d.queued = c.queued /\ d.validating = c.validating
         /\ d.liveAgentIdx \in {0, c.liveAgentIdx} /\ (d.thinking => c.thinking)
<1> DEFINE a == WithLive(c, <<>>, 0)
           t == c.thinking /\ c.queued # <<>>
<1>1. CASE d = c
  BY <1>1
<1>2. CASE d = [c EXCEPT !.live = <<>>, !.liveAgentIdx = 0, !.thinking = t]
  <2>1. d = WithPanel(a, a.queued, t)
    <3>1. a = [c EXCEPT !.live = <<>>, !.liveAgentIdx = 0]
      BY DEF WithLive
    <3>2. [c EXCEPT !.live = <<>>, !.liveAgentIdx = 0, !.thinking = t]
            = [a EXCEPT !.thinking = t]
      BY <3>1
    <3>3. a \in Chats
      <4>1. <<>> \in Seq(Exchange(Shown)) /\ c \in Chats /\ 0 \in Nat
        BY DEF ChatOK
      <4> QED  BY <4>1, WithLiveFields
    <3> HIDE DEF t, a
    <3>4. [a EXCEPT !.thinking = t] = [a EXCEPT !.queued = a.queued, !.thinking = t]
      BY <3>3 DEF Chats
    <3> QED  BY <1>2, <3>2, <3>4 DEF WithPanel
  <2>2. /\ a \in Chats /\ a.live = <<>> /\ a.liveAgentIdx = 0
        /\ a.queued = c.queued /\ a.validating = c.validating
    <3>1. <<>> \in Seq(Exchange(Shown)) /\ c \in Chats /\ 0 \in Nat
      BY DEF ChatOK
    <3> HIDE DEF t
    <3> QED  BY <3>1, WithLiveFields DEF SamePanel
  <2> HIDE DEF a
  <2>3. a.queued \in Seq(ChatRow)
    BY <2>2 DEF Chats
  <2>4. t \in BOOLEAN
    BY DEF ChatOK, Chats
  <2> HIDE DEF t
  <2>5. /\ d \in Chats /\ d.queued = a.queued /\ d.live = a.live
        /\ d.liveAgentIdx = a.liveAgentIdx
    BY <2>1, <2>2, <2>3, <2>4, WithPanelFields
  <2>6. d.thinking = t
    BY <2>1, <2>2, <2>3, <2>4, WithPanelFields
  <2>7. d.validating = a.validating
    BY <2>1, <2>2, <2>3, <2>4, WithPanelFields
  <2>8. ChatOK(d)
    BY <2>2, <2>5 DEF ChatOK, Streaming
  <2>9. d.validating = c.validating
    BY <2>2, <2>7
  <2>10. d.thinking => c.thinking
    BY <2>6 DEF t
  <2> QED  BY <2>2, <2>5, <2>8, <2>9, <2>10
<1>3. d = c \/ d = [c EXCEPT !.live = <<>>, !.liveAgentIdx = 0, !.thinking = t]
  <2> DEFINE P == (new.conv = old.conv /\ new.at = old.at) \/ c.live = <<>>
             Q == \/ persistedCompletedLiveHuman(new.conv, c.live[1].m)
                  \/ new.conv # <<>> /\ \A n \in 1..Len(c.live) : c.live[n].st # "stream"
             z == [c EXCEPT !.live = <<>>, !.liveAgentIdx = 0, !.thinking = t]
  <2>1. d = IF P THEN c ELSE IF Q THEN z ELSE c
    BY DEF WatchPersisted
  <2> HIDE DEF P, Q, z
  <2>2. d = c \/ d = z
    BY <2>1
  <2> QED  BY <2>2 DEF z
<1> QED  BY <1>1, <1>2, <1>3

LEMMA SpinnersOK ==
  ASSUME NEW c, ChatOK(c), NEW t \in BOOLEAN, NEW v \in BOOLEAN,
         NEW d, d = WithSpinners(c, t, v)
  PROVE  /\ ChatOK(d) /\ d.queued = c.queued /\ d.liveAgentIdx = c.liveAgentIdx
         /\ d.thinking = t /\ d.validating = v
<1>1. c \in Chats
  BY DEF ChatOK
<1>2. /\ d \in Chats /\ d.queued = c.queued /\ d.live = c.live
      /\ d.liveAgentIdx = c.liveAgentIdx
  BY <1>1, WithSpinnersFields
<1>3. d.thinking = t
  BY <1>1, WithSpinnersFields
<1>4. d.validating = v
  BY <1>1, WithSpinnersFields
<1>5. ChatOK(d)
  BY <1>2 DEF ChatOK, Streaming
<1> QED  BY <1>2, <1>3, <1>4, <1>5

WithThinking(c, t) == [c EXCEPT !.thinking = t]
LEMMA SetThinking ==
  ASSUME NEW c, ChatOK(c), NEW t \in BOOLEAN, NEW d, d = WithThinking(c, t)
  PROVE  /\ ChatOK(d) /\ d.queued = c.queued /\ d.liveAgentIdx = c.liveAgentIdx
         /\ d.thinking = t /\ d.validating = c.validating
<1>1. d = WithSpinners(c, t, c.validating) /\ c.validating \in BOOLEAN
  BY DEF WithSpinners, WithThinking, ChatOK, Chats
<1> QED  BY <1>1, SpinnersOK

LEMMA SetPanel ==
  ASSUME NEW c, ChatOK(c), NEW q \in Seq(ChatRow), NEW t \in BOOLEAN,
         NEW d, d = WithPanel(c, q, t)
  PROVE  /\ ChatOK(d) /\ d.queued = q /\ d.liveAgentIdx = c.liveAgentIdx
         /\ d.thinking = t /\ d.validating = c.validating
<1>1. c \in Chats
  BY DEF ChatOK
<1>2. d \in Chats /\ d.queued = q /\ d.live = c.live /\ d.liveAgentIdx = c.liveAgentIdx
  BY <1>1, WithPanelFields
<1>3. d.thinking = t
  BY <1>1, WithPanelFields
<1>4. d.validating = c.validating
  BY <1>1, WithPanelFields
<1>5. ChatOK(d)
  BY <1>2 DEF ChatOK, Streaming
<1> QED  BY <1>2, <1>3, <1>4, <1>5

LEMMA WatchDoneOK ==
  ASSUME NEW c, ChatOK(c), NEW old, NEW new, NEW d, d = WatchDone(c, old, new)
  PROVE  /\ ChatOK(d) /\ d.queued = c.queued /\ d.liveAgentIdx = c.liveAgentIdx
         /\ (d.thinking => c.thinking) /\ (d.validating => c.validating)
         /\ new.done /\ ~old.done => ~d.thinking /\ ~d.validating
<1>1. CASE ~(new.done /\ ~old.done)
  <2>1. d = c
    BY <1>1 DEF WatchDone
  <2> QED  BY <1>1, <2>1
<1>2. CASE new.done /\ ~old.done
  <2>1. d = WithSpinners(c, FALSE, FALSE) /\ FALSE \in BOOLEAN
    BY <1>2 DEF WatchDone, WithSpinners
  <2> QED  BY <2>1, SpinnersOK
<1> QED  BY <1>1, <1>2

LEMMA ConfirmErrorOK ==
  ASSUME NEW c, ChatOK(c), NEW d, d = WatchConfirmError(c)
  PROVE  /\ ChatOK(d) /\ d.queued = c.queued /\ d.liveAgentIdx = c.liveAgentIdx
         /\ ~d.validating
         /\ d.thinking => c.thinking /\ (c.queued # <<>> \/ c.liveAgentIdx > 0)
<1> DEFINE t == c.thinking /\ (c.queued # <<>> \/ c.liveAgentIdx > 0)
<1>1. t \in BOOLEAN
  BY DEF ChatOK, Chats
<1> DEFINE v == FALSE
<1>2. d = WithSpinners(c, t, v) /\ v \in BOOLEAN
  BY DEF WatchConfirmError, WithSpinners
<1> HIDE DEF t, v
<1>3. ChatOK(d) /\ d.queued = c.queued /\ d.liveAgentIdx = c.liveAgentIdx
  BY <1>1, <1>2, SpinnersOK
<1>4. d.thinking = t
  BY <1>1, <1>2, SpinnersOK
<1>5. d.validating = v
  BY <1>1, <1>2, SpinnersOK
<1> QED  BY <1>3, <1>4, <1>5 DEF t, v

LEMMA DiscardOK ==
  ASSUME NEW c, ChatOK(c)
  PROVE  ChatOK(discardLastQueued(c))
<1>1. CASE c.queued = <<>>
  BY <1>1 DEF discardLastQueued
<1>2. CASE c.queued # <<>>
  <2> DEFINE r == Front(c.queued)
             t == c.thinking /\ (r # <<>> \/ c.liveAgentIdx > 0)
             d == discardLastQueued(c)
  <2>1. d = WithPanel(c, r, t)
    BY <1>2 DEF discardLastQueued, WithPanel
  <2>2. r \in Seq(ChatRow)
    BY <1>2 DEF ChatOK, Chats, Front
  <2>3. t \in BOOLEAN
    BY DEF ChatOK, Chats
  <2> HIDE DEF r, t, d
  <2>4. ChatOK(d)
    BY <2>1, <2>2, <2>3, SetPanel
  <2> QED  BY <2>4 DEF d
<1> QED  BY <1>1, <1>2

-----------------------------------------------------------------------------
(* Types                                                                   *)

Frame ==
  [ev : {"queue", "snapshot"}, items : Seq(Item), busy : BOOLEAN,
   act : Item \cup {NoItem}, st : {"open"}]
  \cup [ev : {"begin"}, items : {<<>>}, busy : {TRUE}, act : Item, st : {"open"}]
  \cup [ev : {"done", "error"}, items : {<<>>}, busy : {TRUE}, act : Item,
        st : Shown \ {"stream"}]

Requests == [k : {"send", "retry", "remove"}, it : Item]
              \cup [k : {"cancel", "finish"}, it : {NoItem}]

Detail == [conv : Seq(Exchange(Saved)), at : Nat, done : BOOLEAN, sess : Session]
Answer == [r : Detail, landed : BOOLEAN]

ServerState ==
  [queue : Seq(Item), active : Item \cup {NoItem},
   turn : {"none", "running", "answered", "refused"}, cancelled : BOOLEAN,
   alive : BOOLEAN, conv : Seq(Exchange(Saved)), at : Nat, done : BOOLEAN]

\* The turn the server is in, and what its transcript ends with.
TurnOK ==
  /\ srv.turn = "none" <=> srv.active = NoItem
  /\ srv.turn \in {"running", "answered"} => srv.conv # <<>>
  /\ srv.turn = "answered" => Last(srv.conv).st # "open"

ServerType ==
  /\ unsent \subseteq Messages /\ trouble \in 0..MaxTrouble
  /\ srv \in ServerState /\ TurnOK
  /\ frames \in Seq(Frame) /\ reqs \subseteq Requests

PageType ==
  /\ answers \in Seq(Answer) /\ Len(answers) <= MaxGets
  /\ run \in Detail /\ ChatOK(chat)

Flags == {socket, upset, asked, liveBusy} \subseteq BOOLEAN

TypeInv == ServerType /\ PageType /\ Flags

LEMMA TypeInvImpliesTypeOK == TypeInv => TypeOK
<1> SUFFICES ASSUME TypeInv PROVE TypeOK
  OBVIOUS
<1> USE DEF TypeInv, ServerType, PageType, Flags
<1>1. /\ unsent \subseteq Messages /\ socket \in BOOLEAN /\ upset \in BOOLEAN
      /\ asked \in BOOLEAN /\ Len(answers) <= MaxGets /\ trouble \in 0..MaxTrouble
  OBVIOUS
<1>2. /\ srv.queue \in Seq(Item) /\ srv.active \in Item \cup {NoItem}
      /\ srv.conv \in Seq(Exchange(Saved))
  BY DEF ServerState
<1>3. srv.alive \in BOOLEAN /\ srv.done \in BOOLEAN
  BY DEF ServerState
<1>4. /\ chat.live \in Seq(Exchange(Shown))
      /\ chat.queued \in Seq([it : Item, id : BOOLEAN])
  BY DEF ChatOK, Chats, ChatRow
<1>5. chat.liveAgentIdx > 0 => chat.live[chat.liveAgentIdx].st = "stream"
  BY DEF ChatOK, Streaming
<1>6. chat.thinking \in BOOLEAN /\ chat.validating \in BOOLEAN
  BY DEF ChatOK, Chats
<1>7. liveBusy \in BOOLEAN
  OBVIOUS
<1> HIDE DEF TypeInv, ServerType, PageType, Flags
<1> QED  BY <1>1, <1>2, <1>3, <1>4, <1>5, <1>6, <1>7 DEF TypeOK

\* The frames after a publication, if the page hears it.
LEMMA PublishOK ==
  ASSUME ServerType, Flags, NEW new \in Seq(Frame), publishReview(new)
  PROVE  /\ frames' \in Seq(Frame) /\ upset' \in BOOLEAN
         /\ ~upset' => ~upset /\ socket /\ frames' = frames \o new
<1>1. frames \in Seq(Frame) /\ upset \in BOOLEAN /\ socket \in BOOLEAN
  BY DEF ServerType, Flags
<1>2. frames' = IF socket THEN frames \o new ELSE frames
  BY DEF publishReview
<1>3. upset' = (upset \/ ~socket)
  BY DEF publishReview
<1>4. frames \o new \in Seq(Frame)
  BY <1>1, ConcatProperties
<1>5. frames' \in Seq(Frame)
  BY <1>1, <1>2, <1>4
<1>6. upset' \in BOOLEAN
  BY <1>1, <1>3
<1>7. ~upset' => ~upset /\ socket
  BY <1>3
<1> QED  BY <1>2, <1>5, <1>6, <1>7

LEMMA FrameTypes ==
  ASSUME NEW items \in Seq(Item), NEW busy \in BOOLEAN, NEW act \in Item \cup {NoItem},
         NEW it \in Item, NEW st \in Shown \ {"stream"}
  PROVE  /\ QueueState(items, busy, act) \in Frame
         /\ TurnFrame("begin", it, "open") \in Frame
         /\ TurnFrame("done", it, st) \in Frame
         /\ TurnFrame("error", it, st) \in Frame
<1>1. QueueState(items, busy, act) \in Frame
  BY DEF QueueState, Frame
<1>2. TurnFrame("begin", it, "open") \in Frame
  BY DEF TurnFrame, Frame
<1>3. TurnFrame("done", it, st) \in Frame /\ TurnFrame("error", it, st) \in Frame
  BY DEF TurnFrame, Frame
<1> QED  BY <1>1, <1>2, <1>3

LEMMA SessionType ==
  ASSUME ServerType
  PROVE  /\ ReactSessions \in Session /\ runDetail \in Detail
         /\ runDetail.done = srv.done /\ runDetail.sess = ReactSessions
         /\ ReactSessions.on = srv.alive
         /\ srv.alive => /\ ReactSessions.items = srv.queue
                         /\ ReactSessions.busy = (srv.active # NoItem)
                         /\ ReactSessions.act = srv.active
         /\ ~srv.alive => ReactSessions = NoSession
<1>1. srv \in ServerState
  BY DEF ServerType
<1>2. srv.alive \in BOOLEAN /\ srv.done \in BOOLEAN
  BY <1>1 DEF ServerState
<1>3. /\ srv.queue \in Seq(Item) /\ srv.active \in Item \cup {NoItem}
      /\ srv.conv \in Seq(Exchange(Saved)) /\ srv.at \in Nat
  BY <1>1 DEF ServerState
<1>4. ReactSessions \in Session
  <2>1. NoSession \in Session
    BY DEF NoSession, Session
  <2> QED  BY <1>3, <2>1 DEF ReactSessions, Session
<1>5. ReactSessions.on = srv.alive
  BY <1>2 DEF ReactSessions, NoSession
<1>6. srv.alive => ReactSessions.items = srv.queue /\ ReactSessions.act = srv.active
  BY DEF ReactSessions
<1>7. srv.alive => ReactSessions.busy = (srv.active # NoItem)
  BY DEF ReactSessions
<1>8. ~srv.alive => ReactSessions = NoSession
  BY DEF ReactSessions
<1>9. runDetail \in Detail /\ runDetail.sess = ReactSessions
  BY <1>2, <1>3, <1>4 DEF runDetail, Detail
<1>10. runDetail.done = srv.done
  BY DEF runDetail
<1> QED  BY <1>4, <1>5, <1>6, <1>7, <1>8, <1>9, <1>10

-----------------------------------------------------------------------------
(* The invariant                                                           *)

Work == srv.active # NoItem \/ srv.queue # <<>>
IsQ(f) == f.ev \in {"queue", "snapshot"}
IsEnd(f) == f.ev \in {"done", "error"}
HasQ == \E n \in 1..Len(frames) : IsQ(frames[n])
HasEnd == \E n \in 1..Len(frames) : IsEnd(frames[n])
Pending(k) == \E r \in reqs : r.k = k

ServerInv ==
  /\ ~srv.alive => ~Work
  /\ srv.turn = "running" => ~srv.done
  /\ run.done => srv.done
  /\ \A a \in Rows(answers) : a.r.done => srv.done

\* A frame as the server sends it; the snapshot is the first of its socket.
Plain(f) == IsQ(f) /\ ~f.busy => f.act = NoItem
FramesInv ==
  /\ ~socket => frames = <<>>
  /\ \A n \in 1..Len(frames) : /\ frames[n].ev = "snapshot" => n = 1
                               /\ Plain(frames[n])

\* The page will hear that the dialogue is finished, or its request failed.
DoneLoad(a) == ~a.landed /\ a.r.done
DoneComes ==
  /\ srv.done /\ ~run.done
  /\ asked \/ \E a \in Rows(answers) : DoneLoad(a)
Finishing == Pending("finish") \/ DoneComes
FinishInv == chat.validating => Finishing

\* The last queue frame shows the queue.
LastQ ==
  \A n \in 1..Len(frames) :
    IsQ(frames[n]) /\ (\A m \in n + 1 .. Len(frames) : ~IsQ(frames[m])) =>
      /\ frames[n].items = srv.queue
      /\ srv.active # NoItem => frames[n].busy

\* The last frame tells an idle session from a busy one.
Ends(f) == IsEnd(f) \/ ~f.busy
LastIdle == ~Work /\ frames # <<>> => Ends(frames[Len(frames)])

BusyInv == ~Work /\ frames = <<>> => ~liveBusy

\* Sessions shown as busy are, or something that repairs them is on its way.
Mends(a) == a.landed = a.r.sess.busy
SessMends == \E a \in Rows(answers) : Mends(a)
FirstSnapshot == frames # <<>> /\ frames[1].ev = "snapshot" /\ frames[1].busy
SessInv ==
  /\ run.sess.busy => srv.active # NoItem \/ HasEnd \/ asked \/ SessMends
  /\ FirstSnapshot => srv.active # NoItem \/ HasEnd

\* Between two queue frames the panel has no row the queue does not have.
RowsInv ==
  (srv.active # NoItem \/ srv.queue = <<>>) /\ ~HasQ =>
    \A q \in Rows(chat.queued) : q.id => q.it \in Rows(srv.queue)

IdleInv ==
  ~Work /\ frames = <<>> /\ ~Pending("send") /\ ~Pending("retry") =>
    Stopped(chat) /\ (chat.thinking => Finishing)

\* An item is in the queue once, and no turn that began is in it.
Begun(it) ==
  \/ it = srv.active
  \/ \E n \in 1..Len(frames) : frames[n].ev = "begin" /\ frames[n].act = it
Known(it) == it \in Rows(srv.queue) \/ Begun(it)
QueueUnique ==
  /\ NoRepeat(srv.queue)
  /\ \A it \in Rows(srv.queue) : ~Begun(it)
KnownOnce ==
  \A it \in Item : Known(it) =>
    /\ it.retry = 0 => it.m \notin unsent /\ Request("send", it) \notin reqs
    /\ it.retry <= trouble
    /\ \A r \in reqs : r.k = "retry" => r.it.retry # it.retry
ReqsOnce ==
  /\ \A r \in reqs : r.k = "send" => r.it.retry = 0 /\ r.it.m \notin unsent
  /\ \A r \in reqs : r.k = "retry" => r.it.retry \in 1..trouble
  /\ \A r, s \in reqs :
       r.k = "retry" /\ s.k = "retry" /\ r.it.retry = s.it.retry => r = s
Unique == QueueUnique /\ KnownOnce /\ ReqsOnce

\* A row the page gave up and the server has yet to remove.
RemovePending == \E r \in reqs : r.k = "remove" /\ r.it \in Rows(srv.queue)
PanelInv ==
  srv.active # NoItem /\ ~HasQ /\ ~Pending("send") /\ ~Pending("cancel") =>
    chat.queued = Panel(srv.queue) \/ RemovePending

Calm == LastQ /\ LastIdle /\ BusyInv /\ SessInv /\ RowsInv /\ IdleInv /\ PanelInv

Inv ==
  /\ TypeInv /\ ServerInv /\ FramesInv /\ FinishInv /\ Unique
  /\ ~upset => Calm

-----------------------------------------------------------------------------
(* Frames                                                                  *)

LEMMA PublishFrames ==
  ASSUME ServerType, Flags, FramesInv, NEW new \in Seq(Frame), publishReview(new),
         \A n \in 1..Len(new) : new[n].ev # "snapshot" /\ Plain(new[n]),
         socket' = socket
  PROVE  FramesInv'
<1>1. frames \in Seq(Frame) /\ socket \in BOOLEAN /\ Len(frames) \in Nat
      /\ Len(new) \in Nat
  BY DEF ServerType, Flags
<1>2. CASE frames' = frames /\ ~socket
  BY <1>2 DEF FramesInv, Plain, IsQ
<1>3. CASE frames' = frames \o new /\ socket
  <2>1. /\ Len(frames') = Len(frames) + Len(new)
        /\ \A n \in 1..Len(frames) + Len(new) :
             frames'[n] = IF n <= Len(frames) THEN frames[n]
                                              ELSE new[n - Len(frames)]
    BY <1>1, <1>3, ConcatProperties
  <2>2. ASSUME NEW n \in 1..Len(frames')
        PROVE  /\ frames'[n].ev = "snapshot" => n = 1
               /\ Plain(frames'[n])
    <3>1. CASE n <= Len(frames)
      <4>1. frames'[n] = frames[n] /\ n \in 1..Len(frames)
        BY <1>1, <2>1, <2>2, <3>1
      <4> QED  BY <4>1 DEF FramesInv
    <3>2. CASE ~(n <= Len(frames))
      <4>1. frames'[n] = new[n - Len(frames)] /\ n - Len(frames) \in 1..Len(new)
        BY <1>1, <2>1, <2>2, <3>2
      <4> QED  BY <4>1
    <3> QED  BY <3>1, <3>2
  <2>3. socket'
    BY <1>3
  <2>4. \A n \in 1..Len(frames') : /\ frames'[n].ev = "snapshot" => n = 1
                                   /\ Plain(frames'[n])
    BY <2>2
  <2> QED  BY <2>3, <2>4 DEF FramesInv, Plain, IsQ
<1>4. \/ frames' = frames /\ ~socket
      \/ frames' = frames \o new /\ socket
  BY DEF publishReview
<1> QED  BY <1>2, <1>3, <1>4

\* What the last frame appended does to the frames.
LEMMA AppendedFrame ==
  ASSUME frames \in Seq(Frame), NEW f \in Frame, frames' = Append(frames, f)
  PROVE  /\ frames' # <<>> /\ Len(frames') = Len(frames) + 1
         /\ Len(frames) \in Nat /\ frames'[Len(frames')] = f
         /\ \A n \in 1..Len(frames) : frames'[n] = frames[n]
         /\ HasEnd => HasEnd'
         /\ IsEnd(f) => HasEnd'
         /\ HasQ' <=> HasQ \/ IsQ(f)
         /\ f.ev # "snapshot" /\ FirstSnapshot' => FirstSnapshot
<1>1. /\ frames' # <<>> /\ Len(frames') = Len(frames) + 1
      /\ Len(frames) \in Nat /\ frames'[Len(frames) + 1] = f
      /\ \A n \in 1..Len(frames) : frames'[n] = frames[n]
  BY AppendProperties
<1>2. HasEnd => HasEnd'
  BY <1>1 DEF HasEnd, IsEnd
<1>3. IsEnd(f) => HasEnd'
  BY <1>1 DEF HasEnd, IsEnd
<1>4. HasQ => HasQ'
  BY <1>1 DEF HasQ, IsQ
<1>5. IsQ(f) => HasQ'
  BY <1>1 DEF HasQ, IsQ
<1>6. HasQ' => HasQ \/ IsQ(f)
  <2> SUFFICES ASSUME NEW n \in 1..Len(frames'), IsQ(frames'[n])
               PROVE  HasQ \/ IsQ(f)
    BY DEF HasQ, IsQ
  <2>1. n \in 1..Len(frames) \/ n = Len(frames) + 1
    BY <1>1
  <2> QED  BY <1>1, <2>1 DEF HasQ
<1>7. f.ev # "snapshot" /\ FirstSnapshot' => FirstSnapshot
  <2> SUFFICES ASSUME f.ev # "snapshot", FirstSnapshot' PROVE FirstSnapshot
    OBVIOUS
  <2>1. frames'[1].ev = "snapshot" /\ frames'[1].busy
    BY DEF FirstSnapshot
  <2>2. 1 \in 1..Len(frames)
    BY <1>1, <2>1
  <2> QED  BY <1>1, <2>1, <2>2 DEF FirstSnapshot
<1> QED  BY <1>1, <1>2, <1>3, <1>4, <1>5, <1>6, <1>7

-----------------------------------------------------------------------------
(* What a step of the server does to it                                    *)

\* The queue changes and every page whose socket is open hears of it.
QueueTold ==
  ~upset' =>
    /\ ~upset
    /\ \E busy \in BOOLEAN : /\ frames' = Append(frames, QueueState(srv'.queue, busy, NoItem))
                             /\ srv'.active # NoItem => busy
                             /\ busy => Work'

ServerStepOK ==
  srv' \in ServerState /\ TurnOK' /\ frames' \in Seq(Frame) /\ upset' \in BOOLEAN

\* The server keeps its turn, its transcript and whether it is done.
TurnKept ==
  srv'.active = srv.active /\ srv'.turn = srv.turn /\ srv'.conv = srv.conv

LEMMA TurnKeptOK ==
  ASSUME TurnOK, TurnKept
  PROVE  TurnOK'
BY DEF TurnOK, TurnKept

LEMMA QueueFrameTold ==
  ASSUME ServerType, Flags, NEW q \in Seq(Item), NEW busy \in BOOLEAN,
         publishReview(<<QueueState(q, busy, NoItem)>>), srv'.queue = q,
         srv'.active # NoItem => busy, busy => Work'
  PROVE  frames' \in Seq(Frame) /\ upset' \in BOOLEAN /\ QueueTold
<1> DEFINE f == QueueState(q, busy, NoItem)
<1>1. f \in Frame /\ <<f>> \in Seq(Frame)
  BY DEF QueueState, Frame
<1> HIDE DEF f
<1>2. /\ frames' \in Seq(Frame) /\ upset' \in BOOLEAN
      /\ ~upset' => ~upset /\ socket /\ frames' = frames \o <<f>>
  BY <1>1, PublishOK DEF f
<1>3. frames \o <<f>> = Append(frames, f)
  BY <1>1, AppendIsConcat DEF ServerType
<1>4. ASSUME ~upset'
      PROVE  /\ ~upset
             /\ \E b \in BOOLEAN : /\ frames' = Append(frames, QueueState(srv'.queue, b, NoItem))
                                   /\ srv'.active # NoItem => b
                                   /\ b => Work'
  BY <1>2, <1>3, <1>4 DEF f
<1> QED  BY <1>2, <1>4 DEF QueueTold

LEMMA EnqueueOK ==
  ASSUME TypeInv, NEW it \in Item, enqueueReactTurn(it)
  PROVE  /\ ServerStepOK /\ QueueTold /\ TurnKept /\ srv'.done = srv.done
         /\ srv'.alive /\ srv'.queue = Append(srv.queue, it)
<1> DEFINE q == Append(srv.queue, it)
<1>1. srv \in ServerState /\ TurnOK /\ srv.queue \in Seq(Item)
  BY DEF TypeInv, ServerType, ServerState
<1>2. q \in Seq(Item) /\ q # <<>>
  BY <1>1, AppendProperties
<1>3. srv' = [srv EXCEPT !.queue = q, !.alive = TRUE]
  BY DEF enqueueReactTurn
<1>4. publishReview(<<QueueState(q, TRUE, NoItem)>>)
  BY DEF enqueueReactTurn
<1> HIDE DEF q
<1>5. srv' \in ServerState
  BY <1>1, <1>2, <1>3 DEF ServerState
<1>6. srv'.queue = q /\ TurnKept
  BY <1>1, <1>3 DEF ServerState, TurnKept
<1>7. srv'.alive
  BY <1>1, <1>3 DEF ServerState
<1>8. srv'.done = srv.done
  BY <1>1, <1>3 DEF ServerState
<1>9. Work'
  BY <1>2, <1>6 DEF Work
<1>10. frames' \in Seq(Frame) /\ upset' \in BOOLEAN /\ QueueTold
  BY <1>2, <1>4, <1>6, <1>9, QueueFrameTold DEF TypeInv
<1>11. TurnOK'
  BY <1>1, <1>6, TurnKeptOK
<1> QED  BY <1>5, <1>6, <1>7, <1>8, <1>10, <1>11 DEF ServerStepOK, q

LEMMA DequeueOK ==
  ASSUME TypeInv, Dequeue
  PROVE  /\ ServerStepOK /\ srv'.done = srv.done /\ srv'.alive = srv.alive
         /\ srv.queue # <<>> /\ srv.active = NoItem /\ srv.alive
         /\ srv'.queue = Tail(srv.queue) /\ srv'.active = Head(srv.queue)
         /\ srv'.active \in Item
         /\ (srv'.turn = "running" => ~srv.done)
         /\ publishReview(<<QueueState(srv'.queue, TRUE, NoItem),
                            TurnFrame("begin", srv'.active, "open")>>)
<1> DEFINE it == Head(srv.queue)
           t == IF Runnable(it) THEN "running" ELSE "refused"
           cv == IF Runnable(it) THEN OpenRow(it) ELSE srv.conv
<1>1. /\ srv \in ServerState /\ TurnOK /\ srv.queue \in Seq(Item)
      /\ srv.conv \in Seq(Exchange(Saved))
  BY DEF TypeInv, ServerType, ServerState
<1>2. srv.alive /\ srv.active = NoItem /\ srv.queue # <<>>
  BY DEF Dequeue
<1>3. it \in Item /\ Tail(srv.queue) \in Seq(Item)
  BY <1>1, <1>2
<1>4. srv' = [srv EXCEPT !.queue = Tail(@), !.active = it, !.cancelled = FALSE,
                         !.turn = t, !.conv = cv]
  <2>1. srv' = [srv EXCEPT !.queue = Tail(@), !.active = it, !.cancelled = FALSE,
                  !.turn = t, !.conv = IF Runnable(it) THEN OpenRow(it) ELSE @]
    BY DEF Dequeue
  <2> HIDE DEF it, t
  <2> QED  BY <2>1
<1>5. cv \in Seq(Exchange(Saved)) /\ (Runnable(it) => cv # <<>>)
  <2>1. CASE ~Runnable(it)
    BY <1>1, <2>1
  <2>2. CASE Runnable(it) /\ it.retry > 0
    <3>1. srv.conv # <<>>
      BY <2>2 DEF Runnable
    <3>2. srv.conv[Len(srv.conv)] \in Exchange(Saved) /\ Len(srv.conv) \in 1..Len(srv.conv)
      BY <1>1, <3>1
    <3>3. [srv.conv[Len(srv.conv)] EXCEPT !.st = "open"] \in Exchange(Saved)
      BY <3>2 DEF Exchange, Saved
    <3>4. cv = [srv.conv EXCEPT ![Len(srv.conv)].st = "open"]
      BY <2>2 DEF OpenRow
    <3> HIDE DEF cv, it
    <3>5. cv \in Seq(Exchange(Saved)) /\ Len(cv) = Len(srv.conv)
      BY <1>1, <3>2, <3>3, <3>4
    <3> QED  BY <3>1, <3>2, <3>5
  <2>3. CASE Runnable(it) /\ ~(it.retry > 0)
    <3>1. [m |-> it.m, st |-> "open"] \in Exchange(Saved)
      BY <1>3 DEF Item, Exchange, Saved
    <3>2. cv = Append(srv.conv, [m |-> it.m, st |-> "open"])
      BY <2>3 DEF OpenRow
    <3> HIDE DEF cv, it
    <3> QED  BY <1>1, <3>1, <3>2, AppendProperties
  <2> QED  BY <2>1, <2>2, <2>3
<1>6. t \in {"running", "refused"} /\ (t = "running" => Runnable(it))
  OBVIOUS
<1>7. Runnable(it) => ~srv.done
  BY DEF Runnable
<1>8. publishReview(<<QueueState(Tail(srv.queue), TRUE, NoItem),
                      TurnFrame("begin", it, "open")>>)
  BY DEF Dequeue
<1> HIDE DEF it, t, cv
<1>9. srv' \in ServerState
  <2>1. it \in Item \cup {NoItem}
    BY <1>3
  <2> QED  BY <1>1, <1>3, <1>4, <1>5, <1>6, <2>1 DEF ServerState
<1>10. /\ srv'.queue = Tail(srv.queue) /\ srv'.active = it /\ srv'.turn = t
       /\ srv'.conv = cv
  BY <1>1, <1>4 DEF ServerState
<1>11. srv'.alive = srv.alive
  BY <1>1, <1>4 DEF ServerState
<1>12. srv'.done = srv.done
  BY <1>1, <1>4 DEF ServerState
<1>13. TurnOK'
  BY <1>3, <1>5, <1>6, <1>10, NoItemApart DEF TurnOK
<1>14. frames' \in Seq(Frame) /\ upset' \in BOOLEAN
  <2> DEFINE f == QueueState(Tail(srv.queue), TRUE, NoItem)
             g == TurnFrame("begin", it, "open")
  <2>1. f \in Frame /\ g \in Frame
    BY <1>3 DEF Frame, QueueState, TurnFrame
  <2>2. publishReview(<<f, g>>)
    BY <1>8
  <2> HIDE DEF f, g
  <2>3. <<f, g>> \in Seq(Frame)
    BY <2>1
  <2> QED  BY <2>2, <2>3, PublishOK DEF TypeInv
<1>15. srv'.turn = "running" => ~srv.done
  BY <1>6, <1>7, <1>10
<1> HIDE DEF Dequeue
<1> QED  BY <1>2, <1>3, <1>8, <1>9, <1>10, <1>11, <1>12, <1>13, <1>14, <1>15 DEF ServerStepOK, it

LEMMA SaveAnswerOK ==
  ASSUME TypeInv, NEW st \in Saved \ {"open"}, NEW done \in BOOLEAN,
         SaveAnswer(st, done)
  PROVE  /\ srv' \in ServerState /\ TurnOK' /\ srv.turn = "running"
         /\ srv'.queue = srv.queue /\ srv'.active = srv.active
         /\ srv'.turn = "answered" /\ srv'.alive = srv.alive
         /\ srv'.done = done
<1> DEFINE n == Len(srv.conv)
           cv == [srv.conv EXCEPT ![n].st = st]
<1>1. /\ srv \in ServerState /\ TurnOK /\ srv.conv \in Seq(Exchange(Saved))
      /\ srv.turn = "running" /\ srv.at \in Nat
  BY DEF TypeInv, ServerType, ServerState, SaveAnswer
<1>2. srv.conv # <<>> /\ n \in 1..n /\ n \in Nat
  BY <1>1 DEF TurnOK
<1>3. cv \in Seq(Exchange(Saved)) /\ Len(cv) = n /\ cv # <<>> /\ Last(cv).st = st
  <2>1. srv.conv[n] \in Exchange(Saved)
    BY <1>1, <1>2
  <2>2. [srv.conv[n] EXCEPT !.st = st] \in Exchange(Saved)
    BY <2>1 DEF Exchange
  <2>3. cv \in Seq(Exchange(Saved)) /\ Len(cv) = n
    BY <1>1, <1>2, <2>2
  <2>4. cv[n] = [srv.conv[n] EXCEPT !.st = st]
    BY <1>1, <1>2
  <2>5. cv[n].st = st
    BY <2>1, <2>4 DEF Exchange
  <2>6. cv # <<>>
    BY <1>2, <2>3
  <2> HIDE DEF cv
  <2> QED  BY <2>3, <2>5, <2>6 DEF Last
<1>4. srv' = [srv EXCEPT !.conv = cv, !.done = done, !.turn = "answered",
                         !.at = srv.at + 1]
  <2>1. srv' = [srv EXCEPT !.conv[Len(srv.conv)].st = st, !.done = done,
                           !.turn = "answered", !.at = @ + 1]
    BY DEF SaveAnswer
  <2> QED  BY <1>1, <2>1 DEF ServerState
<1> HIDE DEF cv
<1>5. srv' \in ServerState
  <2> DEFINE at == srv.at + 1
  <2>1. at \in Nat /\ cv \in Seq(Exchange(Saved)) /\ srv \in ServerState
    BY <1>1, <1>3
  <2>2. srv' = [srv EXCEPT !.conv = cv, !.done = done, !.turn = "answered", !.at = at]
    BY <1>4
  <2> HIDE DEF at
  <2> QED  BY <2>1, <2>2 DEF ServerState
<1>6. /\ srv'.queue = srv.queue /\ srv'.active = srv.active
      /\ srv'.turn = "answered" /\ srv'.conv = cv
  BY <1>1, <1>4 DEF ServerState
<1>7. srv'.alive = srv.alive
  BY <1>1, <1>4 DEF ServerState
<1>8. srv'.done = done
  BY <1>1, <1>4 DEF ServerState
<1>9. TurnOK'
  BY <1>1, <1>3, <1>6 DEF TurnOK
<1> QED  BY <1>1, <1>5, <1>6, <1>7, <1>8, <1>9

LEMMA EndTurnOK ==
  ASSUME TypeInv, EndTurn
  PROVE  /\ ServerStepOK /\ srv.active \in Item
         /\ srv'.queue = srv.queue /\ srv'.active = NoItem /\ srv'.turn = "none"
         /\ srv'.alive = srv.alive /\ srv'.done = srv.done
         /\ \E f \in Frame : /\ IsEnd(f) /\ publishReview(<<f>>)
                             /\ ~upset' => ~upset /\ frames' = Append(frames, f)
<1>1. srv \in ServerState /\ TurnOK /\ srv.conv \in Seq(Exchange(Saved))
  BY DEF TypeInv, ServerType, ServerState
<1>2. srv.turn \in {"answered", "refused"}
  BY DEF EndTurn
<1>3. srv.active \in Item
  BY <1>1, <1>2 DEF TurnOK, ServerState
<1> DEFINE st == CASE srv.turn = "answered" /\ Last(srv.conv).st # "int"
                        -> Last(srv.conv).st
                   [] srv.cancelled -> "cut"
                   [] OTHER -> "err"
           ev == IF st = "err" THEN "error" ELSE "done"
           f == TurnFrame(ev, srv.active, st)
<1>4. st \in Shown \ {"stream"}
  <2>1. CASE srv.turn = "answered"
    <3>1. srv.conv # <<>> /\ Last(srv.conv).st # "open"
      BY <1>1, <2>1 DEF TurnOK
    <3>2. srv.conv[Len(srv.conv)] \in Exchange(Saved)
      BY <1>1, <3>1
    <3>3. Last(srv.conv).st \in Saved \ {"open"}
      BY <3>1, <3>2 DEF Last, Exchange
    <3> HIDE DEF EndTurn
    <3> QED  BY <3>3 DEF Saved, Shown
  <2>2. CASE srv.turn # "answered"
    BY <2>2 DEF Shown
  <2> QED  BY <2>1, <2>2
<1>5. publishReview(<<f>>)
  BY DEF EndTurn
<1>6. srv' = [srv EXCEPT !.active = NoItem, !.turn = "none", !.cancelled = FALSE]
  BY DEF EndTurn
<1> HIDE DEF st
<1>7. f \in Frame /\ IsEnd(f)
  BY <1>3, <1>4 DEF Frame, TurnFrame, IsEnd
<1> HIDE DEF f
<1>8. <<f>> \in Seq(Frame) /\ frames \o <<f>> = Append(frames, f)
  BY <1>7, AppendIsConcat DEF TypeInv, ServerType
<1>9. /\ frames' \in Seq(Frame) /\ upset' \in BOOLEAN
      /\ ~upset' => ~upset /\ socket /\ frames' = frames \o <<f>>
  BY <1>5, <1>8, PublishOK DEF TypeInv
<1>10. srv' \in ServerState
  BY <1>1, <1>6 DEF ServerState
<1>11. /\ srv'.queue = srv.queue /\ srv'.active = NoItem /\ srv'.turn = "none"
  BY <1>1, <1>6 DEF ServerState
<1>12. srv'.alive = srv.alive
  BY <1>1, <1>6 DEF ServerState
<1>13. srv'.done = srv.done
  BY <1>1, <1>6 DEF ServerState
<1>14. TurnOK'
  BY <1>11 DEF TurnOK
<1>15. \E g \in Frame : /\ IsEnd(g) /\ publishReview(<<g>>)
                        /\ ~upset' => ~upset /\ frames' = Append(frames, g)
  BY <1>5, <1>7, <1>8, <1>9
<1> QED  BY <1>3, <1>9, <1>10, <1>11, <1>12, <1>13, <1>14, <1>15 DEF ServerStepOK

LEMMA DropOK ==
  ASSUME TypeInv, dropReviewSessionIfIdle
  PROVE  /\ srv' \in ServerState /\ TurnOK' /\ TurnKept /\ ~Work /\ ~Work'
         /\ srv'.queue = srv.queue /\ srv'.done = srv.done
<1>1. srv \in ServerState /\ TurnOK
  BY DEF TypeInv, ServerType
<1>2. /\ srv.active = NoItem /\ srv.queue = <<>>
      /\ srv' = [srv EXCEPT !.alive = FALSE]
  BY DEF dropReviewSessionIfIdle
<1>3. srv' \in ServerState
  BY <1>1, <1>2 DEF ServerState
<1>4. TurnKept /\ srv'.queue = srv.queue
  BY <1>1, <1>2 DEF ServerState, TurnKept
<1>5. srv'.done = srv.done
  BY <1>1, <1>2 DEF ServerState
<1>6. ~Work /\ ~Work'
  BY <1>2, <1>4 DEF Work, TurnKept
<1> QED  BY <1>1, <1>3, <1>4, <1>5, <1>6, TurnKeptOK

LEMMA RemoveOK ==
  ASSUME TypeInv, NEW r \in reqs, RemoveQueuedItem(r)
  PROVE  \/ UNCHANGED <<srv, frames, socket, upset>> /\ r.it \notin Rows(srv.queue)
         \/ /\ ServerStepOK /\ QueueTold /\ TurnKept /\ srv'.done = srv.done
            /\ srv'.alive = srv.alive /\ socket' = socket
            /\ srv'.queue = Keep(srv.queue, Rows(srv.queue) \ {r.it})
            /\ \E busy \in BOOLEAN :
                 publishReview(<<QueueState(srv'.queue, busy, NoItem)>>)
<1> DEFINE S == Rows(srv.queue) \ {r.it}
           rest == Keep(srv.queue, S)
           busy == srv.active # NoItem
<1>1. srv \in ServerState /\ TurnOK /\ srv.queue \in Seq(Item)
  BY DEF TypeInv, ServerType, ServerState
<1>2. rest \in Seq(Item) /\ Rows(rest) = Rows(srv.queue) \ {r.it}
  <2> HIDE DEF S
  <2>1. rest \in Seq(Item \cap S) /\ Rows(rest) = Rows(srv.queue) \cap S
    BY <1>1, KeepRows
  <2>2. rest \in Seq(Item)
    <3> HIDE DEF rest
    <3> QED  BY <2>1
  <2> QED  BY <2>1, <2>2 DEF S
<1>3. \/ rest = srv.queue /\ UNCHANGED <<srv, frames, socket, upset>>
      \/ /\ srv' = [srv EXCEPT !.queue = rest] /\ socket' = socket
         /\ publishReview(<<QueueState(rest, busy, NoItem)>>)
  BY DEF RemoveQueuedItem, server
<1> HIDE DEF rest, busy
<1>4. CASE rest = srv.queue /\ UNCHANGED <<srv, frames, socket, upset>>
  BY <1>2, <1>4
<1>5. CASE /\ srv' = [srv EXCEPT !.queue = rest] /\ socket' = socket
           /\ publishReview(<<QueueState(rest, busy, NoItem)>>)
  <2>1. srv' \in ServerState
    BY <1>1, <1>2, <1>5 DEF ServerState
  <2>2. TurnKept /\ srv'.queue = rest
    BY <1>1, <1>5 DEF ServerState, TurnKept
  <2>3. srv'.done = srv.done
    BY <1>1, <1>5 DEF ServerState
  <2>4. srv'.alive = srv.alive
    BY <1>1, <1>5 DEF ServerState
  <2>5. (srv'.active # NoItem => busy) /\ (busy => Work') /\ busy \in BOOLEAN
    BY <2>2 DEF TurnKept, Work, busy
  <2>6. frames' \in Seq(Frame) /\ upset' \in BOOLEAN /\ QueueTold
    BY <1>2, <1>5, <2>2, <2>5, QueueFrameTold DEF TypeInv
  <2>7. TurnOK'
    BY <1>1, <2>2, TurnKeptOK
  <2>8. \E b \in BOOLEAN : publishReview(<<QueueState(srv'.queue, b, NoItem)>>)
    BY <1>5, <2>2, <2>5
  <2> QED  BY <1>5, <2>1, <2>2, <2>3, <2>4, <2>6, <2>7, <2>8 DEF ServerStepOK, rest
<1> QED  BY <1>3, <1>4, <1>5

LEMMA CancelOK ==
  ASSUME TypeInv, ServerInv, NEW r \in reqs, cancelReactSession(r)
  PROVE  /\ ServerStepOK /\ QueueTold /\ TurnKept /\ srv'.done = srv.done
         /\ srv'.alive = srv.alive /\ srv'.queue \in {srv.queue, <<>>}
         /\ \E busy \in BOOLEAN :
              publishReview(<<QueueState(srv'.queue, busy, NoItem)>>)
<1> DEFINE rest == IF Kind = "review" THEN <<>> ELSE srv.queue
           busy == srv.active # NoItem
<1>1. srv \in ServerState /\ TurnOK /\ srv.queue \in Seq(Item)
  BY DEF TypeInv, ServerType, ServerState
<1>2. rest \in Seq(Item) /\ rest \in {srv.queue, <<>>}
  <2>1. <<>> \in Seq(Item)
    OBVIOUS
  <2> QED  BY <1>1, <2>1
<1>3. /\ srv' = IF srv.alive THEN [srv EXCEPT !.queue = rest, !.cancelled = TRUE]
                             ELSE srv
      /\ publishReview(<<QueueState(rest, busy, NoItem)>>)
  BY DEF cancelReactSession
<1> HIDE DEF rest, busy
<1>4. ~srv.alive => srv.queue = <<>>
  BY DEF ServerInv, Work
<1>5. srv' \in ServerState
  BY <1>1, <1>2, <1>3 DEF ServerState
<1>6. TurnKept /\ srv'.queue = rest
  BY <1>1, <1>2, <1>3, <1>4 DEF ServerState, TurnKept
<1>7. srv'.done = srv.done
  BY <1>1, <1>3 DEF ServerState
<1>8. srv'.alive = srv.alive
  BY <1>1, <1>3 DEF ServerState
<1>9. (srv'.active # NoItem => busy) /\ (busy => Work') /\ busy \in BOOLEAN
  BY <1>6 DEF TurnKept, Work, busy
<1>10. frames' \in Seq(Frame) /\ upset' \in BOOLEAN /\ QueueTold
  BY <1>2, <1>3, <1>6, <1>9, QueueFrameTold DEF TypeInv
<1>11. TurnOK'
  BY <1>1, <1>6, TurnKeptOK
<1>12. \E b \in BOOLEAN : publishReview(<<QueueState(srv'.queue, b, NoItem)>>)
  BY <1>3, <1>6, <1>9
<1> QED  BY <1>2, <1>5, <1>6, <1>7, <1>8, <1>10, <1>11, <1>12 DEF ServerStepOK

LEMMA FinishOK ==
  ASSUME TypeInv, NEW r \in reqs, FinishServed(r)
  PROVE  /\ srv' \in ServerState /\ TurnOK' /\ TurnKept
         /\ srv'.queue = srv.queue /\ srv'.alive = srv.alive
         /\ \/ /\ ~srv.done /\ srv.active = NoItem /\ srv.queue = <<>>
               /\ srv'.done /\ chat' = chat
            \/ srv' = srv /\ chat' = WatchConfirmError(chat)
<1>1. srv \in ServerState /\ TurnOK
  BY DEF TypeInv, ServerType
<1>2. CASE /\ ~srv.done /\ srv.active = NoItem /\ srv.queue = <<>>
           /\ srv' = [srv EXCEPT !.done = TRUE] /\ chat' = chat
  <2>1. srv' \in ServerState
    BY <1>1, <1>2 DEF ServerState
  <2>2. TurnKept /\ srv'.queue = srv.queue
    BY <1>1, <1>2 DEF ServerState, TurnKept
  <2>3. srv'.done
    BY <1>1, <1>2 DEF ServerState
  <2>4. srv'.alive = srv.alive
    BY <1>1, <1>2 DEF ServerState
  <2> QED  BY <1>1, <1>2, <2>1, <2>2, <2>3, <2>4, TurnKeptOK
<1>3. CASE srv' = srv /\ chat' = WatchConfirmError(chat)
  BY <1>1, <1>3 DEF TurnKept, TurnOK
<1> QED  BY <1>2, <1>3 DEF FinishServed

-----------------------------------------------------------------------------
(* What a step of the page does to its chat                                *)

LEMMA RestoreOK ==
  ASSUME NEW c, ChatOK(c), NEW conv, NEW s \in Session, NEW d, d = Restore(c, conv, s)
  PROVE  /\ ChatOK(d) /\ d.validating = c.validating
         /\ ~s.on => d = c
         /\ s.on /\ s.items = <<>> /\ ~s.busy /\ s.act = NoItem
              => Stopped(d) /\ ~d.thinking
         /\ s.on /\ s.busy => d.queued = Panel(s.items)
<1>1. /\ s.items \in Seq(Item) /\ s.act \in Item \cup {NoItem}
  BY DEF Session
<1>2. s.busy \in BOOLEAN /\ s.on \in BOOLEAN
  BY DEF Session
<1>3. CASE ~s.on
  BY <1>3 DEF Restore
<1>4. CASE s.on
  <2> DEFINE items == s.items
             busy == s.busy
             act == s.act
  <2>1. d = applyQueueState(c, conv, items, busy, act)
    BY <1>4 DEF Restore
  <2>2. items \in Seq(Item) /\ act \in Item \cup {NoItem}
    BY <1>1
  <2>3. busy \in BOOLEAN
    BY <1>2
  <2> HIDE DEF items, busy, act
  <2>4. /\ ChatOK(d) /\ d.validating = c.validating
        /\ items = <<>> /\ ~busy /\ act = NoItem => Stopped(d) /\ ~d.thinking
        /\ busy => d.queued = Panel(items)
    BY <2>1, <2>2, <2>3, QueueStateOK
  <2> QED  BY <1>4, <2>4 DEF items, busy, act
<1> QED  BY <1>3, <1>4

\* Rows with a server id that the panel may gain: none.
NoNewRow == \A q \in Rows(chat'.queued) : q.id => q \in Rows(chat.queued)

LEMMA SendMessageOK ==
  ASSUME TypeInv, NEW m \in Messages, sendMessage(m)
  PROVE  /\ ChatOK(chat') /\ chat'.validating = chat.validating /\ NoNewRow
<1> DEFINE row == [it |-> [m |-> m, retry |-> 0], id |-> FALSE]
           q == Append(chat.queued, row)
           t == TRUE
<1>1. ChatOK(chat) /\ chat.queued \in Seq(ChatRow)
  BY DEF TypeInv, PageType, ChatOK, Chats
<1>2. row \in ChatRow /\ ~row.id
  BY ChatAssumption DEF ChatRow, Item
<1>3. chat' = WithPanel(chat, q, t)
  BY DEF sendMessage, WithPanel
<1> HIDE DEF row
<1>4. /\ q \in Seq(ChatRow) /\ Len(q) = Len(chat.queued) + 1
      /\ \A n \in 1..Len(chat.queued) : q[n] = chat.queued[n]
      /\ q[Len(chat.queued) + 1] = row
  BY <1>1, <1>2, AppendProperties
<1>5. t \in BOOLEAN /\ Len(chat.queued) \in Nat
  BY <1>1
<1> HIDE DEF q, t
<1>6. ChatOK(chat') /\ chat'.queued = q
  BY <1>1, <1>3, <1>4, <1>5, SetPanel
<1>7. chat'.validating = chat.validating
  BY <1>1, <1>3, <1>4, <1>5, SetPanel
<1>8. NoNewRow
  <2> SUFFICES ASSUME NEW n \in 1..Len(q), q[n].id
               PROVE  q[n] \in Rows(chat.queued)
    BY <1>6 DEF NoNewRow, Rows
  <2>1. n \in 1..Len(chat.queued) \/ n = Len(chat.queued) + 1
    BY <1>4, <1>5
  <2> QED  BY <1>2, <1>4, <2>1 DEF Rows
<1> QED  BY <1>6, <1>7, <1>8

LEMMA CancelQueuedOK ==
  ASSUME TypeInv, NEW n \in 1..Len(chat.queued), cancelQueuedItem(n)
  PROVE  /\ ChatOK(chat') /\ chat'.validating = chat.validating /\ NoNewRow
         /\ chat.queued # <<>> /\ chat.queued[n] \in ChatRow
<1> DEFINE q == RemoveAt(chat.queued, n)
           t == chat.liveAgentIdx > 0 \/ q # <<>>
<1>1. ChatOK(chat) /\ chat.queued \in Seq(ChatRow)
  BY DEF TypeInv, PageType, ChatOK, Chats
<1>2. chat' = WithPanel(chat, q, t)
  BY DEF cancelQueuedItem, WithPanel
<1>3. q \in Seq(ChatRow) /\ Rows(q) \subseteq Rows(chat.queued)
  BY <1>1, RemoveRow
<1>4. t \in BOOLEAN
  OBVIOUS
<1> HIDE DEF q, t
<1>5. ChatOK(chat') /\ chat'.queued = q
  BY <1>1, <1>2, <1>3, <1>4, SetPanel
<1>6. chat'.validating = chat.validating
  BY <1>1, <1>2, <1>3, <1>4, SetPanel
<1>7. NoNewRow
  BY <1>3, <1>5 DEF NoNewRow
<1>8. chat.queued # <<>> /\ chat.queued[n] \in ChatRow
  BY <1>1
<1> QED  BY <1>5, <1>6, <1>7, <1>8

LEMMA CancelReviewOK ==
  ASSUME TypeInv, cancelReview
  PROVE  /\ ChatOK(chat') /\ chat'.validating = chat.validating /\ NoNewRow
         /\ chat'.queued \in {chat.queued, <<>>} /\ chat'.liveAgentIdx = 0
         /\ chat'.thinking => chat'.queued # <<>>
<1> DEFINE b == IF Kind = "review" THEN [chat EXCEPT !.queued = <<>>] ELSE chat
           c == Stop(b, "int")
           t == c.queued # <<>>
<1>1. ChatOK(chat) /\ chat \in Chats
  BY DEF TypeInv, PageType, ChatOK
<1>2. chat' = WithThinking(c, t)
  BY DEF cancelReview, WithThinking
<1>3. ChatOK(b) /\ b.queued \in {chat.queued, <<>>} /\ b.validating = chat.validating
  <2>1. CASE Kind # "review"
    BY <1>1, <2>1
  <2>2. CASE Kind = "review"
    <3> DEFINE q == <<>>
               u == chat.thinking
    <3>1. q \in Seq(ChatRow) /\ u \in BOOLEAN
      BY <1>1 DEF Chats
    <3>2. b = WithPanel(chat, q, u)
      BY <1>1, <2>2 DEF Chats, WithPanel
    <3> HIDE DEF b, q, u
    <3>3. ChatOK(b) /\ b.queued = q
      BY <1>1, <3>1, <3>2, SetPanel
    <3>4. b.validating = chat.validating
      BY <1>1, <3>1, <3>2, SetPanel
    <3> QED  BY <3>3, <3>4 DEF q
  <2> QED  BY <2>1, <2>2
<1> HIDE DEF b
<1>4. /\ ChatOK(c) /\ c.queued = b.queued /\ c.validating = b.validating
      /\ c.liveAgentIdx = 0
  BY <1>3, StopOK DEF SamePanel, Shown
<1> HIDE DEF c
<1>5. t \in BOOLEAN
  OBVIOUS
<1> HIDE DEF t
<1>6. ChatOK(chat') /\ chat'.queued = c.queued /\ chat'.liveAgentIdx = c.liveAgentIdx
  BY <1>2, <1>4, <1>5, SetThinking
<1>7. chat'.thinking = t
  BY <1>2, <1>4, <1>5, SetThinking
<1>8. chat'.validating = c.validating
  BY <1>2, <1>4, <1>5, SetThinking
<1>9. chat'.queued \in {chat.queued, <<>>}
  BY <1>3, <1>4, <1>6
<1>10. NoNewRow
  BY <1>9 DEF NoNewRow, Rows
<1>11. chat'.validating = chat.validating
  BY <1>3, <1>4, <1>8
<1>12. chat'.thinking => chat'.queued # <<>>
  BY <1>6, <1>7 DEF t
<1> QED  BY <1>4, <1>6, <1>9, <1>10, <1>11, <1>12

LEMMA FinishEarlyOK ==
  ASSUME TypeInv, finishEarly
  PROVE  /\ ChatOK(chat') /\ chat'.queued = chat.queued
         /\ chat'.liveAgentIdx = chat.liveAgentIdx
<1> DEFINE t == IF Kind = "review" THEN chat.thinking ELSE TRUE
           v == IF Kind = "review" THEN TRUE ELSE chat.validating
<1>1. ChatOK(chat) /\ chat \in Chats
  BY DEF TypeInv, PageType, ChatOK
<1>2. chat' = WithSpinners(chat, t, v)
  <2>1. CASE Kind = "review"
    <3>1. chat' = [chat EXCEPT !.validating = TRUE]
      BY <2>1 DEF finishEarly
    <3> QED  BY <1>1, <2>1, <3>1 DEF WithSpinners, Chats
  <2>2. CASE Kind # "review"
    <3>1. chat' = [chat EXCEPT !.thinking = TRUE]
      BY <2>2 DEF finishEarly
    <3> QED  BY <1>1, <2>2, <3>1 DEF WithSpinners, Chats
  <2> QED  BY <2>1, <2>2
<1>3. t \in BOOLEAN
  BY <1>1 DEF Chats
<1>4. v \in BOOLEAN
  BY <1>1 DEF Chats
<1> HIDE DEF t, v
<1> QED  BY <1>1, <1>2, <1>3, <1>4, SpinnersOK

LEMMA RetryOK ==
  ASSUME TypeInv, retryLastFailed
  PROVE  /\ ChatOK(chat') /\ chat'.queued = chat.queued
         /\ chat'.validating = chat.validating
         /\ \E m \in Messages :
              reqs' = reqs \cup {Request("retry", [m |-> m, retry |-> trouble'])}
<1> DEFINE row == displayTurns[Len(displayTurns)]
           m == row.m
           c == Stream(chat, m)
           t == TRUE
<1>1. ChatOK(chat) /\ chat.live \in Seq(Exchange(Shown)) /\ run.conv \in Seq(Exchange(Saved))
  BY DEF TypeInv, PageType, ChatOK, Chats, Detail
<1>2. displayTurns \in Seq(TurnRow)
  BY <1>1, ScreenType DEF displayTurns
<1>3. displayTurns # <<>>
  BY DEF retryLastFailed
<1>4. row \in TurnRow
  <2> DEFINE s == displayTurns
  <2>1. s \in Seq(TurnRow) /\ s # <<>>
    BY <1>2, <1>3
  <2> HIDE DEF s
  <2>2. s[Len(s)] \in TurnRow
    BY <2>1
  <2> QED  BY <2>2 DEF s
<1>5. m \in Messages
  <2> HIDE DEF row
  <2> QED  BY <1>4 DEF TurnRow
<1>6. /\ chat' = WithThinking(c, t)
      /\ reqs' = reqs \cup {Request("retry", [m |-> m, retry |-> trouble'])}
  BY DEF retryLastFailed, Last, WithThinking
<1>7. t \in BOOLEAN
  OBVIOUS
<1> HIDE DEF m, row
<1>8. ChatOK(c) /\ c.queued = chat.queued /\ c.validating = chat.validating
  BY <1>1, <1>5, StreamOK DEF SamePanel
<1> HIDE DEF c, t
<1>9. ChatOK(chat') /\ chat'.queued = c.queued
  BY <1>6, <1>7, <1>8, SetThinking
<1>10. chat'.validating = c.validating
  BY <1>6, <1>7, <1>8, SetThinking
<1>11. chat'.validating = chat.validating
  BY <1>8, <1>10
<1> QED  BY <1>5, <1>6, <1>8, <1>9, <1>11

LEMMA LandLoadOK ==
  ASSUME TypeInv, NEW n \in 1..Len(answers), LandLoad(n)
  PROVE  /\ ChatOK(chat') /\ chat'.queued = chat.queued
         /\ chat'.liveAgentIdx \in {0, chat.liveAgentIdx}
         /\ (chat'.thinking => chat.thinking) /\ (chat'.validating => chat.validating)
         /\ run'.done /\ ~run.done => ~chat'.thinking /\ ~chat'.validating
         /\ run' = answers[n].r /\ ~answers[n].landed /\ answers[n] \in Answer
         /\ answers' \in Seq(Answer) /\ Len(answers') = Len(answers)
         /\ \A i \in 1..Len(answers) :
              answers'[i].r = answers[i].r
              /\ (i # n => answers'[i] = answers[i])
         /\ answers'[n].landed
<1> DEFINE r == answers[n].r
           c == WatchPersisted(chat, run, r)
           a == [answers[n] EXCEPT !.landed = TRUE]
<1>1. ChatOK(chat) /\ answers \in Seq(Answer) /\ Len(answers) \in Nat
  BY DEF TypeInv, PageType
<1>2. /\ ~answers[n].landed /\ answers' = [answers EXCEPT ![n].landed = TRUE]
      /\ run' = r /\ chat' = WatchDone(c, run, r)
  BY DEF LandLoad
<1>3. answers[n] \in Answer
  BY <1>1
<1>4. a \in Answer /\ a.r = r /\ a.landed
  <2>1. a \in Answer /\ a.r = r
    BY <1>3 DEF Answer
  <2>2. a.landed
    BY <1>3 DEF Answer
  <2> QED  BY <2>1, <2>2
<1>5. answers' = [answers EXCEPT ![n] = a]
  BY <1>2
<1> HIDE DEF a
<1>6. /\ answers' \in Seq(Answer) /\ Len(answers') = Len(answers)
      /\ \A j \in 1..Len(answers) : answers'[j] = IF j = n THEN a ELSE answers[j]
  BY <1>1, <1>4, <1>5, ExceptSeq
<1>7. \A i \in 1..Len(answers) : /\ answers'[i].r = answers[i].r
                                 /\ i # n => answers'[i] = answers[i]
  BY <1>4, <1>6
<1>8. answers'[n].landed
  BY <1>4, <1>6
<1>9. ~answers[n].landed
  BY <1>2
<1> HIDE DEF r
<1>10. /\ ChatOK(c) /\ c.queued = chat.queued /\ c.validating = chat.validating
       /\ c.liveAgentIdx \in {0, chat.liveAgentIdx} /\ (c.thinking => chat.thinking)
  BY <1>1, WatchPersistedOK
<1> HIDE DEF c
<1>11. /\ ChatOK(chat') /\ chat'.queued = c.queued /\ chat'.liveAgentIdx = c.liveAgentIdx
       /\ (chat'.thinking => c.thinking) /\ (chat'.validating => c.validating)
       /\ r.done /\ ~run.done => ~chat'.thinking /\ ~chat'.validating
  BY <1>2, <1>10, WatchDoneOK
<1>12. run'.done = r.done
  BY <1>2
<1>13. run'.done /\ ~run.done => ~chat'.thinking /\ ~chat'.validating
  BY <1>11, <1>12
<1>14. chat'.thinking => chat.thinking
  BY <1>10, <1>11
<1>15. chat'.validating => chat.validating
  BY <1>10, <1>11
<1>16. run' = answers[n].r
  BY <1>2 DEF r
<1>17. chat'.queued = chat.queued /\ chat'.liveAgentIdx \in {0, chat.liveAgentIdx}
  BY <1>10, <1>11
<1> QED  BY <1>3, <1>6, <1>7, <1>8, <1>9, <1>11, <1>13, <1>14, <1>15, <1>16, <1>17

\* The frame that is received, by its kind.
LEMMA HeadFrame ==
  ASSUME TypeInv, frames # <<>>
  PROVE  /\ Head(frames) = frames[1] /\ frames[1] \in Frame
         /\ frames[1].busy \in BOOLEAN /\ frames[1].items \in Seq(Item)
         /\ frames[1].ev = "begin" => frames[1].act \in Item /\ frames[1].busy
         /\ IsEnd(frames[1]) => frames[1].st \in Shown \ {"stream"}
         /\ IsQ(frames[1]) => frames[1].act \in Item \cup {NoItem}
         /\ frames[1].ev \in {"queue", "snapshot", "begin", "done", "error"}
<1> DEFINE f == frames[1]
<1>1. Head(frames) = f /\ f \in Frame
  BY DEF TypeInv, ServerType
<1> HIDE DEF f
<1>2. f.busy \in BOOLEAN
  BY <1>1 DEF Frame
<1>3. f.items \in Seq(Item)
  <2>1. <<>> \in Seq(Item)
    OBVIOUS
  <2> QED  BY <1>1, <2>1 DEF Frame
<1>4. f.ev = "begin" => f.act \in Item
  BY <1>1 DEF Frame
<1>5. f.ev = "begin" => f.busy
  BY <1>1 DEF Frame
<1>6. IsEnd(f) => f.st \in Shown \ {"stream"}
  BY <1>1 DEF Frame, IsEnd
<1>7. IsQ(f) => f.act \in Item \cup {NoItem}
  BY <1>1 DEF Frame, IsQ
<1>8. f.ev \in {"queue", "snapshot", "begin", "done", "error"}
  BY <1>1 DEF Frame
<1> QED  BY <1>1, <1>2, <1>3, <1>4, <1>5, <1>6, <1>7, <1>8 DEF f

LEMMA ReceiveOK ==
  ASSUME TypeInv, Receive
  PROVE  LET f == frames[1] IN
         /\ ChatOK(chat') /\ chat'.validating = chat.validating
         /\ f.ev = "begin" =>
              \/ chat'.queued = chat.queued
              \/ \E n \in 1..Len(chat.queued) :
                   /\ chat.queued[n].id /\ chat.queued[n].it = f.act
                   /\ chat'.queued = RemoveAt(chat.queued, n)
         /\ IsEnd(f) =>
              /\ chat'.liveAgentIdx = 0 /\ (chat'.thinking => chat'.queued # <<>>)
              /\ Rows(chat'.queued) = {q \in Rows(chat.queued) : q.id}
              /\ (\A n \in 1..Len(chat.queued) : chat.queued[n].id)
                   => chat'.queued = chat.queued
         /\ IsQ(f) =>
              /\ f.items = <<>> /\ ~f.busy /\ f.act = NoItem
                   => Stopped(chat') /\ ~chat'.thinking
              /\ f.busy => chat'.queued = Panel(f.items)
<1> DEFINE f == frames[1]
<1>1. /\ Head(frames) = f /\ f.busy \in BOOLEAN /\ f.items \in Seq(Item)
      /\ f.ev = "begin" => f.act \in Item
      /\ IsEnd(f) => f.st \in Shown \ {"stream"}
      /\ IsQ(f) => f.act \in Item \cup {NoItem}
      /\ f.ev \in {"queue", "snapshot", "begin", "done", "error"}
  BY HeadFrame DEF Receive
<1>2. ChatOK(chat)
  BY DEF TypeInv, PageType
<1>3. chat' = CASE f.ev = "begin" -> turn_begin(chat, f.act)
                [] f.ev \in {"done", "error"} -> EndFrame(chat, f.st)
                [] OTHER -> applyQueueState(chat, run.conv, f.items, f.busy, f.act)
  BY <1>1 DEF Receive
<1> HIDE DEF f
<1>4. CASE f.ev = "begin"
  <2> DEFINE it == f.act
  <2>1. chat' = turn_begin(chat, it) /\ it \in Item
    BY <1>1, <1>3, <1>4
  <2> HIDE DEF it
  <2>2. /\ ChatOK(chat') /\ chat'.validating = chat.validating /\ chat'.thinking
        /\ \/ chat'.queued = chat.queued
           \/ \E n \in 1..Len(chat.queued) :
                /\ chat.queued[n].id /\ chat.queued[n].it = it
                /\ chat'.queued = RemoveAt(chat.queued, n)
    BY <1>2, <2>1, BeginOK
  <2> QED  BY <1>4, <2>2 DEF IsEnd, IsQ, it, f
<1>5. CASE IsEnd(f)
  <2> DEFINE st == f.st
  <2>1. chat' = EndFrame(chat, st) /\ st \in Shown
    BY <1>1, <1>3, <1>5 DEF IsEnd
  <2> HIDE DEF st
  <2>2. /\ ChatOK(chat') /\ chat'.validating = chat.validating
        /\ chat'.liveAgentIdx = 0 /\ (chat'.thinking => chat'.queued # <<>>)
        /\ Rows(chat'.queued) = {q \in Rows(chat.queued) : q.id}
        /\ (\A n \in 1..Len(chat.queued) : chat.queued[n].id)
              => chat'.queued = chat.queued
    BY <1>2, <2>1, EndOK
  <2> QED  BY <1>5, <2>2 DEF IsEnd, IsQ, f
<1>6. CASE IsQ(f)
  <2> DEFINE items == f.items
             busy == f.busy
             act == f.act
             conv == run.conv
  <2>1. chat' = applyQueueState(chat, conv, items, busy, act)
    BY <1>3, <1>6 DEF IsQ
  <2>2. items \in Seq(Item) /\ busy \in BOOLEAN /\ act \in Item \cup {NoItem}
    BY <1>1, <1>6
  <2> HIDE DEF items, busy, act, conv
  <2>3. /\ ChatOK(chat') /\ chat'.validating = chat.validating
        /\ items = <<>> /\ ~busy /\ act = NoItem => Stopped(chat') /\ ~chat'.thinking
        /\ busy => chat'.queued = Panel(items)
    BY <1>2, <2>1, <2>2, QueueStateOK
  <2> QED  BY <1>6, <2>3 DEF IsEnd, IsQ, items, busy, act, f
<1>7. f.ev = "begin" \/ IsEnd(f) \/ IsQ(f)
  BY <1>1 DEF IsEnd, IsQ
<1> QED  BY <1>4, <1>5, <1>6, <1>7 DEF f

-----------------------------------------------------------------------------
(* Every step keeps the types                                              *)

LEMMA ServedType ==
  ASSUME TypeInv, NEW r \in reqs, NEW k, Serve(r, k)
  PROVE  /\ reqs' \subseteq Requests /\ reqs' = reqs \ {r} /\ r.k = k
         /\ k \in {"send", "retry", "remove"} => r.it \in Item
         /\ k \in {"cancel", "finish"} => r.it = NoItem
         /\ r = Request(k, r.it)
<1>1. reqs \subseteq Requests /\ r \in Requests
  BY DEF TypeInv, ServerType
<1>2. reqs' = reqs \ {r} /\ r.k = k
  BY DEF Serve
<1> QED  BY <1>1, <1>2 DEF Requests, Request

\* Steps of the server that leave the page and its requests alone.
LEMMA ServerSteps ==
  ASSUME TypeInv, srv' \in ServerState, TurnOK', frames' \in Seq(Frame),
         upset' \in BOOLEAN, unsent' \subseteq Messages, trouble' \in 0..MaxTrouble,
         reqs' \subseteq Requests,
         UNCHANGED <<socket, asked, answers, run, liveBusy, chat>>
  PROVE  TypeInv'
<1>1. ServerType'
  BY DEF ServerType, TurnOK
<1>2. PageType'
  BY DEF TypeInv, PageType, ChatOK, Streaming
<1>3. Flags'
  BY DEF TypeInv, Flags
<1> QED  BY <1>1, <1>2, <1>3 DEF TypeInv

\* Steps of the page that leave the server alone.
LEMMA PageSteps ==
  ASSUME TypeInv, UNCHANGED <<srv, frames>>, unsent' \subseteq Messages,
         trouble' \in 0..MaxTrouble, reqs' \subseteq Requests,
         {socket', upset', asked', liveBusy'} \subseteq BOOLEAN,
         answers' \in Seq(Answer), Len(answers') <= MaxGets, run' \in Detail,
         ChatOK(chat')
  PROVE  TypeInv'
<1>1. ServerType'
  BY DEF TypeInv, ServerType, TurnOK
<1>2. PageType'
  BY DEF PageType, ChatOK, Streaming
<1>3. Flags'
  BY DEF Flags
<1> QED  BY <1>1, <1>2, <1>3 DEF TypeInv

TypeParts ==
  /\ unsent \subseteq Messages /\ trouble \in 0..MaxTrouble /\ trouble \in Nat
  /\ MaxTrouble \in Nat
  /\ reqs \subseteq Requests /\ frames \in Seq(Frame) /\ srv \in ServerState /\ TurnOK
  /\ {socket, upset, asked, liveBusy} \subseteq BOOLEAN
  /\ answers \in Seq(Answer) /\ Len(answers) <= MaxGets /\ run \in Detail
  /\ ChatOK(chat)

LEMMA TypePartsOK == TypeInv => TypeParts
<1> SUFFICES ASSUME TypeInv PROVE TypeParts
  OBVIOUS
<1>1. MaxTrouble \in Nat
  BY ChatAssumption
<1>2. ServerType /\ PageType /\ Flags
  BY DEF TypeInv
<1>3. trouble \in Nat
  BY <1>1, <1>2 DEF ServerType
<1> QED  BY <1>1, <1>2, <1>3 DEF TypeParts, ServerType, PageType, Flags

LEMMA TroubleType ==
  ASSUME TypeParts, Trouble
  PROVE  /\ trouble' \in 0..MaxTrouble /\ trouble' = trouble + 1
         /\ trouble' \in 1..MaxTrouble
BY DEF TypeParts, Trouble

\* The item that a retry is queued as: the last human row, run again.
RetryOf(it) == [it EXCEPT !.m = Last(srv.conv).m]

LEMMA RetryItem ==
  ASSUME TypeInv, ReqsOnce, NEW r \in reqs, RetryServed(r)
  PROVE  RetryOf(r.it) \in Item /\ RetryOf(r.it).retry = r.it.retry /\ r.it.retry > 0
<1>1. /\ Serve(r, "retry") /\ Runnable(r.it) /\ TypeParts
      /\ srv.conv \in Seq(Exchange(Saved))
  BY TypePartsOK DEF RetryServed, TypeParts, ServerState
<1>2. r.it \in Item
  BY <1>1, ServedType
<1>3. r.it.retry \in 1..trouble
  BY <1>1 DEF ReqsOnce, Serve
<1>4. r.it.retry > 0
  BY <1>1, <1>3 DEF TypeParts
<1>5. srv.conv # <<>>
  BY <1>1, <1>4 DEF Runnable
<1>6. srv.conv[Len(srv.conv)] \in Exchange(Saved)
  BY <1>1, <1>5
<1>7. Last(srv.conv).m \in Messages
  BY <1>6 DEF Last, Exchange
<1> QED  BY <1>2, <1>4, <1>7 DEF Item, RetryOf

\* Steps of the socket, which change frames, page and chat together.
LEMMA SocketSteps ==
  ASSUME TypeInv, UNCHANGED <<srv, unsent>>, frames' \in Seq(Frame),
         trouble' \in 0..MaxTrouble, reqs' \subseteq Requests,
         {socket', upset', asked', liveBusy'} \subseteq BOOLEAN,
         answers' \in Seq(Answer), Len(answers') <= MaxGets, run' \in Detail,
         ChatOK(chat')
  PROVE  TypeInv'
<1>1. ServerType'
  BY DEF TypeInv, ServerType, TurnOK
<1>2. PageType'
  BY DEF PageType, ChatOK, Streaming
<1>3. Flags'
  BY DEF Flags
<1> QED  BY <1>1, <1>2, <1>3 DEF TypeInv

LEMMA ConnectType ==
  ASSUME TypeInv
  PROVE  /\ ConnectFrames \in Seq(Frame)
         /\ srv.alive => \E f, g \in Frame :
              /\ ConnectFrames = <<f, g>> /\ f.ev = "snapshot" /\ g.ev = "queue"
              /\ f.items = srv.queue /\ g.items = srv.queue
              /\ f.act = srv.active /\ g.act = srv.active
              /\ f.busy = (srv.active # NoItem) /\ g.busy = (srv.active # NoItem)
         /\ ~srv.alive => ConnectFrames = <<>>
<1> DEFINE s == ReactSessions
           f == SnapshotFrame(s)
           g == QueueState(s.items, s.busy, s.act)
<1>1. /\ s \in Session /\ s.on = srv.alive
      /\ srv.alive => /\ s.items = srv.queue /\ s.busy = (srv.active # NoItem)
                      /\ s.act = srv.active
      /\ ~srv.alive => s = NoSession
  BY SessionType DEF TypeInv
<1>2. ConnectFrames = IF s.on THEN <<f, g>> ELSE <<>>
  BY DEF ConnectFrames
<1> HIDE DEF s
<1>3. s.busy \in BOOLEAN
  BY <1>1 DEF Session
<1>4. s.items \in Seq(Item) /\ s.act \in Item \cup {NoItem}
  BY <1>1 DEF Session
<1>5. f \in Frame /\ g \in Frame
  BY <1>3, <1>4 DEF Frame, SnapshotFrame, QueueState
<1>6. /\ f.ev = "snapshot" /\ g.ev = "queue" /\ f.items = s.items /\ g.items = s.items
      /\ f.act = s.act /\ g.act = s.act
  BY DEF SnapshotFrame, QueueState
<1>7. f.busy = s.busy
  BY DEF SnapshotFrame
<1>8. g.busy = s.busy
  BY DEF QueueState
<1> HIDE DEF f, g
<1>9. <<f, g>> \in Seq(Frame) /\ <<>> \in Seq(Frame)
  BY <1>5
<1>10. ConnectFrames \in Seq(Frame)
  BY <1>2, <1>9
<1>11. ASSUME srv.alive
       PROVE  \E h, k \in Frame :
                /\ ConnectFrames = <<h, k>> /\ h.ev = "snapshot" /\ k.ev = "queue"
                /\ h.items = srv.queue /\ k.items = srv.queue
                /\ h.act = srv.active /\ k.act = srv.active
                /\ h.busy = (srv.active # NoItem) /\ k.busy = (srv.active # NoItem)
  <2>1. s.on /\ s.items = srv.queue /\ s.act = srv.active
    BY <1>1, <1>11
  <2>2. s.busy = (srv.active # NoItem)
    BY <1>1, <1>11
  <2>3. ConnectFrames = <<f, g>>
    BY <1>2, <2>1
  <2>4. f.busy = (srv.active # NoItem) /\ g.busy = (srv.active # NoItem)
    BY <1>7, <1>8, <2>2
  <2> QED  BY <1>5, <1>6, <2>1, <2>3, <2>4
<1>12. ~srv.alive => ConnectFrames = <<>>
  BY <1>1, <1>2
<1> QED  BY <1>10, <1>11, <1>12

LEMMA ReceiveType ==
  ASSUME TypeInv, Receive
  PROVE  TypeInv'
<1> DEFINE f == frames[1]
           s == [on |-> TRUE, busy |-> f.busy, items |-> f.items, act |-> f.act]
<1>1. TypeParts
  BY TypePartsOK
<1>2. /\ frames # <<>> /\ Head(frames) = f /\ f.busy \in BOOLEAN /\ f.items \in Seq(Item)
      /\ IsQ(f) => f.act \in Item \cup {NoItem}
  BY HeadFrame DEF Receive
<1>3. /\ frames' = Tail(frames)
      /\ run' = IF f.ev = "snapshot" THEN [run EXCEPT !.sess = s] ELSE run
      /\ UNCHANGED <<unsent, srv, socket, reqs, answers, trouble, upset>>
  BY <1>2 DEF Receive
<1>4. liveBusy' = (f.busy /\ f.ev \notin {"done", "error"})
  BY <1>2 DEF Receive
<1>5. asked' = (asked \/ f.ev \in {"done", "error"})
  BY <1>2 DEF Receive
<1>6. frames' \in Seq(Frame)
  BY <1>1, <1>2, <1>3 DEF TypeParts
<1> HIDE DEF f
<1>7. f.ev = "snapshot" => s \in Session
  BY <1>2 DEF Session, IsQ
<1> HIDE DEF s
<1>8. run' \in Detail
  BY <1>1, <1>3, <1>7 DEF TypeParts, Detail
<1>9. liveBusy' \in BOOLEAN
  BY <1>4
<1>10. asked' \in BOOLEAN
  BY <1>5
<1>11. {socket', upset', asked', liveBusy'} \subseteq BOOLEAN
  BY <1>1, <1>3, <1>9, <1>10 DEF TypeParts
<1>12. ChatOK(chat')
  BY ReceiveOK
<1> QED  BY <1>1, <1>3, <1>6, <1>8, <1>11, <1>12, SocketSteps DEF TypeParts

LEMMA DropsType ==
  ASSUME TypeInv, SocketDrops
  PROVE  TypeInv'
<1>1. TypeParts
  BY TypePartsOK
<1>2. /\ Trouble /\ socket' = FALSE /\ frames' = <<>>
      /\ UNCHANGED <<unsent, srv, reqs, asked, answers, run, liveBusy, chat>>
  BY DEF SocketDrops
<1>3. upset' = (upset \/ frames # <<>>)
  BY DEF SocketDrops
<1>4. trouble' \in 0..MaxTrouble
  BY <1>1, <1>2, TroubleType
<1>5. upset' \in BOOLEAN /\ frames' \in Seq(Frame)
  BY <1>2, <1>3
<1>6. {socket', upset', asked', liveBusy'} \subseteq BOOLEAN
  BY <1>1, <1>2, <1>5 DEF TypeParts
<1> QED  BY <1>1, <1>2, <1>4, <1>5, <1>6, SocketSteps DEF TypeParts

LEMMA ReconnectType ==
  ASSUME TypeInv, Reconnect
  PROVE  TypeInv' /\ ChatOK(chat')
<1> DEFINE s == run.sess
           conv == run.conv
<1>1. TypeParts
  BY TypePartsOK
<1>2. /\ socket' = TRUE /\ frames' = ConnectFrames
      /\ chat' = Restore(chat, conv, s) /\ liveBusy' \in {s.busy, liveBusy}
      /\ UNCHANGED <<unsent, srv, reqs, asked, answers, run, trouble>>
  BY DEF Reconnect
<1>3. upset' = (upset \/ (s.on /\ s # ReactSessions))
  BY DEF Reconnect
<1>4. s \in Session
  BY <1>1 DEF TypeParts, Detail
<1>5. s.busy \in BOOLEAN
  BY <1>4 DEF Session
<1> HIDE DEF s, conv
<1>6. ChatOK(chat')
  BY <1>1, <1>2, <1>4, RestoreOK DEF TypeParts
<1>7. frames' \in Seq(Frame)
  BY <1>2, ConnectType
<1>8. upset' \in BOOLEAN
  BY <1>3
<1>9. liveBusy' \in BOOLEAN
  BY <1>1, <1>2, <1>5 DEF TypeParts
<1>10. {socket', upset', asked', liveBusy'} \subseteq BOOLEAN
  BY <1>1, <1>2, <1>8, <1>9 DEF TypeParts
<1> QED  BY <1>1, <1>2, <1>6, <1>7, <1>10, SocketSteps DEF TypeParts

LEMMA NewChatOK == /\ ChatOK(NewChat) /\ Stopped(NewChat)
                   /\ ~NewChat.thinking /\ ~NewChat.validating
<1>1. <<>> \in Seq(ChatRow) /\ <<>> \in Seq(Exchange(Shown))
  OBVIOUS
<1>2. NewChat \in Chats
  BY <1>1 DEF NewChat, Chats
<1>3. Streaming(NewChat) /\ Stopped(NewChat)
  BY DEF NewChat, Streaming, Stopped
<1>4. ~NewChat.thinking /\ ~NewChat.validating
  BY DEF NewChat
<1> QED  BY <1>2, <1>3, <1>4 DEF ChatOK

LEMMA RefreshType ==
  ASSUME TypeInv, Refresh
  PROVE  TypeInv' /\ ChatOK(chat')
<1> DEFINE s == ReactSessions
           conv == srv.conv
<1>1. TypeParts
  BY TypePartsOK
<1>2. /\ Trouble /\ run' = runDetail /\ answers' = <<>> /\ asked' = FALSE
      /\ reqs' = {} /\ chat' = Restore(NewChat, conv, s)
      /\ socket' = TRUE /\ frames' = ConnectFrames /\ upset' = FALSE
      /\ UNCHANGED <<unsent, srv>>
  BY DEF Refresh
<1>3. liveBusy' = (srv.active # NoItem)
  BY DEF Refresh
<1>4. s \in Session /\ runDetail \in Detail
  BY SessionType DEF TypeInv
<1> HIDE DEF s, conv
<1>5. ChatOK(chat')
  BY <1>2, <1>4, NewChatOK, RestoreOK
<1>6. frames' \in Seq(Frame)
  BY <1>2, ConnectType
<1>7. liveBusy' \in BOOLEAN
  BY <1>3
<1>8. {socket', upset', asked', liveBusy'} \subseteq BOOLEAN
  BY <1>2, <1>7
<1>9. trouble' \in 0..MaxTrouble
  BY <1>1, <1>2, TroubleType
<1>10. answers' \in Seq(Answer) /\ Len(answers') <= MaxGets /\ reqs' \subseteq Requests
  BY <1>2, ChatAssumption
<1> QED  BY <1>2, <1>4, <1>5, <1>6, <1>8, <1>9, <1>10, SocketSteps

LEMMA TypeNext ==
  ASSUME TypeInv, ServerInv, ReqsOnce, Next
  PROVE  TypeInv'
<1>1. TypeParts
  BY TypePartsOK
<1>2. ASSUME NEW m \in Messages, SendElsewhere(m) PROVE TypeInv'
  <2> DEFINE it == [m |-> m, retry |-> 0]
  <2>1. it \in Item
    BY <1>1 DEF Item, TypeParts
  <2>2. enqueueReactTurn(it) /\ unsent' = unsent \ {m}
        /\ UNCHANGED <<socket, reqs, asked, answers, run, liveBusy, chat, trouble>>
    BY <1>2 DEF SendElsewhere
  <2> HIDE DEF it
  <2>3. ServerStepOK
    BY <2>1, <2>2, EnqueueOK
  <2> QED  BY <1>1, <2>2, <2>3, ServerSteps DEF TypeParts, ServerStepOK
<1>3. ASSUME NEW m \in Messages, sendMessage(m) PROVE TypeInv'
  <2> DEFINE it == [m |-> m, retry |-> 0]
             q == Request("send", it)
  <2>1. q \in Requests
    BY <1>1 DEF Item, TypeParts, Requests, Request
  <2>2. /\ UNCHANGED <<srv, frames, socket, upset, asked, answers, run, liveBusy, trouble>>
        /\ unsent' = unsent \ {m} /\ reqs' = reqs \cup {q}
    BY <1>3 DEF sendMessage, server, page
  <2> HIDE DEF q
  <2>3. ChatOK(chat')
    BY <1>3, SendMessageOK
  <2> QED  BY <1>1, <2>1, <2>2, <2>3, PageSteps DEF TypeParts
<1>4. ASSUME Dequeue PROVE TypeInv'
  <2>1. ServerStepOK
    BY <1>4, DequeueOK
  <2>2. UNCHANGED <<unsent, socket, reqs, asked, answers, run, liveBusy, chat, trouble>>
    BY <1>4 DEF Dequeue
  <2> QED  BY <1>1, <2>1, <2>2, ServerSteps DEF TypeParts, ServerStepOK
<1>5. ASSUME EndTurn PROVE TypeInv'
  <2>1. ServerStepOK
    BY <1>5, EndTurnOK
  <2>2. UNCHANGED <<unsent, socket, reqs, asked, answers, run, liveBusy, chat, trouble>>
    BY <1>5 DEF EndTurn
  <2> QED  BY <1>1, <2>1, <2>2, ServerSteps DEF TypeParts, ServerStepOK
<1>6. ASSUME dropReviewSessionIfIdle PROVE TypeInv'
  <2>1. srv' \in ServerState /\ TurnOK'
    BY <1>6, DropOK
  <2>2. UNCHANGED <<unsent, frames, socket, reqs, asked, answers, run, liveBusy,
                    chat, trouble, upset>>
    BY <1>6 DEF dropReviewSessionIfIdle
  <2> QED  BY <1>1, <2>1, <2>2, ServerSteps DEF TypeParts
<1>7. ASSUME NEW st \in Saved \ {"open"}, NEW done \in BOOLEAN, SaveAnswer(st, done)
      PROVE  TypeInv'
  <2>1. srv' \in ServerState /\ TurnOK'
    BY <1>7, SaveAnswerOK
  <2>2. UNCHANGED <<unsent, frames, socket, reqs, asked, answers, run, liveBusy,
                    chat, trouble, upset>>
    BY <1>7 DEF SaveAnswer
  <2> QED  BY <1>1, <2>1, <2>2, ServerSteps DEF TypeParts
<1>8. ASSUME NEW n \in 1..Len(chat.queued), cancelQueuedItem(n) PROVE TypeInv'
  <2> DEFINE q == Request("remove", chat.queued[n].it)
  <2>1. ChatOK(chat') /\ chat.queued[n] \in ChatRow
    BY <1>8, CancelQueuedOK
  <2>2. q \in Requests
    BY <2>1 DEF ChatRow, Requests, Request
  <2>3. /\ UNCHANGED <<srv, frames, socket, upset, asked, answers, run, liveBusy, unsent>>
        /\ reqs' \in {reqs, reqs \cup {q}} /\ Trouble
    BY <1>8 DEF cancelQueuedItem, server, page
  <2> HIDE DEF q
  <2>4. trouble' \in 0..MaxTrouble
    BY <1>1, <2>3, TroubleType
  <2> QED  BY <1>1, <2>1, <2>2, <2>3, <2>4, PageSteps DEF TypeParts
<1>9. ASSUME cancelReview PROVE TypeInv'
  <2> DEFINE q == Request("cancel", NoItem)
  <2>1. ChatOK(chat')
    BY <1>9, CancelReviewOK
  <2>2. q \in Requests
    BY DEF Requests, Request
  <2>3. /\ UNCHANGED <<srv, frames, socket, upset, asked, answers, run, liveBusy, unsent>>
        /\ reqs' = reqs \cup {q} /\ Trouble
    BY <1>9 DEF cancelReview, server, page
  <2> HIDE DEF q
  <2>4. trouble' \in 0..MaxTrouble
    BY <1>1, <2>3, TroubleType
  <2> QED  BY <1>1, <2>1, <2>2, <2>3, <2>4, PageSteps DEF TypeParts
<1>10. ASSUME finishEarly PROVE TypeInv'
  <2> DEFINE q == Request("finish", NoItem)
  <2>1. ChatOK(chat')
    BY <1>10, FinishEarlyOK
  <2>2. q \in Requests
    BY DEF Requests, Request
  <2>3. /\ UNCHANGED <<srv, frames, socket, upset, asked, answers, run, liveBusy, unsent>>
        /\ reqs' = reqs \cup {q} /\ Trouble
    BY <1>10 DEF finishEarly, server, page
  <2> HIDE DEF q
  <2>4. trouble' \in 0..MaxTrouble
    BY <1>1, <2>3, TroubleType
  <2> QED  BY <1>1, <2>1, <2>2, <2>3, <2>4, PageSteps DEF TypeParts
<1>11. ASSUME retryLastFailed PROVE TypeInv'
  <2>1. /\ UNCHANGED <<srv, frames, socket, upset, asked, answers, run, liveBusy, unsent>>
        /\ Trouble
    BY <1>11 DEF retryLastFailed, server, page
  <2>2. trouble' \in 0..MaxTrouble
    BY <1>1, <2>1, TroubleType
  <2>3. PICK m \in Messages :
          reqs' = reqs \cup {Request("retry", [m |-> m, retry |-> trouble'])}
    BY <1>11, RetryOK
  <2>4. Request("retry", [m |-> m, retry |-> trouble']) \in Requests
    BY <2>2 DEF Requests, Request, Item
  <2>5. ChatOK(chat')
    BY <1>11, RetryOK
  <2> QED  BY <1>1, <2>1, <2>2, <2>3, <2>4, <2>5, PageSteps DEF TypeParts
<1>12. ASSUME NEW r \in reqs, SendServed(r) PROVE TypeInv'
  <2>1. /\ Serve(r, "send") /\ enqueueReactTurn(r.it)
        /\ UNCHANGED <<unsent, socket, asked, answers, run, liveBusy, chat, trouble>>
    BY <1>12 DEF SendServed, page
  <2>2. r.it \in Item /\ reqs' \subseteq Requests
    BY <2>1, ServedType
  <2>3. ServerStepOK
    BY <2>1, <2>2, EnqueueOK
  <2> QED  BY <1>1, <2>1, <2>2, <2>3, ServerSteps DEF TypeParts, ServerStepOK
<1>13. ASSUME NEW r \in reqs, SendFails(r) PROVE TypeInv'
  <2>1. /\ Serve(r, "send") /\ (UNCHANGED trouble \/ Trouble) /\ upset' = TRUE
        /\ UNCHANGED <<unsent, srv, frames, socket, asked, answers, run, liveBusy>>
        /\ chat' = WatchConfirmError(discardLastQueued(chat))
    BY <1>13 DEF SendFails, page
  <2>2. trouble' \in 0..MaxTrouble
    BY <1>1, <2>1, TroubleType DEF TypeParts
  <2>3. reqs' \subseteq Requests
    BY <2>1, ServedType
  <2>4. ChatOK(chat')
    <3>1. ChatOK(discardLastQueued(chat))
      BY <1>1, DiscardOK DEF TypeParts
    <3> QED  BY <2>1, <3>1, ConfirmErrorOK
  <2> QED  BY <1>1, <2>1, <2>2, <2>3, <2>4, PageSteps DEF TypeParts
<1>14. ASSUME NEW r \in reqs, RetryServed(r) PROVE TypeInv'
  <2> DEFINE it == RetryOf(r.it)
  <2>1. /\ Serve(r, "retry") /\ enqueueReactTurn(it) /\ Runnable(r.it)
        /\ UNCHANGED <<unsent, socket, asked, answers, run, liveBusy, chat, trouble>>
    BY <1>14 DEF RetryServed, page, RetryOf
  <2>2. r.it \in Item /\ reqs' \subseteq Requests
    BY <2>1, ServedType
  <2>3. it \in Item
    BY <1>14, RetryItem
  <2> HIDE DEF it
  <2>4. ServerStepOK
    BY <2>1, <2>3, EnqueueOK
  <2> QED  BY <1>1, <2>1, <2>2, <2>4, ServerSteps DEF TypeParts, ServerStepOK
<1>15. ASSUME NEW r \in reqs, RetryFails(r) PROVE TypeInv'
  <2>1. /\ Serve(r, "retry") /\ (UNCHANGED trouble \/ Trouble) /\ upset' = TRUE
        /\ UNCHANGED <<unsent, srv, frames, socket, asked, answers, run, liveBusy>>
        /\ chat' = WatchConfirmError(chat)
    BY <1>15 DEF RetryFails, page
  <2>2. trouble' \in 0..MaxTrouble
    BY <1>1, <2>1, TroubleType DEF TypeParts
  <2>3. reqs' \subseteq Requests
    BY <2>1, ServedType
  <2>4. ChatOK(chat')
    BY <1>1, <2>1, ConfirmErrorOK DEF TypeParts
  <2> QED  BY <1>1, <2>1, <2>2, <2>3, <2>4, PageSteps DEF TypeParts
<1>16. ASSUME NEW r \in reqs, RemoveQueuedItem(r) PROVE TypeInv'
  <2>1. /\ Serve(r, "remove")
        /\ UNCHANGED <<unsent, asked, answers, run, liveBusy, chat, trouble>>
    BY <1>16 DEF RemoveQueuedItem, page
  <2>2. reqs' \subseteq Requests
    BY <2>1, ServedType
  <2>3. \/ UNCHANGED <<srv, frames, socket, upset>>
        \/ ServerStepOK /\ socket' = socket
    BY <1>16, RemoveOK
  <2>4. CASE UNCHANGED <<srv, frames, socket, upset>>
    BY <1>1, <2>1, <2>2, <2>4, PageSteps DEF TypeParts
  <2>5. CASE ServerStepOK /\ socket' = socket
    BY <1>1, <2>1, <2>2, <2>5, ServerSteps DEF TypeParts, ServerStepOK
  <2> QED  BY <2>3, <2>4, <2>5
<1>17. ASSUME NEW r \in reqs, cancelReactSession(r) PROVE TypeInv'
  <2>1. /\ Serve(r, "cancel")
        /\ UNCHANGED <<unsent, socket, asked, answers, run, liveBusy, chat, trouble>>
    BY <1>17 DEF cancelReactSession, page
  <2>2. reqs' \subseteq Requests
    BY <2>1, ServedType
  <2>3. ServerStepOK
    BY <1>17, CancelOK
  <2> QED  BY <1>1, <2>1, <2>2, <2>3, ServerSteps DEF TypeParts, ServerStepOK
<1>18. ASSUME NEW r \in reqs, FinishServed(r) PROVE TypeInv'
  <2>1. /\ Serve(r, "finish") /\ asked' = TRUE
        /\ UNCHANGED <<unsent, frames, socket, answers, run, liveBusy, trouble, upset>>
    BY <1>18 DEF FinishServed
  <2>2. reqs' \subseteq Requests
    BY <2>1, ServedType
  <2>3. /\ srv' \in ServerState /\ TurnOK'
        /\ chat' = chat \/ chat' = WatchConfirmError(chat)
    BY <1>18, FinishOK
  <2>4. ChatOK(chat')
    BY <1>1, <2>3, ConfirmErrorOK DEF TypeParts
  <2>5. ServerType'
    BY <1>1, <2>1, <2>2, <2>3 DEF TypeParts, ServerType, TurnOK
  <2>6. PageType'
    BY <1>1, <2>1, <2>4 DEF TypeParts, PageType, ChatOK, Streaming
  <2>7. Flags'
    BY <1>1, <2>1 DEF TypeParts, Flags
  <2> QED  BY <2>5, <2>6, <2>7 DEF TypeInv
<1>19. ASSUME PollTick PROVE TypeInv'
  <2>1. /\ asked' = TRUE
        /\ UNCHANGED <<unsent, srv, frames, socket, upset, reqs, answers, run,
                       liveBusy, chat, trouble>>
    BY <1>19 DEF PollTick, server
  <2> QED  BY <1>1, <2>1, PageSteps DEF TypeParts
<1>20. ASSUME ReadLoad PROVE TypeInv'
  <2> DEFINE a == [r |-> runDetail, landed |-> FALSE]
  <2>1. /\ asked' = FALSE /\ Len(answers) < MaxGets /\ answers' = Append(answers, a)
        /\ UNCHANGED <<unsent, srv, frames, socket, upset, reqs, run, liveBusy,
                       chat, trouble>>
    BY <1>20 DEF ReadLoad, server
  <2>2. runDetail \in Detail
    BY SessionType DEF TypeInv
  <2>3. a \in Answer
    BY <2>2 DEF Answer
  <2> HIDE DEF a
  <2>4. answers' \in Seq(Answer) /\ Len(answers') = Len(answers) + 1 /\ Len(answers) \in Nat
    BY <1>1, <2>1, <2>3, AppendProperties DEF TypeParts
  <2>5. Len(answers') <= MaxGets
    BY <2>1, <2>4, ChatAssumption
  <2> QED  BY <1>1, <2>1, <2>4, <2>5, PageSteps DEF TypeParts
<1>21. ASSUME NEW n \in 1..Len(answers), LandLoad(n) PROVE TypeInv'
  <2>1. UNCHANGED <<unsent, srv, frames, socket, upset, reqs, asked, liveBusy, trouble>>
    BY <1>21 DEF LandLoad, server
  <2>2. /\ ChatOK(chat') /\ run' = answers[n].r /\ answers[n] \in Answer
        /\ answers' \in Seq(Answer) /\ Len(answers') = Len(answers)
    BY <1>21, LandLoadOK
  <2>3. run' \in Detail
    BY <2>2 DEF Answer
  <2> QED  BY <1>1, <2>1, <2>2, <2>3, PageSteps DEF TypeParts
<1>22. ASSUME NEW n \in 1..Len(answers), RestoreLanded(n) PROVE TypeInv'
  <2> DEFINE s == answers[n].r.sess
  <2>1. /\ answers' = RemoveAt(answers, n) /\ chat' = Restore(chat, run.conv, s)
        /\ liveBusy' \in {s.busy, liveBusy}
        /\ UNCHANGED <<unsent, srv, frames, socket, reqs, asked, run, trouble>>
    BY <1>22 DEF RestoreLanded
  <2>2. upset' = (upset \/ OutOfStep(s))
    BY <1>22 DEF RestoreLanded
  <2>3. answers[n] \in Answer /\ Len(answers) \in Nat
    BY <1>1 DEF TypeParts
  <2>4. s \in Session
    BY <2>3 DEF Answer, Detail
  <2>5. s.busy \in BOOLEAN
    BY <2>4 DEF Session
  <2> HIDE DEF s
  <2>6. ChatOK(chat')
    BY <1>1, <2>1, <2>4, RestoreOK DEF TypeParts
  <2>7. answers' \in Seq(Answer) /\ Len(answers') = Len(answers) - 1
    BY <1>1, <2>1, RemoveRow DEF TypeParts
  <2>8. Len(answers') <= MaxGets
    BY <1>1, <2>3, <2>7, ChatAssumption DEF TypeParts
  <2>9. upset' \in BOOLEAN
    BY <2>2
  <2>10. liveBusy' \in BOOLEAN
    BY <1>1, <2>1, <2>5 DEF TypeParts
  <2>11. {socket', upset', asked', liveBusy'} \subseteq BOOLEAN
    BY <1>1, <2>1, <2>9, <2>10 DEF TypeParts
  <2> QED  BY <1>1, <2>1, <2>6, <2>7, <2>8, <2>11, PageSteps DEF TypeParts
<1>23. ASSUME NEW n \in 1..Len(answers), DropLoad(n) PROVE TypeInv'
  <2>1. /\ answers' = RemoveAt(answers, n)
        /\ UNCHANGED <<unsent, srv, frames, socket, upset, reqs, asked, run,
                       liveBusy, chat, trouble>>
    BY <1>23 DEF DropLoad, server
  <2>2. answers' \in Seq(Answer) /\ Len(answers') = Len(answers) - 1 /\ Len(answers) \in Nat
    BY <1>1, <2>1, RemoveRow DEF TypeParts
  <2>3. Len(answers') <= MaxGets
    BY <1>1, <2>2, ChatAssumption DEF TypeParts
  <2> QED  BY <1>1, <2>1, <2>2, <2>3, PageSteps DEF TypeParts
<1>24. ASSUME Receive PROVE TypeInv'
  BY <1>24, ReceiveType
<1>25. ASSUME SocketDrops PROVE TypeInv'
  BY <1>25, DropsType
<1>26. ASSUME Reconnect PROVE TypeInv'
  BY <1>26, ReconnectType
<1>27. ASSUME Refresh PROVE TypeInv'
  BY <1>27, RefreshType
<1> QED
  BY <1>2, <1>3, <1>4, <1>5, <1>6, <1>7, <1>8, <1>9, <1>10, <1>11, <1>12, <1>13,
     <1>14, <1>15, <1>16, <1>17, <1>18, <1>19, <1>20, <1>21, <1>22, <1>23, <1>24,
     <1>25, <1>26, <1>27 DEF Next

LEMMA AppendedRows ==
  ASSUME NEW S, NEW q \in Seq(S), NEW x \in S
  PROVE  Rows(Append(q, x)) = Rows(q) \cup {x}
<1>1. /\ Len(Append(q, x)) = Len(q) + 1 /\ Append(q, x)[Len(q) + 1] = x
      /\ \A n \in 1..Len(q) : Append(q, x)[n] = q[n]
  BY AppendProperties
<1>2. Len(q) \in Nat
  OBVIOUS
<1>3. \A n \in 1..Len(q) + 1 : n \in 1..Len(q) \/ n = Len(q) + 1
  BY <1>2
<1>4. Rows(Append(q, x)) \subseteq Rows(q) \cup {x}
  BY <1>1, <1>3 DEF Rows
<1>5. Rows(q) \cup {x} \subseteq Rows(Append(q, x))
  <2>1. \A n \in 1..Len(q) : n \in 1..Len(q) + 1
    BY <1>2
  <2>2. Len(q) + 1 \in 1..Len(q) + 1
    BY <1>2
  <2> QED  BY <1>1, <2>1, <2>2 DEF Rows
<1> QED  BY <1>4, <1>5

-----------------------------------------------------------------------------
(* The server, its frames and what finishes, whatever the page missed      *)

PageKept == UNCHANGED <<run, answers>>

LEMMA RunReceived ==
  ASSUME TypeInv, Receive
  PROVE  run'.done = run.done /\ answers' = answers /\ srv' = srv
<1> DEFINE s == [on |-> TRUE, busy |-> Head(frames).busy, items |-> Head(frames).items,
                 act |-> Head(frames).act]
<1>1. /\ run' = IF Head(frames).ev = "snapshot" THEN [run EXCEPT !.sess = s] ELSE run
      /\ answers' = answers /\ srv' = srv
  BY DEF Receive
<1> HIDE DEF s
<1>2. run \in Detail
  BY DEF TypeInv, PageType
<1>3. run'.done = run.done
  BY <1>1, <1>2 DEF Detail
<1> QED  BY <1>1, <1>3

LEMMA ServerNext ==
  ASSUME TypeInv, ServerInv, ReqsOnce, Next
  PROVE  ServerInv'
<1>1. TypeParts
  BY TypePartsOK
<1> DEFINE Loads == /\ run'.done => srv'.done
                    /\ \A a \in Rows(answers') : a.r.done => srv'.done
<1>2. ASSUME PageKept, srv.done => srv'.done PROVE Loads
  BY <1>2 DEF PageKept, ServerInv
<1>3. ASSUME srv' = srv, Loads PROVE ServerInv'
  BY <1>3 DEF ServerInv, Work
<1>4. ASSUME srv' = srv, PageKept PROVE ServerInv'
  BY <1>2, <1>3, <1>4
<1>5. ASSUME NEW it \in Item, enqueueReactTurn(it), PageKept PROVE ServerInv'
  <2>1. srv'.alive /\ TurnKept /\ srv'.done = srv.done
    BY <1>5, EnqueueOK
  <2>2. Loads
    BY <1>2, <1>5, <2>1
  <2> QED  BY <2>1, <2>2 DEF ServerInv, TurnKept
<1>6. ASSUME NEW m \in Messages, SendElsewhere(m) \/ sendMessage(m) PROVE ServerInv'
  <2>1. CASE SendElsewhere(m)
    <3> DEFINE it == [m |-> m, retry |-> 0]
    <3>1. it \in Item
      BY <1>1 DEF Item, TypeParts
    <3>2. enqueueReactTurn(it) /\ PageKept
      BY <2>1 DEF SendElsewhere, PageKept
    <3> HIDE DEF it
    <3> QED  BY <1>5, <3>1, <3>2
  <2>2. CASE sendMessage(m)
    BY <1>4, <2>2 DEF sendMessage, server, page, PageKept
  <2> QED  BY <1>6, <2>1, <2>2
<1>7. ASSUME Dequeue PROVE ServerInv'
  <2>1. /\ srv'.done = srv.done /\ srv'.alive = srv.alive /\ srv.alive
        /\ (srv'.turn = "running" => ~srv.done)
    BY <1>7, DequeueOK
  <2>2. Loads
    BY <1>2, <1>7, <2>1 DEF Dequeue, PageKept
  <2> QED  BY <2>1, <2>2 DEF ServerInv
<1>8. ASSUME EndTurn PROVE ServerInv'
  <2>1. /\ srv'.queue = srv.queue /\ srv'.active = NoItem /\ srv'.turn = "none"
    BY <1>8, EndTurnOK
  <2>2. srv'.alive = srv.alive
    BY <1>8, EndTurnOK
  <2>3. srv'.done = srv.done
    BY <1>8, EndTurnOK
  <2>4. Loads
    BY <1>2, <1>8, <2>3 DEF EndTurn, PageKept
  <2>5. ~srv'.alive => ~Work'
    BY <2>1, <2>2 DEF ServerInv, Work
  <2> QED  BY <2>1, <2>4, <2>5 DEF ServerInv
<1>9. ASSUME dropReviewSessionIfIdle PROVE ServerInv'
  <2>1. ~Work' /\ TurnKept
    BY <1>9, DropOK
  <2>2. srv'.done = srv.done
    BY <1>9, DropOK
  <2>3. Loads
    BY <1>2, <1>9, <2>2 DEF dropReviewSessionIfIdle, PageKept
  <2> QED  BY <2>1, <2>2, <2>3 DEF ServerInv, TurnKept
<1>10. ASSUME NEW st \in Saved \ {"open"}, NEW done \in BOOLEAN, SaveAnswer(st, done)
       PROVE  ServerInv'
  <2>1. /\ srv.turn = "running" /\ srv'.queue = srv.queue /\ srv'.active = srv.active
        /\ srv'.turn = "answered"
    BY <1>10, SaveAnswerOK
  <2>2. srv'.alive = srv.alive
    BY <1>10, SaveAnswerOK
  <2>3. ~srv.done
    BY <2>1 DEF ServerInv
  <2>4. Loads
    BY <1>2, <1>10, <2>3 DEF SaveAnswer, PageKept
  <2>5. ~srv'.alive => ~Work'
    BY <2>1, <2>2 DEF ServerInv, Work
  <2> QED  BY <2>1, <2>4, <2>5 DEF ServerInv
<1>11. ASSUME NEW n \in 1..Len(chat.queued), cancelQueuedItem(n) PROVE ServerInv'
  BY <1>4, <1>11 DEF cancelQueuedItem, server, page, PageKept
<1>12. ASSUME cancelReview \/ finishEarly \/ retryLastFailed PROVE ServerInv'
  BY <1>4, <1>12 DEF cancelReview, finishEarly, retryLastFailed, server, page, PageKept
<1>13. ASSUME NEW r \in reqs, SendServed(r) PROVE ServerInv'
  <2>1. r.it \in Item
    BY <1>13, ServedType DEF SendServed
  <2> QED  BY <1>5, <1>13, <2>1 DEF SendServed, page, PageKept
<1>14. ASSUME NEW r \in reqs, RetryServed(r) PROVE ServerInv'
  <2>1. RetryOf(r.it) \in Item
    BY <1>14, RetryItem
  <2>2. enqueueReactTurn(RetryOf(r.it))
    BY <1>14 DEF RetryServed, RetryOf
  <2> QED  BY <1>5, <1>14, <2>1, <2>2 DEF RetryServed, page, PageKept
<1>15. ASSUME NEW r \in reqs, SendFails(r) \/ RetryFails(r) PROVE ServerInv'
  BY <1>4, <1>15 DEF SendFails, RetryFails, page, PageKept
<1>16. ASSUME NEW r \in reqs, RemoveQueuedItem(r) PROVE ServerInv'
  <2>1. PageKept
    BY <1>16 DEF RemoveQueuedItem, page, PageKept
  <2>2. CASE srv' = srv
    BY <1>4, <2>1, <2>2
  <2>3. CASE srv' # srv
    <3>1. /\ TurnKept /\ srv'.done = srv.done /\ srv'.alive = srv.alive
          /\ srv'.queue = Keep(srv.queue, Rows(srv.queue) \ {r.it})
      BY <1>16, <2>3, RemoveOK
    <3>2. Loads
      BY <1>2, <2>1, <3>1
    <3>3. srv.queue = <<>> => srv'.queue = <<>>
      <4> SUFFICES ASSUME srv.queue = <<>> PROVE srv'.queue = <<>>
        OBVIOUS
      <4> DEFINE S == Rows(srv.queue) \ {r.it}
      <4>1. srv.queue \in Seq(Item) /\ Rows(srv.queue) \cap S = {}
        BY <1>1 DEF TypeParts, ServerState, Rows
      <4>2. srv'.queue = Keep(srv.queue, S)
        BY <3>1
      <4> HIDE DEF S
      <4> QED  BY <4>1, <4>2, KeepNone
    <3> QED  BY <3>1, <3>2, <3>3 DEF ServerInv, TurnKept, Work
  <2> QED  BY <2>2, <2>3
<1>17. ASSUME NEW r \in reqs, cancelReactSession(r) PROVE ServerInv'
  <2>1. /\ TurnKept /\ srv'.done = srv.done /\ srv'.alive = srv.alive
        /\ srv'.queue \in {srv.queue, <<>>}
    BY <1>17, CancelOK
  <2>2. Loads
    BY <1>2, <1>17, <2>1 DEF cancelReactSession, page, PageKept
  <2> QED  BY <2>1, <2>2 DEF ServerInv, TurnKept, Work
<1>18. ASSUME NEW r \in reqs, FinishServed(r) PROVE ServerInv'
  <2>1. TurnKept /\ srv'.queue = srv.queue
    BY <1>18, FinishOK
  <2>2. srv'.alive = srv.alive
    BY <1>18, FinishOK
  <2>3. \/ srv.active = NoItem /\ srv'.done
        \/ srv' = srv
    BY <1>18, FinishOK
  <2>4. PageKept
    BY <1>18 DEF FinishServed, PageKept
  <2>5. CASE srv' = srv
    BY <1>4, <2>4, <2>5
  <2>6. CASE srv.active = NoItem /\ srv'.done
    <3>1. Loads
      BY <1>2, <2>4, <2>6
    <3>2. srv'.turn # "running"
      BY <1>1, <2>1, <2>6 DEF TurnKept, TypeParts, TurnOK
    <3>3. ~srv'.alive => ~Work'
      BY <2>1, <2>2 DEF ServerInv, TurnKept, Work
    <3> QED  BY <3>1, <3>2, <3>3 DEF ServerInv
  <2> QED  BY <2>3, <2>5, <2>6
<1>19. ASSUME PollTick PROVE ServerInv'
  BY <1>4, <1>19 DEF PollTick, server, PageKept
<1>20. ASSUME ReadLoad PROVE ServerInv'
  <2> DEFINE a == [r |-> runDetail, landed |-> FALSE]
  <2>1. answers' = Append(answers, a) /\ srv' = srv /\ run' = run
    BY <1>20 DEF ReadLoad, server
  <2>2. runDetail.done = srv.done /\ runDetail \in Detail
    BY SessionType DEF TypeInv
  <2>3. a.r.done = srv.done
    BY <2>2
  <2>4. a \in Answer
    BY <2>2 DEF Answer
  <2> HIDE DEF a
  <2>5. Rows(answers') \subseteq Rows(answers) \cup {a}
    BY <1>1, <2>1, <2>4, AppendedRows DEF TypeParts
  <2>6. Loads
    BY <2>1, <2>3, <2>5 DEF ServerInv
  <2> QED  BY <1>3, <2>1, <2>6
<1>21. ASSUME NEW n \in 1..Len(answers), LandLoad(n) PROVE ServerInv'
  <2>1. /\ run' = answers[n].r /\ Len(answers') = Len(answers)
        /\ \A i \in 1..Len(answers) : answers'[i].r = answers[i].r
    BY <1>21, LandLoadOK
  <2>2. srv' = srv
    BY <1>21 DEF LandLoad, server
  <2>3. \A i \in 1..Len(answers) : answers[i].r.done => srv.done
    BY DEF ServerInv, Rows
  <2>4. Loads
    BY <2>1, <2>2, <2>3 DEF Rows
  <2> QED  BY <1>3, <2>2, <2>4
<1>22. ASSUME NEW n \in 1..Len(answers), RestoreLanded(n) \/ DropLoad(n) PROVE ServerInv'
  <2>1. answers' = RemoveAt(answers, n) /\ srv' = srv /\ run' = run
    BY <1>22 DEF RestoreLanded, DropLoad, server
  <2>2. Rows(answers') \subseteq Rows(answers)
    BY <1>1, <2>1, RemoveRow DEF TypeParts
  <2>3. Loads
    BY <2>1, <2>2 DEF ServerInv
  <2> QED  BY <1>3, <2>1, <2>3
<1>23. ASSUME Receive PROVE ServerInv'
  <2>1. run'.done = run.done /\ answers' = answers /\ srv' = srv
    BY <1>23, RunReceived
  <2>2. Loads
    BY <2>1 DEF ServerInv
  <2> QED  BY <1>3, <2>1, <2>2
<1>24. ASSUME SocketDrops \/ Reconnect PROVE ServerInv'
  BY <1>4, <1>24 DEF SocketDrops, Reconnect, PageKept
<1>25. ASSUME Refresh PROVE ServerInv'
  <2>1. run' = runDetail /\ answers' = <<>> /\ srv' = srv
    BY <1>25 DEF Refresh
  <2>2. runDetail.done = srv.done
    BY SessionType DEF TypeInv
  <2>3. Loads
    BY <2>1, <2>2 DEF Rows
  <2> QED  BY <1>3, <2>1, <2>3
<1> QED
  BY <1>6, <1>7, <1>8, <1>9, <1>10, <1>11, <1>12, <1>13, <1>14, <1>15, <1>16, <1>17,
     <1>18, <1>19, <1>20, <1>21, <1>22, <1>23, <1>24, <1>25 DEF Next

LEMMA ToldFrames ==
  ASSUME TypeInv, FramesInv, NEW q \in Seq(Item), NEW busy \in BOOLEAN,
         publishReview(<<QueueState(q, busy, NoItem)>>), socket' = socket
  PROVE  FramesInv'
<1> DEFINE f == QueueState(q, busy, NoItem)
           new == <<f>>
<1>1. f \in Frame
  BY DEF QueueState, Frame
<1>2. f.ev # "snapshot" /\ Plain(f)
  BY DEF QueueState, Plain
<1>3. publishReview(new)
  OBVIOUS
<1> HIDE DEF f
<1>4. new \in Seq(Frame) /\ \A n \in 1..Len(new) : new[n].ev # "snapshot" /\ Plain(new[n])
  BY <1>1, <1>2
<1> HIDE DEF new
<1> QED  BY <1>3, <1>4, PublishFrames DEF TypeInv

LEMMA FramesNext ==
  ASSUME TypeInv, ServerInv, ReqsOnce, FramesInv, Next
  PROVE  FramesInv'
<1>1. TypeParts
  BY TypePartsOK
<1>2. ASSUME UNCHANGED <<socket, frames>> PROVE FramesInv'
  BY <1>2 DEF FramesInv, Plain, IsQ
<1>3. ASSUME NEW it \in Item, enqueueReactTurn(it), socket' = socket PROVE FramesInv'
  <2>1. Append(srv.queue, it) \in Seq(Item)
    BY <1>1, AppendProperties DEF TypeParts, ServerState
  <2>2. publishReview(<<QueueState(Append(srv.queue, it), TRUE, NoItem)>>)
    BY <1>3 DEF enqueueReactTurn
  <2> DEFINE q == Append(srv.queue, it)
             b == TRUE
  <2>3. q \in Seq(Item) /\ b \in BOOLEAN /\ publishReview(<<QueueState(q, b, NoItem)>>)
    BY <2>1, <2>2
  <2> HIDE DEF q, b
  <2> QED  BY <1>3, <2>3, ToldFrames
<1>4. ASSUME NEW m \in Messages, SendElsewhere(m) \/ sendMessage(m) PROVE FramesInv'
  <2>1. CASE SendElsewhere(m)
    <3> DEFINE it == [m |-> m, retry |-> 0]
    <3>1. it \in Item
      BY <1>1 DEF Item, TypeParts
    <3>2. enqueueReactTurn(it) /\ socket' = socket
      BY <2>1 DEF SendElsewhere
    <3> HIDE DEF it
    <3> QED  BY <1>3, <3>1, <3>2
  <2>2. CASE sendMessage(m)
    BY <1>2, <2>2 DEF sendMessage, server
  <2> QED  BY <1>4, <2>1, <2>2
<1>5. ASSUME Dequeue PROVE FramesInv'
  <2> DEFINE f == QueueState(srv'.queue, TRUE, NoItem)
             g == TurnFrame("begin", srv'.active, "open")
             new == <<f, g>>
  <2>1. publishReview(new) /\ srv'.active \in Item /\ srv' \in ServerState
    BY <1>5, DequeueOK DEF ServerStepOK
  <2>2. f \in Frame /\ g \in Frame
    BY <2>1 DEF QueueState, TurnFrame, Frame, ServerState
  <2>3. f.ev # "snapshot" /\ Plain(f)
    BY DEF QueueState, Plain
  <2>4. g.ev # "snapshot" /\ Plain(g)
    BY DEF TurnFrame, Plain, IsQ
  <2> HIDE DEF f, g
  <2>5. new \in Seq(Frame) /\ \A n \in 1..Len(new) : new[n].ev # "snapshot" /\ Plain(new[n])
    BY <2>2, <2>3, <2>4
  <2> HIDE DEF new
  <2>6. socket' = socket
    BY <1>5 DEF Dequeue
  <2> QED  BY <2>1, <2>5, <2>6, PublishFrames DEF TypeInv
<1>6. ASSUME EndTurn PROVE FramesInv'
  <2>1. PICK f \in Frame : IsEnd(f) /\ publishReview(<<f>>)
    BY <1>6, EndTurnOK
  <2> DEFINE new == <<f>>
  <2>2. new \in Seq(Frame) /\ \A n \in 1..Len(new) : new[n].ev # "snapshot" /\ Plain(new[n])
    BY <2>1 DEF IsEnd, Plain, IsQ
  <2>3. publishReview(new) /\ socket' = socket
    BY <1>6, <2>1 DEF EndTurn
  <2> HIDE DEF new
  <2> QED  BY <2>2, <2>3, PublishFrames DEF TypeInv
<1>7. ASSUME dropReviewSessionIfIdle PROVE FramesInv'
  BY <1>2, <1>7 DEF dropReviewSessionIfIdle
<1>8. ASSUME NEW st \in Saved \ {"open"}, NEW done \in BOOLEAN, SaveAnswer(st, done)
      PROVE  FramesInv'
  BY <1>2, <1>8 DEF SaveAnswer
<1>9. ASSUME NEW n \in 1..Len(chat.queued), cancelQueuedItem(n) PROVE FramesInv'
  BY <1>2, <1>9 DEF cancelQueuedItem, server
<1>10. ASSUME cancelReview \/ finishEarly \/ retryLastFailed PROVE FramesInv'
  BY <1>2, <1>10 DEF cancelReview, finishEarly, retryLastFailed, server
<1>11. ASSUME NEW r \in reqs, SendServed(r) PROVE FramesInv'
  <2>1. r.it \in Item
    BY <1>11, ServedType DEF SendServed
  <2> QED  BY <1>3, <1>11, <2>1 DEF SendServed
<1>12. ASSUME NEW r \in reqs, RetryServed(r) PROVE FramesInv'
  <2>1. RetryOf(r.it) \in Item
    BY <1>12, RetryItem
  <2>2. enqueueReactTurn(RetryOf(r.it))
    BY <1>12 DEF RetryServed, RetryOf
  <2> QED  BY <1>3, <1>12, <2>1, <2>2 DEF RetryServed
<1>13. ASSUME NEW r \in reqs, SendFails(r) \/ RetryFails(r) \/ FinishServed(r)
       PROVE  FramesInv'
  <2>1. socket' = socket
    BY <1>13 DEF SendFails, RetryFails, FinishServed
  <2>2. frames' = frames
    BY <1>13 DEF SendFails, RetryFails, FinishServed
  <2> QED  BY <1>2, <2>1, <2>2
<1>14. ASSUME NEW r \in reqs, RemoveQueuedItem(r) PROVE FramesInv'
  <2>1. CASE UNCHANGED <<socket, frames>>
    BY <1>2, <2>1
  <2>2. CASE ~UNCHANGED <<socket, frames>>
    <3>1. /\ socket' = socket /\ ServerStepOK
          /\ \E b \in BOOLEAN : publishReview(<<QueueState(srv'.queue, b, NoItem)>>)
      <4>1. CASE UNCHANGED <<srv, frames, socket, upset>>
        BY <2>2, <4>1
      <4>2. CASE ~UNCHANGED <<srv, frames, socket, upset>>
        BY <1>14, <4>2, RemoveOK
      <4> QED  BY <4>1, <4>2
    <3>2. srv'.queue \in Seq(Item)
      BY <3>1 DEF ServerStepOK, ServerState
    <3> QED  BY <3>1, <3>2, ToldFrames
  <2> QED  BY <2>1, <2>2
<1>15. ASSUME NEW r \in reqs, cancelReactSession(r) PROVE FramesInv'
  <2>1. /\ ServerStepOK
        /\ \E b \in BOOLEAN : publishReview(<<QueueState(srv'.queue, b, NoItem)>>)
    BY <1>15, CancelOK
  <2>2. srv'.queue \in Seq(Item)
    BY <2>1 DEF ServerStepOK, ServerState
  <2>3. socket' = socket
    BY <1>15 DEF cancelReactSession
  <2> QED  BY <2>1, <2>2, <2>3, ToldFrames
<1>16. ASSUME PollTick \/ ReadLoad PROVE FramesInv'
  BY <1>2, <1>16 DEF PollTick, ReadLoad, server
<1>17. ASSUME NEW n \in 1..Len(answers), LandLoad(n) \/ RestoreLanded(n) \/ DropLoad(n)
       PROVE  FramesInv'
  BY <1>2, <1>17 DEF LandLoad, RestoreLanded, DropLoad, server
<1>18. ASSUME Receive PROVE FramesInv'
  <2>1. frames # <<>> /\ frames' = Tail(frames) /\ socket' = socket
    BY <1>18 DEF Receive
  <2>2. /\ Len(frames') = Len(frames) - 1 /\ Len(frames) \in Nat
        /\ \A n \in 1..Len(frames') : frames'[n] = frames[n + 1]
    BY <1>1, <2>1, HeadTailProperties DEF TypeParts
  <2>3. socket'
    BY <2>1 DEF FramesInv
  <2>4. ASSUME NEW n \in 1..Len(frames')
        PROVE  /\ frames'[n].ev = "snapshot" => n = 1
               /\ Plain(frames'[n])
    <3>1. n + 1 \in 1..Len(frames) /\ n + 1 # 1
      BY <2>2, <2>4
    <3>2. frames[n + 1].ev # "snapshot" /\ Plain(frames[n + 1])
      BY <3>1 DEF FramesInv
    <3> QED  BY <2>2, <2>4, <3>2
  <2>5. \A n \in 1..Len(frames') : /\ frames'[n].ev = "snapshot" => n = 1
                                   /\ Plain(frames'[n])
    BY <2>4
  <2> QED  BY <2>3, <2>5 DEF FramesInv, Plain, IsQ
<1>19. ASSUME SocketDrops PROVE FramesInv'
  BY <1>19 DEF SocketDrops, FramesInv
<1>20. ASSUME Reconnect \/ Refresh PROVE FramesInv'
  <2>1. socket' = TRUE /\ frames' = ConnectFrames
    BY <1>20 DEF Reconnect, Refresh
  <2>2. CASE ~srv.alive
    BY <2>1, <2>2, ConnectType DEF FramesInv
  <2>3. CASE srv.alive
    <3>1. PICK f \in Frame, g \in Frame :
             /\ frames' = <<f, g>> /\ f.ev = "snapshot" /\ g.ev = "queue"
             /\ f.act = srv.active /\ g.act = srv.active
             /\ f.busy = (srv.active # NoItem) /\ g.busy = (srv.active # NoItem)
      BY <2>1, <2>3, ConnectType
    <3>2. Plain(f) /\ Plain(g)
      BY <3>1 DEF Plain
    <3>3. \A n \in 1..Len(frames') : /\ frames'[n].ev = "snapshot" => n = 1
                                     /\ Plain(frames'[n])
      BY <3>1, <3>2
    <3> QED  BY <2>1, <3>3 DEF FramesInv, Plain, IsQ
  <2> QED  BY <2>2, <2>3
<1> QED
  BY <1>4, <1>5, <1>6, <1>7, <1>8, <1>9, <1>10, <1>11, <1>12, <1>13, <1>14, <1>15,
     <1>16, <1>17, <1>18, <1>19, <1>20 DEF Next

\* Nothing that will end the dialogue gets lost, short of the page itself.
LEMMA FinishingKept ==
  ASSUME TypeInv, ServerInv, ReqsOnce, Next, Finishing
  PROVE  \/ Finishing'
         \/ \E r \in reqs : FinishServed(r)
         \/ run'.done /\ ~run.done /\ \E n \in 1..Len(answers) : LandLoad(n)
         \/ Refresh
<1>1. TypeParts
  BY TypePartsOK
<1>2. ASSUME reqs \subseteq reqs', srv.done => srv'.done, run'.done = run.done,
             asked => asked', answers' = answers
      PROVE  Finishing'
  BY <1>2 DEF Finishing, DoneComes, Pending, DoneLoad
<1>3. ASSUME NEW r, reqs' = reqs \ {r}, r.k # "finish", srv.done => srv'.done,
             run'.done = run.done, asked => asked', answers' = answers
      PROVE  Finishing'
  <2>1. Pending("finish") => Pending("finish")'
    BY <1>3 DEF Pending
  <2>2. DoneComes => DoneComes'
    BY <1>3 DEF DoneComes, DoneLoad
  <2> QED  BY <2>1, <2>2 DEF Finishing
<1>4. ASSUME NEW m \in Messages, SendElsewhere(m) \/ sendMessage(m) PROVE Finishing'
  <2>1. CASE SendElsewhere(m)
    <3> DEFINE it == [m |-> m, retry |-> 0]
    <3>1. it \in Item
      BY <1>1 DEF Item, TypeParts
    <3>2. enqueueReactTurn(it) /\ UNCHANGED <<reqs, asked, answers, run>>
      BY <2>1 DEF SendElsewhere
    <3> HIDE DEF it
    <3>3. srv'.done = srv.done
      BY <3>1, <3>2, EnqueueOK
    <3> QED  BY <1>2, <3>2, <3>3
  <2>2. CASE sendMessage(m)
    BY <1>2, <2>2 DEF sendMessage, server, page
  <2> QED  BY <1>4, <2>1, <2>2
<1>5. ASSUME Dequeue PROVE Finishing'
  <2>1. srv'.done = srv.done
    BY <1>5, DequeueOK
  <2> QED  BY <1>2, <1>5, <2>1 DEF Dequeue
<1>6. ASSUME EndTurn PROVE Finishing'
  <2>1. srv'.done = srv.done
    BY <1>6, EndTurnOK
  <2> QED  BY <1>2, <1>6, <2>1 DEF EndTurn
<1>7. ASSUME dropReviewSessionIfIdle PROVE Finishing'
  <2>1. srv'.done = srv.done
    BY <1>7, DropOK
  <2> QED  BY <1>2, <1>7, <2>1 DEF dropReviewSessionIfIdle
<1>8. ASSUME NEW st \in Saved \ {"open"}, NEW done \in BOOLEAN, SaveAnswer(st, done)
      PROVE  Finishing'
  <2>1. srv.turn = "running"
    BY <1>8, SaveAnswerOK
  <2>2. ~srv.done
    BY <2>1 DEF ServerInv
  <2> QED  BY <1>2, <1>8, <2>2 DEF SaveAnswer
<1>9. ASSUME NEW n \in 1..Len(chat.queued), cancelQueuedItem(n) PROVE Finishing'
  <2>1. reqs \subseteq reqs' /\ UNCHANGED <<srv, run, asked, answers>>
    BY <1>9 DEF cancelQueuedItem, server, page
  <2> QED  BY <1>2, <2>1
<1>10. ASSUME cancelReview \/ finishEarly \/ retryLastFailed PROVE Finishing'
  <2>1. reqs \subseteq reqs'
    BY <1>10 DEF cancelReview, finishEarly, retryLastFailed
  <2>2. UNCHANGED <<srv, run, asked, answers>>
    BY <1>10 DEF cancelReview, finishEarly, retryLastFailed, server, page
  <2> QED  BY <1>2, <2>1, <2>2
<1>11. ASSUME NEW r \in reqs, SendServed(r) PROVE Finishing'
  <2>1. /\ r.it \in Item /\ reqs' = reqs \ {r} /\ r.k = "send"
    BY <1>11, ServedType DEF SendServed
  <2>2. enqueueReactTurn(r.it) /\ UNCHANGED <<asked, answers, run>>
    BY <1>11 DEF SendServed, page
  <2>3. srv'.done = srv.done
    BY <2>1, <2>2, EnqueueOK
  <2> QED  BY <1>3, <2>1, <2>2, <2>3
<1>12. ASSUME NEW r \in reqs, RetryServed(r) PROVE Finishing'
  <2>1. reqs' = reqs \ {r} /\ r.k = "retry"
    BY <1>12 DEF RetryServed, Serve
  <2>2. enqueueReactTurn(RetryOf(r.it)) /\ UNCHANGED <<asked, answers, run>>
    BY <1>12 DEF RetryServed, RetryOf, page
  <2>3. srv'.done = srv.done
    BY <1>12, <2>2, RetryItem, EnqueueOK
  <2> QED  BY <1>3, <2>1, <2>2, <2>3
<1>13. ASSUME NEW r \in reqs, SendFails(r) \/ RetryFails(r) PROVE Finishing'
  <2>1. /\ reqs' = reqs \ {r} /\ r.k # "finish"
        /\ UNCHANGED <<srv, asked, answers, run>>
    BY <1>13 DEF SendFails, RetryFails, Serve, page
  <2> QED  BY <1>3, <2>1
<1>14. ASSUME NEW r \in reqs, RemoveQueuedItem(r) PROVE Finishing'
  <2>1. reqs' = reqs \ {r} /\ r.k = "remove"
    BY <1>14 DEF RemoveQueuedItem, Serve
  <2>2. UNCHANGED <<asked, answers, run>>
    BY <1>14 DEF RemoveQueuedItem, page
  <2>3. srv'.done = srv.done
    BY <1>14, RemoveOK
  <2> QED  BY <1>3, <2>1, <2>2, <2>3
<1>15. ASSUME NEW r \in reqs, cancelReactSession(r) PROVE Finishing'
  <2>1. reqs' = reqs \ {r} /\ r.k = "cancel"
    BY <1>15 DEF cancelReactSession, Serve
  <2>2. UNCHANGED <<asked, answers, run>>
    BY <1>15 DEF cancelReactSession, page
  <2>3. srv'.done = srv.done
    BY <1>15, CancelOK
  <2> QED  BY <1>3, <2>1, <2>2, <2>3
<1>16. ASSUME PollTick PROVE Finishing'
  BY <1>2, <1>16 DEF PollTick, server
<1>17. ASSUME ReadLoad PROVE Finishing'
  <2> DEFINE a == [r |-> runDetail, landed |-> FALSE]
  <2>1. answers' = Append(answers, a) /\ UNCHANGED <<srv, run, reqs>>
    BY <1>17 DEF ReadLoad, server
  <2>2. runDetail.done = srv.done /\ runDetail \in Detail
    BY SessionType DEF TypeInv
  <2>3. srv.done => DoneLoad(a)
    BY <2>2 DEF DoneLoad
  <2>4. a \in Answer
    BY <2>2 DEF Answer
  <2> HIDE DEF a
  <2>5. Rows(answers') = Rows(answers) \cup {a}
    BY <1>1, <2>1, <2>4, AppendedRows DEF TypeParts
  <2>6. Pending("finish") => Pending("finish")'
    BY <2>1 DEF Pending
  <2>7. DoneComes => DoneComes'
    BY <2>1, <2>3, <2>5 DEF DoneComes, DoneLoad
  <2> QED  BY <2>6, <2>7 DEF Finishing
<1>18. ASSUME NEW n \in 1..Len(answers), LandLoad(n), ~(run'.done /\ ~run.done)
       PROVE  Finishing'
  <2>1. /\ run' = answers[n].r /\ Len(answers') = Len(answers)
        /\ \A i \in 1..Len(answers) : i # n => answers'[i] = answers[i]
    BY <1>18, LandLoadOK
  <2>2. UNCHANGED <<srv, reqs, asked>>
    BY <1>18 DEF LandLoad, server
  <2>3. Pending("finish") => Pending("finish")'
    BY <2>2 DEF Pending
  <2>4. ASSUME DoneComes PROVE DoneComes'
    <3>1. srv'.done /\ ~run'.done
      BY <1>18, <2>2, <2>4 DEF DoneComes
    <3>2. CASE asked
      BY <2>2, <3>1, <3>2 DEF DoneComes
    <3>3. CASE ~asked
      <4>1. PICK i \in 1..Len(answers) : DoneLoad(answers[i])
        BY <2>4, <3>3 DEF DoneComes, Rows
      <4>2. i # n
        BY <2>1, <3>1, <4>1 DEF DoneLoad
      <4>3. answers'[i] = answers[i] /\ answers[i] \in Rows(answers')
        BY <2>1, <4>2 DEF Rows
      <4> QED  BY <3>1, <4>1, <4>3 DEF DoneComes, DoneLoad
    <3> QED  BY <3>2, <3>3
  <2> QED  BY <2>3, <2>4 DEF Finishing
<1>19. ASSUME NEW n \in 1..Len(answers), RestoreLanded(n) \/ DropLoad(n) PROVE Finishing'
  <2>1. answers' = RemoveAt(answers, n) /\ UNCHANGED <<srv, run, reqs, asked>>
    BY <1>19 DEF RestoreLanded, DropLoad, server
  <2>2. Rows(answers) \ {answers[n]} \subseteq Rows(answers')
    BY <1>1, <2>1, RemoveRow DEF TypeParts
  <2>3. Pending("finish") => Pending("finish")'
    BY <2>1 DEF Pending
  <2>4. ~run.done => ~DoneLoad(answers[n])
    BY <1>19 DEF RestoreLanded, DropLoad, DoneLoad
  <2>5. DoneComes => DoneComes'
    BY <2>1, <2>2, <2>4 DEF DoneComes, DoneLoad
  <2> QED  BY <2>3, <2>5 DEF Finishing
<1>20. ASSUME Receive PROVE Finishing'
  <2>1. run'.done = run.done /\ answers' = answers /\ srv' = srv
    BY <1>20, RunReceived
  <2>2. reqs' = reqs
    BY <1>20 DEF Receive
  <2>3. asked => asked'
    BY <1>20 DEF Receive
  <2> QED  BY <1>2, <2>1, <2>2, <2>3
<1>21. ASSUME SocketDrops \/ Reconnect PROVE Finishing'
  BY <1>2, <1>21 DEF SocketDrops, Reconnect
<1> QED
  BY <1>4, <1>5, <1>6, <1>7, <1>8, <1>9, <1>10, <1>11, <1>12, <1>13, <1>14, <1>15,
     <1>16, <1>17, <1>18, <1>19, <1>20, <1>21 DEF Next

\* A force confirm that is answered: done, or an error that frees the chat.
LEMMA FinishServedOK ==
  ASSUME TypeInv, ServerInv, NEW r \in reqs, FinishServed(r)
  PROVE  \/ DoneComes' /\ chat' = chat
         \/ chat' = WatchConfirmError(chat) /\ srv' = srv
<1>1. \/ ~srv.done /\ srv'.done /\ chat' = chat
      \/ chat' = WatchConfirmError(chat) /\ srv' = srv
  BY FinishOK
<1>2. asked' = TRUE /\ run' = run
  BY DEF FinishServed
<1>3. ~srv.done /\ srv'.done => DoneComes'
  BY <1>2 DEF ServerInv, DoneComes
<1> QED  BY <1>1, <1>3

LEMMA FinishNext ==
  ASSUME TypeInv, ServerInv, ReqsOnce, FinishInv, Next
  PROVE  FinishInv'
<1>1. TypeParts
  BY TypePartsOK
<1>2. ASSUME chat'.validating => chat.validating,
             ~\E r \in reqs : FinishServed(r),
             ~\E n \in 1..Len(answers) : LandLoad(n), ~Refresh
      PROVE  FinishInv'
  <2> SUFFICES ASSUME chat'.validating PROVE Finishing'
    BY DEF FinishInv
  <2>1. Finishing
    BY <1>2 DEF FinishInv
  <2> QED  BY <1>2, <2>1, FinishingKept
<1>3. ASSUME NEW r \in reqs, FinishServed(r) PROVE FinishInv'
  <2>1. CASE DoneComes' /\ chat' = chat
    BY <2>1 DEF FinishInv, Finishing
  <2>2. CASE chat' = WatchConfirmError(chat)
    <3>1. ~chat'.validating
      BY <1>1, <2>2, ConfirmErrorOK DEF TypeParts
    <3> QED  BY <3>1 DEF FinishInv
  <2> QED  BY <1>3, <2>1, <2>2, FinishServedOK
<1>4. ASSUME NEW n \in 1..Len(answers), LandLoad(n) PROVE FinishInv'
  <2>1. /\ chat'.validating => chat.validating
        /\ run'.done /\ ~run.done => ~chat'.thinking /\ ~chat'.validating
    BY <1>4, LandLoadOK
  <2> SUFFICES ASSUME chat'.validating PROVE Finishing'
    BY DEF FinishInv
  <2>2. Finishing /\ ~(run'.done /\ ~run.done)
    BY <2>1 DEF FinishInv
  <2>3. ~(\E r \in reqs : FinishServed(r)) \/ Finishing'
    <3>1. ASSUME NEW r \in reqs, FinishServed(r) PROVE Finishing'
      <4>1. reqs' = reqs \ {r} /\ r \in reqs
        BY <3>1 DEF FinishServed, Serve
      <4>2. reqs' = reqs
        BY <1>4 DEF LandLoad
      <4> QED  BY <4>1, <4>2
    <3> QED  BY <3>1
  <2>4. ~Refresh
    <3>1. Len(answers') = Len(answers) /\ Len(answers) \in Nat
      BY <1>1, <1>4, LandLoadOK DEF TypeParts
    <3>2. Refresh => Len(answers') = 0
      BY DEF Refresh
    <3> QED  BY <1>4, <3>1, <3>2
  <2> QED  BY <2>2, <2>3, <2>4, FinishingKept
<1>5. ASSUME Refresh PROVE FinishInv'
  <2> DEFINE s == ReactSessions
             conv == srv.conv
  <2>1. chat' = Restore(NewChat, conv, s) /\ s \in Session
    BY <1>5, SessionType DEF Refresh, TypeInv
  <2> HIDE DEF s, conv
  <2>2. chat'.validating = NewChat.validating
    BY <2>1, NewChatOK, RestoreOK
  <2> QED  BY <2>2, NewChatOK DEF FinishInv
<1>6. ASSUME finishEarly PROVE FinishInv'
  <2>1. Request("finish", NoItem) \in reqs'
    BY <1>6 DEF finishEarly
  <2>2. Pending("finish")'
    BY <2>1 DEF Pending, Request
  <2> QED  BY <2>2 DEF FinishInv, Finishing
<1>7. chat'.validating => chat.validating
      \/ finishEarly \/ Refresh \/ (\E r \in reqs : FinishServed(r))
      \/ \E n \in 1..Len(answers) : LandLoad(n)
  <2>1. ASSUME chat' = chat PROVE chat'.validating => chat.validating
    BY <2>1
  <2>2. ASSUME NEW m \in Messages, SendElsewhere(m) \/ sendMessage(m)
        PROVE  chat'.validating => chat.validating
    <3>1. CASE SendElsewhere(m)
      BY <3>1 DEF SendElsewhere
    <3>2. CASE sendMessage(m)
      BY <3>2, SendMessageOK
    <3> QED  BY <2>2, <3>1, <3>2
  <2>3. ASSUME Dequeue \/ EndTurn \/ dropReviewSessionIfIdle \/ PollTick \/ ReadLoad
               \/ SocketDrops
        PROVE  chat' = chat
    BY <2>3 DEF Dequeue, EndTurn, dropReviewSessionIfIdle, PollTick, ReadLoad, SocketDrops
  <2>4. ASSUME NEW st \in Saved \ {"open"}, NEW done \in BOOLEAN, SaveAnswer(st, done)
        PROVE  chat' = chat
    BY <2>4 DEF SaveAnswer
  <2>5. ASSUME NEW n \in 1..Len(chat.queued), cancelQueuedItem(n)
        PROVE  chat'.validating => chat.validating
    BY <2>5, CancelQueuedOK
  <2>6. ASSUME cancelReview PROVE chat'.validating => chat.validating
    BY <2>6, CancelReviewOK
  <2>7. ASSUME retryLastFailed PROVE chat'.validating => chat.validating
    BY <2>7, RetryOK
  <2>8. ASSUME NEW r \in reqs, SendServed(r) \/ RetryServed(r) \/ RemoveQueuedItem(r)
                               \/ cancelReactSession(r)
        PROVE  chat' = chat
    BY <2>8 DEF SendServed, RetryServed, RemoveQueuedItem, cancelReactSession
  <2>9. ASSUME NEW r \in reqs, SendFails(r) \/ RetryFails(r) PROVE ~chat'.validating
    <3>1. CASE RetryFails(r)
      <4>1. chat' = WatchConfirmError(chat)
        BY <3>1 DEF RetryFails
      <4> QED  BY <1>1, <4>1, ConfirmErrorOK DEF TypeParts
    <3>2. CASE SendFails(r)
      <4>1. chat' = WatchConfirmError(discardLastQueued(chat))
        BY <3>2 DEF SendFails
      <4>2. ChatOK(discardLastQueued(chat))
        BY <1>1, DiscardOK DEF TypeParts
      <4> QED  BY <4>1, <4>2, ConfirmErrorOK
    <3> QED  BY <2>9, <3>1, <3>2
  <2>10. ASSUME NEW n \in 1..Len(answers), RestoreLanded(n)
         PROVE  chat'.validating => chat.validating
    <3> DEFINE s == answers[n].r.sess
               conv == run.conv
    <3>1. answers[n] \in Answer
      BY <1>1 DEF TypeParts
    <3>2. s \in Session /\ chat' = Restore(chat, conv, s)
      BY <2>10, <3>1 DEF Answer, Detail, RestoreLanded
    <3> HIDE DEF s, conv
    <3> QED  BY <1>1, <3>2, RestoreOK DEF TypeParts
  <2>11. ASSUME NEW n \in 1..Len(answers), DropLoad(n) PROVE chat' = chat
    BY <2>11 DEF DropLoad
  <2>12. ASSUME Receive PROVE chat'.validating => chat.validating
    BY <2>12, ReceiveOK
  <2>13. ASSUME Reconnect PROVE chat'.validating => chat.validating
    <3> DEFINE s == run.sess
               conv == run.conv
    <3>1. s \in Session /\ chat' = Restore(chat, conv, s)
      BY <1>1, <2>13 DEF TypeParts, Detail, Reconnect
    <3> HIDE DEF s, conv
    <3> QED  BY <1>1, <3>1, RestoreOK DEF TypeParts
  <2> QED
    BY <2>1, <2>2, <2>3, <2>4, <2>5, <2>6, <2>7, <2>8, <2>9, <2>10, <2>11, <2>12, <2>13
    DEF Next
<1> QED  BY <1>2, <1>3, <1>4, <1>5, <1>6, <1>7

-----------------------------------------------------------------------------
(* An item is queued once and begun once                                   *)

LEMMA UniqueKept ==
  ASSUME TypeInv, TypeInv', Unique, Rows(srv'.queue) \subseteq Rows(srv.queue),
         NoRepeat(srv'.queue), \A it \in Item : Begun(it)' => Begun(it),
         unsent' \subseteq unsent, trouble <= trouble',
         \A r \in reqs' : r.k \in {"send", "retry"} => r \in reqs
  PROVE  Unique'
<1>1. TypeParts
  BY TypePartsOK
<1>2. srv.queue \in Seq(Item) /\ srv'.queue \in Seq(Item) /\ trouble' \in Nat
  BY ChatAssumption DEF TypeInv, ServerType, ServerState
<1>3. Rows(srv'.queue) \subseteq Item
  BY <1>2 DEF Rows
<1>4. QueueUnique'
  BY <1>3 DEF Unique, QueueUnique, NoRepeat, Rows
<1>5. \A it \in Item : Known(it)' => Known(it)
  BY DEF Known, Rows
<1>6. KnownOnce'
  <2> SUFFICES ASSUME NEW it \in Item, Known(it)'
               PROVE  /\ it.retry = 0 => it.m \notin unsent' /\ Request("send", it) \notin reqs'
                      /\ it.retry <= trouble'
                      /\ \A r \in reqs' : r.k = "retry" => r.it.retry # it.retry
    BY DEF KnownOnce
  <2>1. /\ it.retry = 0 => it.m \notin unsent /\ Request("send", it) \notin reqs
        /\ it.retry <= trouble
        /\ \A r \in reqs : r.k = "retry" => r.it.retry # it.retry
    BY <1>5 DEF Unique, KnownOnce
  <2>2. Request("send", it).k = "send"
    BY DEF Request
  <2>3. it.retry \in Nat
    BY <1>1 DEF Item, TypeParts
  <2>4. it.retry <= trouble'
    BY <1>1, <1>2, <2>1, <2>3 DEF TypeParts
  <2> QED  BY <2>1, <2>2, <2>4
<1>7. ReqsOnce'
  <2>1. \A r \in reqs' : r.k = "retry" => r.it.retry \in 1..trouble'
    BY <1>1, <1>2 DEF Unique, ReqsOnce, TypeParts
  <2>2. \A r \in reqs' : r.k = "send" => r.it.retry = 0 /\ r.it.m \notin unsent'
    BY DEF Unique, ReqsOnce
  <2>3. \A r, s \in reqs' :
          r.k = "retry" /\ s.k = "retry" /\ r.it.retry = s.it.retry => r = s
    BY DEF Unique, ReqsOnce
  <2> QED  BY <2>1, <2>2, <2>3 DEF ReqsOnce
<1> QED  BY <1>4, <1>6, <1>7 DEF Unique

\* Nothing begins with frames that the socket had, or that begin nothing.
LEMMA BegunKept ==
  ASSUME NoItem \notin Item, srv'.active \in {srv.active, NoItem},
         \A n \in 1..Len(frames') : frames'[n].ev = "begin" =>
            \E k \in 1..Len(frames) : frames'[n] = frames[k]
  PROVE  \A it \in Item : Begun(it)' => Begun(it)
BY DEF Begun

LEMMA PublishedBegins ==
  ASSUME TypeInv, NEW new \in Seq(Frame), publishReview(new)
  PROVE  \A n \in 1..Len(frames') : frames'[n].ev = "begin" =>
           \/ \E k \in 1..Len(frames) : frames'[n] = frames[k]
           \/ \E k \in 1..Len(new) : frames'[n] = new[k]
<1>1. frames \in Seq(Frame) /\ Len(frames) \in Nat /\ Len(new) \in Nat
  BY DEF TypeInv, ServerType
<1>2. CASE frames' = frames
  BY <1>2
<1>3. CASE frames' = frames \o new
  <2>1. /\ Len(frames') = Len(frames) + Len(new)
        /\ \A n \in 1..Len(frames) + Len(new) :
             frames'[n] = IF n <= Len(frames) THEN frames[n]
                                              ELSE new[n - Len(frames)]
    BY <1>1, <1>3, ConcatProperties
  <2>2. ASSUME NEW n \in 1..Len(frames')
        PROVE  \/ \E k \in 1..Len(frames) : frames'[n] = frames[k]
               \/ \E k \in 1..Len(new) : frames'[n] = new[k]
    <3>1. CASE n <= Len(frames)
      BY <1>1, <2>1, <2>2, <3>1
    <3>2. CASE ~(n <= Len(frames))
      <4>1. n - Len(frames) \in 1..Len(new) /\ frames'[n] = new[n - Len(frames)]
        BY <1>1, <2>1, <2>2, <3>2
      <4> QED  BY <4>1
    <3> QED  BY <3>1, <3>2
  <2> QED  BY <2>2
<1>4. frames' = frames \/ frames' = frames \o new
  BY DEF publishReview
<1> QED  BY <1>2, <1>3, <1>4

LEMMA ToldBegins ==
  ASSUME TypeInv, NEW q \in Seq(Item), NEW busy \in BOOLEAN,
         publishReview(<<QueueState(q, busy, NoItem)>>)
  PROVE  \A n \in 1..Len(frames') : frames'[n].ev = "begin" =>
           \E k \in 1..Len(frames) : frames'[n] = frames[k]
<1> DEFINE f == QueueState(q, busy, NoItem)
           new == <<f>>
<1>1. f \in Frame
  BY DEF QueueState, Frame
<1>2. f.ev # "begin"
  BY DEF QueueState
<1>3. publishReview(new)
  OBVIOUS
<1> HIDE DEF f
<1>4. new \in Seq(Frame) /\ \A n \in 1..Len(new) : new[n].ev # "begin"
  BY <1>1, <1>2
<1> HIDE DEF new
<1> QED  BY <1>3, <1>4, PublishedBegins

\* An item nobody knew is queued.
LEMMA EnqueueUnique ==
  ASSUME TypeInv, TypeInv', Unique, NEW it \in Item, enqueueReactTurn(it), ~Known(it),
         unsent' \subseteq unsent, reqs' \subseteq reqs, trouble' = trouble,
         it.retry = 0 => it.m \notin unsent' /\ Request("send", it) \notin reqs',
         it.retry <= trouble, \A r \in reqs' : r.k = "retry" => r.it.retry # it.retry
  PROVE  Unique'
<1>1. TypeParts
  BY TypePartsOK
<1>2. srv.queue \in Seq(Item)
  BY <1>1 DEF TypeParts, ServerState
<1>3. srv'.queue = Append(srv.queue, it) /\ srv'.active = srv.active
  BY EnqueueOK DEF TurnKept
<1>4. Append(srv.queue, it) \in Seq(Item)
  BY <1>2, AppendProperties
<1>5. \A x \in Item : Begun(x)' => Begun(x)
  <2> DEFINE q == Append(srv.queue, it)
             b == TRUE
  <2>1. q \in Seq(Item) /\ b \in BOOLEAN /\ publishReview(<<QueueState(q, b, NoItem)>>)
    BY <1>4 DEF enqueueReactTurn
  <2> HIDE DEF q, b
  <2> QED  BY <1>3, <2>1, ToldBegins, BegunKept, NoItemApart
<1>6. Rows(srv'.queue) = Rows(srv.queue) \cup {it}
  BY <1>2, <1>3, AppendedRows
<1>7. it \notin Rows(srv.queue) /\ ~Begun(it)
  BY DEF Known
<1>8. NoRepeat(srv'.queue)
  <2>1. /\ Len(srv'.queue) = Len(srv.queue) + 1 /\ srv'.queue[Len(srv.queue) + 1] = it
        /\ \A n \in 1..Len(srv.queue) : srv'.queue[n] = srv.queue[n]
        /\ Len(srv.queue) \in Nat
    BY <1>2, <1>3, AppendProperties
  <2>2. \A n \in 1..Len(srv.queue) : srv'.queue[n] # it
    BY <1>7, <2>1 DEF Rows
  <2>3. NoRepeat(srv.queue)
    BY DEF Unique, QueueUnique
  <2>4. \A n \in 1..Len(srv'.queue) : n \in 1..Len(srv.queue) \/ n = Len(srv.queue) + 1
    BY <2>1
  <2>5. ASSUME NEW m \in 1..Len(srv'.queue), NEW n \in 1..Len(srv'.queue),
               srv'.queue[m] = srv'.queue[n]
        PROVE  m = n
    <3>1. CASE m \in 1..Len(srv.queue) /\ n \in 1..Len(srv.queue)
      BY <2>1, <2>3, <2>5, <3>1 DEF NoRepeat
    <3>2. CASE ~(m \in 1..Len(srv.queue) /\ n \in 1..Len(srv.queue))
      BY <2>1, <2>2, <2>4, <2>5, <3>2
    <3> QED  BY <3>1, <3>2
  <2> QED  BY <2>5 DEF NoRepeat
<1>9. QueueUnique'
  <2>0. Rows(srv.queue) \subseteq Item
    BY <1>2 DEF Rows
  <2>1. \A x \in Rows(srv'.queue) : x \in Item
    BY <1>6, <2>0
  <2>2. \A x \in Rows(srv'.queue) : ~Begun(x)'
    BY <1>5, <1>6, <1>7, <2>1 DEF Unique, QueueUnique
  <2> QED  BY <1>8, <2>2 DEF QueueUnique, NoRepeat, Rows
<1>10. \A x \in Item : Known(x)' => Known(x) \/ x = it
  BY <1>5, <1>6 DEF Known, Rows
<1>11. KnownOnce'
  <2> SUFFICES ASSUME NEW x \in Item, Known(x)'
               PROVE  /\ x.retry = 0 => x.m \notin unsent' /\ Request("send", x) \notin reqs'
                      /\ x.retry <= trouble'
                      /\ \A r \in reqs' : r.k = "retry" => r.it.retry # x.retry
    BY DEF KnownOnce
  <2>1. CASE x = it
    BY <2>1
  <2>2. CASE x # it
    <3>1. Known(x)
      BY <1>10, <2>2
    <3> QED  BY <3>1 DEF Unique, KnownOnce
  <2> QED  BY <2>1, <2>2
<1>12. ReqsOnce'
  BY DEF Unique, ReqsOnce
<1> QED  BY <1>9, <1>11, <1>12 DEF Unique

LEMMA DequeueUnique ==
  ASSUME TypeInv, TypeInv', Unique, Dequeue
  PROVE  Unique'
<1>1. TypeParts
  BY TypePartsOK
<1>2. /\ srv.queue \in Seq(Item) /\ srv.queue # <<>> /\ srv.active = NoItem
      /\ srv'.queue = Tail(srv.queue) /\ srv'.active = Head(srv.queue)
      /\ srv'.active \in Item
      /\ publishReview(<<QueueState(srv'.queue, TRUE, NoItem),
                         TurnFrame("begin", srv'.active, "open")>>)
  BY <1>1, DequeueOK DEF TypeParts, ServerState
<1> DEFINE it == srv'.active
<1>3. /\ it = srv.queue[1] /\ Len(srv'.queue) = Len(srv.queue) - 1
      /\ Len(srv.queue) \in Nat /\ Len(srv.queue) >= 1
      /\ \A n \in 1..Len(srv'.queue) : srv'.queue[n] = srv.queue[n + 1]
      /\ srv'.queue \in Seq(Item)
  BY <1>2, HeadTailProperties
<1>4. it \in Rows(srv.queue)
  BY <1>3 DEF Rows
<1>5. \A n \in 1..Len(srv'.queue) : n + 1 \in 1..Len(srv.queue) /\ n + 1 # 1
  BY <1>3
<1>6. Rows(srv'.queue) \subseteq Rows(srv.queue)
  BY <1>3, <1>5 DEF Rows
<1>7. NoRepeat(srv.queue)
  BY DEF Unique, QueueUnique
<1>8. it \notin Rows(srv'.queue)
  <2> SUFFICES ASSUME NEW n \in 1..Len(srv'.queue), srv'.queue[n] = it PROVE FALSE
    BY DEF Rows
  <2>1. srv.queue[n + 1] = srv.queue[1] /\ n + 1 \in 1..Len(srv.queue)
        /\ 1 \in 1..Len(srv.queue) /\ n + 1 # 1
    BY <1>3, <1>5
  <2> QED  BY <1>7, <2>1 DEF NoRepeat
<1>9. NoRepeat(srv'.queue)
  <2> SUFFICES ASSUME NEW m \in 1..Len(srv'.queue), NEW n \in 1..Len(srv'.queue),
                      srv'.queue[m] = srv'.queue[n]
               PROVE  m = n
    BY DEF NoRepeat
  <2>1. m + 1 = n + 1
    BY <1>3, <1>5, <1>7 DEF NoRepeat
  <2>2. m \in Nat /\ n \in Nat
    OBVIOUS
  <2> QED  BY <2>1, <2>2
<1>10. \A x \in Item : Begun(x)' => Begun(x) \/ x = it
  <2> DEFINE f == QueueState(srv'.queue, TRUE, NoItem)
             g == TurnFrame("begin", it, "open")
             new == <<f, g>>
  <2>1. publishReview(new)
    BY <1>2
  <2>2. f \in Frame /\ g \in Frame
    BY <1>2, <1>3 DEF QueueState, TurnFrame, Frame
  <2>3. f.ev = "queue" /\ g.act = it
    BY DEF QueueState, TurnFrame
  <2> HIDE DEF f, g, it
  <2>4. new \in Seq(Frame)
    BY <2>2
  <2>5. \A n \in 1..Len(new) : new[n].ev = "begin" => new[n].act = it
    BY <2>3
  <2> HIDE DEF new
  <2>6. \A n \in 1..Len(frames') : frames'[n].ev = "begin" =>
           \/ \E k \in 1..Len(frames) : frames'[n] = frames[k]
           \/ frames'[n].act = it
    BY <2>1, <2>4, <2>5, PublishedBegins
  <2>7. srv'.active = it
    BY DEF it
  <2> QED  BY <2>6, <2>7 DEF Begun
<1> HIDE DEF it
<1>11. \A x \in Item : Known(x)' => Known(x)
  BY <1>4, <1>6, <1>10 DEF Known, Rows
<1>12. QueueUnique'
  <2>1. \A x \in Rows(srv'.queue) : x \in Item
    BY <1>3 DEF Rows
  <2>2. \A x \in Rows(srv'.queue) : ~Begun(x)'
    BY <1>6, <1>8, <1>10, <2>1 DEF Unique, QueueUnique
  <2> QED  BY <1>9, <2>2 DEF QueueUnique, NoRepeat, Rows
<1>13. UNCHANGED <<unsent, reqs, trouble>>
  BY DEF Dequeue
<1>14. KnownOnce'
  BY <1>11, <1>13 DEF Unique, KnownOnce
<1>15. ReqsOnce'
  BY <1>13 DEF Unique, ReqsOnce
<1> QED  BY <1>12, <1>14, <1>15 DEF Unique

LEMMA UniqueNext ==
  ASSUME TypeInv, TypeInv', ServerInv, Unique, Next
  PROVE  Unique'
<1>1. TypeParts /\ ReqsOnce /\ KnownOnce /\ QueueUnique /\ NoItem \notin Item
  BY TypePartsOK, NoItemApart DEF Unique
<1> DEFINE Same0 == unsent' \subseteq unsent /\ trouble <= trouble'
           NoNewReq == \A r \in reqs' : r.k \in {"send", "retry"} => r \in reqs
           NoNewBegin == \A n \in 1..Len(frames') : frames'[n].ev = "begin" =>
                            \E k \in 1..Len(frames) : frames'[n] = frames[k]
<1>2. ASSUME UNCHANGED <<unsent, trouble>> PROVE Same0
  BY <1>1, <1>2 DEF TypeParts
<1>3. ASSUME Trouble, unsent' = unsent PROVE Same0
  <2>1. trouble \in Nat /\ trouble' = trouble + 1
    BY <1>1, <1>3 DEF TypeParts, Trouble
  <2> QED  BY <1>3, <2>1
<1>4. ASSUME UNCHANGED frames PROVE NoNewBegin
  BY <1>4
<1>5. ASSUME reqs' \subseteq reqs PROVE NoNewReq
  BY <1>5
<1>6. ASSUME NEW r, reqs' = reqs \cup {r}, r.k \notin {"send", "retry"} PROVE NoNewReq
  BY <1>6
<1>7. ASSUME srv'.queue = srv.queue, srv'.active \in {srv.active, NoItem},
             Same0, NoNewReq, NoNewBegin
      PROVE  Unique'
  <2>1. \A it \in Item : Begun(it)' => Begun(it)
    BY <1>1, <1>7, BegunKept
  <2>2. NoRepeat(srv'.queue) /\ Rows(srv'.queue) \subseteq Rows(srv.queue)
    BY <1>1, <1>7 DEF QueueUnique
  <2> HIDE DEF NoNewBegin
  <2> QED  BY <1>7, <2>1, <2>2, UniqueKept
<1>8. ASSUME NEW m \in Messages, SendElsewhere(m) PROVE Unique'
  <2> DEFINE it == [m |-> m, retry |-> 0]
  <2>1. it \in Item /\ it.m = m /\ it.retry = 0
    BY <1>1 DEF Item, TypeParts
  <2>2. /\ m \in unsent /\ unsent' = unsent \ {m} /\ enqueueReactTurn(it)
        /\ UNCHANGED <<reqs, trouble>>
    BY <1>8 DEF SendElsewhere
  <2> HIDE DEF it
  <2>3. ~Known(it)
    BY <1>1, <2>1, <2>2 DEF KnownOnce
  <2>4. Request("send", it) \notin reqs'
    <3>1. Request("send", it).k = "send" /\ Request("send", it).it = it
      BY DEF Request
    <3> QED  BY <1>1, <2>1, <2>2, <3>1 DEF ReqsOnce
  <2>5. \A r \in reqs' : r.k = "retry" => r.it.retry # it.retry
    BY <1>1, <2>1, <2>2 DEF ReqsOnce, TypeParts
  <2>6. it.retry <= trouble
    BY <1>1, <2>1 DEF TypeParts
  <2>7. unsent' \subseteq unsent /\ reqs' \subseteq reqs /\ it.m \notin unsent'
    BY <2>1, <2>2
  <2> QED  BY <2>1, <2>2, <2>3, <2>4, <2>5, <2>6, <2>7, EnqueueUnique
<1>9. ASSUME NEW m \in Messages, sendMessage(m) PROVE Unique'
  <2> DEFINE it == [m |-> m, retry |-> 0]
             q == Request("send", it)
  <2>1. it.m = m /\ it.retry = 0 /\ q.k = "send" /\ q.it = it
    BY DEF Request
  <2>2. /\ m \in unsent /\ unsent' = unsent \ {m} /\ reqs' = reqs \cup {q}
        /\ UNCHANGED <<srv, frames, trouble>>
    BY <1>9 DEF sendMessage, server
  <2>3. \A x \in Item : Request("send", x).it = x
    BY DEF Request
  <2> HIDE DEF it, q
  <2>4. QueueUnique'
    BY <1>1, <2>2 DEF QueueUnique, Begun, NoRepeat, Rows
  <2>5. \A x \in Item : Known(x)' => Known(x)
    BY <2>2 DEF Known, Begun, Rows
  <2>6. KnownOnce'
    <3> SUFFICES ASSUME NEW x \in Item, Known(x)'
                 PROVE  /\ x.retry = 0 => x.m \notin unsent' /\ Request("send", x) \notin reqs'
                        /\ x.retry <= trouble'
                        /\ \A r \in reqs' : r.k = "retry" => r.it.retry # x.retry
      BY DEF KnownOnce
    <3>1. /\ x.retry = 0 => x.m \notin unsent /\ Request("send", x) \notin reqs
          /\ x.retry <= trouble
          /\ \A r \in reqs : r.k = "retry" => r.it.retry # x.retry
      BY <1>1, <2>5 DEF KnownOnce
    <3>2. x.retry = 0 => Request("send", x) # q
      BY <2>1, <2>2, <2>3, <3>1
    <3> QED  BY <2>1, <2>2, <3>1, <3>2
  <2>7. ReqsOnce'
    BY <1>1, <2>1, <2>2 DEF ReqsOnce
  <2> QED  BY <2>4, <2>6, <2>7 DEF Unique
<1>10. ASSUME Dequeue PROVE Unique'
  BY <1>10, DequeueUnique
<1>11. ASSUME EndTurn PROVE Unique'
  <2>1. PICK f \in Frame : IsEnd(f) /\ publishReview(<<f>>)
    BY <1>11, EndTurnOK
  <2>2. srv'.queue = srv.queue /\ srv'.active = NoItem
    BY <1>11, EndTurnOK
  <2>3. UNCHANGED <<unsent, reqs, trouble>>
    BY <1>11 DEF EndTurn
  <2> DEFINE new == <<f>>
  <2>4. publishReview(new) /\ new \in Seq(Frame)
        /\ \A n \in 1..Len(new) : new[n].ev # "begin"
    BY <2>1 DEF IsEnd
  <2> HIDE DEF new
  <2>5. NoNewBegin
    BY <2>4, PublishedBegins
  <2>6. Same0 /\ NoNewReq
    BY <1>2, <1>5, <2>3
  <2> HIDE DEF Same0, NoNewReq, NoNewBegin
  <2> QED  BY <1>7, <2>2, <2>5, <2>6
<1>12. ASSUME dropReviewSessionIfIdle PROVE Unique'
  <2>1. srv'.queue = srv.queue /\ srv'.active = srv.active
    BY <1>12, DropOK DEF TurnKept
  <2>2. UNCHANGED <<unsent, reqs, trouble, frames>>
    BY <1>12 DEF dropReviewSessionIfIdle
  <2>3. Same0 /\ NoNewReq /\ NoNewBegin
    BY <1>2, <1>4, <1>5, <2>2
  <2> HIDE DEF Same0, NoNewReq, NoNewBegin
  <2> QED  BY <1>7, <2>1, <2>3
<1>13. ASSUME NEW st \in Saved \ {"open"}, NEW done \in BOOLEAN, SaveAnswer(st, done)
       PROVE  Unique'
  <2>1. srv'.queue = srv.queue /\ srv'.active = srv.active
    BY <1>13, SaveAnswerOK
  <2>2. UNCHANGED <<unsent, reqs, trouble, frames>>
    BY <1>13 DEF SaveAnswer
  <2>3. Same0 /\ NoNewReq /\ NoNewBegin
    BY <1>2, <1>4, <1>5, <2>2
  <2> HIDE DEF Same0, NoNewReq, NoNewBegin
  <2> QED  BY <1>7, <2>1, <2>3
<1>14. ASSUME UNCHANGED <<srv, frames>>, Same0, NoNewReq PROVE Unique'
  <2>1. srv'.queue = srv.queue /\ srv'.active = srv.active /\ NoNewBegin
    BY <1>4, <1>14
  <2> HIDE DEF Same0, NoNewReq, NoNewBegin
  <2> QED  BY <1>7, <1>14, <2>1
<1>15. ASSUME NEW n \in 1..Len(chat.queued), cancelQueuedItem(n) PROVE Unique'
  <2> DEFINE q == Request("remove", chat.queued[n].it)
  <2>1. /\ reqs' = reqs \cup {q} \/ reqs' = reqs
        /\ Trouble /\ unsent' = unsent /\ UNCHANGED <<srv, frames>>
    BY <1>15 DEF cancelQueuedItem, server
  <2>2. q.k = "remove"
    BY DEF Request
  <2> HIDE DEF q
  <2>3. Same0 /\ NoNewReq
    BY <1>3, <2>1, <2>2
  <2> HIDE DEF Same0, NoNewReq
  <2> QED  BY <1>14, <2>1, <2>3
<1>16. ASSUME cancelReview \/ finishEarly PROVE Unique'
  <2>1. PICK k \in {"cancel", "finish"} : reqs' = reqs \cup {Request(k, NoItem)}
    BY <1>16 DEF cancelReview, finishEarly
  <2>2. Trouble /\ unsent' = unsent /\ UNCHANGED <<srv, frames>>
    BY <1>16 DEF cancelReview, finishEarly, server
  <2> DEFINE q == Request(k, NoItem)
  <2>3. q.k = k /\ reqs' = reqs \cup {q}
    BY <2>1 DEF Request
  <2> HIDE DEF q
  <2>4. Same0 /\ NoNewReq
    BY <1>3, <2>2, <2>3
  <2> HIDE DEF Same0, NoNewReq
  <2> QED  BY <1>14, <2>2, <2>4
<1>17. ASSUME retryLastFailed PROVE Unique'
  <2>1. PICK m \in Messages :
          reqs' = reqs \cup {Request("retry", [m |-> m, retry |-> trouble'])}
    BY <1>17, RetryOK
  <2> DEFINE it == [m |-> m, retry |-> trouble']
             q == Request("retry", it)
  <2>2. q.k = "retry" /\ q.it.retry = trouble' /\ reqs' = reqs \cup {q}
    BY <2>1 DEF Request
  <2>3. Trouble /\ unsent' = unsent /\ UNCHANGED <<srv, frames>>
    BY <1>17 DEF retryLastFailed, server
  <2>4. trouble' = trouble + 1 /\ trouble \in Nat
    BY <1>1, <2>3, TroubleType DEF TypeParts
  <2> HIDE DEF it, q
  <2>5. QueueUnique'
    BY <1>1, <2>3 DEF QueueUnique, Begun, NoRepeat, Rows
  <2>6. \A x \in Item : Known(x)' => Known(x)
    BY <2>3 DEF Known, Begun, Rows
  <2>7. KnownOnce'
    <3> SUFFICES ASSUME NEW x \in Item, Known(x)'
                 PROVE  /\ x.retry = 0 => x.m \notin unsent' /\ Request("send", x) \notin reqs'
                        /\ x.retry <= trouble'
                        /\ \A r \in reqs' : r.k = "retry" => r.it.retry # x.retry
      BY DEF KnownOnce
    <3>1. /\ x.retry = 0 => x.m \notin unsent /\ Request("send", x) \notin reqs
          /\ x.retry <= trouble
          /\ \A r \in reqs : r.k = "retry" => r.it.retry # x.retry
      BY <1>1, <2>6 DEF KnownOnce
    <3>2. x.retry \in Nat
      BY <1>1 DEF Item, TypeParts
    <3>3. Request("send", x).k = "send"
      BY DEF Request
    <3>4. x.retry <= trouble' /\ x.retry # trouble'
      BY <2>4, <3>1, <3>2
    <3> QED  BY <2>2, <2>3, <3>1, <3>3, <3>4
  <2>8. ReqsOnce'
    <3>1. \A r \in reqs : r.k = "retry" =>
             r.it.retry \in Nat /\ r.it.retry <= trouble /\ r.it.retry >= 1
      BY <1>1 DEF ReqsOnce, TypeParts
    <3>2. \A r \in reqs : r.k = "retry" =>
             r.it.retry \in 1..trouble' /\ r.it.retry # trouble'
      BY <2>4, <3>1
    <3>3. trouble' \in 1..trouble'
      BY <2>4
    <3>4. \A r \in reqs' : r.k = "retry" => r.it.retry \in 1..trouble'
      BY <2>2, <3>2, <3>3
    <3>5. \A r \in reqs' : r.k = "send" => r.it.retry = 0 /\ r.it.m \notin unsent'
      BY <1>1, <2>2, <2>3 DEF ReqsOnce
    <3>6. \A r, s \in reqs' :
            r.k = "retry" /\ s.k = "retry" /\ r.it.retry = s.it.retry => r = s
      BY <1>1, <2>2, <3>2 DEF ReqsOnce
    <3> QED  BY <3>4, <3>5, <3>6 DEF ReqsOnce
  <2> QED  BY <2>5, <2>7, <2>8 DEF Unique
<1>18. ASSUME NEW r \in reqs, SendServed(r) PROVE Unique'
  <2>1. /\ reqs' = reqs \ {r} /\ r.k = "send" /\ r.it \in Item /\ r = Request("send", r.it)
    BY <1>18, ServedType DEF SendServed
  <2>2. enqueueReactTurn(r.it) /\ UNCHANGED <<unsent, trouble>>
    BY <1>18 DEF SendServed
  <2>3. r.it.retry = 0 /\ r.it.m \notin unsent
    BY <1>1, <2>1 DEF ReqsOnce
  <2>4. ~Known(r.it)
    BY <1>1, <2>1, <2>3 DEF KnownOnce
  <2>5. \A s \in reqs' : s.k = "retry" => s.it.retry # r.it.retry
    BY <1>1, <2>1, <2>3 DEF ReqsOnce, TypeParts
  <2>6. r.it.retry <= trouble
    BY <1>1, <2>3 DEF TypeParts
  <2>7. /\ unsent' \subseteq unsent /\ reqs' \subseteq reqs
        /\ r.it.m \notin unsent' /\ Request("send", r.it) \notin reqs'
    BY <2>1, <2>2, <2>3
  <2> QED  BY <2>1, <2>2, <2>4, <2>5, <2>6, <2>7, EnqueueUnique
<1>19. ASSUME NEW r \in reqs, RetryServed(r) PROVE Unique'
  <2> DEFINE it == RetryOf(r.it)
  <2>1. it \in Item /\ it.retry = r.it.retry /\ r.it.retry > 0
    BY <1>1, <1>19, RetryItem
  <2>2. enqueueReactTurn(it) /\ UNCHANGED <<unsent, trouble>> /\ Serve(r, "retry")
    BY <1>19 DEF RetryServed, RetryOf
  <2> HIDE DEF it
  <2>3. reqs' = reqs \ {r} /\ r.k = "retry"
    BY <2>2 DEF Serve
  <2>4. ~Known(it)
    BY <1>1, <2>1, <2>3 DEF KnownOnce
  <2>5. \A s \in reqs' : s.k = "retry" => s.it.retry # it.retry
    BY <1>1, <2>1, <2>3 DEF ReqsOnce
  <2>6. it.retry <= trouble
    BY <1>1, <2>1, <2>3 DEF ReqsOnce, TypeParts
  <2>7. it.retry # 0 /\ unsent' \subseteq unsent /\ reqs' \subseteq reqs
    BY <2>1, <2>2, <2>3
  <2> QED  BY <2>1, <2>2, <2>4, <2>5, <2>6, <2>7, EnqueueUnique
<1>20. ASSUME NEW r \in reqs, SendFails(r) \/ RetryFails(r) PROVE Unique'
  <2>1. reqs' \subseteq reqs /\ unsent' = unsent /\ srv' = srv /\ frames' = frames
    BY <1>20 DEF SendFails, RetryFails, Serve
  <2>2. trouble' = trouble \/ Trouble
    BY <1>20 DEF SendFails, RetryFails
  <2>3. Same0 /\ NoNewReq
    BY <1>2, <1>3, <1>5, <2>1, <2>2
  <2> HIDE DEF Same0, NoNewReq
  <2> QED  BY <1>14, <2>1, <2>3
<1>21. ASSUME NEW r \in reqs, FinishServed(r) PROVE Unique'
  <2>1. srv'.queue = srv.queue /\ srv'.active = srv.active
    BY <1>21, FinishOK DEF TurnKept
  <2>2. reqs' \subseteq reqs /\ UNCHANGED <<unsent, trouble, frames>>
    BY <1>21 DEF FinishServed, Serve
  <2>3. Same0 /\ NoNewReq /\ NoNewBegin
    BY <1>2, <1>4, <1>5, <2>2
  <2> HIDE DEF Same0, NoNewReq, NoNewBegin
  <2> QED  BY <1>7, <2>1, <2>3
<1>22. ASSUME srv'.active = srv.active, Rows(srv'.queue) \subseteq Rows(srv.queue),
              NoRepeat(srv'.queue), NEW b \in BOOLEAN,
              publishReview(<<QueueState(srv'.queue, b, NoItem)>>),
              Same0, NoNewReq
       PROVE  Unique'
  <2>1. srv'.queue \in Seq(Item)
    BY DEF TypeInv, ServerType, ServerState
  <2>2. NoNewBegin
    BY <1>22, <2>1, ToldBegins
  <2>3. \A it \in Item : Begun(it)' => Begun(it)
    BY <1>1, <1>22, <2>2, BegunKept
  <2> HIDE DEF NoNewBegin
  <2> QED  BY <1>22, <2>3, UniqueKept
<1>23. ASSUME NEW r \in reqs, RemoveQueuedItem(r) PROVE Unique'
  <2>1. reqs' \subseteq reqs /\ UNCHANGED <<unsent, trouble>>
    BY <1>23 DEF RemoveQueuedItem, Serve
  <2>2. Same0 /\ NoNewReq
    BY <1>2, <1>5, <2>1
  <2>3. CASE UNCHANGED <<srv, frames, socket, upset>>
    <3> HIDE DEF Same0, NoNewReq
    <3> QED  BY <1>14, <2>2, <2>3
  <2>4. CASE ~UNCHANGED <<srv, frames, socket, upset>>
    <3> DEFINE S == Rows(srv.queue) \ {r.it}
    <3>1. /\ TurnKept /\ srv'.queue = Keep(srv.queue, S)
          /\ \E b \in BOOLEAN : publishReview(<<QueueState(srv'.queue, b, NoItem)>>)
      BY <1>23, <2>4, RemoveOK
    <3>2. srv.queue \in Seq(Item) /\ NoRepeat(srv.queue)
      BY <1>1 DEF TypeParts, ServerState, QueueUnique
    <3> HIDE DEF S
    <3>3. Rows(srv'.queue) = Rows(srv.queue) \cap S /\ NoRepeat(srv'.queue)
      <4> DEFINE q == srv.queue
      <4>1. q \in Seq(Item) /\ NoRepeat(q)
        BY <3>2
      <4> HIDE DEF q
      <4>2. Rows(Keep(q, S)) = Rows(q) \cap S /\ NoRepeat(Keep(q, S))
        BY <4>1, KeepRows
      <4>3. srv'.queue = Keep(q, S)
        BY <3>1 DEF q
      <4>4. Rows(srv'.queue) = Rows(q) \cap S /\ NoRepeat(srv'.queue)
        BY <4>2, <4>3
      <4> QED  BY <4>4 DEF q
    <3>4. PICK b \in BOOLEAN : publishReview(<<QueueState(srv'.queue, b, NoItem)>>)
      BY <3>1
    <3>5. srv'.active = srv.active /\ Rows(srv'.queue) \subseteq Rows(srv.queue)
      BY <3>1, <3>3 DEF TurnKept
    <3> HIDE DEF Same0, NoNewReq
    <3> QED  BY <1>22, <2>2, <3>3, <3>4, <3>5
  <2> QED  BY <2>3, <2>4
<1>24. ASSUME NEW r \in reqs, cancelReactSession(r) PROVE Unique'
  <2>1. reqs' \subseteq reqs /\ UNCHANGED <<unsent, trouble>>
    BY <1>24 DEF cancelReactSession, Serve
  <2>2. Same0 /\ NoNewReq
    BY <1>2, <1>5, <2>1
  <2>3. /\ TurnKept /\ srv'.queue \in {srv.queue, <<>>}
        /\ \E b \in BOOLEAN : publishReview(<<QueueState(srv'.queue, b, NoItem)>>)
    BY <1>24, CancelOK
  <2>4. Rows(srv'.queue) \subseteq Rows(srv.queue) /\ NoRepeat(srv'.queue)
    BY <1>1, <2>3 DEF QueueUnique, NoRepeat, Rows
  <2>5. PICK b \in BOOLEAN : publishReview(<<QueueState(srv'.queue, b, NoItem)>>)
    BY <2>3
  <2>6. srv'.active = srv.active
    BY <2>3 DEF TurnKept
  <2> HIDE DEF Same0, NoNewReq
  <2> QED  BY <1>22, <2>2, <2>4, <2>5, <2>6
<1>25. ASSUME PollTick \/ ReadLoad PROVE Unique'
  <2>1. UNCHANGED <<srv, frames, reqs, unsent, trouble>>
    BY <1>25 DEF PollTick, ReadLoad, server
  <2>2. Same0 /\ NoNewReq
    BY <1>2, <1>5, <2>1
  <2> HIDE DEF Same0, NoNewReq
  <2> QED  BY <1>14, <2>1, <2>2
<1>26. ASSUME NEW n \in 1..Len(answers), LandLoad(n) \/ RestoreLanded(n) \/ DropLoad(n)
       PROVE  Unique'
  <2>1. UNCHANGED <<srv, frames, reqs, unsent, trouble>>
    BY <1>26 DEF LandLoad, RestoreLanded, DropLoad, server
  <2>2. Same0 /\ NoNewReq
    BY <1>2, <1>5, <2>1
  <2> HIDE DEF Same0, NoNewReq
  <2> QED  BY <1>14, <2>1, <2>2
<1>27. ASSUME Receive PROVE Unique'
  <2>1. frames # <<>> /\ frames' = Tail(frames) /\ UNCHANGED <<srv, reqs, unsent, trouble>>
    BY <1>27 DEF Receive
  <2>2. Same0 /\ NoNewReq
    BY <1>2, <1>5, <2>1
  <2>3. NoNewBegin
    <3>1. /\ Len(frames) \in Nat /\ Len(frames') = Len(frames) - 1
          /\ \A n \in 1..Len(frames') : frames'[n] = frames[n + 1]
      BY <1>1, <2>1, HeadTailProperties DEF TypeParts
    <3>2. \A n \in 1..Len(frames') : n + 1 \in 1..Len(frames)
      BY <3>1
    <3> QED  BY <3>1, <3>2
  <2>4. srv'.queue = srv.queue /\ srv'.active = srv.active
    BY <2>1
  <2> HIDE DEF Same0, NoNewReq, NoNewBegin
  <2> QED  BY <1>7, <2>2, <2>3, <2>4
<1>28. ASSUME Len(frames') = 0 \/ frames' = ConnectFrames PROVE NoNewBegin
  <2>1. CASE Len(frames') = 0
    BY <2>1
  <2>2. CASE frames' = ConnectFrames
    <3>1. ~srv.alive => ConnectFrames = <<>>
      BY ConnectType
    <3>2. srv.alive => \E f, g \in Frame :
             ConnectFrames = <<f, g>> /\ f.ev = "snapshot" /\ g.ev = "queue"
      BY ConnectType
    <3>3. ASSUME NEW f \in Frame, NEW g \in Frame, frames' = <<f, g>>,
                 f.ev = "snapshot", g.ev = "queue"
          PROVE  \A n \in 1..Len(frames') : frames'[n].ev # "begin"
      BY <3>3
    <3>4. \A n \in 1..Len(frames') : frames'[n].ev # "begin"
      BY <2>2, <3>1, <3>2, <3>3
    <3> QED  BY <3>4
  <2> QED  BY <1>28, <2>1, <2>2
<1>29. ASSUME SocketDrops \/ Reconnect \/ Refresh PROVE Unique'
  <2>1. srv' = srv /\ unsent' = unsent /\ reqs' \subseteq reqs
    BY <1>29 DEF SocketDrops, Reconnect, Refresh
  <2>2. trouble' = trouble \/ Trouble
    BY <1>29 DEF SocketDrops, Reconnect, Refresh
  <2>3. Len(frames') = 0 \/ frames' = ConnectFrames
    BY <1>29 DEF SocketDrops, Reconnect, Refresh
  <2>4. NoNewBegin
    BY <1>28, <2>3
  <2>5. Same0 /\ NoNewReq
    BY <1>2, <1>3, <1>5, <2>1, <2>2
  <2>6. srv'.queue = srv.queue /\ srv'.active = srv.active
    BY <2>1
  <2> HIDE DEF Same0, NoNewReq, NoNewBegin
  <2> QED  BY <1>7, <2>4, <2>5, <2>6
<1> QED
  BY <1>8, <1>9, <1>10, <1>11, <1>12, <1>13, <1>15, <1>16, <1>17, <1>18, <1>19, <1>20,
     <1>21, <1>23, <1>24, <1>25, <1>26, <1>27, <1>29 DEF Next

-----------------------------------------------------------------------------
(* What a page that missed nothing knows                                   *)

\* Steps that leave the frames, the queue and the active turn alone.
LEMMA ViewKept ==
  ASSUME Calm, frames' = frames, srv'.queue = srv.queue, srv'.active = srv.active
  PROVE  /\ LastQ' /\ LastIdle' /\ (Work' <=> Work) /\ (HasQ' <=> HasQ)
         /\ (HasEnd' <=> HasEnd) /\ (FirstSnapshot' <=> FirstSnapshot)
<1>1. LastQ'
  BY DEF Calm, LastQ, IsQ
<1>2. Work' <=> Work
  BY DEF Work
<1>3. LastIdle'
  BY <1>2 DEF Calm, LastIdle, Ends, IsEnd
<1>4. (HasQ' <=> HasQ) /\ (HasEnd' <=> HasEnd) /\ (FirstSnapshot' <=> FirstSnapshot)
  BY DEF HasQ, HasEnd, FirstSnapshot, IsQ, IsEnd
<1> QED  BY <1>1, <1>2, <1>3, <1>4

\* ... and that leave the rest as it was, part by part.
LEMMA PartsKept ==
  ASSUME Calm, frames' = frames, srv'.queue = srv.queue, srv'.active = srv.active
  PROVE  /\ liveBusy' = liveBusy => BusyInv'
         /\ run' = run /\ (asked => asked') /\ answers' = answers => SessInv'
         /\ NoNewRow => RowsInv'
         /\ chat' = chat => RowsInv'
         /\ reqs' = reqs /\ chat'.queued = chat.queued => PanelInv'
<1>1. /\ (Work' <=> Work) /\ (HasQ' <=> HasQ)
      /\ (HasEnd' <=> HasEnd) /\ (FirstSnapshot' <=> FirstSnapshot)
  BY ViewKept
<1>2. liveBusy' = liveBusy => BusyInv'
  BY <1>1 DEF Calm, BusyInv
<1>3. run' = run /\ (asked => asked') /\ answers' = answers => SessInv'
  BY <1>1 DEF Calm, SessInv, SessMends, Mends, Rows
<1>4. NoNewRow => RowsInv'
  BY <1>1 DEF Calm, RowsInv, NoNewRow, Rows
<1>5. chat' = chat => RowsInv'
  BY <1>1 DEF Calm, RowsInv, Rows
<1>6. reqs' = reqs /\ chat'.queued = chat.queued => PanelInv'
  BY <1>1 DEF Calm, PanelInv, Pending, RemovePending, Panel, Rows
<1> QED  BY <1>2, <1>3, <1>4, <1>5, <1>6

LEMMA CalmSame ==
  ASSUME Calm, frames' = frames, srv'.queue = srv.queue, srv'.active = srv.active,
         UNCHANGED <<liveBusy, run, answers, chat, reqs>>, asked => asked',
         Work \/ (Finishing => Finishing')
  PROVE  Calm'
<1>1. LastQ' /\ LastIdle' /\ (Work' <=> Work)
  BY ViewKept
<1>2. BusyInv' /\ SessInv' /\ RowsInv' /\ PanelInv'
  BY PartsKept
<1>3. IdleInv'
  BY <1>1 DEF Calm, IdleInv, Pending, Stopped
<1> QED  BY <1>1, <1>2, <1>3 DEF Calm

\* Steps that tell the page the queue.
LEMMA CalmTold ==
  ASSUME TypeInv, Calm, srv' \in ServerState, srv'.active = srv.active, QueueTold,
         ~upset', UNCHANGED <<run, answers, asked>>
  PROVE  Calm'
<1>1. PICK b \in BOOLEAN : /\ frames' = Append(frames, QueueState(srv'.queue, b, NoItem))
                           /\ srv'.active # NoItem => b
                           /\ b => Work'
  BY DEF QueueTold
<1> DEFINE f == QueueState(srv'.queue, b, NoItem)
<1>2. frames \in Seq(Frame) /\ frames' = Append(frames, f)
  BY <1>1 DEF TypeInv, ServerType
<1>3. f \in Frame
  BY DEF QueueState, Frame, ServerState
<1>4. f.ev = "queue" /\ f.items = srv'.queue /\ IsQ(f)
  BY DEF QueueState, IsQ
<1>5. f.busy = b
  BY DEF QueueState
<1> HIDE DEF f
<1>6. /\ frames' # <<>> /\ Len(frames') = Len(frames) + 1 /\ Len(frames) \in Nat
      /\ frames'[Len(frames')] = f /\ (HasEnd => HasEnd') /\ HasQ'
      /\ (FirstSnapshot' => FirstSnapshot)
  BY <1>2, <1>3, <1>4, AppendedFrame
<1>7. LastQ'
  <2> SUFFICES ASSUME NEW n \in 1..Len(frames'), IsQ(frames'[n]),
                      \A m \in n + 1 .. Len(frames') : ~IsQ(frames'[m])
               PROVE  /\ frames'[n].items = srv'.queue
                      /\ srv'.active # NoItem => frames'[n].busy
    BY DEF LastQ, IsQ
  <2>1. n = Len(frames')
    <3> SUFFICES ASSUME n # Len(frames') PROVE FALSE
      OBVIOUS
    <3>1. Len(frames') \in n + 1 .. Len(frames')
      BY <1>6
    <3> QED  BY <1>4, <1>6, <3>1
  <2> QED  BY <1>1, <1>4, <1>5, <1>6, <2>1
<1>8. LastIdle'
  BY <1>1, <1>5, <1>6 DEF LastIdle, Ends, IsEnd, Work
<1>9. BusyInv' /\ IdleInv'
  BY <1>6 DEF BusyInv, IdleInv
<1>10. SessInv'
  BY <1>6 DEF Calm, SessInv, SessMends, Mends, Rows
<1>11. RowsInv' /\ PanelInv'
  BY <1>6 DEF RowsInv, PanelInv
<1> QED  BY <1>7, <1>8, <1>9, <1>10, <1>11 DEF Calm

\* Enough for Finishing to stay: no request served, no trouble.
LEMMA FinishingStays ==
  ASSUME TypeInv, ServerInv, ReqsOnce, Next, Finishing, reqs' = reqs, trouble' = trouble
  PROVE  Finishing' \/ (run'.done /\ ~run.done)
<1>1. ~(\E r \in reqs : FinishServed(r))
  BY DEF FinishServed, Serve
<1>2. ~Refresh
  <2>1. TypeParts
    BY TypePartsOK
  <2> QED  BY <2>1 DEF Refresh, Trouble, TypeParts
<1> QED  BY <1>1, <1>2, FinishingKept

LEMMA DequeueCalm ==
  ASSUME TypeInv, TypeInv', Calm, ~upset', Dequeue
  PROVE  Calm'
<1> DEFINE f == QueueState(srv'.queue, TRUE, NoItem)
           g == TurnFrame("begin", srv'.active, "open")
           new == <<f, g>>
<1>1. publishReview(new) /\ srv'.active \in Item /\ srv' \in ServerState
  BY DequeueOK DEF ServerStepOK
<1>2. f \in Frame /\ g \in Frame
  BY <1>1 DEF QueueState, TurnFrame, Frame, ServerState
<1>3. f.items = srv'.queue /\ IsQ(f) /\ ~IsQ(g)
  BY DEF QueueState, TurnFrame, IsQ
<1>4. f.busy
  BY DEF QueueState
<1> HIDE DEF f, g
<1>5. new \in Seq(Frame) /\ Len(new) = 2 /\ new[1] = f /\ new[2] = g
  BY <1>2
<1> HIDE DEF new
<1>6. frames \in Seq(Frame) /\ Len(frames) \in Nat /\ frames' = frames \o new
  <2>1. frames \in Seq(Frame) /\ Len(frames) \in Nat
    BY DEF TypeInv, ServerType
  <2>2. ServerType /\ Flags
    BY DEF TypeInv
  <2>3. frames' = frames \o new
    BY <1>1, <1>5, <2>2, PublishOK
  <2> QED  BY <2>1, <2>3
<1> DEFINE L == Len(frames)
<1>7. Len(frames') = L + 2 /\ frames'[L + 1] = f /\ frames'[L + 2] = g
  <2>1. Len(frames') = L + Len(new)
        /\ \A n \in 1..L + Len(new) :
             frames'[n] = IF n <= L THEN frames[n] ELSE new[n - L]
    BY <1>5, <1>6, ConcatProperties
  <2>2. L + 1 \in 1..L + 2 /\ L + 2 \in 1..L + 2 /\ ~(L + 1 <= L) /\ ~(L + 2 <= L)
        /\ (L + 1) - L = 1 /\ (L + 2) - L = 2
    BY <1>6
  <2> HIDE DEF L
  <2> QED  BY <1>5, <2>1, <2>2
<1>8. HasQ' /\ L + 1 \in 1..L + 2 /\ L \in Nat
  BY <1>3, <1>6, <1>7 DEF HasQ, IsQ
<1> HIDE DEF L
<1>9. LastQ'
  <2> SUFFICES ASSUME NEW n \in 1..Len(frames'), IsQ(frames'[n]),
                      \A m \in n + 1 .. Len(frames') : ~IsQ(frames'[m])
               PROVE  /\ frames'[n].items = srv'.queue
                      /\ srv'.active # NoItem => frames'[n].busy
    BY DEF LastQ, IsQ
  <2>1. n # L + 2
    BY <1>3, <1>7
  <2>2. L + 1 \notin n + 1 .. L + 2
    BY <1>3, <1>7
  <2>3. n = L + 1
    BY <1>7, <1>8, <2>1, <2>2
  <2> QED  BY <1>3, <1>4, <1>7, <2>3
<1>10. Work' /\ srv'.active # NoItem
  BY <1>1, NoItemApart DEF Work
<1>11. LastIdle' /\ BusyInv' /\ IdleInv' /\ SessInv'
  BY <1>10 DEF LastIdle, BusyInv, IdleInv, SessInv
<1>12. RowsInv' /\ PanelInv'
  BY <1>8 DEF RowsInv, PanelInv
<1> QED  BY <1>9, <1>11, <1>12 DEF Calm

LEMMA EndTurnCalm ==
  ASSUME TypeInv, Calm, ~upset', EndTurn
  PROVE  Calm'
<1>1. /\ srv.active \in Item /\ srv'.queue = srv.queue /\ srv'.active = NoItem
      /\ \E f \in Frame : /\ IsEnd(f)
                          /\ ~upset' => ~upset /\ frames' = Append(frames, f)
  BY EndTurnOK
<1>2. PICK f \in Frame : IsEnd(f) /\ frames' = Append(frames, f)
  BY <1>1
<1>3. ~IsQ(f) /\ f.ev # "snapshot"
  BY <1>2 DEF IsEnd, IsQ
<1>4. frames \in Seq(Frame)
  BY DEF TypeInv, ServerType
<1>5. /\ frames' # <<>> /\ Len(frames') = Len(frames) + 1 /\ Len(frames) \in Nat
      /\ frames'[Len(frames')] = f /\ HasEnd' /\ (HasQ' <=> HasQ)
      /\ \A n \in 1..Len(frames) : frames'[n] = frames[n]
  BY <1>2, <1>3, <1>4, AppendedFrame
<1>6. LastQ'
  <2> SUFFICES ASSUME NEW n \in 1..Len(frames'), IsQ(frames'[n]),
                      \A m \in n + 1 .. Len(frames') : ~IsQ(frames'[m])
               PROVE  /\ frames'[n].items = srv'.queue
                      /\ srv'.active # NoItem => frames'[n].busy
    BY DEF LastQ, IsQ
  <2>1. n \in 1..Len(frames)
    BY <1>3, <1>5
  <2>2. \A m \in n + 1 .. Len(frames) : ~IsQ(frames[m])
    <3> SUFFICES ASSUME NEW m \in n + 1 .. Len(frames) PROVE ~IsQ(frames[m])
      OBVIOUS
    <3>1. m \in n + 1 .. Len(frames') /\ m \in 1..Len(frames)
      BY <1>5, <2>1
    <3> QED  BY <1>5, <3>1
  <2>3. IsQ(frames[n]) /\ frames'[n] = frames[n]
    BY <1>5, <2>1
  <2> QED  BY <1>1, <2>1, <2>2, <2>3 DEF Calm, LastQ
<1>7. LastIdle'
  BY <1>2, <1>5 DEF LastIdle, Ends, IsEnd
<1>8. BusyInv' /\ IdleInv' /\ SessInv'
  BY <1>5 DEF BusyInv, IdleInv, SessInv
<1>9. chat' = chat
  BY DEF EndTurn
<1>10. RowsInv'
  BY <1>1, <1>5, <1>9, NoItemApart DEF Calm, RowsInv, Rows
<1>11. PanelInv'
  BY <1>1 DEF PanelInv
<1> QED  BY <1>6, <1>7, <1>8, <1>10, <1>11 DEF Calm

\* What the user does: the requests of the page cover what it shows.
LEMMA UserCalm ==
  ASSUME TypeInv, Calm,
         \/ \E m \in Messages : sendMessage(m)
         \/ \E n \in 1..Len(chat.queued) : cancelQueuedItem(n)
         \/ cancelReview \/ finishEarly \/ retryLastFailed
  PROVE  Calm'
<1>1. UNCHANGED <<srv, frames, liveBusy, run, answers, asked>>
  BY DEF sendMessage, cancelQueuedItem, cancelReview, finishEarly, retryLastFailed,
         server, page
<1>2. LastQ' /\ LastIdle' /\ (Work' <=> Work) /\ (HasQ' <=> HasQ)
  BY <1>1, ViewKept
<1>3. BusyInv' /\ SessInv' /\ (NoNewRow => RowsInv')
  BY <1>1, PartsKept
<1>4. reqs \subseteq reqs'
  BY DEF sendMessage, cancelQueuedItem, cancelReview, finishEarly, retryLastFailed
<1>5. \A k \in {"send", "cancel", "retry"} : Pending(k) => Pending(k)'
  BY <1>4 DEF Pending
<1>6. RemovePending => RemovePending'
  BY <1>1, <1>4 DEF RemovePending, Rows
<1>7. ASSUME NoNewRow, IdleInv', PanelInv' PROVE Calm'
  BY <1>2, <1>3, <1>7 DEF Calm
<1>8. ASSUME ~Work', frames' = <<>>, ~Pending("send")', ~Pending("retry")'
      PROVE  Stopped(chat) /\ (chat.thinking => Finishing)
  BY <1>1, <1>2, <1>5, <1>8 DEF Calm, IdleInv
<1>9. ASSUME chat'.queued = chat.queued PROVE PanelInv' /\ NoNewRow
  <2>1. NoNewRow
    BY <1>9 DEF NoNewRow, Rows
  <2>2. PanelInv'
    <3> SUFFICES ASSUME srv'.active # NoItem, ~HasQ', ~Pending("send")', ~Pending("cancel")'
                 PROVE  chat'.queued = Panel(srv'.queue) \/ RemovePending'
      BY DEF PanelInv, Panel
    <3>1. chat.queued = Panel(srv.queue) \/ RemovePending
      BY <1>1, <1>2, <1>5 DEF Calm, PanelInv
    <3> QED  BY <1>1, <1>6, <1>9, <3>1
  <2> QED  BY <2>1, <2>2
<1>10. ASSUME NEW m \in Messages, sendMessage(m) PROVE Calm'
  <2>1. NoNewRow
    BY <1>10, SendMessageOK
  <2> DEFINE q == Request("send", [m |-> m, retry |-> 0])
  <2>2. q \in reqs' /\ q.k = "send"
    BY <1>10 DEF sendMessage, Request
  <2> HIDE DEF q
  <2>3. Pending("send")'
    BY <2>2 DEF Pending
  <2>4. IdleInv' /\ PanelInv'
    BY <2>3 DEF IdleInv, PanelInv
  <2> QED  BY <1>7, <2>1, <2>4
<1>11. ASSUME NEW n \in 1..Len(chat.queued), cancelQueuedItem(n) PROVE Calm'
  <2>1. NoNewRow /\ chat.queued # <<>> /\ chat.queued[n] \in ChatRow
    BY <1>11, CancelQueuedOK
  <2>2. IdleInv'
    BY <1>8, <2>1 DEF IdleInv, Stopped
  <2>3. PanelInv'
    <3> SUFFICES ASSUME srv'.active # NoItem, ~HasQ', ~Pending("send")', ~Pending("cancel")'
                 PROVE  RemovePending'
      BY DEF PanelInv
    <3>1. chat.queued = Panel(srv.queue) \/ RemovePending
      BY <1>1, <1>2, <1>5 DEF Calm, PanelInv
    <3>2. CASE chat.queued = Panel(srv.queue)
      <4> DEFINE row == chat.queued[n]
                 q == Request("remove", row.it)
      <4>1. srv.queue \in Seq(Item)
        BY DEF TypeInv, ServerType, ServerState
      <4>2. n \in 1..Len(srv.queue) /\ row.id /\ row.it = srv.queue[n]
        BY <3>2, <4>1, PanelType
      <4>3. reqs' = IF row.id THEN reqs \cup {q} ELSE reqs
        BY <1>11 DEF cancelQueuedItem
      <4>4. q.k = "remove" /\ q.it = row.it
        BY DEF Request
      <4> HIDE DEF row, q
      <4>5. q \in reqs' /\ q.it \in Rows(srv.queue)
        BY <4>2, <4>3, <4>4 DEF Rows
      <4> QED  BY <1>1, <4>4, <4>5 DEF RemovePending, Rows
    <3> QED  BY <1>6, <3>1, <3>2
  <2> QED  BY <1>7, <2>1, <2>2, <2>3
<1>12. ASSUME cancelReview PROVE Calm'
  <2>1. /\ NoNewRow /\ chat'.queued \in {chat.queued, <<>>} /\ chat'.liveAgentIdx = 0
        /\ chat'.thinking => chat'.queued # <<>>
    BY <1>12, CancelReviewOK
  <2>2. IdleInv'
    BY <1>8, <2>1 DEF IdleInv, Stopped
  <2> DEFINE q == Request("cancel", NoItem)
  <2>3. q \in reqs' /\ q.k = "cancel"
    BY <1>12 DEF cancelReview, Request
  <2> HIDE DEF q
  <2>4. PanelInv'
    BY <2>3 DEF PanelInv, Pending
  <2> QED  BY <1>7, <2>1, <2>2, <2>4
<1>13. ASSUME finishEarly PROVE Calm'
  <2>1. chat'.queued = chat.queued /\ chat'.liveAgentIdx = chat.liveAgentIdx
    BY <1>13, FinishEarlyOK
  <2> DEFINE q == Request("finish", NoItem)
  <2>2. q \in reqs' /\ q.k = "finish"
    BY <1>13 DEF finishEarly, Request
  <2> HIDE DEF q
  <2>3. Finishing'
    BY <2>2 DEF Finishing, Pending
  <2>4. IdleInv'
    BY <1>8, <2>1, <2>3 DEF IdleInv, Stopped
  <2> QED  BY <1>7, <1>9, <2>1, <2>4
<1>14. ASSUME retryLastFailed PROVE Calm'
  <2>1. PICK m \in Messages :
          /\ chat'.queued = chat.queued
          /\ reqs' = reqs \cup {Request("retry", [m |-> m, retry |-> trouble'])}
    BY <1>14, RetryOK
  <2> DEFINE q == Request("retry", [m |-> m, retry |-> trouble'])
  <2>4. q \in reqs' /\ q.k = "retry"
    BY <2>1 DEF Request
  <2> HIDE DEF q
  <2>2. Pending("retry")'
    BY <2>4 DEF Pending
  <2>3. IdleInv'
    BY <2>2 DEF IdleInv
  <2> QED  BY <1>7, <1>9, <2>1, <2>3
<1> QED  BY <1>10, <1>11, <1>12, <1>13, <1>14

\* A removal that finds nothing, and a confirm.
LEMMA ServedCalm ==
  ASSUME TypeInv, ServerInv, Calm, NEW r \in reqs, ~upset',
         RemoveQueuedItem(r) \/ FinishServed(r)
  PROVE  Calm'
<1>1. CASE RemoveQueuedItem(r)
  <2>1. /\ r.k = "remove" /\ reqs' = reqs \ {r}
        /\ UNCHANGED <<asked, answers, run, liveBusy, chat>>
    BY <1>1 DEF RemoveQueuedItem, Serve, page
  <2>2. CASE UNCHANGED <<srv, frames, socket, upset>> /\ r.it \notin Rows(srv.queue)
    <3>1. LastQ' /\ LastIdle' /\ (Work' <=> Work) /\ (HasQ' <=> HasQ)
      BY <2>2, ViewKept
    <3>2. BusyInv' /\ SessInv' /\ RowsInv'
      BY <2>1, <2>2, PartsKept
    <3>3. \A k \in {"send", "cancel", "retry", "finish"} : Pending(k) => Pending(k)'
      BY <2>1 DEF Pending
    <3>4. Finishing => Finishing'
      BY <2>1, <2>2, <3>3 DEF Finishing, DoneComes, DoneLoad, Rows
    <3>5. IdleInv'
      BY <2>1, <2>2, <3>1, <3>3, <3>4 DEF Calm, IdleInv, Stopped
    <3>6. RemovePending => RemovePending'
      BY <2>1, <2>2 DEF RemovePending, Rows
    <3>7. PanelInv'
      <4> SUFFICES ASSUME srv'.active # NoItem, ~HasQ', ~Pending("send")', ~Pending("cancel")'
                   PROVE  chat'.queued = Panel(srv'.queue) \/ RemovePending'
        BY DEF PanelInv, Panel
      <4>1. chat.queued = Panel(srv.queue) \/ RemovePending
        BY <2>2, <3>1, <3>3 DEF Calm, PanelInv
      <4> QED  BY <2>1, <2>2, <3>6, <4>1
    <3> QED  BY <3>1, <3>2, <3>5, <3>7 DEF Calm
  <2>3. CASE ServerStepOK /\ QueueTold /\ TurnKept
    <3>1. srv' \in ServerState /\ srv'.active = srv.active
      BY <2>3 DEF ServerStepOK, TurnKept
    <3> QED  BY <2>1, <2>3, <3>1, CalmTold
  <2>4. \/ UNCHANGED <<srv, frames, socket, upset>> /\ r.it \notin Rows(srv.queue)
        \/ ServerStepOK /\ QueueTold /\ TurnKept
    BY <1>1, RemoveOK
  <2> QED  BY <2>2, <2>3, <2>4
<1>2. CASE FinishServed(r)
  <2>1. /\ r.k = "finish" /\ reqs' = reqs \ {r} /\ asked' = TRUE
        /\ UNCHANGED <<frames, answers, run, liveBusy>>
    BY <1>2 DEF FinishServed, Serve
  <2>2. srv'.active = srv.active /\ srv'.queue = srv.queue
    BY <1>2, FinishOK DEF TurnKept
  <2>3. LastQ' /\ LastIdle' /\ (Work' <=> Work) /\ (HasQ' <=> HasQ)
    BY <2>1, <2>2, ViewKept
  <2>4. \/ DoneComes' /\ chat' = chat
        \/ chat' = WatchConfirmError(chat)
    BY <1>2, FinishServedOK
  <2>5. /\ chat'.queued = chat.queued /\ chat'.liveAgentIdx = chat.liveAgentIdx
        /\ \/ DoneComes' /\ chat' = chat
           \/ chat'.thinking => chat.queued # <<>> \/ chat.liveAgentIdx > 0
    <3>1. CASE DoneComes' /\ chat' = chat
      BY <3>1
    <3>2. CASE chat' = WatchConfirmError(chat)
      <4>1. ChatOK(chat)
        BY DEF TypeInv, PageType
      <4> QED  BY <3>2, <4>1, ConfirmErrorOK
    <3> QED  BY <2>4, <3>1, <3>2
  <2>6. NoNewRow
    BY <2>5 DEF NoNewRow, Rows
  <2>7. BusyInv' /\ RowsInv' /\ SessInv'
    BY <2>1, <2>2, <2>6, PartsKept
  <2>8. \A k \in {"send", "cancel", "retry"} : Pending(k) => Pending(k)'
    BY <2>1 DEF Pending
  <2>9. IdleInv'
    BY <2>1, <2>3, <2>5, <2>8 DEF Calm, IdleInv, Stopped, Finishing
  <2>10. RemovePending => RemovePending'
    BY <2>1, <2>2 DEF RemovePending, Rows
  <2>11. PanelInv'
    <3> SUFFICES ASSUME srv'.active # NoItem, ~HasQ', ~Pending("send")', ~Pending("cancel")'
                 PROVE  chat'.queued = Panel(srv'.queue) \/ RemovePending'
      BY DEF PanelInv, Panel
    <3>1. chat.queued = Panel(srv.queue) \/ RemovePending
      BY <2>2, <2>3, <2>8 DEF Calm, PanelInv
    <3> QED  BY <2>2, <2>5, <2>10, <3>1
  <2> QED  BY <2>3, <2>7, <2>9, <2>11 DEF Calm
<1> QED  BY <1>1, <1>2

\* Loads of the run, on their way.
LEMMA LoadCalm ==
  ASSUME TypeInv, ServerInv, ReqsOnce, Next, Calm,
         \/ PollTick \/ ReadLoad
         \/ \E n \in 1..Len(answers) : LandLoad(n) \/ DropLoad(n)
  PROVE  Calm'
<1>1. UNCHANGED <<srv, frames, liveBusy, reqs, trouble>>
  BY DEF PollTick, ReadLoad, LandLoad, DropLoad, server
<1>2. TypeParts /\ Len(answers) \in Nat
  BY TypePartsOK DEF TypeParts
<1>3. /\ LastQ' /\ LastIdle' /\ (Work' <=> Work) /\ (HasEnd' <=> HasEnd)
      /\ (FirstSnapshot' <=> FirstSnapshot)
  BY <1>1, ViewKept
<1>4. BusyInv'
  BY <1>1, PartsKept
<1>5. ASSUME UNCHANGED <<chat, run>>, SessInv' PROVE Calm'
  <2>1. RowsInv' /\ PanelInv'
    BY <1>1, <1>5, PartsKept
  <2>2. Finishing => Finishing'
    BY <1>1, <1>5, FinishingStays
  <2>3. IdleInv'
    BY <1>1, <1>3, <1>5, <2>2 DEF Calm, IdleInv, Pending, Stopped
  <2> QED  BY <1>3, <1>4, <1>5, <2>1, <2>3 DEF Calm
<1>6. FirstSnapshot' => srv'.active # NoItem \/ HasEnd'
  BY <1>1, <1>3 DEF Calm, SessInv
<1>7. ASSUME PollTick PROVE Calm'
  <2>1. asked' = TRUE /\ UNCHANGED <<run, chat>>
    BY <1>7 DEF PollTick
  <2>2. SessInv'
    BY <1>6, <2>1 DEF SessInv
  <2> QED  BY <1>5, <2>1, <2>2
<1>8. ASSUME ReadLoad PROVE Calm'
  <2> DEFINE a == [r |-> runDetail, landed |-> FALSE]
  <2>1. answers' = Append(answers, a) /\ UNCHANGED <<run, chat>>
    BY <1>8 DEF ReadLoad
  <2>2. /\ runDetail \in Detail /\ runDetail.sess = ReactSessions
        /\ srv.alive => ReactSessions.busy = (srv.active # NoItem)
        /\ ~srv.alive => ReactSessions = NoSession
    BY SessionType DEF TypeInv
  <2>3. srv.active = NoItem => ~ReactSessions.busy
    <3>1. srv.alive \in BOOLEAN
      BY <1>2 DEF TypeParts, ServerState
    <3>2. CASE srv.alive
      BY <2>2, <3>2
    <3>3. CASE ~srv.alive
      BY <2>2, <3>3 DEF NoSession
    <3> QED  BY <3>1, <3>2, <3>3
  <2>4. a \in Answer /\ a.r.sess = ReactSessions
    BY <2>2 DEF Answer
  <2>5. a.landed = FALSE
    OBVIOUS
  <2> HIDE DEF a
  <2>6. Rows(answers') = Rows(answers) \cup {a}
    BY <1>2, <2>1, <2>4, AppendedRows DEF TypeParts
  <2>7. srv.active = NoItem => SessMends'
    <3> SUFFICES ASSUME srv.active = NoItem PROVE SessMends'
      OBVIOUS
    <3>1. Mends(a)
      <4>1. a.r.sess.busy \in BOOLEAN
        BY <2>4 DEF Answer, Detail, Session
      <4> QED  BY <2>3, <2>4, <2>5, <4>1 DEF Mends
    <3>2. a \in Rows(answers')
      BY <2>6
    <3> QED  BY <3>1, <3>2 DEF SessMends, Mends, Rows
  <2>8. SessInv'
    BY <1>1, <1>6, <2>7 DEF SessInv
  <2> QED  BY <1>5, <2>1, <2>8
<1>9. ASSUME NEW n \in 1..Len(answers), DropLoad(n) PROVE Calm'
  <2>1. /\ answers' = RemoveAt(answers, n) /\ UNCHANGED <<asked, run, chat>>
        /\ ~answers[n].landed /\ answers[n].r.sess.busy = run.sess.busy
    BY <1>9 DEF DropLoad
  <2>2. Rows(answers) \ {answers[n]} \subseteq Rows(answers')
    BY <1>2, <2>1, RemoveRow DEF TypeParts
  <2>3. run.sess.busy => ~Mends(answers[n])
    <3>1. answers[n] \in Answer
      BY <1>2 DEF TypeParts
    <3>2. answers[n].landed \in BOOLEAN /\ answers[n].r.sess.busy \in BOOLEAN
      BY <3>1 DEF Answer, Detail, Session
    <3> QED  BY <2>1, <3>2 DEF Mends
  <2>4. run.sess.busy /\ SessMends => SessMends'
    BY <2>2, <2>3 DEF SessMends, Mends, Rows
  <2>5. SessInv'
    BY <1>1, <1>3, <1>6, <2>1, <2>4 DEF Calm, SessInv
  <2> QED  BY <1>5, <2>1, <2>5
<1>10. ASSUME NEW n \in 1..Len(answers), LandLoad(n) PROVE Calm'
  <2>1. /\ chat'.queued = chat.queued /\ chat'.liveAgentIdx \in {0, chat.liveAgentIdx}
        /\ chat'.thinking => chat.thinking
        /\ run'.done /\ ~run.done => ~chat'.thinking
        /\ run' = answers[n].r /\ answers[n] \in Answer
        /\ Len(answers') = Len(answers) /\ answers'[n].r = answers[n].r
        /\ answers' \in Seq(Answer)
    BY <1>10, LandLoadOK
  <2>2. answers'[n].landed
    BY <1>10, LandLoadOK
  <2>3. answers'[n] \in Rows(answers') /\ answers'[n] \in Answer
    BY <1>2, <2>1 DEF Rows
  <2>4. run'.sess.busy => SessMends'
    <3> SUFFICES ASSUME run'.sess.busy PROVE SessMends'
      OBVIOUS
    <3>1. /\ answers'[n].r.sess.busy
          /\ answers'[n].landed \in BOOLEAN /\ answers'[n].r.sess.busy \in BOOLEAN
      BY <2>1, <2>3 DEF Answer, Detail, Session
    <3>2. Mends(answers'[n])
      BY <2>2, <3>1 DEF Mends
    <3> QED  BY <2>3, <3>2 DEF SessMends, Mends, Rows
  <2>5. SessInv'
    BY <1>6, <2>4 DEF SessInv
  <2>6. NoNewRow
    BY <2>1 DEF NoNewRow, Rows
  <2>7. RowsInv' /\ PanelInv'
    BY <1>1, <2>1, <2>6, PartsKept
  <2>8. Finishing => Finishing' \/ (run'.done /\ ~run.done)
    BY <1>1, FinishingStays
  <2>9. IdleInv'
    BY <1>1, <1>3, <2>1, <2>8 DEF Calm, IdleInv, Pending, Stopped
  <2> QED  BY <1>3, <1>4, <2>5, <2>7, <2>9 DEF Calm
<1> QED  BY <1>7, <1>8, <1>9, <1>10

\* The sessions of a load, restored in step with the socket.
LEMMA RestoreCalm ==
  ASSUME TypeInv, ServerInv, ReqsOnce, Next, Calm, ~upset',
         NEW n \in 1..Len(answers), RestoreLanded(n)
  PROVE  Calm'
<1> DEFINE s == answers[n].r.sess
           conv == run.conv
<1>1. TypeParts /\ answers[n] \in Answer
  BY TypePartsOK DEF TypeParts
<1>2. /\ answers' = RemoveAt(answers, n) /\ answers[n].landed
      /\ chat' = Restore(chat, conv, s)
      /\ UNCHANGED <<srv, frames, reqs, asked, run, trouble>>
  BY DEF RestoreLanded
<1>3. liveBusy' = IF s.on THEN s.busy ELSE liveBusy
  BY DEF RestoreLanded
<1>4. upset' = (upset \/ OutOfStep(s))
  BY DEF RestoreLanded
<1>5. s = ReactSessions /\ (s.on => frames = <<>>)
  BY <1>4 DEF OutOfStep
<1>6. s \in Session
  BY <1>1 DEF Answer, Detail
<1>7. s.on \in BOOLEAN /\ s.busy \in BOOLEAN
  BY <1>6 DEF Session
<1>8. ChatOK(chat)
  BY <1>1 DEF TypeParts
<1>9. (answers[n].landed = s.busy) <=> Mends(answers[n])
  BY DEF Mends
<1>10. /\ s.on = srv.alive
       /\ srv.alive => s.items = srv.queue /\ s.act = srv.active
                       /\ s.busy = (srv.active # NoItem)
       /\ ~srv.alive => s = NoSession
  BY <1>5, SessionType DEF TypeInv
<1> HIDE DEF s, conv
<1>11. /\ ~s.on => chat' = chat
       /\ s.on /\ s.items = <<>> /\ ~s.busy /\ s.act = NoItem
             => Stopped(chat') /\ ~chat'.thinking
       /\ s.on /\ s.busy => chat'.queued = Panel(s.items)
  BY <1>2, <1>6, <1>8, RestoreOK
<1>12. ~s.on => ~Work
  BY <1>7, <1>10 DEF ServerInv
<1>13. s.busy => srv.active # NoItem
  <2>1. CASE srv.alive
    BY <1>10, <2>1
  <2>2. CASE ~srv.alive
    BY <1>10, <2>2 DEF NoSession
  <2> QED  BY <2>1, <2>2
<1>14. /\ LastQ' /\ LastIdle' /\ (Work' <=> Work) /\ (HasQ' <=> HasQ)
       /\ (HasEnd' <=> HasEnd) /\ (FirstSnapshot' <=> FirstSnapshot)
  BY <1>2, ViewKept
<1>15. BusyInv'
  <2> SUFFICES ASSUME ~Work, frames = <<>> PROVE ~liveBusy'
    BY <1>2, <1>14 DEF BusyInv
  <2>1. ~s.busy /\ ~liveBusy
    BY <1>13 DEF Work, Calm, BusyInv
  <2> QED  BY <1>3, <1>7, <2>1
<1>16. SessInv'
  <2>1. Rows(answers) \ {answers[n]} \subseteq Rows(answers')
    BY <1>1, <1>2, RemoveRow DEF TypeParts
  <2>2. Mends(answers[n]) => s.busy
    BY <1>2, <1>9
  <2>3. SessMends /\ srv.active = NoItem => SessMends'
    BY <1>13, <2>1, <2>2 DEF SessMends, Mends, Rows
  <2> QED  BY <1>2, <1>14, <2>3 DEF Calm, SessInv
<1>17. CASE ~s.on
  <2>1. chat' = chat
    BY <1>11, <1>17
  <2>2. RowsInv' /\ PanelInv'
    BY <1>2, <2>1, PartsKept
  <2>3. Finishing => Finishing'
    BY <1>2, FinishingStays
  <2>4. IdleInv'
    BY <1>2, <1>14, <2>1, <2>3 DEF Calm, IdleInv, Pending, Stopped
  <2> QED  BY <1>14, <1>15, <1>16, <2>2, <2>4 DEF Calm
<1>18. CASE s.on
  <2>1. srv.alive /\ s.items = srv.queue /\ s.act = srv.active
    BY <1>10, <1>18
  <2>2. s.busy <=> srv.active # NoItem
    BY <1>10, <1>13, <2>1
  <2>3. srv.active # NoItem => chat'.queued = Panel(srv.queue)
    BY <1>11, <1>18, <2>1, <2>2
  <2>4. srv.active = NoItem /\ srv.queue = <<>> => Stopped(chat') /\ ~chat'.thinking
    BY <1>11, <1>18, <2>1, <2>2
  <2>5. srv.queue \in Seq(Item)
    BY <1>1 DEF TypeParts, ServerState
  <2>6. RowsInv'
    <3> SUFFICES ASSUME srv.active # NoItem \/ srv.queue = <<>>,
                        NEW q \in Rows(chat'.queued)
                 PROVE  q.it \in Rows(srv.queue)
      BY <1>2 DEF RowsInv, Rows
    <3>1. CASE srv.active # NoItem
      BY <2>3, <2>5, <3>1, PanelType DEF Rows
    <3>2. CASE srv.active = NoItem /\ srv.queue = <<>>
      BY <2>4, <3>2 DEF Rows, Stopped
    <3> QED  BY <3>1, <3>2
  <2>7. IdleInv'
    BY <1>2, <2>4 DEF IdleInv, Work, Stopped
  <2>8. PanelInv'
    BY <1>2, <2>3 DEF PanelInv, Panel
  <2> QED  BY <1>14, <1>15, <1>16, <2>6, <2>7, <2>8 DEF Calm
<1> QED  BY <1>7, <1>17, <1>18

\* The frames after the first was received.
LEMMA TailFrames ==
  ASSUME TypeInv, FramesInv, Calm, frames # <<>>, frames' = Tail(frames), srv' = srv
  PROVE  /\ LastQ' /\ LastIdle' /\ (Work' <=> Work) /\ ~FirstSnapshot'
         /\ HasEnd => IsEnd(frames[1]) \/ HasEnd'
         /\ ~HasQ' /\ ~IsQ(frames[1]) => ~HasQ
         /\ ~HasQ' /\ IsQ(frames[1]) =>
              /\ frames[1].items = srv.queue
              /\ srv.active # NoItem => frames[1].busy
         /\ frames' = <<>> /\ ~Work => Ends(frames[1])
         /\ frames' = <<>> => ~HasQ'
<1>1. /\ Len(frames) \in Nat /\ Len(frames') = Len(frames) - 1 /\ Len(frames) >= 1
      /\ \A n \in 1..Len(frames') : frames'[n] = frames[n + 1]
      /\ frames' \in Seq(Frame)
  BY HeadTailProperties DEF TypeInv, ServerType
<1>2. \A n \in 1..Len(frames') : n + 1 \in 1..Len(frames) /\ n \in Nat
  BY <1>1
<1>3. \A n \in 1..Len(frames) : n = 1 \/ (n - 1 \in 1..Len(frames') /\ (n - 1) + 1 = n)
  BY <1>1
<1>4. \A n \in 1..Len(frames) : n = 1 \/ \E k \in 1..Len(frames') : frames'[k] = frames[n]
  BY <1>1, <1>3
<1>5. Work' <=> Work
  BY DEF Work
<1>6. LastQ'
  <2> SUFFICES ASSUME NEW n \in 1..Len(frames'), IsQ(frames'[n]),
                      \A m \in n + 1 .. Len(frames') : ~IsQ(frames'[m])
               PROVE  /\ frames'[n].items = srv'.queue
                      /\ srv'.active # NoItem => frames'[n].busy
    BY DEF LastQ, IsQ
  <2> DEFINE i == n + 1
  <2>1. i \in 1..Len(frames) /\ frames'[n] = frames[i] /\ i \in Nat /\ n \in Nat
    BY <1>1, <1>2
  <2>2. \A m \in i + 1 .. Len(frames) : ~IsQ(frames[m])
    <3> SUFFICES ASSUME NEW m \in i + 1 .. Len(frames) PROVE ~IsQ(frames[m])
      OBVIOUS
    <3>1. m - 1 \in n + 1 .. Len(frames') /\ m - 1 \in 1..Len(frames') /\ (m - 1) + 1 = m
      BY <1>1, <2>1
    <3> QED  BY <1>1, <3>1
  <2> HIDE DEF i
  <2> QED  BY <2>1, <2>2 DEF Calm, LastQ
<1>7. LastIdle'
  <2> SUFFICES ASSUME ~Work, frames' # <<>> PROVE Ends(frames'[Len(frames')])
    BY <1>5 DEF LastIdle, Ends, IsEnd
  <2>1. Len(frames') \in 1..Len(frames') /\ Len(frames') + 1 = Len(frames)
    BY <1>1
  <2>2. frames'[Len(frames')] = frames[Len(frames)]
    BY <1>1, <2>1
  <2> QED  BY <2>2 DEF Calm, LastIdle
<1>8. ~FirstSnapshot'
  <2> SUFFICES ASSUME frames' # <<>>, frames'[1].ev = "snapshot" PROVE FALSE
    BY DEF FirstSnapshot
  <2>1. frames'[1] = frames[2] /\ 2 \in 1..Len(frames)
    BY <1>1
  <2> QED  BY <2>1 DEF FramesInv
<1>9. HasEnd => IsEnd(frames[1]) \/ HasEnd'
  BY <1>4 DEF HasEnd, IsEnd
<1>10. ~HasQ' /\ ~IsQ(frames[1]) => ~HasQ
  BY <1>4 DEF HasQ, IsQ
<1>11. ASSUME ~HasQ', IsQ(frames[1])
       PROVE  frames[1].items = srv.queue /\ (srv.active # NoItem => frames[1].busy)
  <2>1. \A m \in 2..Len(frames) : ~IsQ(frames[m])
    <3> SUFFICES ASSUME NEW m \in 2..Len(frames) PROVE ~IsQ(frames[m])
      OBVIOUS
    <3>1. m \in 1..Len(frames) /\ m # 1
      BY <1>1
    <3>2. PICK k \in 1..Len(frames') : frames'[k] = frames[m]
      BY <1>4, <3>1
    <3> QED  BY <1>11, <3>2 DEF HasQ, IsQ
  <2>2. 1 \in 1..Len(frames) /\ 1 + 1 = 2
    BY <1>1
  <2> QED  BY <1>11, <2>1, <2>2 DEF Calm, LastQ
<1>12. frames' = <<>> /\ ~Work => Ends(frames[1])
  <2> SUFFICES ASSUME frames' = <<>>, ~Work PROVE Ends(frames[1])
    OBVIOUS
  <2> DEFINE e == <<>>
  <2>0. Len(e) = 0 /\ frames' = e
    OBVIOUS
  <2> HIDE DEF e
  <2>1. Len(frames') = 0
    BY ONLY <2>0
  <2>2. Len(frames) = 1
    <3> DEFINE L == Len(frames')
    <3>1. L = 0 /\ L = Len(frames) - 1 /\ Len(frames) \in Nat
      BY <1>1, <2>1
    <3> HIDE DEF L
    <3> QED  BY <3>1
  <2> QED  BY <2>2 DEF Calm, LastIdle
<1>13. frames' = <<>> => ~HasQ'
  BY <1>1 DEF HasQ
<1> QED  BY <1>5, <1>6, <1>7, <1>8, <1>9, <1>10, <1>11, <1>12, <1>13

LEMMA ReceiveCalm ==
  ASSUME TypeInv, TypeInv', FramesInv, QueueUnique, Calm, Receive
  PROVE  Calm'
<1> DEFINE f == frames[1]
           s == [on |-> TRUE, busy |-> f.busy, items |-> f.items, act |-> f.act]
<1>1. TypeParts /\ srv.queue \in Seq(Item) /\ chat.queued \in Seq(ChatRow)
  BY TypePartsOK DEF TypeParts, ServerState, ChatOK, Chats
<1>2. /\ Head(frames) = f /\ f.busy \in BOOLEAN /\ f.items \in Seq(Item)
      /\ f.ev = "begin" => f.act \in Item /\ f.busy
      /\ f.ev \in {"queue", "snapshot", "begin", "done", "error"}
  BY HeadFrame DEF Receive
<1>3. /\ frames # <<>> /\ frames' = Tail(frames)
      /\ UNCHANGED <<srv, reqs, answers>>
      /\ run' = IF f.ev = "snapshot" THEN [run EXCEPT !.sess = s] ELSE run
  BY <1>2 DEF Receive
<1>4. liveBusy' = (f.busy /\ f.ev \notin {"done", "error"})
  BY <1>2 DEF Receive
<1>5. asked' = (asked \/ f.ev \in {"done", "error"})
  BY <1>2 DEF Receive
<1>6. /\ f.ev = "begin" =>
           \/ chat'.queued = chat.queued
           \/ \E n \in 1..Len(chat.queued) :
                /\ chat.queued[n].id /\ chat.queued[n].it = f.act
                /\ chat'.queued = RemoveAt(chat.queued, n)
      /\ IsEnd(f) =>
           /\ chat'.liveAgentIdx = 0 /\ (chat'.thinking => chat'.queued # <<>>)
           /\ Rows(chat'.queued) = {q \in Rows(chat.queued) : q.id}
           /\ (\A n \in 1..Len(chat.queued) : chat.queued[n].id)
                => chat'.queued = chat.queued
      /\ IsQ(f) =>
           /\ f.items = <<>> /\ ~f.busy /\ f.act = NoItem
                => Stopped(chat') /\ ~chat'.thinking
           /\ f.busy => chat'.queued = Panel(f.items)
  BY ReceiveOK
<1>7. /\ LastQ' /\ LastIdle' /\ (Work' <=> Work) /\ ~FirstSnapshot'
      /\ HasEnd => IsEnd(f) \/ HasEnd'
      /\ ~HasQ' /\ ~IsQ(f) => ~HasQ
      /\ ~HasQ' /\ IsQ(f) => /\ f.items = srv.queue
                             /\ srv.active # NoItem => f.busy
      /\ frames' = <<>> /\ ~Work => Ends(f)
      /\ frames' = <<>> => ~HasQ'
  BY <1>3, TailFrames
<1>8. Plain(f)
  <2>1. 1 \in 1..Len(frames)
    BY <1>1, <1>3 DEF TypeParts
  <2> QED  BY <2>1 DEF FramesInv
<1>9. f.ev = "begin" => Begun(f.act)
  <2>1. 1 \in 1..Len(frames)
    BY <1>1, <1>3 DEF TypeParts
  <2> QED  BY <2>1 DEF Begun
<1>10. FirstSnapshot <=> f.ev = "snapshot" /\ f.busy
  BY <1>3 DEF FirstSnapshot
<1>11. f.ev = "snapshot" => run'.sess.busy = f.busy
  <2> HIDE DEF f
  <2>1. run \in Detail
    BY <1>1 DEF TypeParts
  <2>2. f.ev = "snapshot" => run'.sess = s
    BY <1>3, <2>1 DEF Detail
  <2>3. s.busy = f.busy
    OBVIOUS
  <2> HIDE DEF s
  <2> QED  BY <2>2, <2>3
<1> HIDE DEF f, s
<1>12. f.ev = "begin" \/ IsEnd(f) \/ IsQ(f)
  BY <1>2 DEF IsEnd, IsQ
<1>13. BusyInv'
  <2> SUFFICES ASSUME ~Work, frames' = <<>> PROVE ~liveBusy'
    BY <1>7 DEF BusyInv
  <2> QED  BY <1>2, <1>4, <1>7 DEF Ends, IsEnd
<1>14. SessInv'
  <2>1. IsEnd(f) => asked'
    BY <1>5 DEF IsEnd
  <2>2. SessMends => SessMends'
    BY <1>3 DEF SessMends, Mends, Rows
  <2>3. ASSUME run'.sess.busy PROVE srv.active # NoItem \/ HasEnd' \/ asked' \/ SessMends'
    <3>1. CASE f.ev = "snapshot"
      <4>1. srv.active # NoItem \/ HasEnd
        BY <1>10, <1>11, <2>3, <3>1 DEF Calm, SessInv
      <4> QED  BY <1>7, <2>1, <4>1
    <3>2. CASE f.ev # "snapshot"
      <4>1. run' = run
        BY <1>3, <3>2
      <4>2. srv.active # NoItem \/ HasEnd \/ asked \/ SessMends
        BY <2>3, <4>1 DEF Calm, SessInv
      <4> QED  BY <1>5, <1>7, <2>1, <2>2, <4>2
    <3> QED  BY <3>1, <3>2
  <2> QED  BY <1>3, <1>7, <2>3 DEF SessInv
<1>15. ASSUME IsQ(f), ~HasQ'
       PROVE  /\ srv.active # NoItem => chat'.queued = Panel(srv.queue)
              /\ ~f.busy => f.act = NoItem /\ srv.active = NoItem
              /\ srv.queue = <<>> /\ ~f.busy => Stopped(chat') /\ ~chat'.thinking
              /\ f.busy => chat'.queued = Panel(srv.queue)
  BY <1>6, <1>7, <1>8, <1>15 DEF Plain
<1>16. RowsInv'
  <2> SUFFICES ASSUME srv.active # NoItem \/ srv.queue = <<>>, ~HasQ',
                      NEW q \in Rows(chat'.queued), q.id
               PROVE  q.it \in Rows(srv.queue)
    BY <1>3 DEF RowsInv, Rows
  <2>1. CASE IsQ(f)
    <3>1. CASE f.busy
      BY <1>1, <1>15, <2>1, <3>1, PanelType DEF Rows
    <3>2. CASE ~f.busy
      BY <1>15, <2>1, <3>2 DEF Stopped, Rows
    <3> QED  BY <3>1, <3>2
  <2>2. CASE ~IsQ(f)
    <3>1. ~HasQ
      BY <1>7, <2>2
    <3>2. q \in Rows(chat.queued)
      <4>1. CASE f.ev = "begin"
        <5>1. CASE chat'.queued = chat.queued
          BY <5>1
        <5>2. CASE chat'.queued # chat.queued
          <6>1. PICK n \in 1..Len(chat.queued) : chat'.queued = RemoveAt(chat.queued, n)
            BY <1>6, <4>1, <5>2
          <6> QED  BY <1>1, <6>1, RemoveRow
        <5> QED  BY <5>1, <5>2
      <4>2. CASE IsEnd(f)
        BY <1>6, <4>2
      <4> QED  BY <1>12, <2>2, <4>1, <4>2
    <3> QED  BY <3>1, <3>2 DEF Calm, RowsInv
  <2> QED  BY <2>1, <2>2
<1>17. IdleInv'
  <2> SUFFICES ASSUME ~Work, frames' = <<>> PROVE Stopped(chat') /\ ~chat'.thinking
    BY <1>7 DEF IdleInv, Stopped
  <2>1. srv.queue = <<>> /\ Ends(f) /\ ~HasQ'
    BY <1>7 DEF Work
  <2>2. CASE IsQ(f)
    <3>1. ~f.busy
      BY <2>1, <2>2 DEF Ends, IsEnd, IsQ
    <3> QED  BY <1>15, <2>1, <2>2, <3>1
  <2>3. CASE f.ev = "begin"
    BY <1>2, <2>1, <2>3 DEF Ends, IsEnd
  <2>4. CASE IsEnd(f)
    <3>1. ~IsQ(f)
      BY <2>4 DEF IsEnd, IsQ
    <3>2. ~HasQ
      BY <1>7, <2>1, <3>1
    <3>3. \A q \in Rows(chat.queued) : ~q.id
      BY <2>1, <3>2 DEF Calm, RowsInv, Rows
    <3>4. Rows(chat'.queued) = {}
      BY <1>6, <2>4, <3>3
    <3>5. chat'.queued \in Seq(ChatRow)
      BY DEF TypeInv, PageType, ChatOK, Chats
    <3>6. chat'.queued = <<>>
      <4> DEFINE q == chat'.queued
      <4>1. q \in Seq(ChatRow) /\ Rows(q) = {}
        BY <3>4, <3>5
      <4> HIDE DEF q
      <4>2. Len(q) \in Nat /\ \A n \in 1..Len(q) : q[n] \in Rows(q)
        BY <4>1 DEF Rows
      <4>3. Len(q) = 0
        BY <4>1, <4>2
      <4>4. q = <<>>
        BY <4>1, <4>3
      <4> QED  BY <4>4 DEF q
    <3> QED  BY <1>6, <2>4, <3>6 DEF Stopped
  <2> QED  BY <1>12, <2>2, <2>3, <2>4
<1>18. PanelInv'
  <2> SUFFICES ASSUME srv.active # NoItem, ~HasQ', ~Pending("send"), ~Pending("cancel")
               PROVE  chat'.queued = Panel(srv.queue) \/ RemovePending
    BY <1>3 DEF PanelInv, Panel, Pending, RemovePending, Rows
  <2>1. CASE IsQ(f)
    BY <1>15, <2>1
  <2>2. CASE ~IsQ(f)
    <3> SUFFICES ASSUME ~RemovePending PROVE chat'.queued = Panel(srv.queue)
      OBVIOUS
    <3>1. chat.queued = Panel(srv.queue)
      BY <1>7, <2>2 DEF Calm, PanelInv
    <3>2. /\ Len(chat.queued) = Len(srv.queue)
          /\ \A n \in 1..Len(srv.queue) : chat.queued[n].id /\ chat.queued[n].it = srv.queue[n]
      BY <1>1, <3>1, PanelType
    <3>3. CASE f.ev = "begin"
      <4>1. \A n \in 1..Len(srv.queue) : srv.queue[n] # f.act
        BY <1>9, <3>3 DEF QueueUnique, Rows
      <4> QED  BY <1>6, <3>1, <3>2, <3>3, <4>1
    <3>4. CASE IsEnd(f)
      BY <1>6, <3>1, <3>2, <3>4
    <3> QED  BY <1>12, <2>2, <3>3, <3>4
  <2> QED  BY <2>1, <2>2
<1> QED  BY <1>7, <1>13, <1>14, <1>16, <1>17, <1>18 DEF Calm

\* The two frames of a connection to a session that is there.
LEMMA ConnectedCalm ==
  ASSUME TypeInv, srv.alive, frames' = ConnectFrames, srv' = srv,
         run'.sess.busy => srv.active # NoItem \/ asked' \/ SessMends'
  PROVE  Calm'
<1>1. PICK f \in Frame, g \in Frame :
        /\ frames' = <<f, g>> /\ f.ev = "snapshot" /\ g.ev = "queue"
        /\ g.items = srv.queue /\ g.busy = (srv.active # NoItem)
        /\ f.busy = (srv.active # NoItem)
  BY ConnectType
<1>2. Len(frames') = 2 /\ frames'[1] = f /\ frames'[2] = g /\ frames' # <<>>
  BY <1>1
<1>3. IsQ(f) /\ IsQ(g)
  BY <1>1 DEF IsQ
<1>4. HasQ'
  <2>1. 2 \in 1..Len(frames')
    BY <1>2
  <2> QED  BY <1>2, <1>3, <2>1 DEF HasQ, IsQ
<1>5. LastQ'
  <2> SUFFICES ASSUME NEW n \in 1..Len(frames'), IsQ(frames'[n]),
                      \A m \in n + 1 .. Len(frames') : ~IsQ(frames'[m])
               PROVE  /\ frames'[n].items = srv'.queue
                      /\ srv'.active # NoItem => frames'[n].busy
    BY DEF LastQ, IsQ
  <2>1. n = 1 \/ n = 2
    BY <1>2
  <2>2. n # 1
    <3> SUFFICES ASSUME n = 1 PROVE FALSE
      OBVIOUS
    <3>1. 2 \in n + 1 .. Len(frames')
      BY <1>2
    <3> QED  BY <1>2, <1>3, <3>1
  <2> QED  BY <1>1, <1>2, <2>1, <2>2
<1>6. LastIdle'
  <2> SUFFICES ASSUME ~Work PROVE Ends(frames'[Len(frames')])
    BY DEF LastIdle, Ends, IsEnd, Work
  <2>1. ~g.busy
    BY <1>1 DEF Work
  <2> QED  BY <1>2, <2>1 DEF Ends
<1>7. BusyInv' /\ IdleInv'
  BY <1>2 DEF BusyInv, IdleInv
<1>8. SessInv'
  BY <1>1, <1>2 DEF SessInv, FirstSnapshot
<1>9. RowsInv' /\ PanelInv'
  BY <1>4 DEF RowsInv, PanelInv
<1> QED  BY <1>5, <1>6, <1>7, <1>8, <1>9 DEF Calm

LEMMA ReconnectCalm ==
  ASSUME TypeInv, ServerInv, FramesInv, Calm, ~upset', Reconnect
  PROVE  Calm'
<1> DEFINE s == run.sess
           conv == run.conv
<1>1. /\ frames = <<>> /\ frames' = ConnectFrames /\ chat' = Restore(chat, conv, s)
      /\ UNCHANGED <<srv, reqs, asked, answers, run>>
  BY DEF Reconnect, FramesInv
<1>2. liveBusy' = IF s.on THEN s.busy ELSE liveBusy
  BY DEF Reconnect
<1>3. upset' = (upset \/ (s.on /\ s # ReactSessions))
  BY DEF Reconnect
<1>4. TypeParts /\ s \in Session /\ ChatOK(chat)
  BY TypePartsOK DEF TypeParts, Detail
<1>5. s.on => s = ReactSessions
  BY <1>3
<1>6. s.on \in BOOLEAN /\ srv.alive \in BOOLEAN
  BY <1>4 DEF Session, TypeParts, ServerState
<1>7. CASE srv.alive
  <2>1. ~HasEnd
    BY <1>1 DEF HasEnd
  <2>2. run'.sess.busy => srv.active # NoItem \/ asked' \/ SessMends'
    <3>1. run.sess.busy => srv.active # NoItem \/ asked \/ SessMends
      BY <2>1 DEF Calm, SessInv
    <3> QED  BY <1>1, <3>1 DEF SessMends, Mends, Rows
  <2> QED  BY <1>1, <1>7, <2>2, ConnectedCalm
<1>8. CASE ~srv.alive
  <2>1. ReactSessions = NoSession
    BY <1>8, SessionType DEF TypeInv
  <2>2. ~s.on
    <3> SUFFICES ASSUME s.on PROVE FALSE
      BY <1>6
    <3>1. s = NoSession
      BY <1>5, <2>1
    <3> QED  BY <3>1 DEF NoSession
  <2>3. frames' = frames
    BY <1>1, <1>8, ConnectType
  <2>4. liveBusy' = liveBusy
    BY <1>2, <2>2
  <2> HIDE DEF s, conv
  <2>5. chat' = chat
    BY <1>1, <1>4, <2>2, RestoreOK
  <2>6. Finishing => Finishing'
    BY <1>1 DEF Finishing, Pending, DoneComes, DoneLoad, Rows
  <2> QED  BY <1>1, <2>3, <2>4, <2>5, <2>6, CalmSame
<1> QED  BY <1>6, <1>7, <1>8

LEMMA RefreshCalm ==
  ASSUME TypeInv, ServerInv, Refresh
  PROVE  Calm'
<1> DEFINE s == ReactSessions
           conv == srv.conv
<1>1. /\ run' = runDetail /\ chat' = Restore(NewChat, conv, s)
      /\ frames' = ConnectFrames /\ srv' = srv
  BY DEF Refresh
<1>2. liveBusy' = (srv.active # NoItem)
  BY DEF Refresh
<1>3. /\ s \in Session /\ runDetail.sess = s /\ s.on = srv.alive
      /\ srv.alive => s.busy = (srv.active # NoItem)
      /\ ~srv.alive => s = NoSession
  BY SessionType DEF TypeInv
<1>4. srv.alive \in BOOLEAN
  BY DEF TypeInv, ServerType, ServerState
<1> HIDE DEF s, conv
<1>5. CASE srv.alive
  <2>1. run'.sess.busy => srv.active # NoItem
    BY <1>1, <1>3, <1>5
  <2> QED  BY <1>1, <1>5, <2>1, ConnectedCalm
<1>6. CASE ~srv.alive
  <2>1. ~Work /\ srv.active = NoItem
    BY <1>6 DEF ServerInv, Work
  <2>2. frames' = <<>>
    BY <1>1, <1>6, ConnectType
  <2>3. ~s.on /\ ~s.busy
    BY <1>3, <1>6 DEF NoSession
  <2>4. chat' = NewChat
    BY <1>1, <1>3, <2>3, NewChatOK, RestoreOK
  <2>5. ~liveBusy'
    BY <1>2, <2>1
  <2>6. Stopped(chat') /\ ~chat'.thinking
    BY <2>4, NewChatOK
  <2> DEFINE e == <<>>
  <2>7. Len(e) = 0 /\ frames' = e
    BY <2>2
  <2> HIDE DEF e
  <2>8. Len(frames') = 0
    BY ONLY <2>7
  <2>9. LastQ' /\ LastIdle'
    BY <2>2, <2>8 DEF LastQ, LastIdle
  <2>10. BusyInv'
    BY <2>5 DEF BusyInv
  <2>11. SessInv'
    BY <1>1, <1>3, <2>2, <2>3 DEF SessInv, FirstSnapshot
  <2>12. RowsInv'
    BY <2>6 DEF RowsInv, Rows, Stopped
  <2>13. IdleInv'
    BY <2>6 DEF IdleInv, Stopped
  <2>14. PanelInv'
    BY <1>1, <2>1 DEF PanelInv
  <2> QED  BY <2>9, <2>10, <2>11, <2>12, <2>13, <2>14 DEF Calm
<1> QED  BY <1>4, <1>5, <1>6

LEMMA CalmNext ==
  ASSUME Inv, TypeInv', Next, ~upset'
  PROVE  Calm'
<1>1. TypeInv /\ ServerInv /\ FramesInv /\ Unique /\ QueueUnique /\ ReqsOnce /\ TypeParts
  BY TypePartsOK DEF Inv, Unique
<1>2. ASSUME Refresh PROVE Calm'
  BY <1>1, <1>2, RefreshCalm
<1>3. Refresh \/ Calm
  <2> SUFFICES ASSUME upset, ~Refresh PROVE FALSE
    BY DEF Inv
  <2> DEFINE Said(new) == publishReview(new)
  <2>1. ASSUME NEW new, publishReview(new) PROVE FALSE
    BY <2>1 DEF publishReview
  <2>2. ASSUME NEW it, enqueueReactTurn(it) PROVE FALSE
    BY <2>1, <2>2 DEF enqueueReactTurn
  <2>3. ASSUME NEW m \in Messages, SendElsewhere(m) \/ sendMessage(m) PROVE FALSE
    BY <2>2, <2>3 DEF SendElsewhere, sendMessage, server
  <2>4. ASSUME Dequeue \/ EndTurn \/ dropReviewSessionIfIdle PROVE FALSE
    BY <2>1, <2>4 DEF Dequeue, EndTurn, dropReviewSessionIfIdle
  <2>5. ASSUME NEW st \in Saved \ {"open"}, NEW done \in BOOLEAN, SaveAnswer(st, done)
        PROVE  FALSE
    BY <2>5 DEF SaveAnswer
  <2>6. ASSUME NEW n \in 1..Len(chat.queued), cancelQueuedItem(n) PROVE FALSE
    BY <2>6 DEF cancelQueuedItem, server
  <2>7. ASSUME cancelReview \/ finishEarly \/ retryLastFailed PROVE FALSE
    BY <2>7 DEF cancelReview, finishEarly, retryLastFailed, server
  <2>8. ASSUME NEW r \in reqs, \/ SendServed(r) \/ SendFails(r)
                               \/ RetryServed(r) \/ RetryFails(r)
        PROVE  FALSE
    BY <2>2, <2>8 DEF SendServed, SendFails, RetryServed, RetryFails
  <2>9. ASSUME NEW r \in reqs, \/ RemoveQueuedItem(r) \/ cancelReactSession(r)
                               \/ FinishServed(r)
        PROVE  FALSE
    <3>1. CASE RemoveQueuedItem(r)
      <4>1. upset' = upset \/ \E new : publishReview(new)
        BY <3>1 DEF RemoveQueuedItem, server
      <4> QED  BY <2>1, <4>1
    <3>2. CASE cancelReactSession(r)
      BY <2>1, <3>2 DEF cancelReactSession
    <3>3. CASE FinishServed(r)
      BY <3>3 DEF FinishServed
    <3> QED  BY <2>9, <3>1, <3>2, <3>3
  <2>10. ASSUME PollTick \/ ReadLoad PROVE FALSE
    BY <2>10 DEF PollTick, ReadLoad, server
  <2>11. ASSUME NEW n \in 1..Len(answers), LandLoad(n) \/ RestoreLanded(n) \/ DropLoad(n)
         PROVE  FALSE
    BY <2>11 DEF LandLoad, RestoreLanded, DropLoad, server
  <2>12. ASSUME Receive PROVE FALSE
    <3>1. upset' = upset
      BY <2>12 DEF Receive
    <3> QED  BY <3>1
  <2>13. ASSUME SocketDrops \/ Reconnect PROVE FALSE
    BY <2>13 DEF SocketDrops, Reconnect
  <2> HIDE DEF Inv
  <2> QED
    BY <2>3, <2>4, <2>5, <2>6, <2>7, <2>8, <2>9, <2>10, <2>11, <2>12, <2>13 DEF Next
<1> SUFFICES ASSUME Calm PROVE Calm'
  BY <1>2, <1>3
<1>4. ASSUME NEW it \in Item, enqueueReactTurn(it), UNCHANGED <<run, answers, asked>>
      PROVE  Calm'
  <2>1. srv' \in ServerState /\ srv'.active = srv.active /\ QueueTold
    BY <1>1, <1>4, EnqueueOK DEF ServerStepOK, TurnKept
  <2> QED  BY <1>1, <1>4, <2>1, CalmTold
<1>5. ASSUME NEW m \in Messages, SendElsewhere(m) PROVE Calm'
  <2> DEFINE it == [m |-> m, retry |-> 0]
  <2>1. it \in Item
    BY <1>1 DEF Item, TypeParts
  <2>2. enqueueReactTurn(it) /\ UNCHANGED <<run, answers, asked>>
    BY <1>5 DEF SendElsewhere
  <2> HIDE DEF it
  <2> QED  BY <1>4, <2>1, <2>2
<1>6. ASSUME NEW m \in Messages, sendMessage(m) PROVE Calm'
  BY <1>1, <1>6, UserCalm
<1>7. ASSUME Dequeue \/ EndTurn PROVE Calm'
  BY <1>1, <1>7, DequeueCalm, EndTurnCalm
<1>8. ASSUME dropReviewSessionIfIdle PROVE Calm'
  <2>1. srv'.queue = srv.queue /\ srv'.active = srv.active
    BY <1>1, <1>8, DropOK DEF TurnKept
  <2>2. srv'.done = srv.done
    BY <1>1, <1>8, DropOK
  <2>3. UNCHANGED <<frames, liveBusy, run, answers, chat, reqs, asked>>
    BY <1>8 DEF dropReviewSessionIfIdle
  <2>4. Finishing => Finishing'
    BY <2>2, <2>3 DEF Finishing, Pending, DoneComes, DoneLoad, Rows
  <2> QED  BY <2>1, <2>3, <2>4, CalmSame
<1>9. ASSUME NEW st \in Saved \ {"open"}, NEW done \in BOOLEAN, SaveAnswer(st, done)
      PROVE  Calm'
  <2>1. srv'.queue = srv.queue /\ srv'.active = srv.active /\ srv.turn = "running"
    BY <1>1, <1>9, SaveAnswerOK
  <2>2. UNCHANGED <<frames, liveBusy, run, answers, chat, reqs, asked>>
    BY <1>9 DEF SaveAnswer
  <2>3. Work
    BY <1>1, <2>1 DEF TypeParts, TurnOK, Work
  <2> QED  BY <2>1, <2>2, <2>3, CalmSame
<1>10. ASSUME \/ \E n \in 1..Len(chat.queued) : cancelQueuedItem(n)
              \/ cancelReview \/ finishEarly \/ retryLastFailed
       PROVE  Calm'
  BY <1>1, <1>10, UserCalm
<1>11. ASSUME NEW r \in reqs, SendServed(r) PROVE Calm'
  <2>1. r.it \in Item
    BY <1>1, <1>11, ServedType DEF SendServed
  <2>2. enqueueReactTurn(r.it) /\ UNCHANGED <<run, answers, asked>>
    BY <1>11 DEF SendServed, page
  <2> QED  BY <1>4, <2>1, <2>2
<1>12. ASSUME NEW r \in reqs, RetryServed(r) PROVE Calm'
  <2>1. RetryOf(r.it) \in Item
    BY <1>1, <1>12, RetryItem
  <2>2. enqueueReactTurn(RetryOf(r.it)) /\ UNCHANGED <<run, answers, asked>>
    BY <1>12 DEF RetryServed, RetryOf, page
  <2> QED  BY <1>4, <2>1, <2>2
<1>13. ASSUME NEW r \in reqs, SendFails(r) \/ RetryFails(r) PROVE FALSE
  BY <1>13 DEF SendFails, RetryFails
<1>14. ASSUME NEW r \in reqs, RemoveQueuedItem(r) \/ FinishServed(r) PROVE Calm'
  BY <1>1, <1>14, ServedCalm
<1>15. ASSUME NEW r \in reqs, cancelReactSession(r) PROVE Calm'
  <2>1. srv' \in ServerState /\ srv'.active = srv.active /\ QueueTold
    BY <1>1, <1>15, CancelOK DEF ServerStepOK, TurnKept
  <2>2. UNCHANGED <<run, answers, asked>>
    BY <1>15 DEF cancelReactSession, page
  <2> QED  BY <1>1, <2>1, <2>2, CalmTold
<1>16. ASSUME PollTick \/ ReadLoad PROVE Calm'
  BY <1>1, <1>16, LoadCalm
<1>17. ASSUME NEW n \in 1..Len(answers), LandLoad(n) \/ DropLoad(n) PROVE Calm'
  BY <1>1, <1>17, LoadCalm
<1>18. ASSUME NEW n \in 1..Len(answers), RestoreLanded(n) PROVE Calm'
  BY <1>1, <1>18, RestoreCalm
<1>19. ASSUME Receive PROVE Calm'
  BY <1>1, <1>19, ReceiveCalm
<1>20. ASSUME SocketDrops PROVE Calm'
  <2>1. frames' = <<>> /\ UNCHANGED <<srv, reqs, asked, answers, run, liveBusy, chat>>
    BY <1>20 DEF SocketDrops
  <2>2. upset' = (upset \/ frames # <<>>)
    BY <1>20 DEF SocketDrops
  <2>3. frames' = frames
    BY <2>1, <2>2
  <2>4. Finishing => Finishing'
    BY <2>1 DEF Finishing, Pending, DoneComes, DoneLoad, Rows
  <2> QED  BY <2>1, <2>3, <2>4, CalmSame
<1>21. ASSUME Reconnect PROVE Calm'
  BY <1>1, <1>21, ReconnectCalm
<1> HIDE DEF Inv
<1> QED
  BY <1>2, <1>5, <1>6, <1>7, <1>8, <1>9, <1>10, <1>11, <1>12, <1>13, <1>14, <1>15,
     <1>16, <1>17, <1>18, <1>19, <1>20, <1>21 DEF Next

-----------------------------------------------------------------------------
(* The invariant, and what it says                                         *)

LEMMA InvInit == Init => Inv
<1> SUFFICES ASSUME Init PROVE Inv
  OBVIOUS
<1>1. /\ unsent = Messages /\ frames = <<>> /\ socket = TRUE /\ reqs = {}
      /\ asked = FALSE /\ answers = <<>> /\ liveBusy = FALSE /\ chat = NewChat
      /\ trouble = 0 /\ upset = FALSE
      /\ srv = [queue |-> <<>>, active |-> NoItem, turn |-> "none", cancelled |-> FALSE,
                alive |-> FALSE, conv |-> <<>>, at |-> 0, done |-> FALSE]
      /\ run = [conv |-> <<>>, at |-> 0, done |-> FALSE, sess |-> NoSession]
  BY DEF Init
<1>2. /\ <<>> \in Seq(Item) /\ <<>> \in Seq(Frame) /\ <<>> \in Seq(Exchange(Saved))
      /\ <<>> \in Seq(Answer)
  OBVIOUS
<1>3. srv \in ServerState
  BY <1>1, <1>2 DEF ServerState
<1>4. NoSession \in Session
  BY <1>2 DEF NoSession, Session
<1>5. run \in Detail
  BY <1>1, <1>2, <1>4 DEF Detail
<1>6. /\ srv.queue = <<>> /\ srv.active = NoItem /\ srv.turn = "none" /\ ~srv.done
      /\ ~run.done /\ run.sess = NoSession
  BY <1>1
<1>7. TypeInv
  <2>1. TurnOK
    BY <1>6 DEF TurnOK
  <2>2. trouble \in 0..MaxTrouble /\ Len(answers) <= MaxGets
    BY <1>1, ChatAssumption
  <2>3. Flags
    BY <1>1 DEF Flags
  <2>4. ChatOK(chat)
    BY <1>1, NewChatOK
  <2> QED  BY <1>1, <1>2, <1>3, <1>5, <2>1, <2>2, <2>3, <2>4
          DEF TypeInv, ServerType, PageType
<1> DEFINE e == <<>>
<1>8. Len(e) = 0 /\ frames = e /\ answers = e /\ srv.queue = e
  BY <1>1, <1>6
<1> HIDE DEF e
<1>9. Len(frames) = 0 /\ Rows(answers) = {} /\ Rows(srv.queue) = {}
  BY ONLY <1>8 DEF Rows
<1>10. ~Work /\ ServerInv
  <2>1. ~Work
    BY <1>6 DEF Work
  <2> QED  BY <1>6, <1>9, <2>1 DEF ServerInv
<1>11. FramesInv
  BY <1>1, <1>9 DEF FramesInv
<1>12. Stopped(chat) /\ ~chat.thinking /\ ~chat.validating
  BY <1>1, NewChatOK
<1>13. FinishInv
  BY <1>12 DEF FinishInv
<1>14. Unique
  <2>1. NoRepeat(srv.queue)
    <3>1. Len(srv.queue) = 0
      BY ONLY <1>8
    <3> QED  BY <3>1 DEF NoRepeat
  <2>2. \A it \in Item : ~Known(it)
    BY <1>6, <1>9, NoItemApart DEF Known, Begun
  <2> QED  BY <1>1, <1>9, <2>1, <2>2 DEF Unique, QueueUnique, KnownOnce, ReqsOnce
<1>15. Calm
  <2>1. LastQ /\ LastIdle
    BY <1>1, <1>9 DEF LastQ, LastIdle
  <2>2. BusyInv
    BY <1>1 DEF BusyInv
  <2>3. ~run.sess.busy
    BY <1>6 DEF NoSession
  <2>4. SessInv
    BY <1>1, <2>3 DEF SessInv, FirstSnapshot
  <2>5. RowsInv /\ IdleInv
    BY <1>12 DEF RowsInv, IdleInv, Stopped, Rows
  <2>6. PanelInv
    BY <1>6 DEF PanelInv
  <2> QED  BY <2>1, <2>2, <2>4, <2>5, <2>6 DEF Calm
<1> QED  BY <1>7, <1>10, <1>11, <1>13, <1>14, <1>15 DEF Inv

LEMMA InvStays == Inv /\ UNCHANGED vars => Inv'
<1> SUFFICES ASSUME Inv, UNCHANGED vars PROVE Inv'
  OBVIOUS
<1> USE DEF vars
<1>1. TypeInv'
  BY DEF Inv, TypeInv, ServerType, PageType, Flags, TurnOK, ChatOK, Streaming
<1>2. ServerInv' /\ FramesInv'
  BY DEF Inv, ServerInv, FramesInv, Work, Rows, Plain, IsQ
<1>3. Finishing => Finishing'
  BY DEF Finishing, Pending, DoneComes, DoneLoad, Rows
<1>4. FinishInv'
  BY <1>3 DEF Inv, FinishInv
<1>5. Unique'
  <2>1. QueueUnique'
    BY DEF Inv, Unique, QueueUnique, NoRepeat, Rows, Begun
  <2>2. \A it \in Item : Known(it)' => Known(it)
    BY DEF Known, Begun, Rows
  <2>3. KnownOnce'
    BY <2>2 DEF Inv, Unique, KnownOnce
  <2>4. ReqsOnce'
    BY DEF Inv, Unique, ReqsOnce
  <2> QED  BY <2>1, <2>3, <2>4 DEF Unique
<1>6. ~upset' => Calm'
  <2> SUFFICES ASSUME ~upset PROVE Calm'
    OBVIOUS
  <2>1. Calm
    BY DEF Inv
  <2> HIDE DEF Inv
  <2> QED  BY <1>3, <2>1, CalmSame
<1> QED  BY <1>1, <1>2, <1>4, <1>5, <1>6 DEF Inv

LEMMA InvNext == Inv /\ Next => Inv'
<1> SUFFICES ASSUME Inv, Next PROVE Inv'
  OBVIOUS
<1>1. TypeInv /\ ServerInv /\ FramesInv /\ FinishInv /\ Unique /\ ReqsOnce
  BY DEF Inv, Unique
<1>2. TypeInv'
  BY <1>1, TypeNext
<1>3. ServerInv' /\ FramesInv' /\ FinishInv' /\ Unique'
  BY <1>1, <1>2, ServerNext, FramesNext, FinishNext, UniqueNext
<1>4. ~upset' => Calm'
  BY <1>2, CalmNext
<1> QED  BY <1>2, <1>3, <1>4 DEF Inv

LEMMA InvHolds == Spec => []Inv
<1>1. Inv /\ [Next]_vars => Inv'
  BY InvNext, InvStays
<1> QED  BY InvInit, <1>1, PTL DEF Spec

LEMMA InvSettles == Inv => Settled
<1> SUFFICES ASSUME Inv, Quiet, ~srv.alive, ~upset
             PROVE  ~isClarifySessionBusy /\ ~chat.validating
  BY DEF Settled
<1>1. frames = <<>> /\ reqs = {} /\ ~asked /\ answers = <<>>
  BY DEF Quiet
<1>2. ServerInv /\ FinishInv /\ Calm
  BY DEF Inv
<1> DEFINE e == <<>>
<1>3. Len(e) = 0 /\ frames = e /\ answers = e
  BY <1>1
<1> HIDE DEF e
<1>4. Len(frames) = 0 /\ Rows(answers) = {}
  BY ONLY <1>3 DEF Rows
<1>5. ~Work
  BY <1>2 DEF ServerInv
<1>6. ~Finishing
  BY <1>1, <1>4 DEF Finishing, Pending, DoneComes
<1>7. ~liveBusy
  BY <1>1, <1>2, <1>5 DEF Calm, BusyInv
<1>8. ~run.sess.busy
  BY <1>1, <1>2, <1>4, <1>5 DEF Calm, SessInv, HasEnd, SessMends, Work
<1>9. Stopped(chat) /\ ~chat.thinking
  BY <1>1, <1>2, <1>5, <1>6 DEF Calm, IdleInv, Pending
<1>10. ~sessionBusy(chat)
  BY <1>9 DEF Stopped, sessionBusy
<1>11. ~chat.validating
  BY <1>2, <1>6 DEF FinishInv
<1> QED  BY <1>7, <1>8, <1>10, <1>11 DEF isClarifySessionBusy

LEMMA InvPanelAgrees == Inv => PanelAgrees
<1> SUFFICES ASSUME Inv, Quiet, ~upset, srv.turn = "running"
             PROVE  [n \in 1..Len(chat.queued) |-> chat.queued[n].it] = srv.queue
  BY DEF PanelAgrees
<1>1. frames = <<>> /\ reqs = {}
  BY DEF Quiet
<1>2. TypeParts /\ Calm
  BY TypePartsOK DEF Inv
<1>3. srv.queue \in Seq(Item) /\ srv.active # NoItem
  BY <1>2 DEF TypeParts, ServerState, TurnOK
<1> DEFINE e == <<>>
<1>4. Len(e) = 0 /\ frames = e
  BY <1>1
<1> HIDE DEF e
<1>5. Len(frames) = 0
  BY ONLY <1>4
<1>6. chat.queued = Panel(srv.queue)
  BY <1>1, <1>2, <1>3, <1>5 DEF Calm, PanelInv, HasQ, Pending, RemovePending
<1>7. /\ Len(chat.queued) = Len(srv.queue)
      /\ \A n \in 1..Len(srv.queue) : chat.queued[n].it = srv.queue[n]
  BY <1>3, <1>6, PanelType
<1>8. [n \in 1..Len(chat.queued) |-> chat.queued[n].it]
         = [n \in 1..Len(srv.queue) |-> srv.queue[n]]
  BY <1>7
<1>9. [n \in 1..Len(srv.queue) |-> srv.queue[n]] = srv.queue
  BY <1>3
<1> QED  BY <1>8, <1>9

-----------------------------------------------------------------------------
(* Theorems                                                                *)

(* The types of the page, of the server and of all that is under way hold  *)
(* for any number of messages, loads, frames and troubles, and the index   *)
(* of the streaming bubble always points at a bubble that streams          *)
(* (useClarifyChat.ts liveAgentIdx).                                       *)
THEOREM TypeCorrect == Spec => []TypeOK
<1>1. Inv => TypeOK
  BY TypeInvImpliesTypeOK DEF Inv
<1> QED  BY InvHolds, <1>1, PTL

(* However the socket, the loads and the answers to its requests overtake  *)
(* each other, a chat that missed nothing is not left busy by a session    *)
(* that is gone (useClarifyChat.ts settleAfterTurnEnd,                     *)
(* forceAuthoritativeIdle, the watches; useRunDetailWs.ts).                *)
THEOREM ChatSettles == Spec => []Settled
BY InvHolds, InvSettles, PTL

(* While a turn runs and nothing is under way, the pending panel of a page *)
(* that missed nothing is the queue of the server, row by row              *)
(* (useClarifyChat.ts applyQueueState, turn_begin, settleAfterTurnEnd).    *)
THEOREM PanelIsTheQueue == Spec => []PanelAgrees
BY InvHolds, InvPanelAgrees, PTL

-----------------------------------------------------------------------------
(* What the handlers do to the live bubbles                                *)

SameLive(c, d) == d.live = c.live /\ d.liveAgentIdx = c.liveAgentIdx
SameHumans(c, d) ==
  /\ Len(d.live) = Len(c.live)
  /\ \A n \in 1..Len(c.live) : d.live[n].m = c.live[n].m
Bubble(m) == <<[m |-> m, st |-> "stream"]>>
\* A queue state that opens the bubble of the turn it tells of.
Opens(c, conv, busy, act) ==
  /\ busy /\ act # NoItem /\ c.liveAgentIdx = 0
  /\ ~persistedCompletedLiveHuman(conv, act.m)
Opened(d, act) == d.live = Bubble(act.m) /\ d.liveAgentIdx = 1

LEMMA SpinnersLive ==
  ASSUME NEW c, ChatOK(c), NEW t \in BOOLEAN, NEW v \in BOOLEAN
  PROVE  SameLive(c, WithSpinners(c, t, v)) /\ SameLive(c, WithThinking(c, t))
<1>1. c \in Chats /\ c.validating \in BOOLEAN
  BY DEF ChatOK, Chats
<1>2. SameLive(c, WithSpinners(c, t, v))
  BY <1>1, WithSpinnersFields DEF SameLive
<1>3. WithThinking(c, t) = WithSpinners(c, t, c.validating)
  BY <1>1 DEF WithThinking, WithSpinners, Chats
<1>4. SameLive(c, WithSpinners(c, t, c.validating))
  BY <1>1, WithSpinnersFields DEF SameLive
<1> QED  BY <1>2, <1>3, <1>4

LEMMA PanelLive ==
  ASSUME NEW c, ChatOK(c), NEW q \in Seq(ChatRow), NEW t \in BOOLEAN
  PROVE  SameLive(c, WithPanel(c, q, t))
<1>1. c \in Chats
  BY DEF ChatOK
<1> QED  BY <1>1, WithPanelFields DEF SameLive

LEMMA StopLive ==
  ASSUME NEW c, ChatOK(c), NEW st \in Shown
  PROVE  SameHumans(c, Stop(c, st))
<1> DEFINE k == c.liveAgentIdx
           l == [c.live EXCEPT ![k].st = st]
<1>1. c \in Chats /\ c.live \in Seq(Exchange(Shown))
  BY DEF ChatOK, Chats
<1>2. CASE k = 0
  BY <1>2 DEF Stop, SameHumans
<1>3. CASE k # 0
  <2>1. k \in 1..Len(c.live)
    BY <1>3 DEF ChatOK, Chats, Streaming
  <2>2. c.live[k] \in Exchange(Shown)
    BY <1>1, <2>1
  <2> DEFINE e == [c.live[k] EXCEPT !.st = st]
  <2>3. e \in Exchange(Shown) /\ e.m = c.live[k].m
    BY <2>2 DEF Exchange
  <2>4. l = [c.live EXCEPT ![k] = e]
    OBVIOUS
  <2>5. Stop(c, st) = WithLive(c, l, 0)
    BY <1>3 DEF Stop, WithLive
  <2> HIDE DEF e, l
  <2>6. /\ l \in Seq(Exchange(Shown)) /\ Len(l) = Len(c.live)
        /\ \A j \in 1..Len(c.live) : l[j] = IF j = k THEN e ELSE c.live[j]
    BY <1>1, <2>1, <2>3, <2>4, ExceptSeq
  <2>7. Stop(c, st).live = l
    <3>1. 0 \in Nat /\ WithLive(c, l, 0).live = l
      BY <1>1, <2>6, WithLiveFields
    <3> QED  BY <2>5, <3>1
  <2> QED  BY <2>3, <2>6, <2>7 DEF SameHumans
<1> QED  BY <1>2, <1>3

LEMMA StreamLive ==
  ASSUME NEW c, ChatOK(c), NEW m \in Messages
  PROVE  Stream(c, m).live = Bubble(m) /\ Stream(c, m).liveAgentIdx = 1
<1> DEFINE l == Bubble(m)
<1>1. l \in Seq(Exchange(Shown)) /\ c \in Chats
  BY DEF Exchange, Shown, Bubble, ChatOK
<1>2. Stream(c, m) = WithLive(c, l, 1)
  BY DEF Stream, WithLive, Bubble
<1> HIDE DEF l
<1>3. Stream(c, m).live = l /\ Stream(c, m).liveAgentIdx = 1
  BY <1>1, <1>2, WithLiveFields
<1> QED  BY <1>3 DEF l

LEMMA QueueStateLive ==
  ASSUME NEW c, ChatOK(c), NEW conv, NEW items \in Seq(Item), NEW busy \in BOOLEAN,
         NEW act \in Item \cup {NoItem},
         NEW d, d = applyQueueState(c, conv, items, busy, act)
  PROVE  /\ SameHumans(c, d) \/ (act # NoItem /\ busy /\ d.live = Bubble(act.m))
         /\ busy /\ c.liveAgentIdx > 0 => SameLive(c, d)
         /\ Opens(c, conv, busy, act) => Opened(d, act)
<1> DEFINE b == [c EXCEPT !.queued = Rebuilt(c, items, busy)]
           P == /\ busy /\ act # NoItem /\ c.liveAgentIdx = 0
                /\ ~persistedCompletedLiveHuman(conv, act.m)
           s == IF P THEN Stream(b, act.m) ELSE b
           e == IF busy THEN s ELSE Stop(s, "fail")
           t == e.liveAgentIdx > 0 \/ e.queued # <<>> \/ busy
<1>1. CASE items = <<>> /\ ~busy /\ act = NoItem
  <2>1. d = forceAuthoritativeIdle(c)
    BY <1>1 DEF applyQueueState
  <2> HIDE DEF b, P, s, e, t
  <2> DEFINE z == Stop(c, "fail")
             q == <<>>
             f == FALSE
  <2>2. ChatOK(z) /\ SameHumans(c, z)
    BY StopOK, StopLive DEF Shown
  <2>3. d = WithPanel(z, q, f) /\ q \in Seq(ChatRow) /\ f \in BOOLEAN
    BY <2>1 DEF forceAuthoritativeIdle, WithPanel
  <2> HIDE DEF z, q, f
  <2>4. SameLive(z, d)
    BY <2>2, <2>3, PanelLive
  <2>5. SameHumans(c, d)
    BY <2>2, <2>4 DEF SameHumans, SameLive
  <2> QED  BY <1>1, <2>5 DEF Opens
<1>2. CASE ~(items = <<>> /\ ~busy /\ act = NoItem)
  <2>1. d = [e EXCEPT !.thinking = t]
    BY <1>2 DEF applyQueueState
  <2>2. b = WithPanel(c, Rebuilt(c, items, busy), c.thinking)
    BY DEF WithPanel, ChatOK, Chats
  <2>3. c \in Chats /\ c.thinking \in BOOLEAN /\ Rebuilt(c, items, busy) \in Seq(ChatRow)
    BY RebuiltOK DEF ChatOK, Chats
  <2> HIDE DEF b
  <2>4. ChatOK(b) /\ SameLive(c, b)
    BY <2>2, <2>3, SetPanel, PanelLive
  <2>5. act # NoItem => act.m \in Messages
    BY DEF Item
  <2>6. P => s = Stream(b, act.m) /\ s.live = Bubble(act.m) /\ s.liveAgentIdx = 1
    <3> SUFFICES ASSUME P PROVE s = Stream(b, act.m)
                                /\ s.live = Bubble(act.m) /\ s.liveAgentIdx = 1
      OBVIOUS
    <3>1. s = Stream(b, act.m) /\ act.m \in Messages
      BY <2>5
    <3> HIDE DEF s, P
    <3> QED  BY <2>4, <3>1, StreamLive
  <2>7. ~P => s = b
    OBVIOUS
  <2>8. ChatOK(s)
    <3>1. CASE P
      <4>1. act.m \in Messages
        BY <2>5, <3>1
      <4> HIDE DEF s, P
      <4> QED  BY <2>4, <2>6, <3>1, <4>1, StreamOK
    <3>2. CASE ~P
      BY <2>4, <2>7, <3>2
    <3> QED  BY <3>1, <3>2
  <2>9. P => busy /\ act # NoItem /\ c.liveAgentIdx = 0
    OBVIOUS
  <2>10. /\ busy /\ act # NoItem /\ c.liveAgentIdx = 0
              /\ ~persistedCompletedLiveHuman(conv, act.m) => P
    OBVIOUS
  <2> HIDE DEF s, P
  <2>11. ChatOK(e) /\ SameHumans(s, e) /\ (busy => e = s)
    <3>1. CASE busy
      BY <2>8, <3>1 DEF SameHumans
    <3>2. CASE ~busy
      <4>1. e = Stop(s, "fail") /\ "fail" \in Shown
        BY <3>2 DEF Shown
      <4> HIDE DEF e
      <4> QED  BY <2>8, <3>2, <4>1, StopOK, StopLive
    <3> QED  BY <3>1, <3>2
  <2> HIDE DEF e
  <2>12. SameLive(e, d)
    <3>1. t \in BOOLEAN /\ d = WithThinking(e, t)
      BY <2>1 DEF WithThinking
    <3> HIDE DEF t
    <3> QED  BY <2>11, <3>1, SpinnersLive
  <2> HIDE DEF t
  <2>13. CASE P
    <3>1. d.live = Bubble(act.m) /\ d.liveAgentIdx = 1
      BY <2>6, <2>9, <2>11, <2>12, <2>13 DEF SameLive
    <3>2. busy /\ act # NoItem /\ c.liveAgentIdx = 0
      BY <2>9, <2>13
    <3>3. ~(c.liveAgentIdx > 0)
      BY <3>2
    <3> QED  BY <3>1, <3>2, <3>3 DEF Opened
  <2>14. CASE ~P
    <3>1. SameHumans(c, d)
      BY <2>4, <2>7, <2>11, <2>12, <2>14 DEF SameLive, SameHumans
    <3>2. busy => SameLive(c, d)
      BY <2>4, <2>7, <2>11, <2>12, <2>14 DEF SameLive
    <3> QED  BY <2>10, <2>14, <3>1, <3>2 DEF Opens
  <2> QED  BY <2>13, <2>14
<1> QED  BY <1>1, <1>2

LEMMA BeginLive ==
  ASSUME NEW c, ChatOK(c), NEW it \in Item, NEW d, d = turn_begin(c, it)
  PROVE  /\ d.liveAgentIdx = Len(d.live) /\ Len(d.live) > 0 /\ Len(d.live) \in Nat
         /\ Same(d.live[Len(d.live)].m, it.m)
         /\ \/ SameHumans(c, d)
            \/ /\ Len(d.live) = Len(c.live) + 1 /\ d.live[Len(d.live)].m = it.m
               /\ \A n \in 1..Len(c.live) : d.live[n].m = c.live[n].m
<1> DEFINE n == SelectInSeq(c.queued, LAMBDA q : q.id /\ q.it = it)
           q1 == IF n = 0 THEN c.queued ELSE RemoveAt(c.queued, n)
           cover == c.live # <<>> /\ Last(c.live).st = "fail"
                                  /\ Same(Last(c.live).m, it.m)
           l == IF cover THEN [c.live EXCEPT ![Len(c.live)].st = "stream"]
                         ELSE Append(c.live, [m |-> it.m, st |-> "stream"])
           a == [c EXCEPT !.live = l, !.liveAgentIdx = Len(l)]
<1>1. /\ c \in Chats /\ c.queued \in Seq(ChatRow) /\ Len(c.queued) \in Nat
      /\ c.live \in Seq(Exchange(Shown)) /\ Len(c.live) \in Nat
  BY DEF ChatOK, Chats
<1>2. n \in 0..Len(c.queued) /\ (n > 0 => c.queued[n].id /\ c.queued[n].it = it)
  BY <1>1, FirstPlace
<1>3. q1 \in Seq(ChatRow)
  <2> HIDE DEF n
  <2>1. n # 0 => n \in 1..Len(c.queued)
    BY <1>1, <1>2
  <2> QED  BY <1>1, <2>1, RemoveRow
<1>4. /\ l \in Seq(Exchange(Shown)) /\ Len(l) > 0 /\ Len(l) \in Nat
      /\ Same(l[Len(l)].m, it.m)
      /\ \/ Len(l) = Len(c.live) /\ \A j \in 1..Len(c.live) : l[j].m = c.live[j].m
         \/ /\ Len(l) = Len(c.live) + 1 /\ l[Len(l)].m = it.m
            /\ \A j \in 1..Len(c.live) : l[j].m = c.live[j].m
  <2>1. CASE cover
    <3> DEFINE k == Len(c.live)
               e == [c.live[k] EXCEPT !.st = "stream"]
    <3>1. c.live[k] \in Exchange(Shown) /\ k \in 1..Len(c.live) /\ k > 0
      BY <1>1, <2>1
    <3>2. e \in Exchange(Shown) /\ e.m = c.live[k].m
      BY <3>1 DEF Exchange, Shown
    <3>3. l = [c.live EXCEPT ![k] = e]
      BY <2>1
    <3>4. Same(c.live[k].m, it.m)
      BY <2>1 DEF Last
    <3> HIDE DEF l, e
    <3>5. /\ l \in Seq(Exchange(Shown)) /\ Len(l) = Len(c.live)
          /\ \A j \in 1..Len(c.live) : l[j] = IF j = k THEN e ELSE c.live[j]
      BY <1>1, <3>1, <3>2, <3>3, ExceptSeq
    <3>6. \A j \in 1..Len(c.live) : l[j].m = c.live[j].m
      BY <3>2, <3>5
    <3>7. Same(l[Len(l)].m, it.m)
      BY <3>1, <3>4, <3>5, <3>6
    <3> QED  BY <1>1, <3>1, <3>5, <3>6, <3>7
  <2>2. CASE ~cover
    <3> DEFINE e == [m |-> it.m, st |-> "stream"]
    <3>1. e \in Exchange(Shown) /\ e.m = it.m
      BY DEF Item, Exchange, Shown
    <3>2. l = Append(c.live, e)
      BY <2>2
    <3> HIDE DEF l, cover, e
    <3>3. /\ l \in Seq(Exchange(Shown)) /\ Len(l) = Len(c.live) + 1
          /\ l[Len(c.live) + 1] = e
          /\ \A j \in 1..Len(c.live) : l[j] = c.live[j]
      BY <1>1, <3>1, <3>2, AppendProperties
    <3>4. l[Len(l)].m = it.m
      BY <3>1, <3>3
    <3>5. Same(l[Len(l)].m, it.m)
      BY <3>4 DEF Same
    <3> QED  BY <1>1, <3>3, <3>4, <3>5
  <2> QED  BY <2>1, <2>2
<1>5. a = WithLive(c, l, Len(l))
  BY DEF WithLive
<1>6. d = WithPanel(a, q1, TRUE)
  BY DEF turn_begin, WithPanel
<1> HIDE DEF l, q1
<1>7. a \in Chats /\ a.live = l /\ a.liveAgentIdx = Len(l)
  <2> HIDE DEF a
  <2> QED  BY <1>1, <1>4, <1>5, WithLiveFields
<1> HIDE DEF a
<1>8. d.live = a.live /\ d.liveAgentIdx = a.liveAgentIdx
  <2> DEFINE t == TRUE
  <2>1. t \in BOOLEAN /\ a \in Chats /\ d = WithPanel(a, q1, t)
    BY <1>6, <1>7
  <2> HIDE DEF t
  <2> QED  BY <1>3, <2>1, WithPanelFields
<1>9. d.live = l /\ d.liveAgentIdx = Len(l)
  BY <1>7, <1>8
<1> HIDE DEF n, cover
<1> QED  BY <1>4, <1>9 DEF SameHumans

LEMMA EndLive ==
  ASSUME NEW c, ChatOK(c), NEW st \in Shown, NEW d, d = EndFrame(c, st)
  PROVE  SameHumans(c, d)
<1> DEFINE s == Stop(c, st)
           K == {q \in Rows(s.queued) : q.id}
           known == Keep(s.queued, K)
           t == known # <<>>
<1>1. ChatOK(s) /\ SameHumans(c, s)
  BY StopOK, StopLive
<1>2. d = WithPanel(s, known, t)
  BY DEF EndFrame, settleAfterTurnEnd, WithPanel
<1> HIDE DEF s
<1>3. s.queued \in Seq(ChatRow)
  BY <1>1 DEF ChatOK, Chats
<1>4. known \in Seq(ChatRow) /\ t \in BOOLEAN
  <2> HIDE DEF K
  <2>1. known \in Seq(ChatRow \cap K)
    BY <1>3, KeepRows
  <2> QED  BY <2>1
<1> HIDE DEF known, t, K
<1>5. SameLive(s, d)
  BY <1>1, <1>2, <1>4, PanelLive
<1> QED  BY <1>1, <1>5 DEF SameLive, SameHumans

Wipes(c, new) ==
  \/ persistedCompletedLiveHuman(new.conv, c.live[1].m)
  \/ new.conv # <<>> /\ \A n \in 1..Len(c.live) : c.live[n].st # "stream"

LEMMA WatchPersistedLive ==
  ASSUME NEW c, ChatOK(c), NEW old, NEW new, NEW d, d = WatchPersisted(c, old, new)
  PROVE  \/ SameLive(c, d)
         \/ d.live = <<>> /\ d.liveAgentIdx = 0 /\ c.live # <<>> /\ Wipes(c, new)
<1> DEFINE P == (new.conv = old.conv /\ new.at = old.at) \/ c.live = <<>>
           Q == Wipes(c, new)
           a == WithLive(c, <<>>, 0)
           t == c.thinking /\ c.queued # <<>>
           z == [c EXCEPT !.live = <<>>, !.liveAgentIdx = 0, !.thinking = t]
<1>1. d = IF P THEN c ELSE IF Q THEN z ELSE c
  BY DEF WatchPersisted, Wipes
<1>2. z = WithThinking(a, t)
  BY DEF WithThinking, WithLive
<1>3. a \in Chats /\ a.live = <<>> /\ a.liveAgentIdx = 0
  <2>1. <<>> \in Seq(Exchange(Shown)) /\ c \in Chats /\ 0 \in Nat
    BY DEF ChatOK
  <2> HIDE DEF t
  <2> QED  BY <2>1, WithLiveFields
<1>4. t \in BOOLEAN
  OBVIOUS
<1> HIDE DEF t, z
<1>5. SameLive(a, z)
  <2> HIDE DEF a
  <2>1. ChatOK(a)
    BY <1>3 DEF ChatOK, Streaming
  <2> QED  BY <1>2, <1>4, <2>1, SpinnersLive
<1>6. z.live = <<>> /\ z.liveAgentIdx = 0
  BY <1>3, <1>5 DEF SameLive
<1>7. ~P => c.live # <<>>
  OBVIOUS
<1> HIDE DEF P, Q
<1>8. d = c \/ (d = z /\ ~P /\ Q)
  BY <1>1
<1> QED  BY <1>6, <1>7, <1>8 DEF SameLive, Q

LEMMA WatchDoneLive ==
  ASSUME NEW c, ChatOK(c), NEW old, NEW new, NEW d,
         d = WatchDone(c, old, new) \/ d = WatchConfirmError(c)
  PROVE  SameLive(c, d)
<1> DEFINE t == c.thinking /\ (c.queued # <<>> \/ c.liveAgentIdx > 0)
           f == FALSE
<1>1. t \in BOOLEAN /\ f \in BOOLEAN
  OBVIOUS
<1>2. d = c \/ d = WithSpinners(c, f, f) \/ d = WithSpinners(c, t, f)
  BY DEF WatchDone, WatchConfirmError, WithSpinners
<1> HIDE DEF t, f
<1>3. SameLive(c, WithSpinners(c, f, f)) /\ SameLive(c, WithSpinners(c, t, f))
  BY <1>1, SpinnersLive
<1> QED  BY <1>2, <1>3 DEF SameLive

-----------------------------------------------------------------------------
(* Where the items of the queue, the requests and the loads come from      *)

NewRow(it) ==
  \/ it.retry = 0 /\ (it.m \in unsent \/ Request("send", it) \in reqs)
  \/ it.retry # 0 /\ \E r \in reqs : r.k = "retry" /\ r.it.retry = it.retry
NewRequest(r) ==
  \/ r.k = "send" /\ r.it.m \in unsent
  \/ r.k = "retry" /\ r.it.retry = trouble + 1
  \/ r.k \notin {"send", "retry"}

Sources ==
  /\ unsent' \subseteq unsent /\ trouble <= trouble'
  /\ \A it \in Rows(srv'.queue) : it \in Rows(srv.queue) \/ NewRow(it)
  /\ \A r \in reqs' : r \in reqs \/ NewRequest(r)
  /\ \A a \in Rows(answers') : a.r = runDetail \/ \E b \in Rows(answers) : a.r = b.r

LEMMA EnqueueSources ==
  ASSUME TypeInv, NEW it \in Item, enqueueReactTurn(it), NewRow(it),
         unsent' \subseteq unsent, reqs' \subseteq reqs, UNCHANGED <<trouble, answers>>
  PROVE  Sources
<1>1. TypeParts
  BY TypePartsOK
<1>2. srv'.queue = Append(srv.queue, it)
  BY EnqueueOK
<1>3. Rows(srv'.queue) = Rows(srv.queue) \cup {it}
  <2>1. srv.queue \in Seq(Item)
    BY <1>1 DEF TypeParts, ServerState
  <2> QED  BY <1>2, <2>1, AppendedRows
<1> QED  BY <1>1, <1>3 DEF Sources, TypeParts

LEMMA SourcesNext ==
  ASSUME TypeInv, ServerInv, ReqsOnce, Next
  PROVE  Sources
<1>1. TypeParts /\ MaxTrouble \in Nat
  BY TypePartsOK DEF TypeParts
<1> DEFINE Later == unsent' \subseteq unsent /\ trouble <= trouble'
           RowsOld == Rows(srv'.queue) \subseteq Rows(srv.queue)
           ReqsNew == \A r \in reqs' : r \in reqs \/ NewRequest(r)
           LoadsOld == \A a \in Rows(answers') : \E b \in Rows(answers) : a.r = b.r
<1>2. ASSUME UNCHANGED <<unsent, trouble>> PROVE Later
  BY <1>1, <1>2 DEF TypeParts
<1>3. ASSUME Trouble, unsent' = unsent PROVE Later
  <2>1. trouble \in Nat /\ trouble' = trouble + 1
    BY <1>1, <1>3 DEF TypeParts, Trouble
  <2> QED  BY <1>3, <2>1
<1>4. ASSUME srv'.queue = srv.queue PROVE RowsOld
  BY <1>4
<1>5. ASSUME reqs' \subseteq reqs PROVE ReqsNew
  BY <1>5
<1>6. ASSUME NEW r, reqs' = reqs \cup {r}, NewRequest(r) PROVE ReqsNew
  BY <1>6
<1>7. ASSUME answers' = answers PROVE LoadsOld
  BY <1>7
<1>8. ASSUME Later, RowsOld, ReqsNew, LoadsOld PROVE Sources
  BY <1>8 DEF Sources
<1> HIDE DEF Later, RowsOld, ReqsNew, LoadsOld
<1>9. ASSUME NEW m \in Messages, SendElsewhere(m) PROVE Sources
  <2> DEFINE it == [m |-> m, retry |-> 0]
  <2>1. it \in Item /\ it.m = m /\ it.retry = 0
    BY <1>1 DEF Item
  <2>2. /\ m \in unsent /\ unsent' \subseteq unsent /\ enqueueReactTurn(it)
        /\ reqs' = reqs /\ UNCHANGED <<trouble, answers>>
    BY <1>9 DEF SendElsewhere
  <2> HIDE DEF it
  <2>3. NewRow(it)
    BY <2>1, <2>2 DEF NewRow
  <2> QED  BY <2>1, <2>2, <2>3, EnqueueSources
<1>10. ASSUME NEW m \in Messages, sendMessage(m) PROVE Sources
  <2> DEFINE it == [m |-> m, retry |-> 0]
             q == Request("send", it)
  <2>1. q.k = "send" /\ q.it.m = m
    BY DEF Request
  <2>2. /\ m \in unsent /\ unsent' \subseteq unsent /\ reqs' = reqs \cup {q}
        /\ UNCHANGED <<srv, trouble, answers>>
    BY <1>10 DEF sendMessage, server, page
  <2> HIDE DEF it, q
  <2>3. NewRequest(q)
    BY <2>1, <2>2 DEF NewRequest
  <2>4. Later
    BY <1>1, <2>2 DEF Later, TypeParts
  <2>5. RowsOld /\ ReqsNew /\ LoadsOld
    BY <1>4, <1>6, <1>7, <2>2, <2>3
  <2> QED  BY <1>8, <2>4, <2>5
<1>11. ASSUME Dequeue PROVE Sources
  <2>1. srv.queue # <<>> /\ srv'.queue = Tail(srv.queue)
    BY <1>11, DequeueOK
  <2>2. UNCHANGED <<unsent, reqs, trouble, answers>>
    BY <1>11 DEF Dequeue
  <2>3. RowsOld
    <3>1. srv.queue \in Seq(Item)
      BY <1>1 DEF TypeParts, ServerState
    <3>2. /\ Len(srv'.queue) = Len(srv.queue) - 1
          /\ \A n \in 1..Len(srv'.queue) : srv'.queue[n] = srv.queue[n + 1]
          /\ Len(srv.queue) \in Nat
      BY <2>1, <3>1, HeadTailProperties
    <3>3. \A n \in 1..Len(srv'.queue) : n + 1 \in 1..Len(srv.queue)
      BY <3>2
    <3> QED  BY <3>2, <3>3 DEF RowsOld, Rows
  <2> QED  BY <1>2, <1>5, <1>7, <1>8, <2>2, <2>3
<1>12. ASSUME srv'.queue = srv.queue, reqs' \subseteq reqs,
              UNCHANGED <<unsent, trouble, answers>>
       PROVE  Sources
  BY <1>2, <1>4, <1>5, <1>7, <1>8, <1>12
<1>13. ASSUME EndTurn \/ dropReviewSessionIfIdle PROVE Sources
  <2>1. srv'.queue = srv.queue
    BY <1>13, EndTurnOK, DropOK
  <2>2. reqs' \subseteq reqs /\ UNCHANGED <<unsent, trouble, answers>>
    BY <1>13 DEF EndTurn, dropReviewSessionIfIdle
  <2> QED  BY <1>12, <2>1, <2>2
<1>14. ASSUME NEW st \in Saved \ {"open"}, NEW done \in BOOLEAN, SaveAnswer(st, done)
       PROVE  Sources
  <2>1. srv'.queue = srv.queue
    BY <1>14, SaveAnswerOK
  <2>2. reqs' \subseteq reqs /\ UNCHANGED <<unsent, trouble, answers>>
    BY <1>14 DEF SaveAnswer
  <2> QED  BY <1>12, <2>1, <2>2
<1>15. ASSUME NEW n \in 1..Len(chat.queued), cancelQueuedItem(n) PROVE Sources
  <2> DEFINE q == Request("remove", chat.queued[n].it)
  <2>1. /\ reqs' = reqs \cup {q} \/ reqs' = reqs
        /\ Trouble /\ unsent' = unsent /\ srv' = srv /\ answers' = answers
    BY <1>15 DEF cancelQueuedItem, server, page
  <2>2. NewRequest(q)
    BY DEF Request, NewRequest
  <2> HIDE DEF q
  <2>3. ReqsNew
    BY <1>5, <1>6, <2>1, <2>2
  <2> QED  BY <1>3, <1>4, <1>7, <1>8, <2>1, <2>3
<1>16. ASSUME cancelReview \/ finishEarly PROVE Sources
  <2>1. PICK k \in {"cancel", "finish"} : reqs' = reqs \cup {Request(k, NoItem)}
    BY <1>16 DEF cancelReview, finishEarly
  <2>2. Trouble /\ unsent' = unsent /\ srv' = srv /\ answers' = answers
    BY <1>16 DEF cancelReview, finishEarly, server, page
  <2>3. NewRequest(Request(k, NoItem))
    BY DEF Request, NewRequest
  <2>4. ReqsNew
    BY <1>6, <2>1, <2>3
  <2> QED  BY <1>3, <1>4, <1>7, <1>8, <2>2, <2>4
<1>17. ASSUME retryLastFailed PROVE Sources
  <2>1. PICK m \in Messages :
          reqs' = reqs \cup {Request("retry", [m |-> m, retry |-> trouble'])}
    BY <1>17, RetryOK
  <2> DEFINE q == Request("retry", [m |-> m, retry |-> trouble'])
  <2>2. q.k = "retry" /\ q.it.retry = trouble' /\ reqs' = reqs \cup {q}
    BY <2>1 DEF Request
  <2>3. Trouble /\ unsent' = unsent /\ srv' = srv /\ answers' = answers
    BY <1>17 DEF retryLastFailed, server, page
  <2>4. trouble' = trouble + 1
    BY <1>1, <2>3, TroubleType
  <2> HIDE DEF q
  <2>5. NewRequest(q)
    BY <2>2, <2>4 DEF NewRequest
  <2>6. ReqsNew
    BY <1>6, <2>2, <2>5
  <2> QED  BY <1>3, <1>4, <1>7, <1>8, <2>3, <2>6
<1>18. ASSUME NEW r \in reqs, SendServed(r) PROVE Sources
  <2>1. reqs' = reqs \ {r} /\ r.k = "send" /\ r.it \in Item /\ r = Request("send", r.it)
    BY <1>18, ServedType DEF SendServed
  <2>2. enqueueReactTurn(r.it) /\ UNCHANGED <<unsent, trouble, answers>>
    BY <1>18 DEF SendServed, page
  <2>3. r.it.retry = 0
    BY <2>1 DEF ReqsOnce
  <2>4. NewRow(r.it)
    BY <2>1, <2>3 DEF NewRow
  <2>5. unsent' \subseteq unsent /\ reqs' \subseteq reqs
    BY <2>1, <2>2
  <2> QED  BY <2>1, <2>2, <2>4, <2>5, EnqueueSources
<1>19. ASSUME NEW r \in reqs, RetryServed(r) PROVE Sources
  <2> DEFINE it == RetryOf(r.it)
  <2>1. it \in Item /\ it.retry = r.it.retry /\ r.it.retry > 0
    BY <1>19, RetryItem
  <2>2. enqueueReactTurn(it) /\ UNCHANGED <<unsent, trouble, answers>> /\ Serve(r, "retry")
    BY <1>19 DEF RetryServed, RetryOf, page
  <2> HIDE DEF it
  <2>3. reqs' \subseteq reqs /\ r.k = "retry"
    BY <2>2 DEF Serve
  <2>4. it.retry # 0
    BY <2>1
  <2>5. NewRow(it)
    BY <2>1, <2>3, <2>4 DEF NewRow
  <2>6. unsent' \subseteq unsent
    BY <2>2
  <2> QED  BY <2>1, <2>2, <2>3, <2>5, <2>6, EnqueueSources
<1>20. ASSUME NEW r \in reqs, SendFails(r) \/ RetryFails(r) PROVE Sources
  <2>1. reqs' \subseteq reqs /\ unsent' = unsent /\ srv' = srv /\ answers' = answers
    BY <1>20 DEF SendFails, RetryFails, Serve, page
  <2>2. trouble' = trouble \/ Trouble
    BY <1>20 DEF SendFails, RetryFails
  <2>3. Later
    BY <1>2, <1>3, <2>1, <2>2
  <2> QED  BY <1>4, <1>5, <1>7, <1>8, <2>1, <2>3
<1>21. ASSUME NEW r \in reqs, FinishServed(r) PROVE Sources
  <2>1. srv'.queue = srv.queue
    BY <1>21, FinishOK
  <2>2. reqs' \subseteq reqs /\ UNCHANGED <<unsent, trouble, answers>>
    BY <1>21 DEF FinishServed, Serve
  <2> QED  BY <1>12, <2>1, <2>2
<1>22. ASSUME NEW r \in reqs, RemoveQueuedItem(r) \/ cancelReactSession(r) PROVE Sources
  <2>1. reqs' \subseteq reqs /\ UNCHANGED <<unsent, trouble, answers>>
    BY <1>22 DEF RemoveQueuedItem, cancelReactSession, Serve, page
  <2>2. RowsOld
    <3>1. \/ srv'.queue \in {srv.queue, <<>>}
          \/ srv'.queue = Keep(srv.queue, Rows(srv.queue) \ {r.it})
      BY <1>22, RemoveOK, CancelOK
    <3>2. CASE srv'.queue \in {srv.queue, <<>>}
      BY <3>2 DEF RowsOld, Rows
    <3>3. CASE srv'.queue = Keep(srv.queue, Rows(srv.queue) \ {r.it})
      <4> DEFINE q == srv.queue
                 S == Rows(q) \ {r.it}
      <4>1. q \in Seq(Item) /\ srv'.queue = Keep(q, S)
        BY <1>1, <3>3 DEF TypeParts, ServerState
      <4> HIDE DEF S
      <4>2. Rows(Keep(q, S)) = Rows(q) \cap S
        <5> HIDE DEF q
        <5> QED  BY <4>1, KeepRows
      <4> QED  BY <4>1, <4>2 DEF RowsOld
    <3> QED  BY <3>1, <3>2, <3>3
  <2> QED  BY <1>2, <1>5, <1>7, <1>8, <2>1, <2>2
<1>23. ASSUME PollTick \/ SocketDrops \/ Reconnect PROVE Sources
  <2>1. srv' = srv /\ reqs' = reqs /\ answers' = answers /\ unsent' = unsent
    BY <1>23 DEF PollTick, SocketDrops, Reconnect, server
  <2>2. trouble' = trouble \/ Trouble
    BY <1>23 DEF PollTick, SocketDrops, Reconnect
  <2>3. Later
    BY <1>2, <1>3, <2>1, <2>2
  <2> QED  BY <1>4, <1>5, <1>7, <1>8, <2>1, <2>3
<1>24. ASSUME ReadLoad PROVE Sources
  <2> DEFINE a == [r |-> runDetail, landed |-> FALSE]
  <2>1. /\ answers' = Append(answers, a)
        /\ UNCHANGED <<srv, reqs, unsent, trouble>>
    BY <1>24 DEF ReadLoad, server
  <2>2. a \in Answer /\ a.r = runDetail
    BY SessionType DEF Answer, TypeInv
  <2>3. answers \in Seq(Answer)
    BY <1>1 DEF TypeParts
  <2> HIDE DEF a
  <2>4. Rows(answers') = Rows(answers) \cup {a}
    BY <2>1, <2>2, <2>3, AppendedRows
  <2>5. Later /\ RowsOld /\ ReqsNew
    BY <1>2, <1>4, <1>5, <2>1
  <2> QED  BY <2>2, <2>4, <2>5 DEF Sources, Later, RowsOld, ReqsNew
<1>25. ASSUME NEW n \in 1..Len(answers), LandLoad(n) PROVE Sources
  <2>1. /\ Len(answers') = Len(answers)
        /\ \A i \in 1..Len(answers) : answers'[i].r = answers[i].r
    BY <1>25, LandLoadOK
  <2>2. LoadsOld
    BY <2>1 DEF LoadsOld, Rows
  <2>3. UNCHANGED <<srv, reqs, unsent, trouble>>
    BY <1>25 DEF LandLoad, server
  <2> QED  BY <1>2, <1>4, <1>5, <1>8, <2>2, <2>3
<1>26. ASSUME NEW n \in 1..Len(answers), RestoreLanded(n) \/ DropLoad(n) PROVE Sources
  <2>1. answers' = RemoveAt(answers, n) /\ UNCHANGED <<srv, reqs, unsent, trouble>>
    BY <1>26 DEF RestoreLanded, DropLoad, server
  <2>2. Rows(answers') \subseteq Rows(answers)
    BY <1>1, <2>1, RemoveRow DEF TypeParts
  <2>3. LoadsOld
    BY <2>2 DEF LoadsOld
  <2> QED  BY <1>2, <1>4, <1>5, <1>8, <2>1, <2>3
<1>27. ASSUME Receive PROVE Sources
  <2>1. UNCHANGED <<srv, reqs, unsent, trouble, answers>>
    BY <1>27 DEF Receive
  <2> QED  BY <1>2, <1>4, <1>5, <1>7, <1>8, <2>1
<1>28. ASSUME Refresh PROVE Sources
  <2>1. Trouble /\ unsent' = unsent /\ srv' = srv /\ reqs' = {} /\ answers' = <<>>
    BY <1>28 DEF Refresh
  <2>2. LoadsOld
    <3> DEFINE e == <<>>
    <3>1. Len(e) = 0 /\ answers' = e
      BY <2>1
    <3> HIDE DEF e
    <3> QED  BY <3>1 DEF LoadsOld, Rows
  <2>3. reqs' \subseteq reqs
    BY <2>1
  <2> QED  BY <1>3, <1>4, <1>5, <1>8, <2>1, <2>2, <2>3
<1> QED
  BY <1>9, <1>10, <1>11, <1>13, <1>14, <1>15, <1>16, <1>17, <1>18, <1>19, <1>20, <1>21,
     <1>22, <1>23, <1>24, <1>25, <1>26, <1>27, <1>28 DEF Next

-----------------------------------------------------------------------------
(* The bubble of the turn that runs                                        *)

IsBegin(f) == f.ev = "begin"
BeginsAfter(n) == \E m \in n + 1 .. Len(frames) : IsBegin(frames[m])
BeginComes == BeginsAfter(0)

\* While a turn is active, the last turn_begin under way is its own, and
\* what comes after it tells of a session that is busy.
LastBegin ==
  srv.active # NoItem =>
    \A n \in 1..Len(frames) : ~BeginsAfter(n) =>
      IF IsBegin(frames[n]) THEN frames[n].act = srv.active
                            ELSE IsQ(frames[n]) /\ frames[n].busy

OpenTurn == srv.turn = "running" => Last(srv.conv).st = "open"

\* A landed load from before the turn: its transcript may have taken the
\* bubble away, and its sessions are yet to tell the page that it missed it.
Wiper == \E a \in Rows(answers) : a.landed /\ a.r.sess.act # srv.active
LoadConv ==
  srv.turn = "running" =>
    \A a \in Rows(answers) : a.r.sess.act = srv.active => a.r.conv = srv.conv

\* A turn that a load has seen is not to come.
Taken(it) ==
  /\ it \notin Rows(srv.queue)
  /\ it.retry = 0 => it.m \notin unsent /\ Request("send", it) \notin reqs
  /\ it.retry <= trouble
  /\ \A r \in reqs : r.k = "retry" => r.it.retry # it.retry
ActOnce == \A a \in Rows(answers) : a.r.sess.act # NoItem => Taken(a.r.sess.act)

\* The bubble that streams in c is that of the active turn.
Agreed(c) == c.liveAgentIdx > 0 /\ Same(c.live[c.liveAgentIdx].m, srv.active.m)

\* The bubble of the turn that runs is there, unless it was stopped, its
\* turn_begin is still to come, or a load that may have taken it away is.
Exposed ==
  /\ srv.turn = "running" /\ ~srv.cancelled /\ ~Pending("cancel")
  /\ ~BeginComes /\ ~Wiper
BubbleInv == Exposed => Agreed(chat)

TurnInv == OpenTurn /\ LoadConv /\ ActOnce /\ (~upset => LastBegin /\ BubbleInv)

LEMMA TakenStays ==
  ASSUME TypeInv, TypeInv', Sources, NEW it \in Item, Taken(it)
  PROVE  Taken(it)'
<1>1. TypeParts /\ trouble \in Nat /\ trouble' \in Nat /\ it.retry \in Nat
  BY TypePartsOK DEF TypeParts, Item, TypeInv, ServerType
<1>2. it \notin Rows(srv'.queue)
  BY DEF Sources, NewRow, Taken
<1>3. ASSUME it.retry = 0 PROVE it.m \notin unsent' /\ Request("send", it) \notin reqs'
  <2>1. Request("send", it).k = "send" /\ Request("send", it).it = it
    BY DEF Request
  <2> QED  BY <1>3, <2>1 DEF Sources, NewRequest, Taken
<1>4. it.retry <= trouble'
  BY <1>1 DEF Sources, Taken
<1>5. \A r \in reqs' : r.k = "retry" => r.it.retry # it.retry
  BY <1>1 DEF Sources, NewRequest, Taken
<1> QED  BY <1>2, <1>3, <1>4, <1>5 DEF Taken, Rows

LEMMA ActOnceNext ==
  ASSUME Inv, TypeInv', Next, ActOnce
  PROVE  ActOnce'
<1>1. TypeInv /\ ServerInv /\ Unique /\ ReqsOnce /\ TypeParts /\ NoItem \notin Item
  BY TypePartsOK, NoItemApart DEF Inv, Unique
<1>2. Sources
  BY <1>1, SourcesNext
<1>3. \A a \in Rows(answers') : a \in Answer
  BY DEF TypeInv, PageType, Rows
<1> SUFFICES ASSUME NEW a \in Rows(answers'), a.r.sess.act # NoItem
             PROVE  Taken(a.r.sess.act)'
  BY DEF ActOnce, Taken, Rows
<1> DEFINE it == a.r.sess.act
<1>4. it \in Item
  BY <1>3 DEF Answer, Detail, Session
<1>5. CASE a.r = runDetail
  <2>1. it = srv.active
    <3>1. it = ReactSessions.act
      BY <1>5 DEF runDetail
    <3>2. srv.alive
      BY <1>1, <3>1, SessionType DEF NoSession, TypeInv
    <3> QED  BY <1>1, <3>1, <3>2, SessionType DEF TypeInv
  <2>2. Begun(it) /\ Known(it)
    BY <2>1 DEF Begun, Known
  <2>3. it \notin Rows(srv.queue)
    BY <1>1, <2>2 DEF Unique, QueueUnique
  <2>4. /\ it.retry = 0 => it.m \notin unsent /\ Request("send", it) \notin reqs
        /\ it.retry <= trouble
        /\ \A r \in reqs : r.k = "retry" => r.it.retry # it.retry
    BY <1>1, <1>4, <2>2 DEF Unique, KnownOnce
  <2> HIDE DEF it
  <2>5. Taken(it)
    BY <2>3, <2>4 DEF Taken
  <2> QED  BY <1>1, <1>2, <1>4, <2>5, TakenStays DEF it
<1>6. CASE \E b \in Rows(answers) : a.r = b.r
  <2>1. Taken(it)
    BY <1>6 DEF ActOnce
  <2> HIDE DEF it
  <2> QED  BY <1>1, <1>2, <1>4, <2>1, TakenStays DEF it
<1> QED  BY <1>2, <1>5, <1>6 DEF Sources

\* Only three steps of the server touch the turn and the transcript.
LEMMA TurnSteps ==
  ASSUME TypeInv, ServerInv, ReqsOnce, Next
  PROVE  \/ TurnKept \/ Dequeue \/ EndTurn
         \/ \E st \in Saved \ {"open"}, done \in BOOLEAN : SaveAnswer(st, done)
<1>1. TypeParts
  BY TypePartsOK
<1>2. ASSUME srv' = srv PROVE TurnKept
  BY <1>2 DEF TurnKept
<1>3. ASSUME NEW it \in Item, enqueueReactTurn(it) PROVE TurnKept
  BY <1>3, EnqueueOK
<1>4. ASSUME NEW m \in Messages, SendElsewhere(m) PROVE TurnKept
  <2> DEFINE it == [m |-> m, retry |-> 0]
  <2>1. it \in Item
    BY <1>1 DEF Item, TypeParts
  <2>2. enqueueReactTurn(it)
    BY <1>4 DEF SendElsewhere
  <2> HIDE DEF it
  <2> QED  BY <1>3, <2>1, <2>2
<1>5. ASSUME NEW m \in Messages, sendMessage(m) PROVE TurnKept
  BY <1>2, <1>5 DEF sendMessage, server
<1>6. ASSUME dropReviewSessionIfIdle PROVE TurnKept
  BY <1>6, DropOK
<1>7. ASSUME \/ \E n \in 1..Len(chat.queued) : cancelQueuedItem(n)
             \/ cancelReview \/ finishEarly \/ retryLastFailed
      PROVE  TurnKept
  BY <1>2, <1>7 DEF cancelQueuedItem, cancelReview, finishEarly, retryLastFailed, server
<1>8. ASSUME NEW r \in reqs, SendServed(r) PROVE TurnKept
  <2>1. r.it \in Item
    BY <1>8, ServedType DEF SendServed
  <2>2. enqueueReactTurn(r.it)
    BY <1>8 DEF SendServed
  <2> QED  BY <1>3, <2>1, <2>2
<1>9. ASSUME NEW r \in reqs, RetryServed(r) PROVE TurnKept
  <2>1. RetryOf(r.it) \in Item
    BY <1>9, RetryItem
  <2>2. enqueueReactTurn(RetryOf(r.it))
    BY <1>9 DEF RetryServed, RetryOf
  <2> QED  BY <1>3, <2>1, <2>2
<1>10. ASSUME NEW r \in reqs, SendFails(r) \/ RetryFails(r) PROVE TurnKept
  BY <1>2, <1>10 DEF SendFails, RetryFails
<1>11. ASSUME NEW r \in reqs, \/ RemoveQueuedItem(r) \/ cancelReactSession(r)
                              \/ FinishServed(r)
       PROVE  TurnKept
  <2>1. srv' = srv \/ TurnKept
    BY <1>11, RemoveOK, CancelOK, FinishOK
  <2> QED  BY <1>2, <2>1
<1>12. ASSUME PollTick \/ ReadLoad \/ Receive \/ SocketDrops \/ Reconnect \/ Refresh
       PROVE  TurnKept
  BY <1>2, <1>12 DEF PollTick, ReadLoad, Receive, SocketDrops, Reconnect, Refresh, server
<1>13. ASSUME NEW n \in 1..Len(answers), LandLoad(n) \/ RestoreLanded(n) \/ DropLoad(n)
       PROVE  TurnKept
  BY <1>2, <1>13 DEF LandLoad, RestoreLanded, DropLoad, server
<1> QED
  BY <1>4, <1>5, <1>6, <1>7, <1>8, <1>9, <1>10, <1>11, <1>12, <1>13 DEF Next

\* The turn that begins, if it runs, and the open row it ends the transcript with.
LEMMA DequeueTurn ==
  ASSUME TypeInv, Dequeue
  PROVE  /\ srv.queue \in Seq(Item) /\ Head(srv.queue) \in Item
         /\ srv'.turn = IF Runnable(Head(srv.queue)) THEN "running" ELSE "refused"
         /\ srv'.conv = IF Runnable(Head(srv.queue)) THEN OpenRow(Head(srv.queue))
                                                     ELSE srv.conv
         /\ Runnable(Head(srv.queue)) => srv'.conv # <<>> /\ Last(srv'.conv).st = "open"
<1> DEFINE it == Head(srv.queue)
           c == OpenRow(it)
<1>1. /\ srv \in ServerState /\ srv.conv \in Seq(Exchange(Saved)) /\ srv.queue # <<>>
      /\ srv.queue \in Seq(Item)
  BY TypePartsOK DEF TypeParts, ServerState, Dequeue
<1>2. srv' = [srv EXCEPT
        !.queue = Tail(@), !.active = it, !.cancelled = FALSE,
        !.turn = IF Runnable(it) THEN "running" ELSE "refused",
        !.conv = IF Runnable(it) THEN c ELSE @]
  BY DEF Dequeue
<1>3. it \in Item
  BY <1>1
<1> HIDE DEF it
<1>4. Runnable(it) => c # <<>> /\ Last(c).st = "open"
  <2> SUFFICES ASSUME Runnable(it) PROVE c # <<>> /\ Last(c).st = "open"
    OBVIOUS
  <2>1. CASE it.retry > 0
    <3> DEFINE v == srv.conv
               k == Len(v)
               e == [v[k] EXCEPT !.st = "open"]
    <3>1. v \in Seq(Exchange(Saved)) /\ v # <<>>
      BY <1>1, <2>1 DEF Runnable
    <3>2. k \in 1..Len(v) /\ v[k] \in Exchange(Saved)
      BY <3>1
    <3>3. e \in Exchange(Saved) /\ e.st = "open"
      BY <3>2 DEF Exchange, Saved
    <3>4. c = [v EXCEPT ![k] = e]
      BY <2>1 DEF OpenRow
    <3> HIDE DEF c, e, v
    <3>5. Len(c) = Len(v) /\ c[k] = e
      BY <3>1, <3>2, <3>3, <3>4, ExceptSeq
    <3>6. c # <<>>
      BY <3>2, <3>5
    <3> QED  BY <3>3, <3>5, <3>6 DEF Last
  <2>2. CASE ~(it.retry > 0)
    <3> DEFINE e == [m |-> it.m, st |-> "open"]
    <3>1. e \in Exchange(Saved) /\ e.st = "open"
      BY <1>3 DEF Exchange, Saved, Item
    <3>2. c = Append(srv.conv, e)
      BY <2>2 DEF OpenRow
    <3> HIDE DEF c, e
    <3>3. Len(c) = Len(srv.conv) + 1 /\ c[Len(srv.conv) + 1] = e /\ Len(srv.conv) \in Nat
      BY <1>1, <3>1, <3>2, AppendProperties
    <3>4. c # <<>>
      BY <3>3
    <3> QED  BY <3>1, <3>3, <3>4 DEF Last
  <2> QED  BY <2>1, <2>2
<1> HIDE DEF c
<1>5. /\ srv'.turn = IF Runnable(it) THEN "running" ELSE "refused"
      /\ srv'.conv = IF Runnable(it) THEN c ELSE srv.conv
  BY <1>1, <1>2 DEF ServerState
<1> QED  BY <1>1, <1>3, <1>4, <1>5 DEF it, c

LEMMA OpenTurnNext ==
  ASSUME TypeInv, ServerInv, ReqsOnce, Next, OpenTurn
  PROVE  OpenTurn'
<1>1. ASSUME TurnKept PROVE OpenTurn'
  BY <1>1 DEF TurnKept, OpenTurn
<1>2. ASSUME Dequeue PROVE OpenTurn'
  BY <1>2, DequeueTurn DEF OpenTurn
<1>3. ASSUME EndTurn PROVE OpenTurn'
  <2>1. srv'.turn = "none"
    BY <1>3, EndTurnOK
  <2> QED  BY <2>1 DEF OpenTurn
<1>4. ASSUME NEW st \in Saved \ {"open"}, NEW done \in BOOLEAN, SaveAnswer(st, done)
      PROVE  OpenTurn'
  <2>1. srv'.turn = "answered"
    BY <1>4, SaveAnswerOK
  <2> QED  BY <2>1 DEF OpenTurn
<1> QED  BY <1>1, <1>2, <1>3, <1>4, TurnSteps

LEMMA LoadConvNext ==
  ASSUME Inv, Next, LoadConv, ActOnce
  PROVE  LoadConv'
<1>1. TypeInv /\ ServerInv /\ Unique /\ ReqsOnce /\ TypeParts /\ NoItem \notin Item
  BY TypePartsOK, NoItemApart DEF Inv, Unique
<1>2. Sources
  BY <1>1, SourcesNext
<1> SUFFICES ASSUME srv'.turn = "running", NEW a \in Rows(answers'),
                    a.r.sess.act = srv'.active
             PROVE  a.r.conv = srv'.conv
  BY DEF LoadConv, Rows
<1>3. CASE TurnKept
  <2>1. a.r = runDetail => a.r.conv = srv.conv
    BY DEF runDetail
  <2> QED  BY <1>2, <1>3, <2>1 DEF TurnKept, LoadConv, Sources
<1>4. CASE Dequeue
  <2>1. answers' = answers
    BY <1>4 DEF Dequeue
  <2>2. srv'.active = Head(srv.queue) /\ srv'.active \in Item /\ srv.queue # <<>>
    BY <1>1, <1>4, DequeueOK
  <2>3. srv'.active \in Rows(srv.queue)
    <3>1. srv.queue \in Seq(Item)
      BY <1>1 DEF TypeParts, ServerState
    <3>2. 1 \in 1..Len(srv.queue) /\ Head(srv.queue) = srv.queue[1]
      BY <2>2, <3>1
    <3> QED  BY <2>2, <3>2 DEF Rows
  <2>4. Taken(a.r.sess.act)
    BY <1>1, <2>1, <2>2 DEF ActOnce
  <2> QED  BY <2>3, <2>4 DEF Taken
<1>5. CASE EndTurn
  <2>1. srv'.turn = "none"
    BY <1>1, <1>5, EndTurnOK
  <2> QED  BY <2>1
<1>6. ASSUME NEW st \in Saved \ {"open"}, NEW done \in BOOLEAN, SaveAnswer(st, done)
      PROVE  FALSE
  <2>1. srv'.turn = "answered"
    BY <1>1, <1>6, SaveAnswerOK
  <2> QED  BY <2>1
<1> QED  BY <1>1, <1>3, <1>4, <1>5, <1>6, TurnSteps

\* Only a refresh makes up for what the page missed.
LEMMA UpsetStays ==
  ASSUME Next, upset, ~Refresh
  PROVE  upset'
<1> SUFFICES ASSUME ~upset' PROVE FALSE
  OBVIOUS
<1>1. ASSUME NEW new, publishReview(new) PROVE FALSE
  BY <1>1 DEF publishReview
<1>2. ASSUME NEW it, enqueueReactTurn(it) PROVE FALSE
  BY <1>1, <1>2 DEF enqueueReactTurn
<1>3. ASSUME NEW m \in Messages, SendElsewhere(m) \/ sendMessage(m) PROVE FALSE
  BY <1>2, <1>3 DEF SendElsewhere, sendMessage, server
<1>4. ASSUME Dequeue \/ EndTurn \/ dropReviewSessionIfIdle PROVE FALSE
  BY <1>1, <1>4 DEF Dequeue, EndTurn, dropReviewSessionIfIdle
<1>5. ASSUME NEW st \in Saved \ {"open"}, NEW done \in BOOLEAN, SaveAnswer(st, done)
      PROVE  FALSE
  BY <1>5 DEF SaveAnswer
<1>6. ASSUME NEW n \in 1..Len(chat.queued), cancelQueuedItem(n) PROVE FALSE
  BY <1>6 DEF cancelQueuedItem, server
<1>7. ASSUME cancelReview \/ finishEarly \/ retryLastFailed PROVE FALSE
  BY <1>7 DEF cancelReview, finishEarly, retryLastFailed, server
<1>8. ASSUME NEW r \in reqs, \/ SendServed(r) \/ SendFails(r)
                             \/ RetryServed(r) \/ RetryFails(r)
      PROVE  FALSE
  BY <1>2, <1>8 DEF SendServed, SendFails, RetryServed, RetryFails
<1>9. ASSUME NEW r \in reqs, \/ RemoveQueuedItem(r) \/ cancelReactSession(r)
                             \/ FinishServed(r)
      PROVE  FALSE
  <2>1. CASE RemoveQueuedItem(r)
    <3>1. upset' = upset \/ \E new : publishReview(new)
      BY <2>1 DEF RemoveQueuedItem, server
    <3> QED  BY <1>1, <3>1
  <2>2. CASE cancelReactSession(r)
    BY <1>1, <2>2 DEF cancelReactSession
  <2>3. CASE FinishServed(r)
    BY <2>3 DEF FinishServed
  <2> QED  BY <1>9, <2>1, <2>2, <2>3
<1>10. ASSUME PollTick \/ ReadLoad PROVE FALSE
  BY <1>10 DEF PollTick, ReadLoad, server
<1>11. ASSUME NEW n \in 1..Len(answers), LandLoad(n) \/ RestoreLanded(n) \/ DropLoad(n)
       PROVE  FALSE
  BY <1>11 DEF LandLoad, RestoreLanded, DropLoad, server
<1>12. ASSUME Receive PROVE FALSE
  <2>1. upset' = upset
    BY <1>12 DEF Receive
  <2> QED  BY <2>1
<1>13. ASSUME SocketDrops \/ Reconnect PROVE FALSE
  BY <1>13 DEF SocketDrops, Reconnect
<1> QED
  BY <1>3, <1>4, <1>5, <1>6, <1>7, <1>8, <1>9, <1>10, <1>11, <1>12, <1>13 DEF Next

\* Frames that begin nothing leave the begins as they are.
LEMMA AppendedBegin ==
  ASSUME frames \in Seq(Frame), NEW f \in Frame, ~IsBegin(f), frames' = Append(frames, f)
  PROVE  /\ BeginComes' <=> BeginComes
         /\ LastBegin /\ srv'.active = srv.active
            /\ (srv.active # NoItem => IsQ(f) /\ f.busy) => LastBegin'
<1>1. /\ Len(frames') = Len(frames) + 1 /\ Len(frames) \in Nat
      /\ frames'[Len(frames) + 1] = f
      /\ \A n \in 1..Len(frames) : frames'[n] = frames[n]
  BY AppendedFrame
<1>2. \A m \in 1..Len(frames') : IsBegin(frames'[m]) <=>
         m \in 1..Len(frames) /\ IsBegin(frames[m])
  <2> SUFFICES ASSUME NEW m \in 1..Len(frames')
               PROVE  IsBegin(frames'[m]) <=> m \in 1..Len(frames) /\ IsBegin(frames[m])
    OBVIOUS
  <2>1. m \in 1..Len(frames) \/ (m = Len(frames) + 1 /\ m \notin 1..Len(frames))
    BY <1>1
  <2> QED  BY <1>1, <2>1
<1>3. ASSUME NEW n \in Nat PROVE BeginsAfter(n)' <=> BeginsAfter(n)
  <2>1. \A m \in n + 1 .. Len(frames') : m \in 1..Len(frames')
    BY <1>1
  <2>2. \A m \in 1..Len(frames) : m \in n + 1 .. Len(frames') <=> m \in n + 1 .. Len(frames)
    BY <1>1
  <2>3. \A m \in n + 1 .. Len(frames) : m \in 1..Len(frames) /\ m \in n + 1 .. Len(frames')
    BY <1>1
  <2>4. BeginsAfter(n)' <=> \E m \in n + 1 .. Len(frames') : IsBegin(frames'[m])
    BY DEF BeginsAfter, IsBegin
  <2>5. BeginsAfter(n) <=> \E m \in n + 1 .. Len(frames) : IsBegin(frames[m])
    BY DEF BeginsAfter
  <2>6. ASSUME NEW m \in n + 1 .. Len(frames'), IsBegin(frames'[m])
        PROVE  m \in n + 1 .. Len(frames) /\ IsBegin(frames[m])
    BY <1>2, <2>1, <2>2, <2>6
  <2>7. ASSUME NEW m \in n + 1 .. Len(frames), IsBegin(frames[m])
        PROVE  m \in n + 1 .. Len(frames') /\ IsBegin(frames'[m])
    BY <1>1, <2>3, <2>7
  <2> QED  BY <2>4, <2>5, <2>6, <2>7
<1>4. BeginComes' <=> BeginComes
  BY <1>3 DEF BeginComes
<1>5. ASSUME LastBegin, srv'.active = srv.active, srv.active # NoItem, IsQ(f) /\ f.busy,
             NEW n \in 1..Len(frames'), ~BeginsAfter(n)'
      PROVE  IF IsBegin(frames'[n]) THEN frames'[n].act = srv'.active
                                    ELSE IsQ(frames'[n]) /\ frames'[n].busy
  <2>1. CASE n \in 1..Len(frames)
    <3>1. ~BeginsAfter(n) /\ frames'[n] = frames[n]
      BY <1>1, <1>3, <1>5, <2>1
    <3> QED  BY <1>5, <2>1, <3>1 DEF LastBegin
  <2>2. CASE n = Len(frames) + 1
    BY <1>1, <1>5, <2>2
  <2> QED  BY <1>1, <2>1, <2>2
<1>6. ASSUME LastBegin, srv'.active = srv.active,
             srv.active # NoItem => IsQ(f) /\ f.busy
      PROVE  LastBegin'
  BY <1>5, <1>6 DEF LastBegin, BeginsAfter, IsBegin, IsQ
<1> QED  BY <1>4, <1>6

LEMMA ToldBegin ==
  ASSUME TypeParts, srv' \in ServerState, srv'.active = srv.active, QueueTold, ~upset'
  PROVE  (BeginComes' <=> BeginComes) /\ (LastBegin => LastBegin')
<1>1. PICK b \in BOOLEAN : /\ frames' = Append(frames, QueueState(srv'.queue, b, NoItem))
                           /\ srv'.active # NoItem => b
  BY DEF QueueTold
<1> DEFINE f == QueueState(srv'.queue, b, NoItem)
<1>2. f \in Frame /\ ~IsBegin(f) /\ IsQ(f) /\ frames \in Seq(Frame)
  BY DEF QueueState, Frame, ServerState, IsBegin, IsQ, TypeParts
<1>3. f.busy = b
  BY DEF QueueState
<1>4. frames' = Append(frames, f)
  BY <1>1
<1> HIDE DEF f
<1>5. srv.active # NoItem => IsQ(f) /\ f.busy
  BY <1>1, <1>2, <1>3
<1> QED  BY <1>2, <1>4, <1>5, AppendedBegin

LEMMA ConnectedBegin ==
  ASSUME TypeInv, srv' = srv, frames' = ConnectFrames
  PROVE  ~BeginComes' /\ LastBegin'
<1>1. \A n \in 1..Len(frames') :
        /\ ~IsBegin(frames'[n]) /\ IsQ(frames'[n])
        /\ srv.active # NoItem => frames'[n].busy
  <2>1. CASE srv.alive
    <3>1. PICK f, g \in Frame :
            /\ ConnectFrames = <<f, g>> /\ f.ev = "snapshot" /\ g.ev = "queue"
            /\ f.busy = (srv.active # NoItem) /\ g.busy = (srv.active # NoItem)
      BY <2>1, ConnectType
    <3>2. ~IsBegin(f) /\ ~IsBegin(g) /\ IsQ(f) /\ IsQ(g)
      BY <3>1 DEF IsBegin, IsQ
    <3>3. srv.active # NoItem => f.busy /\ g.busy
      BY <3>1
    <3>4. frames' = <<f, g>>
      BY <3>1
    <3> QED  BY <3>2, <3>3, <3>4
  <2>2. CASE ~srv.alive
    <3> DEFINE e == <<>>
    <3>1. Len(e) = 0 /\ frames' = e
      BY <2>2, ConnectType
    <3> HIDE DEF e
    <3> QED  BY <3>1
  <2> QED  BY <2>1, <2>2
<1>2. ~BeginComes'
  BY <1>1 DEF BeginComes, BeginsAfter, IsBegin
<1>3. LastBegin'
  BY <1>1 DEF LastBegin, BeginsAfter, IsBegin, IsQ
<1> QED  BY <1>2, <1>3

LEMMA DequeueBegin ==
  ASSUME TypeInv, Dequeue, ~upset'
  PROVE  BeginComes' /\ LastBegin'
<1> DEFINE f == QueueState(srv'.queue, TRUE, NoItem)
           g == TurnFrame("begin", srv'.active, "open")
           new == <<f, g>>
<1>1. publishReview(new) /\ srv'.active \in Item /\ srv' \in ServerState
  BY DequeueOK DEF ServerStepOK
<1>2. f \in Frame /\ g \in Frame
  BY <1>1 DEF QueueState, TurnFrame, Frame, ServerState
<1>3. IsBegin(g) /\ g.act = srv'.active
  BY DEF TurnFrame, IsBegin
<1> HIDE DEF f, g
<1>4. new \in Seq(Frame) /\ Len(new) = 2 /\ new[2] = g
  BY <1>2
<1>5. frames \in Seq(Frame) /\ frames' = frames \o new
  BY <1>1, <1>4, PublishOK DEF TypeInv, ServerType
<1> HIDE DEF new
<1>6. /\ Len(frames') = Len(frames) + 2 /\ Len(frames) \in Nat
      /\ frames'[Len(frames) + 2] = g
  <2>1. /\ Len(frames') = Len(frames) + Len(new)
        /\ \A n \in 1..Len(frames) + Len(new) :
             frames'[n] = IF n <= Len(frames) THEN frames[n]
                                              ELSE new[n - Len(frames)]
    BY <1>4, <1>5, ConcatProperties
  <2>2. Len(frames) \in Nat /\ Len(new) = 2
    BY <1>4, <1>5
  <2>3. /\ Len(frames) + 2 \in 1..Len(frames) + Len(new)
        /\ ~(Len(frames) + 2 <= Len(frames)) /\ (Len(frames) + 2) - Len(frames) = 2
    BY <2>2
  <2> QED  BY <1>4, <2>1, <2>2, <2>3
<1>7. BeginComes'
  BY <1>3, <1>6 DEF BeginComes, BeginsAfter, IsBegin
<1>8. LastBegin'
  <2> SUFFICES ASSUME NEW n \in 1..Len(frames'), ~BeginsAfter(n)'
               PROVE  IF IsBegin(frames'[n]) THEN frames'[n].act = srv'.active
                                             ELSE IsQ(frames'[n]) /\ frames'[n].busy
    BY DEF LastBegin, BeginsAfter, IsBegin, IsQ
  <2>1. n = Len(frames) + 2
    <3> SUFFICES ASSUME n # Len(frames) + 2 PROVE FALSE
      OBVIOUS
    <3>1. Len(frames) + 2 \in n + 1 .. Len(frames')
      BY <1>6
    <3> QED  BY <1>3, <1>6, <3>1 DEF BeginsAfter, IsBegin
  <2> QED  BY <1>3, <1>6, <2>1
<1> QED  BY <1>7, <1>8

LEMMA TailBegin ==
  ASSUME TypeParts, frames # <<>>, frames' = Tail(frames), srv' = srv
  PROVE  /\ BeginComes => IsBegin(frames[1]) \/ BeginComes'
         /\ LastBegin => LastBegin'
<1>1. /\ Len(frames) \in Nat /\ Len(frames') = Len(frames) - 1
      /\ \A n \in 1..Len(frames') : frames'[n] = frames[n + 1]
  BY HeadTailProperties DEF TypeParts
<1>2. ASSUME NEW n \in Nat, BeginsAfter(n + 1) PROVE BeginsAfter(n)'
  <2>1. PICK m \in n + 1 + 1 .. Len(frames) : IsBegin(frames[m])
    BY <1>2 DEF BeginsAfter
  <2>2. m - 1 \in n + 1 .. Len(frames') /\ m - 1 \in 1..Len(frames') /\ (m - 1) + 1 = m
    BY <1>1
  <2>3. IsBegin(frames'[m - 1])
    BY <1>1, <2>1, <2>2
  <2> QED  BY <2>2, <2>3 DEF BeginsAfter, IsBegin
<1>3. BeginComes => IsBegin(frames[1]) \/ BeginComes'
  <2> SUFFICES ASSUME BeginComes, ~IsBegin(frames[1]) PROVE BeginComes'
    OBVIOUS
  <2>1. PICK m \in 0 + 1 .. Len(frames) : IsBegin(frames[m])
    BY DEF BeginComes, BeginsAfter
  <2>2. m # 1
    BY <2>1
  <2>3. m \in 0 + 1 + 1 .. Len(frames)
    BY <1>1, <2>2
  <2>4. BeginsAfter(0 + 1) /\ 0 \in Nat
    BY <2>1, <2>3 DEF BeginsAfter
  <2> QED  BY <1>2, <2>4 DEF BeginComes
<1>4. LastBegin => LastBegin'
  <2> SUFFICES ASSUME LastBegin, srv.active # NoItem,
                      NEW n \in 1..Len(frames'), ~BeginsAfter(n)'
               PROVE  IF IsBegin(frames'[n]) THEN frames'[n].act = srv.active
                                             ELSE IsQ(frames'[n]) /\ frames'[n].busy
    BY DEF LastBegin, BeginsAfter, IsBegin, IsQ
  <2>1. n + 1 \in 1..Len(frames) /\ frames'[n] = frames[n + 1] /\ n \in Nat
    BY <1>1
  <2>2. ~BeginsAfter(n + 1)
    BY <1>2, <2>1
  <2> QED  BY <2>1, <2>2 DEF LastBegin
<1> QED  BY <1>3, <1>4

LEMMA LastBeginNext ==
  ASSUME Inv, TypeInv', Next, ~upset', Refresh \/ LastBegin
  PROVE  LastBegin'
<1>1. TypeInv /\ ServerInv /\ ReqsOnce /\ TypeParts /\ FramesInv
  BY TypePartsOK DEF Inv, Unique
<1>2. ASSUME Refresh PROVE LastBegin'
  BY <1>1, <1>2, ConnectedBegin DEF Refresh
<1> SUFFICES ASSUME LastBegin PROVE LastBegin'
  BY <1>2
<1>3. ASSUME frames' = frames, srv'.active = srv.active PROVE LastBegin'
  BY <1>3 DEF LastBegin, BeginsAfter, IsBegin, IsQ
<1>4. ASSUME QueueTold, srv' \in ServerState, srv'.active = srv.active PROVE LastBegin'
  BY <1>1, <1>4, ToldBegin
<1>5. ASSUME NEW it \in Item, enqueueReactTurn(it) PROVE LastBegin'
  <2>1. QueueTold /\ srv' \in ServerState /\ srv'.active = srv.active
    BY <1>1, <1>5, EnqueueOK DEF ServerStepOK, TurnKept
  <2> QED  BY <1>4, <2>1
<1>6. ASSUME NEW m \in Messages, SendElsewhere(m) PROVE LastBegin'
  <2> DEFINE it == [m |-> m, retry |-> 0]
  <2>1. it \in Item
    BY <1>1 DEF Item, TypeParts
  <2>2. enqueueReactTurn(it)
    BY <1>6 DEF SendElsewhere
  <2> HIDE DEF it
  <2> QED  BY <1>5, <2>1, <2>2
<1>7. ASSUME NEW m \in Messages, sendMessage(m) PROVE LastBegin'
  BY <1>3, <1>7 DEF sendMessage, server
<1>8. ASSUME Dequeue PROVE LastBegin'
  BY <1>1, <1>8, DequeueBegin
<1>9. ASSUME EndTurn PROVE LastBegin'
  <2>1. srv'.active = NoItem
    BY <1>1, <1>9, EndTurnOK
  <2> QED  BY <2>1 DEF LastBegin
<1>10. ASSUME dropReviewSessionIfIdle PROVE LastBegin'
  BY <1>1, <1>3, <1>10, DropOK DEF dropReviewSessionIfIdle, TurnKept
<1>11. ASSUME NEW st \in Saved \ {"open"}, NEW done \in BOOLEAN, SaveAnswer(st, done)
       PROVE  LastBegin'
  <2>1. srv'.active = srv.active
    BY <1>1, <1>11, SaveAnswerOK
  <2>2. frames' = frames
    BY <1>11 DEF SaveAnswer
  <2> QED  BY <1>3, <2>1, <2>2
<1>12. ASSUME \/ \E n \in 1..Len(chat.queued) : cancelQueuedItem(n)
              \/ cancelReview \/ finishEarly \/ retryLastFailed
       PROVE  LastBegin'
  BY <1>3, <1>12 DEF cancelQueuedItem, cancelReview, finishEarly, retryLastFailed, server
<1>13. ASSUME NEW r \in reqs, SendServed(r) PROVE LastBegin'
  <2>1. r.it \in Item
    BY <1>1, <1>13, ServedType DEF SendServed
  <2>2. enqueueReactTurn(r.it)
    BY <1>13 DEF SendServed
  <2> QED  BY <1>5, <2>1, <2>2
<1>14. ASSUME NEW r \in reqs, RetryServed(r) PROVE LastBegin'
  <2>1. RetryOf(r.it) \in Item
    BY <1>1, <1>14, RetryItem
  <2>2. enqueueReactTurn(RetryOf(r.it))
    BY <1>14 DEF RetryServed, RetryOf
  <2> QED  BY <1>5, <2>1, <2>2
<1>15. ASSUME NEW r \in reqs, SendFails(r) \/ RetryFails(r) PROVE FALSE
  BY <1>15 DEF SendFails, RetryFails
<1>16. ASSUME NEW r \in reqs, RemoveQueuedItem(r) PROVE LastBegin'
  <2>1. \/ UNCHANGED <<srv, frames>>
        \/ ServerStepOK /\ QueueTold /\ TurnKept
    BY <1>1, <1>16, RemoveOK
  <2> QED  BY <1>3, <1>4, <2>1 DEF ServerStepOK, TurnKept
<1>17. ASSUME NEW r \in reqs, cancelReactSession(r) PROVE LastBegin'
  <2>1. ServerStepOK /\ QueueTold /\ TurnKept
    BY <1>1, <1>17, CancelOK
  <2> QED  BY <1>4, <2>1 DEF ServerStepOK, TurnKept
<1>18. ASSUME NEW r \in reqs, FinishServed(r) PROVE LastBegin'
  BY <1>1, <1>3, <1>18, FinishOK DEF FinishServed, TurnKept
<1>19. ASSUME PollTick \/ ReadLoad PROVE LastBegin'
  BY <1>3, <1>19 DEF PollTick, ReadLoad, server
<1>20. ASSUME NEW n \in 1..Len(answers), LandLoad(n) \/ RestoreLanded(n) \/ DropLoad(n)
       PROVE  LastBegin'
  BY <1>3, <1>20 DEF LandLoad, RestoreLanded, DropLoad, server
<1>21. ASSUME Receive PROVE LastBegin'
  <2>1. frames # <<>> /\ frames' = Tail(frames) /\ srv' = srv
    BY <1>21 DEF Receive
  <2> QED  BY <1>1, <2>1, TailBegin
<1>22. ASSUME SocketDrops PROVE LastBegin'
  <2>1. frames' = frames /\ srv' = srv
    BY <1>22 DEF SocketDrops
  <2> QED  BY <1>3, <2>1
<1>23. ASSUME Reconnect PROVE LastBegin'
  <2>1. srv' = srv /\ frames' = ConnectFrames
    BY <1>23 DEF Reconnect
  <2> QED  BY <1>1, <2>1, ConnectedBegin
<1> HIDE DEF Inv
<1> QED
  BY <1>2, <1>6, <1>7, <1>8, <1>9, <1>10, <1>11, <1>12, <1>13, <1>14, <1>15, <1>16,
     <1>17, <1>18, <1>19, <1>20, <1>21, <1>22, <1>23 DEF Next

LEMMA RestoreAgreed ==
  ASSUME TypeInv, ServerInv, OpenTurn, srv.turn = "running", NEW c, ChatOK(c), NEW conv,
         NEW d, d = Restore(c, conv, ReactSessions),
         Agreed(c) \/ (c.liveAgentIdx = 0 /\ conv = srv.conv)
  PROVE  Agreed(d)
<1> DEFINE items == srv.queue
           busy == TRUE
           act == srv.active
<1>1. TypeParts /\ srv.active # NoItem /\ srv.active \in Item \cup {NoItem}
      /\ srv.queue \in Seq(Item) /\ srv.conv # <<>>
  BY TypePartsOK DEF TypeParts, TurnOK, ServerState
<1>2. srv.alive
  BY <1>1 DEF ServerInv, Work
<1>3. /\ ReactSessions.on /\ ReactSessions.items = items /\ ReactSessions.act = act
      /\ ReactSessions.busy = busy
  BY <1>1, <1>2, SessionType DEF TypeInv
<1>4. d = applyQueueState(c, conv, items, busy, act)
  BY <1>3 DEF Restore
<1>5. items \in Seq(Item) /\ busy \in BOOLEAN /\ act \in Item \cup {NoItem} /\ busy
  BY <1>1
<1>6. act # NoItem
  BY <1>1
<1> HIDE DEF items, busy, act
<1>7. CASE Agreed(c)
  <2>1. SameLive(c, d)
    BY <1>4, <1>5, <1>7, QueueStateLive DEF Agreed
  <2> QED  BY <1>7, <2>1 DEF Agreed, SameLive
<1>8. CASE c.liveAgentIdx = 0 /\ conv = srv.conv
  <2>1. ~persistedCompletedLiveHuman(conv, act.m)
    BY <1>8 DEF OpenTurn, persistedCompletedLiveHuman
  <2>2. d.live = Bubble(act.m) /\ d.liveAgentIdx = 1
    <3>1. c.liveAgentIdx = 0
      BY <1>8
    <3>2. Opens(c, conv, busy, act)
      BY <1>5, <1>6, <2>1, <3>1 DEF Opens
    <3>3. Opened(d, act)
      BY <1>4, <1>5, <3>2, QueueStateLive
    <3> QED  BY <3>3 DEF Opened
  <2>3. d.live[d.liveAgentIdx].m = act.m
    BY <2>2 DEF Bubble
  <2> QED  BY <2>2, <2>3 DEF Agreed, Same, act
<1> QED  BY <1>7, <1>8

\* The frame that is received opens the bubble, or keeps it.
LEMMA ReceiveAgreed ==
  ASSUME TypeInv, LastBegin, srv.active # NoItem, Receive, ~BeginComes',
         BeginComes \/ Agreed(chat)
  PROVE  Agreed(chat')
<1> DEFINE f == frames[1]
<1>1. TypeParts /\ ChatOK(chat)
  BY TypePartsOK DEF TypeParts
<1>2. frames # <<>> /\ frames' = Tail(frames) /\ srv' = srv
  BY DEF Receive
<1>3. /\ Head(frames) = f /\ f.items \in Seq(Item) /\ (f.ev = "begin" => f.act \in Item)
      /\ IsQ(f) => f.act \in Item \cup {NoItem}
  BY <1>2, HeadFrame
<1>4. f.busy \in BOOLEAN
  BY <1>2, HeadFrame
<1>5. chat' = CASE f.ev = "begin" -> turn_begin(chat, f.act)
                [] f.ev \in {"done", "error"} -> EndFrame(chat, f.st)
                [] OTHER -> applyQueueState(chat, run.conv, f.items, f.busy, f.act)
  BY <1>3 DEF Receive
<1>6. /\ Len(frames) \in Nat /\ Len(frames') = Len(frames) - 1
      /\ \A n \in 1..Len(frames') : frames'[n] = frames[n + 1]
  BY <1>1, <1>2, HeadTailProperties DEF TypeParts
<1>7. ~BeginsAfter(1)
  <2> SUFFICES ASSUME NEW m \in 1 + 1 .. Len(frames), IsBegin(frames[m])
               PROVE  BeginComes'
    BY DEF BeginsAfter
  <2>1. m - 1 \in 0 + 1 .. Len(frames') /\ m - 1 \in 1..Len(frames') /\ (m - 1) + 1 = m
    BY <1>6
  <2>2. IsBegin(frames'[m - 1])
    BY <1>6, <2>1
  <2> QED  BY <2>1, <2>2 DEF BeginComes, BeginsAfter, IsBegin
<1>8. 1 \in 1..Len(frames)
  BY <1>1, <1>2 DEF TypeParts
<1>9. CASE IsBegin(f)
  <2> DEFINE it == f.act
             z == chat'
  <2>1. it = srv.active
    BY <1>7, <1>8, <1>9 DEF LastBegin
  <2>2. z = turn_begin(chat, it) /\ it \in Item
    BY <1>3, <1>5, <1>9 DEF IsBegin
  <2> HIDE DEF it, z, f
  <2>3. z.liveAgentIdx = Len(z.live) /\ Len(z.live) > 0 /\ Same(z.live[Len(z.live)].m, it.m)
    BY <1>1, <2>2, BeginLive
  <2> QED  BY <2>1, <2>3 DEF Agreed, z
<1>10. CASE ~IsBegin(f)
  <2> DEFINE items == f.items
             busy == f.busy
             act == f.act
             conv == run.conv
             z == chat'
  <2>1. IsQ(f) /\ f.busy
    BY <1>7, <1>8, <1>10 DEF LastBegin
  <2>2. z = applyQueueState(chat, conv, items, busy, act)
    BY <1>5, <2>1 DEF IsQ
  <2>3. items \in Seq(Item) /\ busy \in BOOLEAN /\ act \in Item \cup {NoItem} /\ busy
    BY <1>3, <1>4, <2>1
  <2>4. Agreed(chat)
    <3>1. ~BeginComes
      <4> SUFFICES ASSUME NEW m \in 0 + 1 .. Len(frames), IsBegin(frames[m]) PROVE FALSE
        BY DEF BeginComes, BeginsAfter
      <4>1. m # 1
        BY <1>10
      <4>2. m \in 1 + 1 .. Len(frames)
        BY <1>6, <4>1
      <4> QED  BY <1>7, <4>2 DEF BeginsAfter
    <3> QED  BY <3>1
  <2> HIDE DEF items, busy, act, conv, z
  <2>5. SameLive(chat, z)
    BY <1>1, <2>2, <2>3, <2>4, QueueStateLive DEF Agreed
  <2> QED  BY <2>4, <2>5 DEF Agreed, SameLive, z
<1> QED  BY <1>9, <1>10

\* A load of the turn that runs leaves its bubble.
LEMMA LandAgreed ==
  ASSUME TypeInv, OpenTurn, LoadConv, srv.turn = "running", Agreed(chat),
         NEW n \in 1..Len(answers), LandLoad(n), answers[n].r.sess.act = srv.active
  PROVE  Agreed(chat')
<1> DEFINE r == answers[n].r
           c == WatchPersisted(chat, run, r)
           z == chat'
           old == run
<1>1. z = WatchDone(c, old, r)
  BY DEF LandLoad
<1>2. ChatOK(chat)
  BY DEF TypeInv, PageType
<1>3. r.conv = srv.conv
  BY DEF LoadConv, Rows
<1>4. ~Wipes(chat, r)
  <2>1. ~persistedCompletedLiveHuman(r.conv, chat.live[1].m)
    BY <1>3 DEF OpenTurn, persistedCompletedLiveHuman
  <2>2. \E i \in 1..Len(chat.live) : chat.live[i].st = "stream"
    <3>1. chat.liveAgentIdx \in 1..Len(chat.live)
      BY <1>2 DEF ChatOK, Chats, Streaming, Agreed
    <3> QED  BY <1>2, <3>1 DEF ChatOK, Streaming, Agreed
  <2> QED  BY <2>1, <2>2 DEF Wipes
<1> HIDE DEF r, z, old
<1>5. ChatOK(c) /\ SameLive(chat, c)
  BY <1>2, <1>4, WatchPersistedOK, WatchPersistedLive
<1> HIDE DEF c
<1>6. SameLive(c, z)
  BY <1>1, <1>5, WatchDoneLive
<1> QED  BY <1>5, <1>6 DEF SameLive, Agreed, z

LEMMA BubbleKept ==
  ASSUME BubbleInv, TurnKept, srv'.cancelled = srv.cancelled,
         Pending("cancel") => Pending("cancel")', BeginComes => BeginComes',
         \A a \in Rows(answers) : a.landed => a \in Rows(answers'),
         SameLive(chat, chat')
  PROVE  BubbleInv'
<1>1. Wiper => Wiper'
  BY DEF Wiper, TurnKept, Rows
<1>2. Exposed' => Exposed
  BY <1>1 DEF Exposed, TurnKept
<1>3. Agreed(chat) => Agreed(chat)'
  BY DEF Agreed, TurnKept, SameLive
<1> QED  BY <1>2, <1>3 DEF BubbleInv

LEMMA EnqueueBubble ==
  ASSUME TypeInv, BubbleInv, ~upset', NEW it \in Item, enqueueReactTurn(it),
         Pending("cancel") => Pending("cancel")', UNCHANGED <<answers, chat>>
  PROVE  BubbleInv'
<1>1. TypeParts
  BY TypePartsOK
<1>2. ServerStepOK /\ QueueTold /\ TurnKept
  BY EnqueueOK
<1>3. BeginComes => BeginComes'
  BY <1>1, <1>2, ToldBegin DEF ServerStepOK, TurnKept
<1>4. srv'.cancelled = srv.cancelled
  BY <1>1 DEF enqueueReactTurn, TypeParts, ServerState
<1>5. Rows(answers) \subseteq Rows(answers') /\ SameLive(chat, chat')
  BY DEF SameLive, Rows
<1> QED  BY <1>2, <1>3, <1>4, <1>5, BubbleKept

\* What the user does besides stopping and retrying leaves the bubble.
LEMMA UserLive ==
  ASSUME ChatOK(chat), chat.queued \in Seq(ChatRow),
         \/ \E m \in Messages : sendMessage(m)
         \/ \E n \in 1..Len(chat.queued) : cancelQueuedItem(n)
         \/ finishEarly
  PROVE  SameLive(chat, chat')
<1>1. ChatOK(chat) /\ chat.queued \in Seq(ChatRow)
  OBVIOUS
<1>2. ASSUME NEW m \in Messages, sendMessage(m) PROVE SameLive(chat, chat')
  <2> DEFINE row == [it |-> [m |-> m, retry |-> 0], id |-> FALSE]
             q == Append(chat.queued, row)
             t == TRUE
  <2>1. row \in ChatRow
    BY ChatAssumption DEF ChatRow, Item
  <2>2. chat' = WithPanel(chat, q, t)
    BY <1>2 DEF sendMessage, WithPanel
  <2> HIDE DEF row
  <2>3. q \in Seq(ChatRow) /\ t \in BOOLEAN
    BY <1>1, <2>1
  <2> HIDE DEF q, t
  <2> QED  BY <1>1, <2>2, <2>3, PanelLive
<1>3. ASSUME NEW n \in 1..Len(chat.queued), cancelQueuedItem(n)
      PROVE  SameLive(chat, chat')
  <2> DEFINE q == RemoveAt(chat.queued, n)
             t == chat.liveAgentIdx > 0 \/ q # <<>>
  <2>1. chat' = WithPanel(chat, q, t)
    BY <1>3 DEF cancelQueuedItem, WithPanel
  <2>2. q \in Seq(ChatRow) /\ t \in BOOLEAN
    BY <1>1, RemoveRow
  <2> HIDE DEF q, t
  <2> QED  BY <1>1, <2>1, <2>2, PanelLive
<1>4. ASSUME finishEarly PROVE SameLive(chat, chat')
  <2> DEFINE t == TRUE
  <2>1. chat \in Chats /\ chat.thinking \in BOOLEAN /\ t \in BOOLEAN
    BY <1>1 DEF ChatOK, Chats
  <2>2. CASE Kind = "review"
    <3>1. chat' = [chat EXCEPT !.validating = TRUE]
      BY <1>4, <2>2 DEF finishEarly
    <3>2. chat' = WithSpinners(chat, chat.thinking, t)
      BY <2>1, <3>1 DEF WithSpinners, Chats
    <3> HIDE DEF t
    <3> QED  BY <1>1, <2>1, <3>2, SpinnersLive
  <2>3. CASE Kind # "review"
    <3>1. chat' = WithThinking(chat, t)
      BY <1>4, <2>3 DEF finishEarly, WithThinking
    <3> HIDE DEF t
    <3> QED  BY <1>1, <2>1, <3>1, SpinnersLive
  <2> QED  BY <2>2, <2>3
<1> QED  BY <1>2, <1>3, <1>4

LEMMA UserBubble ==
  ASSUME TypeInv, BubbleInv,
         \/ \E m \in Messages : sendMessage(m)
         \/ \E n \in 1..Len(chat.queued) : cancelQueuedItem(n)
         \/ finishEarly
  PROVE  BubbleInv'
<1>1. ChatOK(chat) /\ chat.queued \in Seq(ChatRow)
  BY DEF TypeInv, PageType, ChatOK, Chats
<1>2. SameLive(chat, chat')
  BY <1>1, UserLive
<1>3. srv' = srv /\ frames' = frames /\ answers' = answers /\ reqs \subseteq reqs'
  BY DEF sendMessage, cancelQueuedItem, finishEarly, server, page
<1>4. TurnKept /\ srv'.cancelled = srv.cancelled
  BY <1>3 DEF TurnKept
<1>5. Pending("cancel") => Pending("cancel")'
  BY <1>3 DEF Pending
<1>6. BeginComes => BeginComes'
  BY <1>3 DEF BeginComes, BeginsAfter, IsBegin
<1>7. Rows(answers) \subseteq Rows(answers')
  BY <1>3 DEF Rows
<1> QED  BY <1>2, <1>4, <1>5, <1>6, <1>7, BubbleKept

\* A request that is served and does not stop the turn leaves the bubble.
LEMMA ServedBubble ==
  ASSUME TypeInv, ServerInv, ReqsOnce, BubbleInv, ~upset', NEW r \in reqs,
         \/ SendServed(r) \/ RetryServed(r) \/ RemoveQueuedItem(r)
         \/ cancelReactSession(r) \/ FinishServed(r)
  PROVE  BubbleInv'
<1>1. TypeParts
  BY TypePartsOK
<1>2. ASSUME NEW k, Serve(r, k), k # "cancel" PROVE Pending("cancel") => Pending("cancel")'
  BY <1>2 DEF Serve, Pending
<1>3. CASE SendServed(r)
  <2>1. r.it \in Item
    BY <1>3, ServedType DEF SendServed
  <2>2. enqueueReactTurn(r.it) /\ UNCHANGED <<answers, chat>>
    BY <1>3 DEF SendServed, page
  <2>3. Serve(r, "send")
    BY <1>3 DEF SendServed
  <2>4. Pending("cancel") => Pending("cancel")'
    BY <1>2, <2>3
  <2> QED  BY <2>1, <2>2, <2>4, EnqueueBubble
<1>4. CASE RetryServed(r)
  <2>1. RetryOf(r.it) \in Item
    BY <1>4, RetryItem
  <2>2. enqueueReactTurn(RetryOf(r.it)) /\ UNCHANGED <<answers, chat>>
    BY <1>4 DEF RetryServed, RetryOf, page
  <2>3. Serve(r, "retry")
    BY <1>4 DEF RetryServed
  <2>4. Pending("cancel") => Pending("cancel")'
    BY <1>2, <2>3
  <2> QED  BY <2>1, <2>2, <2>4, EnqueueBubble
<1>5. CASE RemoveQueuedItem(r)
  <2> DEFINE rest == Keep(srv.queue, Rows(srv.queue) \ {r.it})
  <2>1. Serve(r, "remove") /\ answers' = answers /\ chat' = chat
    BY <1>5 DEF RemoveQueuedItem, page
  <2>2. Pending("cancel") => Pending("cancel")'
    BY <1>2, <2>1
  <2>3. \/ srv' = srv /\ frames' = frames
        \/ ServerStepOK /\ QueueTold /\ TurnKept
    BY <1>5, RemoveOK
  <2>4. TurnKept
    BY <2>3 DEF TurnKept
  <2>5. srv' = srv \/ srv' = [srv EXCEPT !.queue = rest]
    BY <1>5 DEF RemoveQueuedItem, server
  <2> HIDE DEF rest
  <2>6. srv'.cancelled = srv.cancelled
    BY <1>1, <2>5 DEF TypeParts, ServerState
  <2>7. BeginComes => BeginComes'
    <3>1. CASE frames' = frames
      BY <3>1 DEF BeginComes, BeginsAfter, IsBegin
    <3>2. CASE ServerStepOK /\ QueueTold /\ TurnKept
      BY <1>1, <3>2, ToldBegin DEF ServerStepOK, TurnKept
    <3> QED  BY <2>3, <3>1, <3>2
  <2>8. Rows(answers) \subseteq Rows(answers') /\ SameLive(chat, chat')
    BY <2>1 DEF Rows, SameLive
  <2> QED  BY <2>2, <2>4, <2>6, <2>7, <2>8, BubbleKept
<1>6. CASE cancelReactSession(r)
  <2> SUFFICES ASSUME srv'.turn = "running", ~srv'.cancelled PROVE FALSE
    BY DEF BubbleInv, Exposed
  <2>1. srv'.turn = srv.turn
    BY <1>6, CancelOK DEF TurnKept
  <2>2. srv.alive
    BY <1>1, <2>1 DEF TypeParts, TurnOK, ServerInv, Work
  <2> DEFINE rest == IF Kind = "review" THEN <<>> ELSE srv.queue
  <2>3. srv' = [srv EXCEPT !.queue = rest, !.cancelled = TRUE]
    BY <1>6, <2>2 DEF cancelReactSession
  <2> HIDE DEF rest
  <2> QED  BY <1>1, <2>3 DEF TypeParts, ServerState
<1>7. CASE FinishServed(r)
  <2>1. Serve(r, "finish") /\ frames' = frames /\ answers' = answers
    BY <1>7 DEF FinishServed
  <2>2. TurnKept
    BY <1>7, FinishOK
  <2>3. \/ srv.active = NoItem
        \/ srv' = srv /\ chat' = WatchConfirmError(chat)
    BY <1>7, FinishOK
  <2>4. CASE srv.active = NoItem
    BY <1>1, <2>2, <2>4 DEF TypeParts, TurnOK, TurnKept, BubbleInv, Exposed
  <2>5. CASE srv' = srv /\ chat' = WatchConfirmError(chat)
    <3> DEFINE z == chat'
    <3>1. ChatOK(chat) /\ z = WatchConfirmError(chat)
      BY <1>1, <2>5 DEF TypeParts
    <3> HIDE DEF z
    <3>2. SameLive(chat, z)
      BY <3>1, WatchDoneLive
    <3>3. Pending("cancel") => Pending("cancel")'
      BY <1>2, <2>1
    <3>4. BeginComes => BeginComes'
      BY <2>1 DEF BeginComes, BeginsAfter, IsBegin
    <3>5. Rows(answers) \subseteq Rows(answers') /\ srv'.cancelled = srv.cancelled
      BY <2>1, <2>5 DEF Rows
    <3> QED  BY <2>2, <3>2, <3>3, <3>4, <3>5, BubbleKept DEF z
  <2> QED  BY <2>3, <2>4, <2>5
<1> QED  BY <1>3, <1>4, <1>5, <1>6, <1>7

\* Loads: one that may have taken the bubble away stays until it restores.
LEMMA LoadBubble ==
  ASSUME TypeInv, ServerInv, OpenTurn, LoadConv, BubbleInv, ~upset',
         \/ PollTick \/ ReadLoad
         \/ \E n \in 1..Len(answers) : LandLoad(n) \/ RestoreLanded(n) \/ DropLoad(n)
  PROVE  BubbleInv'
<1>1. TypeParts /\ ChatOK(chat) /\ answers \in Seq(Answer)
  BY TypePartsOK DEF TypeParts
<1>2. srv' = srv /\ frames' = frames /\ reqs' = reqs
  BY DEF PollTick, ReadLoad, LandLoad, RestoreLanded, DropLoad, server
<1>3. /\ TurnKept /\ srv'.cancelled = srv.cancelled
      /\ (Pending("cancel") <=> Pending("cancel")') /\ (BeginComes <=> BeginComes')
  BY <1>2 DEF TurnKept, Pending, BeginComes, BeginsAfter, IsBegin
<1>4. ASSUME chat' = chat, \A a \in Rows(answers) : a.landed => a \in Rows(answers')
      PROVE  BubbleInv'
  <2>1. SameLive(chat, chat')
    BY <1>4 DEF SameLive
  <2> QED  BY <1>3, <1>4, <2>1, BubbleKept
<1>5. CASE PollTick
  BY <1>4, <1>5 DEF PollTick, Rows
<1>6. CASE ReadLoad
  <2> DEFINE a == [r |-> runDetail, landed |-> FALSE]
  <2>1. a \in Answer
    BY <1>1, SessionType DEF Answer, TypeInv
  <2>2. answers' = Append(answers, a) /\ chat' = chat
    BY <1>6 DEF ReadLoad
  <2> HIDE DEF a
  <2>3. Rows(answers') = Rows(answers) \cup {a}
    BY <1>1, <2>1, <2>2, AppendedRows
  <2> QED  BY <1>4, <2>2, <2>3
<1>7. ASSUME NEW n \in 1..Len(answers), DropLoad(n) PROVE BubbleInv'
  <2>1. answers' = RemoveAt(answers, n) /\ chat' = chat /\ ~answers[n].landed
    BY <1>7 DEF DropLoad
  <2>2. Rows(answers) \ {answers[n]} \subseteq Rows(answers')
    BY <1>1, <2>1, RemoveRow
  <2> QED  BY <1>4, <2>1, <2>2
<1>8. ASSUME NEW n \in 1..Len(answers), LandLoad(n) PROVE BubbleInv'
  <2> SUFFICES ASSUME Exposed' PROVE Agreed(chat')
    BY <1>2 DEF BubbleInv, Agreed
  <2>1. /\ \A i \in 1..Len(answers) : answers'[i].r = answers[i].r
                                      /\ (i # n => answers'[i] = answers[i])
        /\ answers'[n].landed /\ ~answers[n].landed /\ Len(answers') = Len(answers)
    BY <1>8, LandLoadOK
  <2>2. ~Wiper' /\ srv' = srv
    BY <1>2 DEF Exposed
  <2>3. answers[n].r.sess.act = srv.active
    BY <2>1, <2>2 DEF Wiper, Rows
  <2>4. ~Wiper
    <3> SUFFICES ASSUME NEW i \in 1..Len(answers), answers[i].landed,
                        answers[i].r.sess.act # srv.active
                 PROVE  FALSE
      BY DEF Wiper, Rows
    <3>1. i # n
      BY <2>1
    <3>2. answers'[i] = answers[i] /\ i \in 1..Len(answers')
      BY <2>1, <3>1
    <3> QED  BY <2>2, <3>2 DEF Wiper, Rows
  <2>5. Exposed
    BY <1>3, <2>4 DEF Exposed, TurnKept
  <2>6. Agreed(chat) /\ srv.turn = "running"
    BY <2>5 DEF BubbleInv, Exposed
  <2> QED  BY <1>8, <2>3, <2>6, LandAgreed
<1>9. ASSUME NEW n \in 1..Len(answers), RestoreLanded(n) PROVE BubbleInv'
  <2> DEFINE s == answers[n].r.sess
             conv == run.conv
             z == chat'
  <2> SUFFICES ASSUME Exposed' PROVE Agreed(z)
    BY <1>2 DEF BubbleInv, Agreed
  <2>1. answers' = RemoveAt(answers, n) /\ z = Restore(chat, conv, s)
    BY <1>9 DEF RestoreLanded
  <2>2. s = ReactSessions
    BY <1>9 DEF RestoreLanded, OutOfStep
  <2>3. srv.turn = "running"
    BY <1>2 DEF Exposed
  <2>4. s.act = srv.active
    <3>1. srv.alive
      BY <1>1, <2>3 DEF TypeParts, TurnOK, ServerInv, Work
    <3> QED  BY <2>2, <3>1, SessionType DEF TypeInv
  <2>5. Rows(answers) \ {answers[n]} \subseteq Rows(answers')
    BY <1>1, <2>1, RemoveRow
  <2>6. ~Wiper
    <3> SUFFICES ASSUME NEW a \in Rows(answers), a.landed, a.r.sess.act # srv.active
                 PROVE  FALSE
      BY DEF Wiper
    <3>1. a \in Rows(answers')
      BY <2>4, <2>5
    <3> QED  BY <1>2, <3>1 DEF Exposed, Wiper, Rows
  <2>7. Agreed(chat)
    BY <1>3, <2>6 DEF Exposed, TurnKept, BubbleInv
  <2> HIDE DEF s, conv, z
  <2> QED  BY <1>1, <2>1, <2>2, <2>3, <2>7, RestoreAgreed
<1> QED  BY <1>5, <1>6, <1>7, <1>8, <1>9

LEMMA SocketBubble ==
  ASSUME TypeInv, ServerInv, FramesInv, OpenTurn, LastBegin, BubbleInv, ~upset',
         Receive \/ SocketDrops \/ Reconnect
  PROVE  BubbleInv'
<1>1. TypeParts /\ ChatOK(chat)
  BY TypePartsOK DEF TypeParts
<1>2. srv' = srv /\ reqs' = reqs /\ answers' = answers
  BY DEF Receive, SocketDrops, Reconnect
<1>3. /\ TurnKept /\ srv'.cancelled = srv.cancelled
      /\ (Pending("cancel") <=> Pending("cancel")') /\ (Wiper <=> Wiper')
  BY <1>2 DEF TurnKept, Pending, Wiper, Rows
<1>4. ASSUME Exposed' PROVE srv.turn = "running" /\ (BeginComes \/ Agreed(chat))
  BY <1>3, <1>4 DEF Exposed, TurnKept, BubbleInv
<1> SUFFICES ASSUME Exposed' PROVE Agreed(chat')
  BY <1>2 DEF BubbleInv, Agreed
<1>5. srv.active # NoItem
  BY <1>1, <1>4 DEF TypeParts, TurnOK
<1>6. CASE Receive
  BY <1>4, <1>5, <1>6, ReceiveAgreed DEF Exposed
<1>7. CASE SocketDrops
  <2>1. frames' = frames /\ chat' = chat
    BY <1>7 DEF SocketDrops
  <2>2. ~BeginComes
    BY <2>1 DEF Exposed, BeginComes, BeginsAfter, IsBegin
  <2> QED  BY <1>4, <2>1, <2>2
<1>8. CASE Reconnect
  <2> DEFINE s == run.sess
             conv == run.conv
             z == chat'
  <2>1. /\ frames = <<>> /\ z = Restore(chat, conv, s)
        /\ (s.on => s = ReactSessions)
    BY <1>8 DEF Reconnect, FramesInv
  <2>2. s \in Session
    BY <1>1 DEF TypeParts, Detail
  <2>3. ~BeginComes
    <3> DEFINE e == <<>>
    <3>1. Len(e) = 0 /\ frames = e
      BY <2>1
    <3> HIDE DEF e
    <3> QED  BY <3>1 DEF BeginComes, BeginsAfter
  <2>4. Agreed(chat)
    BY <1>4, <2>3
  <2> HIDE DEF s, conv, z
  <2>5. CASE s.on
    <3>1. z = Restore(chat, conv, ReactSessions)
      BY <2>1, <2>5
    <3>2. Agreed(z)
      BY <1>1, <1>4, <2>4, <3>1, RestoreAgreed
    <3> QED  BY <3>2 DEF z
  <2>6. CASE ~s.on
    <3>1. z = chat
      BY <1>1, <2>1, <2>2, <2>6, RestoreOK
    <3> QED  BY <2>4, <3>1 DEF z
  <2> QED  BY <2>5, <2>6
<1> QED  BY <1>6, <1>7, <1>8

LEMMA RefreshBubble ==
  ASSUME TypeInv, ServerInv, OpenTurn, Refresh
  PROVE  BubbleInv'
<1> DEFINE conv == srv.conv
           z == chat'
           c == NewChat
<1>1. srv' = srv /\ z = Restore(c, conv, ReactSessions)
  BY DEF Refresh
<1>2. ChatOK(c) /\ c.liveAgentIdx = 0
  BY NewChatOK DEF NewChat
<1> SUFFICES ASSUME srv.turn = "running" PROVE Agreed(z)
  BY <1>1 DEF BubbleInv, Exposed, Agreed
<1> HIDE DEF z, c
<1> QED  BY <1>1, <1>2, RestoreAgreed

LEMMA BubbleNext ==
  ASSUME Inv, TypeInv', Next, ~upset', OpenTurn, LoadConv,
         Refresh \/ (LastBegin /\ BubbleInv)
  PROVE  BubbleInv'
<1>1. TypeInv /\ ServerInv /\ ReqsOnce /\ FramesInv /\ TypeParts
  BY TypePartsOK DEF Inv, Unique
<1>2. ASSUME Refresh PROVE BubbleInv'
  BY <1>1, <1>2, RefreshBubble
<1> SUFFICES ASSUME LastBegin, BubbleInv PROVE BubbleInv'
  BY <1>2
<1>3. ASSUME NEW m \in Messages, SendElsewhere(m) PROVE BubbleInv'
  <2> DEFINE it == [m |-> m, retry |-> 0]
  <2>1. it \in Item
    BY <1>1 DEF Item, TypeParts
  <2>2. enqueueReactTurn(it) /\ UNCHANGED <<reqs, answers, chat>>
    BY <1>3 DEF SendElsewhere
  <2> HIDE DEF it
  <2>3. Pending("cancel") => Pending("cancel")'
    BY <2>2 DEF Pending
  <2> QED  BY <1>1, <2>1, <2>2, <2>3, EnqueueBubble
<1>4. ASSUME \/ \E m \in Messages : sendMessage(m)
             \/ \E n \in 1..Len(chat.queued) : cancelQueuedItem(n)
             \/ finishEarly
      PROVE  BubbleInv'
  BY <1>1, <1>4, UserBubble
<1>5. ASSUME Dequeue PROVE BubbleInv'
  BY <1>1, <1>5, DequeueBegin DEF BubbleInv, Exposed
<1>6. ASSUME EndTurn PROVE BubbleInv'
  <2>1. srv'.turn = "none"
    BY <1>1, <1>6, EndTurnOK
  <2> QED  BY <2>1 DEF BubbleInv, Exposed
<1>7. ASSUME NEW st \in Saved \ {"open"}, NEW done \in BOOLEAN, SaveAnswer(st, done)
      PROVE  BubbleInv'
  <2>1. srv'.turn = "answered"
    BY <1>1, <1>7, SaveAnswerOK
  <2> QED  BY <2>1 DEF BubbleInv, Exposed
<1>8. ASSUME dropReviewSessionIfIdle PROVE BubbleInv'
  <2>1. srv'.active = NoItem /\ TurnOK'
    BY <1>1, <1>8, DropOK DEF Work
  <2> QED  BY <2>1 DEF BubbleInv, Exposed, TurnOK
<1>9. ASSUME cancelReview PROVE BubbleInv'
  <2> DEFINE r == Request("cancel", NoItem)
  <2>1. r \in reqs' /\ r.k = "cancel"
    BY <1>9 DEF cancelReview, Request
  <2> HIDE DEF r
  <2>2. Pending("cancel")'
    BY <2>1 DEF Pending
  <2> QED  BY <2>2 DEF BubbleInv, Exposed
<1>10. ASSUME retryLastFailed PROVE BubbleInv'
  <2>1. srv' = srv /\ frames' = frames /\ answers' = answers /\ reqs \subseteq reqs'
    BY <1>10 DEF retryLastFailed, server, page
  <2>2. ~Agreed(chat)
    BY <1>1, <1>10 DEF retryLastFailed, sessionBusy, Agreed
  <2>3. Exposed' => Exposed
    BY <2>1 DEF Exposed, Pending, BeginComes, BeginsAfter, IsBegin, Wiper, Rows
  <2> QED  BY <2>2, <2>3 DEF BubbleInv
<1>11. ASSUME NEW r \in reqs, SendFails(r) \/ RetryFails(r) PROVE FALSE
  BY <1>11 DEF SendFails, RetryFails
<1>12. ASSUME NEW r \in reqs, \/ SendServed(r) \/ RetryServed(r) \/ RemoveQueuedItem(r)
                              \/ cancelReactSession(r) \/ FinishServed(r)
       PROVE  BubbleInv'
  BY <1>1, <1>12, ServedBubble
<1>13. ASSUME \/ PollTick \/ ReadLoad
              \/ \E n \in 1..Len(answers) : LandLoad(n) \/ RestoreLanded(n) \/ DropLoad(n)
       PROVE  BubbleInv'
  BY <1>1, <1>13, LoadBubble
<1>14. ASSUME Receive \/ SocketDrops \/ Reconnect PROVE BubbleInv'
  BY <1>1, <1>14, SocketBubble
<1> HIDE DEF Inv
<1> QED
  BY <1>2, <1>3, <1>4, <1>5, <1>6, <1>7, <1>8, <1>9, <1>10, <1>11, <1>12, <1>13, <1>14
     DEF Next

LEMMA TurnInvInit == Init => TurnInv
<1> SUFFICES ASSUME Init PROVE TurnInv
  OBVIOUS
<1>1. srv.turn = "none" /\ srv.active = NoItem /\ answers = <<>>
  BY DEF Init
<1>2. Rows(answers) = {}
  <2> DEFINE e == <<>>
  <2>1. Len(e) = 0 /\ answers = e
    BY <1>1
  <2> HIDE DEF e
  <2> QED  BY <2>1 DEF Rows
<1> QED  BY <1>1, <1>2 DEF TurnInv, OpenTurn, LoadConv, ActOnce, LastBegin, BubbleInv, Exposed

LEMMA TurnInvStays == TurnInv /\ UNCHANGED vars => TurnInv'
<1> SUFFICES ASSUME TurnInv, UNCHANGED vars PROVE TurnInv'
  OBVIOUS
<1>1. UNCHANGED <<unsent, srv, frames, reqs, answers, chat, trouble, upset>>
  BY DEF vars
<1>2. OpenTurn' /\ LoadConv' /\ (ActOnce <=> ActOnce')
  BY <1>1 DEF TurnInv, OpenTurn, LoadConv, ActOnce, Taken, Rows
<1>3. LastBegin <=> LastBegin'
  BY <1>1 DEF LastBegin, BeginsAfter, IsBegin, IsQ
<1>4. BubbleInv <=> BubbleInv'
  BY <1>1 DEF BubbleInv, Exposed, Agreed, Pending, BeginComes, BeginsAfter, IsBegin, Wiper, Rows
<1> QED  BY <1>1, <1>2, <1>3, <1>4 DEF TurnInv

LEMMA TurnInvNext == Inv /\ Inv' /\ TurnInv /\ Next => TurnInv'
<1> SUFFICES ASSUME Inv, Inv', TurnInv, Next PROVE TurnInv'
  OBVIOUS
<1>1. TypeInv /\ ServerInv /\ ReqsOnce /\ TypeInv'
  BY DEF Inv, Unique
<1>2. OpenTurn /\ LoadConv /\ ActOnce /\ (~upset => LastBegin /\ BubbleInv)
  BY DEF TurnInv
<1> HIDE DEF Inv, TurnInv
<1>3. OpenTurn' /\ LoadConv' /\ ActOnce'
  BY <1>1, <1>2, OpenTurnNext, LoadConvNext, ActOnceNext
<1>4. ASSUME ~upset' PROVE LastBegin' /\ BubbleInv'
  <2>1. Refresh \/ (LastBegin /\ BubbleInv)
    BY <1>2, <1>4, UpsetStays
  <2> QED  BY <1>1, <1>2, <1>4, <2>1, LastBeginNext, BubbleNext
<1> QED  BY <1>3, <1>4 DEF TurnInv

LEMMA TurnInvBubbles == TurnInv => BubbleAgrees
<1> SUFFICES ASSUME TurnInv, Quiet, ~upset, ~srv.cancelled, srv.turn = "running"
             PROVE  Agreed(chat)
  BY DEF BubbleAgrees, Agreed
<1> DEFINE e == <<>>
<1>1. Len(e) = 0 /\ frames = e /\ answers = e /\ reqs = {}
  BY DEF Quiet
<1> HIDE DEF e
<1>2. ~BeginComes /\ ~Wiper /\ ~Pending("cancel")
  BY <1>1 DEF BeginComes, BeginsAfter, Wiper, Rows, Pending
<1> QED  BY <1>2 DEF TurnInv, BubbleInv, Exposed

\* While a turn runs, a page that missed nothing streams the bubble of that turn, for
\* any messages, equal texts included, and any bounds.
THEOREM BubbleStreams == Spec => []BubbleAgrees
<1>1. Inv /\ Inv' /\ TurnInv /\ [Next]_vars => TurnInv'
  BY TurnInvNext, TurnInvStays
<1> QED  BY <1>1, TurnInvInit, TurnInvBubbles, InvHolds, PTL DEF Spec

-----------------------------------------------------------------------------
(* The transcript on the screen, while nobody retries                      *)

\* A message that the server has yet to take up.
Waits(m) ==
  \/ m \in unsent
  \/ \E r \in reqs : r.k = "send" /\ r.it.m = m
  \/ \E it \in Rows(srv.queue) : it.m = m

NoRetry ==
  /\ \A r \in reqs : r.k # "retry"
  /\ \A it \in Rows(srv.queue) : it.retry = 0
  /\ srv.active.retry = 0

\* In the transcript y comes right after x, if it comes at all; x ends it.
Follows(x, y) ==
  \A j \in 1..Len(srv.conv) : srv.conv[j].m = y => j > 1 /\ srv.conv[j - 1].m = x
EndsAt(x) == srv.done \/ (srv.conv # <<>> /\ Last(srv.conv).m = x)

ConvOnce ==
  \A i, j \in 1..Len(srv.conv) : srv.conv[i].m = srv.conv[j].m => i = j
ConvSaid == \A n \in 1..Len(srv.conv) : ~Waits(srv.conv[n].m)
SaidInv ==
  /\ NoRetry /\ ConvOnce /\ ConvSaid
  /\ srv.active # NoItem => EndsAt(srv.active.m)

LEMMA NoRetryNext ==
  ASSUME TypeInv, ServerInv, ReqsOnce, Next, ~retryLastFailed, NoRetry
  PROVE  NoRetry'
<1>1. Sources /\ TypeParts
  BY SourcesNext, TypePartsOK
<1>2. \A r \in reqs' : r.k # "retry"
  <2> DEFINE G == \A r \in reqs' : r.k # "retry"
  <2>1. ASSUME reqs' \subseteq reqs PROVE G
    BY <2>1 DEF NoRetry
  <2>2. ASSUME NEW k \in {"send", "remove", "cancel", "finish"}, NEW it,
               reqs' \subseteq reqs \cup {Request(k, it)}
        PROVE  G
    <3>1. Request(k, it).k = k
      BY DEF Request
    <3> QED  BY <2>2, <3>1 DEF NoRetry
  <2>3. ASSUME NEW m \in Messages, SendElsewhere(m) PROVE G
    BY <2>1, <2>3 DEF SendElsewhere
  <2>4. ASSUME NEW m \in Messages, sendMessage(m) PROVE G
    BY <2>2, <2>4 DEF sendMessage
  <2>5. ASSUME \/ Dequeue \/ EndTurn \/ dropReviewSessionIfIdle
               \/ \E st \in Saved \ {"open"}, done \in BOOLEAN : SaveAnswer(st, done)
        PROVE  G
    BY <2>1, <2>5 DEF Dequeue, EndTurn, dropReviewSessionIfIdle, SaveAnswer
  <2>6. ASSUME NEW n \in 1..Len(chat.queued), cancelQueuedItem(n) PROVE G
    <3>1. reqs' = reqs \/ reqs' = reqs \cup {Request("remove", chat.queued[n].it)}
      BY <2>6 DEF cancelQueuedItem
    <3> QED  BY <2>1, <2>2, <3>1
  <2>7. ASSUME cancelReview \/ finishEarly PROVE G
    BY <2>2, <2>7 DEF cancelReview, finishEarly
  <2>8. ASSUME NEW r \in reqs,
               \/ SendServed(r) \/ SendFails(r) \/ RetryServed(r) \/ RetryFails(r)
               \/ RemoveQueuedItem(r) \/ cancelReactSession(r) \/ FinishServed(r)
        PROVE  G
    <3>1. reqs' = reqs \ {r}
      BY <2>8 DEF SendServed, SendFails, RetryServed, RetryFails, RemoveQueuedItem,
                  cancelReactSession, FinishServed, Serve
    <3> QED  BY <2>1, <3>1
  <2>9. ASSUME \/ PollTick \/ ReadLoad \/ Receive \/ SocketDrops \/ Reconnect \/ Refresh
               \/ \E n \in 1..Len(answers) : LandLoad(n) \/ RestoreLanded(n) \/ DropLoad(n)
        PROVE  G
    <3>1. reqs' = reqs \/ reqs' = {}
      BY <2>9 DEF PollTick, ReadLoad, Receive, SocketDrops, Reconnect, Refresh, LandLoad,
                  RestoreLanded, DropLoad
    <3> QED  BY <2>1, <3>1
  <2> HIDE DEF G
  <2>10. G
    BY <2>3, <2>4, <2>5, <2>6, <2>7, <2>8, <2>9 DEF Next
  <2> QED  BY <2>10 DEF G
<1>3. \A it \in Rows(srv'.queue) : it.retry = 0
  BY <1>1 DEF Sources, NewRow, NoRetry
<1>4. srv'.active.retry = 0
  <2>1. CASE TurnKept
    BY <2>1 DEF TurnKept, NoRetry
  <2>2. CASE Dequeue
    <3>1. srv'.active = Head(srv.queue) /\ srv.queue # <<>> /\ srv.queue \in Seq(Item)
      BY <1>1, <2>2, DequeueOK DEF TypeParts, ServerState
    <3>2. Head(srv.queue) \in Rows(srv.queue)
      BY <3>1 DEF Rows
    <3> QED  BY <3>1, <3>2 DEF NoRetry
  <2>3. CASE EndTurn
    BY <2>3, EndTurnOK DEF NoItem
  <2>4. ASSUME NEW st \in Saved \ {"open"}, NEW done \in BOOLEAN, SaveAnswer(st, done)
        PROVE  srv'.active.retry = 0
    BY <2>4, SaveAnswerOK DEF NoRetry
  <2> QED  BY <2>1, <2>2, <2>3, <2>4, TurnSteps
<1> QED  BY <1>2, <1>3, <1>4 DEF NoRetry, Rows

\* No step makes a message wait again.
LEMMA WaitsLess ==
  ASSUME Sources, NoRetry, NEW m, Waits(m)'
  PROVE  Waits(m)
<1>1. ASSUME m \in unsent' PROVE Waits(m)
  BY <1>1 DEF Sources, Waits
<1>2. ASSUME NEW r \in reqs', r.k = "send", r.it.m = m PROVE Waits(m)
  BY <1>2 DEF Sources, NewRequest, Waits
<1>3. ASSUME NEW it \in Rows(srv'.queue), it.m = m PROVE Waits(m)
  <2>1. it \in Rows(srv.queue) \/ NewRow(it)
    BY <1>3 DEF Sources
  <2>2. Request("send", it).k = "send" /\ Request("send", it).it = it
    BY DEF Request
  <2> QED  BY <1>3, <2>1, <2>2 DEF NewRow, NoRetry, Waits
<1> QED  BY <1>1, <1>2, <1>3 DEF Waits, Rows

\* The turn that is active has been taken up.
LEMMA ActiveSaid == Inv /\ NoRetry /\ srv.active # NoItem => ~Waits(srv.active.m)
<1> SUFFICES ASSUME TypeInv, Unique, NoRetry, srv.active # NoItem, Waits(srv.active.m)
             PROVE  FALSE
  BY DEF Inv
<1> DEFINE it == srv.active
<1>1. it \in Item /\ reqs \subseteq Requests /\ srv.queue \in Seq(Item) /\ it.retry = 0
  BY TypePartsOK DEF TypeParts, ServerState, NoRetry
<1>2. Begun(it) /\ Known(it)
  BY DEF Begun, Known
<1>3. it \notin Rows(srv.queue) /\ it.m \notin unsent /\ Request("send", it) \notin reqs
  BY <1>1, <1>2 DEF Unique, QueueUnique, KnownOnce
<1> HIDE DEF it
<1>4. ASSUME NEW x \in Item, x.retry = 0, x.m = it.m PROVE x = it
  BY <1>1, <1>4 DEF Item
<1>5. ASSUME NEW r \in reqs, r.k = "send", r.it.m = it.m PROVE FALSE
  <2>1. r.it \in Item /\ r = Request("send", r.it)
    BY <1>1, <1>5 DEF Requests, Request
  <2>2. r.it.retry = 0
    BY <1>5 DEF Unique, ReqsOnce
  <2>3. r.it = it
    BY <1>4, <1>5, <2>1, <2>2
  <2> QED  BY <1>3, <2>1, <2>3
<1>6. ASSUME NEW x \in Rows(srv.queue), x.m = it.m PROVE FALSE
  <2>1. x \in Item
    BY <1>1 DEF Rows
  <2>2. x.retry = 0
    BY DEF NoRetry
  <2> QED  BY <1>3, <1>4, <1>6, <2>1, <2>2
<1>7. Waits(it.m)
  BY DEF it
<1> QED  BY <1>3, <1>5, <1>6, <1>7 DEF Waits

\* Only a turn that begins adds a row to the transcript.
RowsKept ==
  /\ Len(srv'.conv) = Len(srv.conv) /\ (srv'.conv = <<>> <=> srv.conv = <<>>)
  /\ \A n \in 1..Len(srv.conv) : srv'.conv[n].m = srv.conv[n].m
  /\ srv.done => srv'.done
  /\ srv'.active # NoItem => srv'.active = srv.active

LEMMA DoneStays ==
  ASSUME TypeInv, ServerInv, ReqsOnce, Next, srv.done
  PROVE  srv'.done
<1>1. TypeParts
  BY TypePartsOK
<1>2. ASSUME srv' = srv PROVE srv'.done
  BY <1>2
<1>3. ASSUME NEW it \in Item, enqueueReactTurn(it) PROVE srv'.done
  BY <1>3, EnqueueOK
<1>4. ASSUME NEW m \in Messages, SendElsewhere(m) PROVE FALSE
  BY <1>4 DEF SendElsewhere
<1>5. ASSUME \/ \E m \in Messages : sendMessage(m)
             \/ \E n \in 1..Len(chat.queued) : cancelQueuedItem(n)
             \/ cancelReview \/ finishEarly \/ retryLastFailed
      PROVE  srv'.done
  BY <1>5 DEF sendMessage, cancelQueuedItem, cancelReview, finishEarly, retryLastFailed, server
<1>6. ASSUME Dequeue \/ EndTurn \/ dropReviewSessionIfIdle PROVE srv'.done
  BY <1>6, DequeueOK, EndTurnOK, DropOK
<1>7. ASSUME NEW st \in Saved \ {"open"}, NEW done \in BOOLEAN, SaveAnswer(st, done)
      PROVE  FALSE
  BY <1>7, SaveAnswerOK DEF ServerInv
<1>8. ASSUME NEW r \in reqs, SendServed(r) \/ RetryServed(r) PROVE FALSE
  BY <1>8 DEF SendServed, RetryServed, Runnable
<1>9. ASSUME NEW r \in reqs, SendFails(r) \/ RetryFails(r) PROVE srv'.done
  BY <1>9 DEF SendFails, RetryFails
<1>10. ASSUME NEW r \in reqs, RemoveQueuedItem(r) \/ cancelReactSession(r) \/ FinishServed(r)
       PROVE  srv'.done
  <2>1. srv' = srv \/ srv'.done = srv.done
    BY <1>10, RemoveOK, CancelOK, FinishOK
  <2> QED  BY <2>1
<1>11. ASSUME \/ PollTick \/ ReadLoad \/ Receive \/ SocketDrops \/ Reconnect \/ Refresh
              \/ \E n \in 1..Len(answers) : LandLoad(n) \/ RestoreLanded(n) \/ DropLoad(n)
       PROVE  srv'.done
  <2>1. srv' = srv
    BY <1>11 DEF PollTick, ReadLoad, Receive, SocketDrops, Reconnect, Refresh, server,
                 LandLoad, RestoreLanded, DropLoad
  <2> QED  BY <2>1
<1> QED
  BY <1>4, <1>5, <1>6, <1>7, <1>8, <1>9, <1>10, <1>11 DEF Next

LEMMA RowsKeptNext ==
  ASSUME TypeInv, ServerInv, ReqsOnce, Next
  PROVE  RowsKept \/ Dequeue
<1>1. srv.conv \in Seq(Exchange(Saved)) /\ srv \in ServerState /\ Len(srv.conv) \in Nat
  BY TypePartsOK DEF TypeParts, ServerState
<1>2. srv.done => srv'.done
  BY DoneStays
<1>3. CASE TurnKept
  BY <1>2, <1>3 DEF TurnKept, RowsKept
<1>4. CASE EndTurn
  <2>1. srv'.active = NoItem
    BY <1>4, EndTurnOK
  <2>2. srv'.conv = srv.conv
    BY <1>1, <1>4 DEF EndTurn, ServerState
  <2> QED  BY <1>2, <2>1, <2>2 DEF RowsKept
<1>5. ASSUME NEW st \in Saved \ {"open"}, NEW done \in BOOLEAN, SaveAnswer(st, done)
      PROVE  RowsKept
  <2> DEFINE k == Len(srv.conv)
             e == [srv.conv[k] EXCEPT !.st = st]
             c == [srv.conv EXCEPT ![k] = e]
  <2>1. srv.conv # <<>> /\ srv'.active = srv.active
    BY <1>5, SaveAnswerOK, TypePartsOK DEF TypeParts, TurnOK
  <2>2. srv.conv[k] \in Exchange(Saved) /\ k \in 1..Len(srv.conv)
    BY <1>1, <2>1
  <2>3. e \in Exchange(Saved) /\ e.m = srv.conv[k].m
    BY <2>2 DEF Exchange
  <2>4. srv'.conv = c
    <3>1. srv' = [srv EXCEPT !.conv = c, !.done = done, !.turn = "answered", !.at = @ + 1]
      BY <1>5 DEF SaveAnswer
    <3> HIDE DEF c
    <3> QED  BY <1>1, <3>1 DEF ServerState
  <2> HIDE DEF e
  <2>5. /\ Len(c) = Len(srv.conv) /\ c \in Seq(Exchange(Saved))
        /\ \A j \in 1..Len(srv.conv) : c[j] = IF j = k THEN e ELSE srv.conv[j]
    BY <1>1, <2>2, <2>3, ExceptSeq
  <2>6. c # <<>>
    BY <2>2, <2>5
  <2> HIDE DEF c
  <2> QED  BY <1>2, <2>1, <2>3, <2>4, <2>5, <2>6 DEF RowsKept
<1> QED  BY <1>3, <1>4, <1>5, TurnSteps

LEMMA FollowsKept ==
  ASSUME TypeParts, RowsKept
  PROVE  /\ \A x, y : Follows(x, y) => Follows(x, y)'
         /\ \A x : EndsAt(x) => EndsAt(x)'
<1>1. Len(srv.conv) \in Nat
  BY DEF TypeParts, ServerState
<1>2. ASSUME NEW x, NEW y, Follows(x, y) PROVE Follows(x, y)'
  <2> SUFFICES ASSUME NEW j \in 1..Len(srv'.conv), srv'.conv[j].m = y
               PROVE  j > 1 /\ srv'.conv[j - 1].m = x
    BY DEF Follows
  <2>1. j \in 1..Len(srv.conv) /\ srv.conv[j].m = y
    BY DEF RowsKept
  <2>2. j > 1 /\ srv.conv[j - 1].m = x
    BY <1>2, <2>1 DEF Follows
  <2>3. j - 1 \in 1..Len(srv.conv)
    BY <1>1, <2>1, <2>2
  <2> QED  BY <2>2, <2>3 DEF RowsKept
<1>3. ASSUME NEW x, EndsAt(x) PROVE EndsAt(x)'
  <2>1. srv.conv # <<>> => Len(srv.conv) \in 1..Len(srv.conv)
    BY <1>1 DEF TypeParts, ServerState
  <2> QED  BY <1>3, <2>1 DEF EndsAt, RowsKept, Last
<1> QED  BY <1>2, <1>3

\* A turn that begins ends the transcript, after what ended it before.
LEMMA FollowsBegun ==
  ASSUME TypeInv, NoRetry, ConvOnce, ConvSaid, Dequeue, NEW it, it = Head(srv.queue)
  PROVE  /\ srv'.active = it /\ Waits(it.m) /\ EndsAt(it.m)'
         /\ \A x, y : Follows(x, y) /\ ~Waits(y) => Follows(x, y)'
         /\ \A x : EndsAt(x) => Follows(x, it.m)'
         /\ ConvOnce'
         /\ \A n \in 1..Len(srv'.conv) : \/ srv'.conv[n].m = it.m
                                         \/ \E k \in 1..Len(srv.conv) :
                                              srv'.conv[n].m = srv.conv[k].m
<1> DEFINE e == [m |-> it.m, st |-> "open"]
<1>1. /\ srv.conv \in Seq(Exchange(Saved)) /\ Len(srv.conv) \in Nat
      /\ srv.queue \in Seq(Item) /\ srv.queue # <<>> /\ srv'.active = it
      /\ srv'.done = srv.done
  BY TypePartsOK, DequeueOK DEF TypeParts, ServerState
<1>2. it \in Rows(srv.queue) /\ it \in Item
  BY <1>1 DEF Rows
<1>3. it.retry = 0 /\ Waits(it.m)
  BY <1>2 DEF NoRetry, Waits
<1>4. ~(it.retry > 0)
  BY <1>3
<1>5. Runnable(it) <=> ~srv.done
  BY <1>4 DEF Runnable
<1>6. srv'.conv = IF Runnable(it) THEN OpenRow(it) ELSE srv.conv
  BY DequeueTurn
<1>7. OpenRow(it) = Append(srv.conv, e)
  BY <1>4 DEF OpenRow
<1>8. e \in Exchange(Saved) /\ e.m = it.m
  BY <1>2 DEF Item, Exchange, Saved
<1>9. \A n \in 1..Len(srv.conv) : srv.conv[n].m # it.m
  BY <1>3 DEF ConvSaid
<1> HIDE DEF e
<1>10. CASE srv.done
  <2>1. srv'.conv = srv.conv /\ srv'.done
    BY <1>1, <1>5, <1>6, <1>10
  <2>2. EndsAt(it.m)' /\ ConvOnce'
    BY <2>1 DEF EndsAt, ConvOnce
  <2>3. \A x, y : Follows(x, y) => Follows(x, y)'
    BY <2>1 DEF Follows
  <2>4. \A x : Follows(x, it.m)'
    BY <1>9, <2>1 DEF Follows
  <2> QED  BY <1>1, <1>3, <2>1, <2>2, <2>3, <2>4
<1>11. CASE ~srv.done
  <2> DEFINE N == Len(srv.conv)
  <2>1. /\ srv'.conv = Append(srv.conv, e)
        /\ Len(srv'.conv) = N + 1 /\ srv'.conv[N + 1] = e
        /\ \A n \in 1..N : srv'.conv[n] = srv.conv[n]
        /\ srv'.conv \in Seq(Exchange(Saved))
    <3> DEFINE c == Append(srv.conv, e)
    <3>1. srv'.conv = c
      BY <1>1, <1>5, <1>6, <1>7, <1>11
    <3>2. /\ Len(c) = N + 1 /\ c[N + 1] = e /\ c \in Seq(Exchange(Saved))
          /\ \A n \in 1..N : c[n] = srv.conv[n]
      BY <1>1, <1>8, AppendProperties
    <3> HIDE DEF N
    <3> QED  BY <3>1, <3>2
  <2>2. EndsAt(it.m)'
    <3>1. srv'.conv # <<>> /\ Last(srv'.conv) = e
      BY <1>1, <2>1 DEF Last
    <3> QED  BY <1>8, <3>1 DEF EndsAt
  <2>3. ASSUME NEW x, NEW y, Follows(x, y), ~Waits(y) PROVE Follows(x, y)'
    <3> SUFFICES ASSUME NEW j \in 1..Len(srv'.conv), srv'.conv[j].m = y
                 PROVE  j > 1 /\ srv'.conv[j - 1].m = x
      BY DEF Follows
    <3>1. j # N + 1
      BY <1>3, <1>8, <2>1, <2>3
    <3>2. j \in 1..N
      BY <1>1, <2>1, <3>1
    <3>3. j > 1 /\ srv.conv[j - 1].m = x
      BY <2>1, <2>3, <3>2 DEF Follows
    <3>4. j - 1 \in 1..N
      BY <1>1, <3>2, <3>3
    <3> QED  BY <2>1, <3>3, <3>4
  <2>4. ASSUME NEW x, EndsAt(x) PROVE Follows(x, it.m)'
    <3> SUFFICES ASSUME NEW j \in 1..Len(srv'.conv), srv'.conv[j].m = it.m
                 PROVE  j > 1 /\ srv'.conv[j - 1].m = x
      BY DEF Follows
    <3>1. j \notin 1..N
      BY <1>9, <2>1
    <3>2. j = N + 1
      BY <1>1, <2>1, <3>1
    <3>3. srv.conv # <<>> /\ srv.conv[N].m = x
      BY <1>11, <2>4 DEF EndsAt, Last
    <3>4. N \in 1..N /\ j - 1 = N /\ j > 1
      BY <1>1, <3>2, <3>3
    <3> QED  BY <2>1, <3>3, <3>4
  <2>5. ConvOnce'
    <3> SUFFICES ASSUME NEW i \in 1..Len(srv'.conv), NEW j \in 1..Len(srv'.conv),
                        srv'.conv[i].m = srv'.conv[j].m
                 PROVE  i = j
      BY DEF ConvOnce
    <3>1. \A k \in 1..Len(srv'.conv) : k \in 1..N \/ k = N + 1
      BY <1>1, <2>1
    <3>2. CASE i \in 1..N /\ j \in 1..N
      BY <2>1, <3>2 DEF ConvOnce
    <3>3. CASE i = N + 1 \/ j = N + 1
      BY <1>8, <1>9, <2>1, <3>1, <3>3
    <3> QED  BY <3>1, <3>2, <3>3
  <2>6. \A n \in 1..Len(srv'.conv) : \/ srv'.conv[n].m = it.m
                                     \/ \E k \in 1..N : srv'.conv[n].m = srv.conv[k].m
    <3> SUFFICES ASSUME NEW n \in 1..Len(srv'.conv), n # N + 1
                 PROVE  \E k \in 1..N : srv'.conv[n].m = srv.conv[k].m
      BY <1>8, <2>1
    <3>1. n \in 1..N
      BY <1>1, <2>1
    <3> QED  BY <2>1, <3>1
  <2> QED  BY <1>1, <1>3, <2>2, <2>3, <2>4, <2>5, <2>6
<1> QED  BY <1>10, <1>11

LEMMA SaidNext ==
  ASSUME Inv, Next, ~retryLastFailed, SaidInv,
         NoRetry', srv'.active # NoItem => ~Waits(srv.active.m)'
  PROVE  SaidInv'
<1>1. TypeInv /\ ServerInv /\ ReqsOnce /\ TypeParts
  BY TypePartsOK DEF Inv, Unique
<1>2. NoRetry /\ ConvOnce /\ ConvSaid /\ (srv.active # NoItem => EndsAt(srv.active.m))
  BY DEF SaidInv
<1>3. \A m : Waits(m)' => Waits(m)
  BY <1>1, <1>2, SourcesNext, WaitsLess
<1> HIDE DEF Inv
<1>4. CASE RowsKept
  <2>1. ConvOnce'
    BY <1>2, <1>4 DEF ConvOnce, RowsKept
  <2>2. ConvSaid'
    <3> SUFFICES ASSUME NEW n \in 1..Len(srv'.conv), Waits(srv.conv[n].m)' PROVE FALSE
      BY DEF ConvSaid
    <3>1. PICK m : m = srv'.conv[n].m
      OBVIOUS
    <3>2. n \in 1..Len(srv.conv) /\ m = srv.conv[n].m
      BY <1>4, <3>1 DEF RowsKept
    <3>3. Waits(m)'
      BY <3>1 DEF Waits
    <3> QED  BY <1>2, <1>3, <3>2, <3>3 DEF ConvSaid
  <2>3. srv'.active # NoItem => EndsAt(srv.active.m)'
    <3> SUFFICES ASSUME srv'.active # NoItem PROVE EndsAt(srv.active.m)'
      OBVIOUS
    <3>1. PICK x : x = srv.active.m
      OBVIOUS
    <3>2. srv'.active = srv.active /\ EndsAt(x)
      BY <1>2, <1>4, <3>1 DEF RowsKept
    <3>3. EndsAt(x)'
      BY <1>1, <1>4, <3>2, FollowsKept
    <3> QED  BY <3>1, <3>2, <3>3 DEF EndsAt
  <2> QED  BY <2>1, <2>2, <2>3 DEF SaidInv
<1>5. CASE Dequeue
  <2>1. PICK it : it = Head(srv.queue)
    OBVIOUS
  <2>2. /\ srv'.active = it /\ EndsAt(it.m)' /\ ConvOnce'
        /\ \A n \in 1..Len(srv'.conv) : \/ srv'.conv[n].m = it.m
                                        \/ \E k \in 1..Len(srv.conv) :
                                             srv'.conv[n].m = srv.conv[k].m
    BY <1>1, <1>2, <1>5, <2>1, FollowsBegun
  <2>3. srv'.active # NoItem
    BY <1>1, <1>5, DequeueOK, NoItemApart
  <2>4. ~Waits(it.m)'
    BY <2>2, <2>3 DEF Waits
  <2>5. ConvSaid'
    <3> SUFFICES ASSUME NEW n \in 1..Len(srv'.conv), Waits(srv.conv[n].m)' PROVE FALSE
      BY DEF ConvSaid
    <3>1. PICK m : m = srv'.conv[n].m
      OBVIOUS
    <3>2. Waits(m)'
      BY <3>1 DEF Waits
    <3>3. m = it.m \/ \E k \in 1..Len(srv.conv) : m = srv.conv[k].m
      BY <2>2, <3>1
    <3> QED  BY <1>2, <1>3, <2>4, <3>2, <3>3 DEF ConvSaid
  <2>6. EndsAt(srv.active.m)'
    BY <2>2 DEF EndsAt
  <2> QED  BY <2>2, <2>5, <2>6 DEF SaidInv
<1> QED  BY <1>1, <1>4, <1>5, RowsKeptNext

-----------------------------------------------------------------------------
(* What comes after a frame continues the transcript                       *)

\* The first turn_begin after frame n is the exchange that follows x; if none
\* is under way, x ends the transcript.
Continues(n, x) ==
  /\ \A k \in n + 1 .. Len(frames) :
       IsBegin(frames[k]) /\ (\A j \in n + 1 .. k - 1 : ~IsBegin(frames[j])) =>
         Follows(x, frames[k].act.m)
  /\ ~BeginsAfter(n) => EndsAt(x)

FramesPlaced ==
  \A n \in 1..Len(frames) : frames[n].act # NoItem =>
    ~Waits(frames[n].act.m) /\ Continues(n, frames[n].act.m)
LiveInRow ==
  /\ \A n \in 1..Len(chat.live) : ~Waits(chat.live[n].m)
  /\ \A n \in 2..Len(chat.live) : Follows(chat.live[n - 1].m, chat.live[n].m)
LivePlaced ==
  /\ LiveInRow
  /\ chat.live # <<>> => Continues(0, Last(chat.live).m)

ShownInv == SaidInv /\ (~upset => FramesPlaced /\ LivePlaced)

\* Messages that never say the same as another.
DistinctTexts == \A m, n \in Messages : Text[m] = Text[n] => m = n

LEMMA NoBeginContinues ==
  ASSUME NEW n \in Nat, NEW x, EndsAt(x)',
         \A k \in n + 1 .. Len(frames') : ~IsBegin(frames'[k])
  PROVE  Continues(n, x)'
BY DEF Continues, EndsAt, IsBegin

\* Frames that come without a turn_begin.
LEMMA ExtendedContinues ==
  ASSUME TypeParts, RowsKept, Len(frames') \in Nat, Len(frames) <= Len(frames'),
         \A k \in 1..Len(frames) : frames'[k] = frames[k],
         \A k \in Len(frames) + 1 .. Len(frames') : ~IsBegin(frames'[k]),
         NEW n \in 0..Len(frames), NEW x, Continues(n, x)
  PROVE  Continues(n, x)'
<1>1. Len(frames) \in Nat
  BY DEF TypeParts
<1>2. /\ \A y, z : Follows(y, z) => Follows(y, z)'
      /\ EndsAt(x) => EndsAt(x)'
  BY FollowsKept
<1>3. ASSUME NEW k \in n + 1 .. Len(frames'), IsBegin(frames'[k])
      PROVE  k \in n + 1 .. Len(frames) /\ frames'[k] = frames[k]
  <2>1. k \notin Len(frames) + 1 .. Len(frames')
    BY <1>3
  <2>2. k \in n + 1 .. Len(frames) /\ k \in 1..Len(frames)
    BY <1>1, <2>1
  <2> QED  BY <2>2
<1>4. ASSUME NEW k \in n + 1 .. Len(frames'), IsBegin(frames'[k]),
             \A j \in n + 1 .. k - 1 : ~IsBegin(frames'[j])
      PROVE  Follows(x, frames[k].act.m)'
  <2>1. PICK y : y = frames'[k].act.m
    OBVIOUS
  <2>2. k \in n + 1 .. Len(frames) /\ frames'[k] = frames[k]
    BY <1>3, <1>4
  <2>3. \A j \in n + 1 .. k - 1 : ~IsBegin(frames[j])
    BY <1>1, <1>4, <2>2
  <2>4. Follows(x, y)
    BY <1>4, <2>1, <2>2, <2>3 DEF Continues
  <2>5. Follows(x, y)'
    BY <1>2, <2>4
  <2> QED  BY <2>1, <2>5 DEF Follows
<1>5. ~BeginsAfter(n)' => EndsAt(x)'
  <2> SUFFICES ASSUME ~BeginsAfter(n)' PROVE EndsAt(x)'
    OBVIOUS
  <2>1. ~BeginsAfter(n)
    <3> SUFFICES ASSUME NEW k \in n + 1 .. Len(frames), IsBegin(frames[k]) PROVE FALSE
      BY DEF BeginsAfter
    <3>1. k \in n + 1 .. Len(frames') /\ k \in 1..Len(frames)
      BY <1>1
    <3> QED  BY <3>1 DEF BeginsAfter, IsBegin
  <2> QED  BY <1>2, <2>1 DEF Continues
<1> QED  BY <1>4, <1>5 DEF Continues, IsBegin

\* The frames of a turn that begins.
LEMMA BegunContinues ==
  ASSUME TypeInv, NoRetry, ConvOnce, ConvSaid, FramesPlaced, Dequeue, ~upset',
         NEW it, it = Head(srv.queue)
  PROVE  /\ Len(frames') = Len(frames) + 2 /\ Len(frames) \in Nat
         /\ \A k \in 1..Len(frames) : frames'[k] = frames[k]
         /\ frames'[Len(frames) + 1].act = NoItem
         /\ frames'[Len(frames) + 2].act = it
         /\ Continues(Len(frames) + 2, it.m)'
         /\ \A n \in 0..Len(frames) : \A x : Continues(n, x) => Continues(n, x)'
<1> DEFINE f == QueueState(srv'.queue, TRUE, NoItem)
           g == TurnFrame("begin", it, "open")
           new == <<f, g>>
           N == Len(frames)
<1>1. publishReview(new) /\ it \in Item /\ srv' \in ServerState /\ TypeParts
  BY DequeueOK, TypePartsOK DEF ServerStepOK
<1>2. f \in Frame /\ g \in Frame
  BY <1>1 DEF QueueState, TurnFrame, Frame, ServerState
<1>3. IsBegin(g) /\ g.act = it /\ ~IsBegin(f) /\ f.act = NoItem
  BY DEF QueueState, TurnFrame, IsBegin
<1> HIDE DEF f, g
<1>4. new \in Seq(Frame) /\ Len(new) = 2 /\ new[1] = f /\ new[2] = g
  BY <1>2
<1>5. frames \in Seq(Frame) /\ frames' = frames \o new
  BY <1>1, <1>4, PublishOK DEF TypeInv, ServerType
<1> HIDE DEF new
<1>6. /\ Len(frames') = N + 2 /\ N \in Nat /\ frames'[N + 1] = f /\ frames'[N + 2] = g
      /\ \A k \in 1..N : frames'[k] = frames[k]
  <2>1. /\ Len(frames') = N + Len(new)
        /\ \A n \in 1..N + Len(new) :
             frames'[n] = IF n <= N THEN frames[n] ELSE new[n - N]
    BY <1>4, <1>5, ConcatProperties
  <2>2. N \in Nat /\ Len(new) = 2
    BY <1>4, <1>5
  <2> HIDE DEF N
  <2>3. /\ N + 2 \in 1..N + Len(new) /\ ~(N + 2 <= N) /\ (N + 2) - N = 2
        /\ N + 1 \in 1..N + Len(new) /\ ~(N + 1 <= N) /\ (N + 1) - N = 1
        /\ \A k \in 1..N : k \in 1..N + Len(new) /\ k <= N
    BY <2>2
  <2> QED  BY <1>4, <2>1, <2>2, <2>3
<1>7. /\ EndsAt(it.m)' /\ Waits(it.m)
      /\ \A x, y : Follows(x, y) /\ ~Waits(y) => Follows(x, y)'
      /\ \A x : EndsAt(x) => Follows(x, it.m)'
  BY FollowsBegun
<1>8. Continues(N + 2, it.m)'
  <2>1. PICK n \in Nat : n = N + 2
    BY <1>6
  <2>2. Continues(n, it.m)'
    BY <1>6, <1>7, <2>1, NoBeginContinues
  <2>3. \A k : ~(k \in n + 1 .. Len(frames'))
    BY <1>6, <2>1
  <2>4. n = Len(frames') /\ n = (N + 2)
    BY <1>6, <2>1
  <2> QED
    BY <1>6, <1>7, <2>3, <2>4 DEF Continues
<1>9. ASSUME NEW n \in 0..N, NEW x, Continues(n, x) PROVE Continues(n, x)'
  <2>1. ASSUME NEW k \in n + 1 .. Len(frames'), IsBegin(frames'[k]),
               \A j \in n + 1 .. k - 1 : ~IsBegin(frames'[j])
        PROVE  Follows(x, frames[k].act.m)'
    <3>1. PICK y : y = frames'[k].act.m
      OBVIOUS
    <3>2. CASE k \in n + 1 .. N
      <4>1. frames'[k] = frames[k] /\ k \in 1..N
        BY <1>6, <3>2
      <4>2. \A j \in n + 1 .. k - 1 : ~IsBegin(frames[j])
        BY <1>6, <2>1, <3>2
      <4>3. Follows(x, y)
        BY <1>9, <2>1, <3>1, <3>2, <4>1, <4>2 DEF Continues
      <4>4. frames[k].act # NoItem
        <5>1. frames[k] \in Frame /\ frames[k].ev = "begin"
          BY <1>5, <2>1, <4>1 DEF IsBegin
        <5>2. frames[k].act \in Item
          BY <5>1 DEF Frame
        <5> QED  BY <5>2, NoItemApart
      <4>5. ~Waits(y)
        BY <3>1, <4>1, <4>4 DEF FramesPlaced
      <4>6. Follows(x, y)'
        BY <1>7, <4>3, <4>5
      <4> QED  BY <3>1, <4>6 DEF Follows
    <3>3. CASE k \notin n + 1 .. N
      <4>1. k = N + 2
        <5>1. k = N + 1 \/ k = N + 2
          BY <1>6, <3>3
        <5> QED  BY <1>3, <1>6, <2>1, <5>1
      <4>2. y = it.m
        BY <1>3, <1>6, <3>1, <4>1
      <4>3. ~BeginsAfter(n)
        <5> SUFFICES ASSUME NEW j \in n + 1 .. N, IsBegin(frames[j]) PROVE FALSE
          BY DEF BeginsAfter
        <5>1. j \in n + 1 .. k - 1 /\ j \in 1..N
          BY <1>6, <4>1
        <5> QED  BY <1>6, <2>1, <5>1
      <4>4. EndsAt(x)
        BY <1>9, <4>3 DEF Continues
      <4>5. Follows(x, it.m)'
        BY <1>7, <4>4
      <4> QED  BY <3>1, <4>2, <4>5 DEF Follows
    <3> QED  BY <3>2, <3>3
  <2>2. BeginsAfter(n)'
    <3>1. N + 2 \in n + 1 .. Len(frames')
      BY <1>6
    <3> QED  BY <1>3, <1>6, <3>1 DEF BeginsAfter, IsBegin
  <2> QED  BY <2>1, <2>2 DEF Continues, IsBegin
<1> QED  BY <1>3, <1>6, <1>8, <1>9

\* The frame that is received, and what comes after it.
LEMMA TailContinues ==
  ASSUME TypeParts, frames # <<>>, frames' = Tail(frames), srv' = srv
  PROVE  /\ \A n \in Nat : \A x : Continues(n + 1, x) => Continues(n, x)'
         /\ IsBegin(frames[1]) => \A x : Continues(0, x) => Follows(x, frames[1].act.m)
         /\ ~IsBegin(frames[1]) => \A x : Continues(0, x) => Continues(1, x)
<1>1. /\ Len(frames) \in Nat /\ Len(frames) > 0 /\ Len(frames') = Len(frames) - 1
      /\ \A n \in 1..Len(frames') : frames'[n] = frames[n + 1]
  BY HeadTailProperties DEF TypeParts
<1>2. ASSUME NEW n \in Nat, NEW x, Continues(n + 1, x) PROVE Continues(n, x)'
  <2>1. ASSUME NEW k \in n + 1 .. Len(frames'), IsBegin(frames'[k]),
               \A j \in n + 1 .. k - 1 : ~IsBegin(frames'[j])
        PROVE  Follows(x, frames[k].act.m)'
    <3>1. /\ k + 1 \in n + 1 + 1 .. Len(frames) /\ k \in 1..Len(frames')
          /\ frames'[k] = frames[k + 1]
      BY <1>1
    <3>2. \A j \in n + 1 + 1 .. (k + 1) - 1 : ~IsBegin(frames[j])
      <4> SUFFICES ASSUME NEW j \in n + 1 + 1 .. (k + 1) - 1 PROVE ~IsBegin(frames[j])
        OBVIOUS
      <4>1. j - 1 \in n + 1 .. k - 1 /\ j - 1 \in 1..Len(frames') /\ (j - 1) + 1 = j
        BY <1>1, <3>1
      <4> QED  BY <1>1, <2>1, <4>1
    <3>3. PICK y : y = frames'[k].act.m
      OBVIOUS
    <3>4. Follows(x, y)
      BY <1>2, <2>1, <3>1, <3>2, <3>3 DEF Continues
    <3>5. Follows(x, y)'
      BY <3>4 DEF Follows
    <3> QED  BY <3>3, <3>5 DEF Follows
  <2>2. ~BeginsAfter(n)' => EndsAt(x)'
    <3> SUFFICES ASSUME ~BeginsAfter(n)' PROVE EndsAt(x)'
      OBVIOUS
    <3>1. ~BeginsAfter(n + 1)
      <4> SUFFICES ASSUME NEW k \in n + 1 + 1 .. Len(frames), IsBegin(frames[k]) PROVE FALSE
        BY DEF BeginsAfter
      <4>1. k - 1 \in n + 1 .. Len(frames') /\ k - 1 \in 1..Len(frames') /\ (k - 1) + 1 = k
        BY <1>1
      <4>2. IsBegin(frames'[k - 1])
        BY <1>1, <4>1
      <4> QED  BY <4>1, <4>2 DEF BeginsAfter, IsBegin
    <3>2. EndsAt(x)
      BY <1>2, <3>1 DEF Continues
    <3> QED  BY <3>2 DEF EndsAt
  <2> QED  BY <2>1, <2>2 DEF Continues, IsBegin
<1>3. ASSUME IsBegin(frames[1]), NEW x, Continues(0, x) PROVE Follows(x, frames[1].act.m)
  <2>1. 1 \in 0 + 1 .. Len(frames) /\ \A j \in 0 + 1 .. 1 - 1 : FALSE
    BY <1>1
  <2> QED  BY <1>3, <2>1 DEF Continues
<1>4. ASSUME ~IsBegin(frames[1]), NEW x, Continues(0, x) PROVE Continues(1, x)
  <2>1. ASSUME NEW k \in 1 + 1 .. Len(frames), IsBegin(frames[k]),
               \A j \in 1 + 1 .. k - 1 : ~IsBegin(frames[j])
        PROVE  Follows(x, frames[k].act.m)
    <3>1. k \in 0 + 1 .. Len(frames)
      BY <1>1
    <3>2. \A j \in 0 + 1 .. k - 1 : j = 1 \/ j \in 1 + 1 .. k - 1
      BY <1>1
    <3> QED  BY <1>4, <2>1, <3>1, <3>2 DEF Continues
  <2>2. ~BeginsAfter(1) => ~BeginsAfter(0)
    <3> SUFFICES ASSUME NEW k \in 0 + 1 .. Len(frames), IsBegin(frames[k])
                 PROVE  BeginsAfter(1)
      BY DEF BeginsAfter
    <3>1. k # 1
      BY <1>4
    <3>2. k \in 1 + 1 .. Len(frames)
      BY <1>1, <3>1
    <3> QED  BY <3>2 DEF BeginsAfter
  <2> QED  BY <1>4, <2>1, <2>2 DEF Continues
<1> QED  BY <1>2, <1>3, <1>4

\* What becomes of the frames, but for what is received and a refresh.
FramesExtend ==
  /\ Len(frames') \in Nat /\ Len(frames) <= Len(frames')
  /\ \A k \in 1..Len(frames) : frames'[k] = frames[k]
  /\ \A k \in Len(frames) + 1 .. Len(frames') :
       /\ ~IsBegin(frames'[k])
       /\ frames'[k].act # NoItem => frames'[k].act = srv.active

LEMMA FrameSteps ==
  ASSUME TypeInv, ServerInv, ReqsOnce, FramesInv, Next, ~upset'
  PROVE  FramesExtend \/ Dequeue \/ Receive \/ Refresh
<1>1. TypeParts /\ frames \in Seq(Frame) /\ Len(frames) \in Nat
  BY TypePartsOK DEF TypeParts
<1>2. ASSUME frames' = frames PROVE FramesExtend
  BY <1>1, <1>2 DEF FramesExtend
<1>3. ASSUME NEW f \in Frame, ~IsBegin(f), f.act # NoItem => f.act = srv.active,
             frames' = Append(frames, f)
      PROVE  FramesExtend
  <2>1. /\ Len(frames') = Len(frames) + 1 /\ frames'[Len(frames) + 1] = f
        /\ \A k \in 1..Len(frames) : frames'[k] = frames[k]
    BY <1>1, <1>3, AppendProperties
  <2>2. \A k \in Len(frames) + 1 .. Len(frames') : k = Len(frames) + 1
    BY <1>1, <2>1
  <2> QED  BY <1>1, <1>3, <2>1, <2>2 DEF FramesExtend
<1>4. ASSUME srv' \in ServerState, QueueTold PROVE FramesExtend
  <2>1. PICK b \in BOOLEAN : frames' = Append(frames, QueueState(srv'.queue, b, NoItem))
    BY <1>4 DEF QueueTold
  <2> DEFINE f == QueueState(srv'.queue, b, NoItem)
  <2>2. f \in Frame /\ ~IsBegin(f) /\ f.act = NoItem
    BY <1>4 DEF QueueState, Frame, IsBegin, ServerState
  <2>3. frames' = Append(frames, f)
    BY <2>1
  <2> HIDE DEF f
  <2> QED  BY <1>3, <2>2, <2>3
<1>5. ASSUME NEW it \in Item, enqueueReactTurn(it) PROVE FramesExtend
  BY <1>4, <1>5, EnqueueOK DEF ServerStepOK
<1>6. ASSUME NEW m \in Messages, SendElsewhere(m) PROVE FramesExtend
  <2> DEFINE it == [m |-> m, retry |-> 0]
  <2>1. it \in Item
    BY <1>1 DEF Item, TypeParts
  <2>2. enqueueReactTurn(it)
    BY <1>6 DEF SendElsewhere
  <2> HIDE DEF it
  <2> QED  BY <1>5, <2>1, <2>2
<1>7. ASSUME \/ \E m \in Messages : sendMessage(m)
             \/ \E n \in 1..Len(chat.queued) : cancelQueuedItem(n)
             \/ cancelReview \/ finishEarly \/ retryLastFailed
             \/ dropReviewSessionIfIdle
             \/ \E st \in Saved \ {"open"}, done \in BOOLEAN : SaveAnswer(st, done)
      PROVE  FramesExtend
  BY <1>2, <1>7 DEF sendMessage, cancelQueuedItem, cancelReview, finishEarly,
                    retryLastFailed, server, dropReviewSessionIfIdle, SaveAnswer
<1>8. ASSUME EndTurn PROVE FramesExtend
  <2> DEFINE st == CASE srv.turn = "answered" /\ Last(srv.conv).st # "int"
                          -> Last(srv.conv).st
                     [] srv.cancelled -> "cut"
                     [] OTHER -> "err"
             ev == IF st = "err" THEN "error" ELSE "done"
             f == TurnFrame(ev, srv.active, st)
  <2>1. publishReview(<<f>>)
    BY <1>8 DEF EndTurn
  <2>2. PICK g \in Frame : /\ IsEnd(g) /\ publishReview(<<g>>)
                           /\ frames' = Append(frames, g)
    BY <1>8, EndTurnOK
  <2>3. f.act = srv.active
    BY DEF TurnFrame
  <2> HIDE DEF f
  <2>4. frames' = frames \o <<f>> \/ frames' = frames
    BY <2>1 DEF publishReview
  <2>5. frames' # frames
    BY <1>1, <2>2, AppendProperties
  <2>6. g = f
    <3>1. /\ Append(frames, g)[Len(frames) + 1] = g
      BY <1>1, <2>2, AppendProperties
    <3>2. (frames \o <<f>>)[Len(frames) + 1] = f
      BY <1>1
    <3> QED  BY <2>2, <2>4, <2>5, <3>1, <3>2
  <2>7. ~IsBegin(g)
    BY <2>2 DEF IsBegin, IsEnd
  <2> QED  BY <1>3, <2>2, <2>3, <2>6, <2>7
<1>9. ASSUME NEW r \in reqs, SendServed(r) PROVE FramesExtend
  <2>1. r.it \in Item
    BY <1>9, ServedType DEF SendServed
  <2>2. enqueueReactTurn(r.it)
    BY <1>9 DEF SendServed
  <2> QED  BY <1>5, <2>1, <2>2
<1>10. ASSUME NEW r \in reqs, RetryServed(r) PROVE FramesExtend
  <2>1. RetryOf(r.it) \in Item
    BY <1>10, RetryItem
  <2>2. enqueueReactTurn(RetryOf(r.it))
    BY <1>10 DEF RetryServed, RetryOf
  <2> QED  BY <1>5, <2>1, <2>2
<1>11. ASSUME NEW r \in reqs, \/ SendFails(r) \/ RetryFails(r) \/ RemoveQueuedItem(r)
                              \/ cancelReactSession(r) \/ FinishServed(r)
       PROVE  FramesExtend
  <2>1. frames' = frames \/ (ServerStepOK /\ QueueTold)
    BY <1>11, RemoveOK, CancelOK DEF SendFails, RetryFails, FinishServed
  <2> QED  BY <1>2, <1>4, <2>1 DEF ServerStepOK
<1>12. ASSUME \/ PollTick \/ ReadLoad \/ SocketDrops
              \/ \E n \in 1..Len(answers) : LandLoad(n) \/ RestoreLanded(n) \/ DropLoad(n)
       PROVE  FramesExtend
  <2>1. frames' = frames
    BY <1>12 DEF PollTick, ReadLoad, SocketDrops, LandLoad, RestoreLanded, DropLoad, server
  <2> QED  BY <1>2, <2>1
<1>13. ASSUME Reconnect PROVE FramesExtend
  <2> DEFINE e == <<>>
  <2>1. Len(e) = 0 /\ frames = e /\ frames' = ConnectFrames
    BY <1>13 DEF Reconnect, FramesInv
  <2> HIDE DEF e
  <2>2. ASSUME srv.alive PROVE FramesExtend
    <3>1. PICK f, g \in Frame :
            /\ ConnectFrames = <<f, g>> /\ f.ev = "snapshot" /\ g.ev = "queue"
            /\ f.act = srv.active /\ g.act = srv.active
      BY <2>2, ConnectType
    <3>2. Len(frames') = 2 /\ frames'[1] = f /\ frames'[2] = g
      BY <2>1, <3>1
    <3>3. \A k \in Len(frames) + 1 .. Len(frames') : k = 1 \/ k = 2
      BY <2>1, <3>2
    <3> QED  BY <2>1, <3>1, <3>2, <3>3 DEF FramesExtend, IsBegin
  <2>3. ASSUME ~srv.alive PROVE FramesExtend
    BY <1>2, <2>1, <2>3, ConnectType DEF e
  <2> QED  BY <2>2, <2>3
<1> QED
  BY <1>6, <1>7, <1>8, <1>9, <1>10, <1>11, <1>12, <1>13 DEF Next

\* What becomes of the live bubbles, but for a frame that is received.
RestoredLive ==
  /\ chat'.live = Bubble(srv.active.m) /\ srv.active # NoItem /\ srv' = srv
  /\ Len(frames') \in Nat /\ \A k \in 1..Len(frames') : ~IsBegin(frames'[k])

LEMMA RestoreLive ==
  ASSUME TypeInv, NEW c, ChatOK(c), NEW conv, NEW d, d = Restore(c, conv, ReactSessions)
  PROVE  SameHumans(c, d) \/ (srv.active # NoItem /\ d.live = Bubble(srv.active.m))
<1> DEFINE s == ReactSessions
<1>1. /\ s.on = srv.alive /\ s \in Session /\ (srv.alive => s.act = srv.active)
      /\ (~srv.alive => s = NoSession)
  BY SessionType DEF TypeInv
<1> DEFINE items == s.items
           busy == s.busy
           act == s.act
<1>2. items \in Seq(Item) /\ busy \in BOOLEAN /\ act \in Item \cup {NoItem}
  BY <1>1 DEF Session
<1>3. CASE srv.alive
  <2>1. d = applyQueueState(c, conv, items, busy, act) /\ act = srv.active
    BY <1>1, <1>3 DEF Restore
  <2> HIDE DEF s, items, busy, act
  <2>2. SameHumans(c, d) \/ (act # NoItem /\ d.live = Bubble(act.m))
    BY <1>2, <2>1, QueueStateLive
  <2> QED  BY <2>1, <2>2
<1>4. CASE ~srv.alive
  <2>1. d = c
    BY <1>1, <1>4 DEF Restore, NoSession
  <2> QED  BY <2>1 DEF SameHumans
<1>5. srv.alive \in BOOLEAN
  BY TypePartsOK DEF TypeParts, ServerState
<1> QED  BY <1>3, <1>4, <1>5

LEMMA ConnectNoBegin ==
  ASSUME TypeInv, srv' = srv, frames' = ConnectFrames
  PROVE  Len(frames') \in Nat /\ \A k \in 1..Len(frames') : ~IsBegin(frames'[k])
<1>1. ~BeginComes'
  BY ConnectedBegin
<1>2. Len(frames') \in Nat
  BY ConnectType
<1> QED  BY <1>1, <1>2 DEF BeginComes, BeginsAfter, IsBegin

LEMMA RefreshLive ==
  ASSUME TypeInv, Refresh
  PROVE  chat'.live = <<>> \/ RestoredLive
<1> DEFINE conv == srv.conv
           z == chat'
           c == NewChat
           e == <<>>
<1>1. srv' = srv /\ frames' = ConnectFrames /\ z = Restore(c, conv, ReactSessions)
  BY DEF Refresh
<1>2. ChatOK(c) /\ c.live = e /\ Len(e) = 0
  BY NewChatOK DEF NewChat
<1>3. ChatOK(z)
  <2>1. ReactSessions \in Session
    BY SessionType DEF TypeInv
  <2> HIDE DEF z, c
  <2> QED  BY <1>1, <1>2, <2>1, RestoreOK
<1> HIDE DEF z, c, e
<1>4. SameHumans(c, z) \/ (srv.active # NoItem /\ z.live = Bubble(srv.active.m))
  BY <1>1, <1>2, RestoreLive
<1>5. SameHumans(c, z) => z.live = <<>>
  BY <1>2, <1>3 DEF SameHumans, ChatOK, Chats
<1> QED  BY <1>1, <1>4, <1>5, ConnectNoBegin DEF RestoredLive, z

LEMMA LiveSteps ==
  ASSUME TypeInv, ServerInv, ReqsOnce, FramesInv, Next, ~retryLastFailed, ~upset', ~Receive
  PROVE  SameHumans(chat, chat') \/ chat'.live = <<>> \/ RestoredLive
<1> DEFINE G == SameHumans(chat, chat') \/ chat'.live = <<>> \/ RestoredLive
<1>1. TypeParts /\ ChatOK(chat) /\ frames \in Seq(Frame) /\ Len(frames) \in Nat
      /\ chat \in Chats /\ chat.queued \in Seq(ChatRow)
  BY TypePartsOK DEF TypeParts, ChatOK, Chats
<1>2. ASSUME chat' = chat PROVE G
  BY <1>2 DEF SameHumans
<1>3. ASSUME SameLive(chat, chat') PROVE G
  BY <1>3 DEF SameLive, SameHumans
<1> HIDE DEF G
<1>4. ASSUME \/ \E m \in Messages : SendElsewhere(m)
             \/ Dequeue \/ EndTurn \/ dropReviewSessionIfIdle
             \/ \E st \in Saved \ {"open"}, done \in BOOLEAN : SaveAnswer(st, done)
             \/ PollTick \/ ReadLoad \/ SocketDrops
             \/ \E n \in 1..Len(answers) : DropLoad(n)
             \/ \E r \in reqs : \/ SendServed(r) \/ RetryServed(r) \/ RemoveQueuedItem(r)
                                \/ cancelReactSession(r)
      PROVE  G
  BY <1>2, <1>4 DEF SendElsewhere, Dequeue, EndTurn, dropReviewSessionIfIdle, SaveAnswer,
       PollTick, ReadLoad, SocketDrops, DropLoad, SendServed, RetryServed,
       RemoveQueuedItem, cancelReactSession
<1>5. ASSUME \/ \E m \in Messages : sendMessage(m)
             \/ \E n \in 1..Len(chat.queued) : cancelQueuedItem(n)
             \/ finishEarly
      PROVE  G
  BY <1>1, <1>3, <1>5, UserLive
<1>6. ASSUME cancelReview PROVE G
  <2> DEFINE b == IF Kind = "review" THEN [chat EXCEPT !.queued = <<>>] ELSE chat
             st == "int"
             c == Stop(b, st)
             t == c.queued # <<>>
             q == <<>>
             z == chat'
  <2>1. z = WithThinking(c, t)
    BY <1>6 DEF cancelReview, WithThinking
  <2>2. ChatOK(b) /\ SameLive(chat, b)
    <3>1. b = chat \/ b = WithPanel(chat, q, chat.thinking)
      BY <1>1 DEF WithPanel, Chats
    <3>2. q \in Seq(ChatRow) /\ chat.thinking \in BOOLEAN
      BY <1>1 DEF Chats
    <3> HIDE DEF b, q
    <3>3. CASE b = chat
      BY <1>1, <3>3 DEF SameLive
    <3>4. CASE b = WithPanel(chat, q, chat.thinking)
      BY <1>1, <3>2, <3>4, SetPanel, PanelLive
    <3> QED  BY <3>1, <3>3, <3>4
  <2>3. st \in Shown /\ t \in BOOLEAN
    BY DEF Shown
  <2> HIDE DEF b, st
  <2>4. ChatOK(c) /\ SameHumans(b, c)
    BY <2>2, <2>3, StopOK, StopLive
  <2> HIDE DEF c, t, z
  <2>5. SameLive(c, z)
    BY <2>1, <2>3, <2>4, SpinnersLive
  <2>6. SameHumans(chat, z)
    BY <2>2, <2>4, <2>5 DEF SameLive, SameHumans
  <2> QED  BY <2>6 DEF G, z
<1>7. ASSUME NEW r \in reqs, SendFails(r) \/ RetryFails(r) PROVE FALSE
  BY <1>7 DEF SendFails, RetryFails
<1>8. ASSUME NEW r \in reqs, FinishServed(r) PROVE G
  <2> DEFINE z == chat'
  <2>1. z = chat \/ z = WatchConfirmError(chat)
    BY <1>8, FinishOK
  <2> HIDE DEF z
  <2>2. SameLive(chat, z)
    BY <1>1, <2>1, WatchDoneLive DEF SameLive
  <2> QED  BY <1>3, <2>2 DEF z
<1>9. ASSUME NEW n \in 1..Len(answers), LandLoad(n) PROVE G
  <2> DEFINE r == answers[n].r
             old == run
             c == WatchPersisted(chat, old, r)
             z == chat'
  <2>1. z = WatchDone(c, old, r)
    BY <1>9 DEF LandLoad
  <2> HIDE DEF r, old, z
  <2>2. ChatOK(c) /\ (SameLive(chat, c) \/ c.live = <<>>)
    BY <1>1, WatchPersistedOK, WatchPersistedLive
  <2> HIDE DEF c
  <2>3. SameLive(c, z)
    BY <2>1, <2>2, WatchDoneLive
  <2>4. SameLive(chat, z) \/ z.live = <<>>
    BY <2>2, <2>3 DEF SameLive
  <2> QED  BY <1>3, <2>4 DEF G, z
<1>10. ASSUME NEW n \in 1..Len(answers), RestoreLanded(n) PROVE G
  <2> DEFINE s == answers[n].r.sess
             conv == run.conv
             z == chat'
  <2>1. z = Restore(chat, conv, s) /\ srv' = srv /\ frames' = frames
    BY <1>10 DEF RestoreLanded
  <2>2. s = ReactSessions /\ (s.on => frames = <<>>)
    BY <1>10 DEF RestoreLanded, OutOfStep
  <2> HIDE DEF s, z, conv
  <2>3. CASE s.on
    <3>1. SameHumans(chat, z) \/ (srv.active # NoItem /\ z.live = Bubble(srv.active.m))
      BY <1>1, <2>1, <2>2, RestoreLive
    <3> DEFINE e == <<>>
    <3>2. Len(e) = 0 /\ frames' = e
      BY <2>1, <2>2, <2>3
    <3> HIDE DEF e
    <3>3. Len(frames') \in Nat /\ \A k \in 1..Len(frames') : FALSE
      BY <3>2
    <3> QED  BY <2>1, <3>1, <3>3 DEF G, RestoredLive, z
  <2>4. CASE ~s.on
    <3>1. z = chat
      BY <2>1, <2>4 DEF Restore
    <3> QED  BY <1>2, <3>1 DEF z
  <2> QED  BY <2>3, <2>4
<1>12. ASSUME Reconnect PROVE G
  <2> DEFINE s == run.sess
             conv == run.conv
             z == chat'
  <2>1. /\ z = Restore(chat, conv, s) /\ srv' = srv /\ frames' = ConnectFrames
        /\ (s.on => s = ReactSessions)
    BY <1>12 DEF Reconnect
  <2> HIDE DEF s, conv, z
  <2>2. CASE s.on
    <3>1. SameHumans(chat, z) \/ (srv.active # NoItem /\ z.live = Bubble(srv.active.m))
      BY <1>1, <2>1, <2>2, RestoreLive
    <3> QED  BY <2>1, <3>1, ConnectNoBegin DEF G, RestoredLive, z
  <2>3. CASE ~s.on
    <3>1. z = chat
      BY <2>1, <2>3 DEF Restore
    <3> QED  BY <1>2, <3>1 DEF z
  <2> QED  BY <2>2, <2>3
<1>13. ASSUME Refresh PROVE G
  BY <1>13, RefreshLive DEF G
<1>14. G
  BY <1>4, <1>5, <1>6, <1>7, <1>8, <1>9, <1>10, <1>12, <1>13 DEF Next
<1> QED  BY <1>14 DEF G

-----------------------------------------------------------------------------
(* The places stay                                                         *)

LEMMA FollowsNext ==
  ASSUME TypeInv, ServerInv, ReqsOnce, Next, NoRetry, ConvOnce, ConvSaid,
         NEW x, NEW y, Follows(x, y), ~Waits(y)
  PROVE  Follows(x, y)'
<1>1. CASE RowsKept
  BY <1>1, FollowsKept, TypePartsOK
<1>2. CASE Dequeue
  <2>1. PICK it : it = Head(srv.queue)
    OBVIOUS
  <2> QED  BY <1>2, <2>1, FollowsBegun
<1> QED  BY <1>1, <1>2, RowsKeptNext

LEMMA ContinuesNext ==
  ASSUME TypeInv, ServerInv, ReqsOnce, Next, ~upset', NoRetry, ConvOnce, ConvSaid,
         FramesPlaced, FramesExtend \/ Dequeue,
         NEW n \in 0..Len(frames), NEW x, Continues(n, x)
  PROVE  Continues(n, x)'
<1>1. CASE Dequeue
  <2>1. PICK it : it = Head(srv.queue)
    OBVIOUS
  <2> QED  BY <1>1, <2>1, BegunContinues
<1>2. CASE ~Dequeue
  <2>1. RowsKept /\ FramesExtend /\ TypeParts
    BY <1>2, RowsKeptNext, TypePartsOK
  <2> QED  BY <2>1, ExtendedContinues DEF FramesExtend
<1> QED  BY <1>1, <1>2

LEMMA FramesPlacedNext ==
  ASSUME Inv, Next, ~retryLastFailed, ~upset', SaidInv, Refresh \/ FramesPlaced,
         srv'.active # NoItem => ~Waits(srv.active.m)'
  PROVE  FramesPlaced'
<1>1. TypeInv /\ ServerInv /\ ReqsOnce /\ FramesInv /\ TypeParts
  BY TypePartsOK DEF Inv, Unique
<1>2. NoRetry /\ ConvOnce /\ ConvSaid /\ (srv.active # NoItem => EndsAt(srv.active.m))
  BY DEF SaidInv
<1>3. \A m : Waits(m)' => Waits(m)
  BY <1>1, <1>2, SourcesNext, WaitsLess
<1>4. srv.active # NoItem => ~Waits(srv.active.m)
  BY <1>2, ActiveSaid
<1>5. Len(frames) \in Nat
  BY <1>1 DEF TypeParts
<1> HIDE DEF Inv
<1> SUFFICES ASSUME NEW n \in 1..Len(frames'), frames'[n].act # NoItem,
                    NEW y, y = frames'[n].act.m
             PROVE  ~Waits(y)' /\ Continues(n, y)'
  BY DEF FramesPlaced, Waits, Continues, BeginsAfter, EndsAt, Follows, IsBegin
<1>6. ASSUME srv' = srv, frames'[n].act = srv.active,
             \A k \in n + 1 .. Len(frames') : ~IsBegin(frames'[k])
      PROVE  ~Waits(y)' /\ Continues(n, y)'
  <2>1. y = srv.active.m /\ srv.active # NoItem
    BY <1>6
  <2>2. ~Waits(y) /\ EndsAt(y)
    BY <1>2, <1>4, <2>1
  <2>3. EndsAt(y)'
    BY <1>6, <2>2 DEF EndsAt
  <2> QED  BY <1>3, <1>6, <2>2, <2>3, NoBeginContinues
<1>7. CASE Refresh
  <2>1. srv' = srv /\ frames' = ConnectFrames
    BY <1>7 DEF Refresh
  <2>2. srv.alive
    <3> SUFFICES ASSUME ~srv.alive PROVE FALSE
      OBVIOUS
    <3>1. frames' = <<>>
      BY <1>1, <2>1, ConnectType
    <3> QED  BY <3>1
  <2>3. PICK f, g \in Frame : ConnectFrames = <<f, g>> /\ f.act = srv.active /\ g.act = srv.active
    BY <1>1, <2>2, ConnectType
  <2>4. frames'[n].act = srv.active
    BY <2>1, <2>3
  <2> QED  BY <1>1, <1>6, <2>1, <2>4, ConnectNoBegin
<1>8. CASE FramesPlaced /\ FramesExtend /\ ~Dequeue
  <2>1. RowsKept
    BY <1>1, <1>8, RowsKeptNext
  <2>2. CASE n \in 1..Len(frames)
    <3>1. frames'[n] = frames[n]
      BY <1>8, <2>2 DEF FramesExtend
    <3>2. ~Waits(y) /\ Continues(n, y)
      BY <1>8, <2>2, <3>1 DEF FramesPlaced
    <3> QED  BY <1>1, <1>2, <1>3, <1>5, <1>8, <2>2, <3>2, ContinuesNext
  <2>3. CASE n \notin 1..Len(frames)
    <3>1. n \in Len(frames) + 1 .. Len(frames') /\ n \in Nat
      BY <1>5, <1>8, <2>3 DEF FramesExtend
    <3>2. frames'[n].act = srv.active
      BY <1>8, <3>1 DEF FramesExtend
    <3>3. y = srv.active.m /\ ~Waits(y) /\ EndsAt(y)
      BY <1>2, <1>4, <3>2
    <3>4. EndsAt(y)'
      BY <1>1, <2>1, <3>3, FollowsKept
    <3>5. \A k \in n + 1 .. Len(frames') : ~IsBegin(frames'[k])
      BY <1>5, <1>8, <3>1 DEF FramesExtend
    <3>6. Continues(n, y)'
      BY <3>1, <3>4, <3>5, NoBeginContinues
    <3>7. ~Waits(y)'
      BY <1>3, <3>3
    <3> QED  BY <3>6, <3>7
  <2> QED  BY <2>2, <2>3
<1>9. CASE FramesPlaced /\ Dequeue
  <2>1. PICK it : it = Head(srv.queue)
    OBVIOUS
  <2>2. /\ Len(frames') = Len(frames) + 2
        /\ \A k \in 1..Len(frames) : frames'[k] = frames[k]
        /\ frames'[Len(frames) + 1].act = NoItem
        /\ frames'[Len(frames) + 2].act = it
        /\ Continues(Len(frames) + 2, it.m)'
        /\ \A k \in 0..Len(frames) : \A x : Continues(k, x) => Continues(k, x)'
    BY <1>1, <1>2, <1>9, <2>1, BegunContinues
  <2>3. CASE n \in 1..Len(frames)
    <3>1. frames'[n] = frames[n]
      BY <2>2, <2>3
    <3>2. ~Waits(y) /\ Continues(n, y)
      BY <1>9, <2>3, <3>1 DEF FramesPlaced
    <3> QED  BY <1>3, <1>5, <2>2, <2>3, <3>2
  <2>4. CASE n \notin 1..Len(frames)
    <3>1. n = Len(frames) + 2
      <4>1. n = Len(frames) + 1 \/ n = Len(frames) + 2
        BY <1>5, <2>2, <2>4
      <4> QED  BY <2>2, <4>1
    <3>2. y = it.m
      BY <2>2, <3>1
    <3>3. srv'.active = it /\ it # NoItem
      BY <1>1, <1>9, <2>1, DequeueOK, NoItemApart
    <3>4. ~Waits(y)'
      BY <3>2, <3>3 DEF Waits
    <3>5. n = Len(frames)' /\ Len(frames) + 2 = Len(frames)'
      BY <2>2, <3>1
    <3>6. Continues(n, y)'
      <4>1. EndsAt(y)'
        BY <1>1, <1>2, <1>9, <2>1, <3>2, FollowsBegun DEF EndsAt
      <4>2. \A k \in n + 1 .. Len(frames') : ~IsBegin(frames'[k])
        BY <1>5, <3>5
      <4> QED  BY <4>1, <4>2, NoBeginContinues
    <3> QED  BY <3>4, <3>6
  <2> QED  BY <2>3, <2>4
<1>10. CASE FramesPlaced /\ Receive
  <2>1. frames # <<>> /\ frames' = Tail(frames) /\ srv' = srv
    BY <1>10 DEF Receive
  <2>2. /\ Len(frames') = Len(frames) - 1 /\ frames'[n] = frames[n + 1]
        /\ n + 1 \in 1..Len(frames)
    BY <1>1, <1>5, <2>1, HeadTailProperties DEF TypeParts
  <2>3. ~Waits(y) /\ Continues(n + 1, y)
    BY <1>10, <2>2 DEF FramesPlaced
  <2>4. Continues(n, y)'
    BY <1>1, <2>1, <2>3, TailContinues
  <2> QED  BY <1>3, <2>3, <2>4
<1> QED  BY <1>1, <1>7, <1>8, <1>9, <1>10, FrameSteps

\* Bubbles of the same rows, perhaps with one more at the end.
LEMMA LiveInRowStays ==
  ASSUME TypeInv, TypeInv', LiveInRow,
         \A m : Waits(m)' => Waits(m),
         \A x, y : Follows(x, y) /\ ~Waits(y) => Follows(x, y)',
         \/ Len(chat'.live) = Len(chat.live)
         \/ /\ Len(chat'.live) = Len(chat.live) + 1
            /\ ~Waits(Last(chat'.live).m)
            /\ chat.live # <<>> =>
                 \A x, y : x = Last(chat.live).m /\ y = Last(chat'.live).m => Follows(x, y)',
         \A n \in 1..Len(chat.live) : chat'.live[n].m = chat.live[n].m
  PROVE  LiveInRow'
<1> DEFINE l == chat.live
           k == chat'.live
<1>1. l \in Seq(Exchange(Shown)) /\ k \in Seq(Exchange(Shown))
  BY DEF TypeInv, PageType, ChatOK, Chats
<1>2. /\ Len(l) \in Nat /\ Len(k) \in Nat /\ (l # <<>> <=> Len(l) > 0)
      /\ Last(l) = l[Len(l)] /\ Last(k) = k[Len(k)]
  BY <1>1 DEF Last
<1>3. \A n \in 1..Len(k) : n \in 1..Len(l) \/ (n = Len(k) /\ Len(k) = Len(l) + 1)
  BY <1>2
<1>4. ASSUME NEW n \in 1..Len(k), NEW y, y = k[n].m PROVE ~Waits(y) /\ ~Waits(y)'
  <2>1. ~Waits(y)
    <3>1. CASE n \in 1..Len(l)
      BY <1>4, <3>1 DEF LiveInRow
    <3>2. CASE n \notin 1..Len(l)
      <4>1. Len(k) = Len(l) + 1 /\ n = Len(k)
        BY <1>3, <1>4, <3>2
      <4>2. Len(k) # Len(l)
        BY <1>2, <4>1
      <4> QED  BY <1>2, <1>4, <4>1, <4>2
    <3> QED  BY <3>1, <3>2
  <2> QED  BY <2>1
<1>5. ASSUME NEW n \in 2..Len(k), NEW x, NEW y, x = k[n - 1].m, y = k[n].m
      PROVE  Follows(x, y)'
  <2>1. n \in 1..Len(k) /\ n - 1 \in 1..Len(l)
    BY <1>2, <1>3
  <2>2. x = l[n - 1].m
    BY <1>5, <2>1
  <2>3. CASE n \in 1..Len(l)
    <3>1. n \in 2..Len(l) /\ y = l[n].m
      BY <1>5, <2>3
    <3>2. Follows(x, y)
      BY <2>2, <3>1 DEF LiveInRow
    <3> QED  BY <1>4, <1>5, <2>1, <3>2
  <2>4. CASE n \notin 1..Len(l)
    <3>1. Len(k) = Len(l) + 1 /\ n = Len(k) /\ n - 1 = Len(l) /\ Len(k) # Len(l)
          /\ l # <<>>
      BY <1>2, <1>3, <2>1, <2>4
    <3>2. x = Last(l).m /\ y = Last(k).m
      BY <1>2, <1>5, <2>2, <3>1
    <3> QED  BY <3>1, <3>2
  <2> QED  BY <2>3, <2>4
<1>6. (\A n \in 1..Len(chat.live) : ~Waits(chat.live[n].m))'
  <2>1. \A n \in 1..Len(k) : \A y : y = k[n].m => ~Waits(y)'
    BY <1>4
  <2> QED  BY <2>1 DEF Waits
<1>7. (\A n \in 2..Len(chat.live) : Follows(chat.live[n - 1].m, chat.live[n].m))'
  <2>1. \A n \in 2..Len(k) : \A x, y : x = k[n - 1].m /\ y = k[n].m => Follows(x, y)'
    BY <1>5
  <2> QED  BY <2>1 DEF Follows
<1> QED  BY <1>6, <1>7 DEF LiveInRow

LEMMA SameHumansRow ==
  ASSUME TypeInv, TypeInv', SameHumans(chat, chat')
  PROVE  /\ chat'.live = <<>> <=> chat.live = <<>>
         /\ chat.live # <<>> => Last(chat'.live).m = Last(chat.live).m
<1>1. chat.live \in Seq(Exchange(Shown)) /\ chat'.live \in Seq(Exchange(Shown))
  BY DEF TypeInv, PageType, ChatOK, Chats
<1> QED  BY <1>1 DEF SameHumans, Last

\* One bubble alone.
LEMMA AloneInRow ==
  ASSUME NEW m, chat'.live = Bubble(m), ~Waits(m)', Continues(0, m)'
  PROVE  LivePlaced'
<1>1. Len(chat'.live) = 1 /\ chat'.live[1].m = m /\ Last(chat'.live).m = m
  BY DEF Bubble, Last
<1>2. LiveInRow'
  BY <1>1 DEF LiveInRow, Waits
<1>3. Continues(0, Last(chat.live).m)'
  BY <1>1 DEF Continues, BeginsAfter, IsBegin, Follows, EndsAt
<1> QED  BY <1>2, <1>3 DEF LivePlaced

LEMMA NoBubbleInRow == ASSUME chat'.live = <<>> PROVE LivePlaced'
<1> DEFINE e == <<>>
<1>1. chat'.live = e /\ Len(e) = 0
  OBVIOUS
<1> HIDE DEF e
<1>2. Len(chat'.live) = 0
  BY <1>1
<1> QED  BY <1>2 DEF LivePlaced, LiveInRow

LEMMA ReceiveLive ==
  ASSUME TypeInv, TypeInv', ServerInv, ReqsOnce, DistinctTexts, Next, Receive,
         NoRetry, ConvOnce, ConvSaid, FramesPlaced, LivePlaced
  PROVE  LivePlaced'
<1> DEFINE f == frames[1]
           z == chat'
           conv == run.conv
<1>1. TypeParts /\ ChatOK(chat)
  BY TypePartsOK DEF TypeParts
<1>2. frames # <<>> /\ frames' = Tail(frames) /\ srv' = srv
  BY DEF Receive
<1>3. /\ Head(frames) = f /\ f.items \in Seq(Item) /\ (f.ev = "begin" => f.act \in Item)
      /\ (IsQ(f) => f.act \in Item \cup {NoItem}) /\ f.busy \in BOOLEAN /\ f \in Frame
  BY <1>1, <1>2, HeadFrame DEF TypeParts
<1>4. z = CASE f.ev = "begin" -> turn_begin(chat, f.act)
            [] f.ev \in {"done", "error"} -> EndFrame(chat, f.st)
            [] OTHER -> applyQueueState(chat, conv, f.items, f.busy, f.act)
  BY <1>3 DEF Receive
<1>5. \A m : Waits(m)' => Waits(m)
  BY SourcesNext, WaitsLess
<1>6. \A x, y : Follows(x, y) /\ ~Waits(y) => Follows(x, y)'
  BY FollowsNext
<1>7. /\ \A x : Continues(1, x) => Continues(0, x)'
      /\ IsBegin(f) => \A x : Continues(0, x) => Follows(x, f.act.m)
      /\ ~IsBegin(f) => \A x : Continues(0, x) => Continues(1, x)
  <2>1. \A n \in Nat : \A x : Continues(n + 1, x) => Continues(n, x)'
    BY <1>1, <1>2, TailContinues
  <2>2. ASSUME NEW x, Continues(1, x) PROVE Continues(0, x)'
    <3>1. Continues(0 + 1, x)
      BY <2>2 DEF Continues, BeginsAfter
    <3> QED  BY <2>1, <3>1
  <2> QED  BY <1>1, <1>2, <2>2, TailContinues
<1>8. f.act # NoItem => ~Waits(f.act.m) /\ Continues(1, f.act.m)
  <2>1. 1 \in 1..Len(frames)
    BY <1>1, <1>2 DEF TypeParts
  <2> QED  BY <2>1 DEF FramesPlaced
<1>9. chat.live \in Seq(Exchange(Shown)) /\ z.live \in Seq(Exchange(Shown))
  BY DEF TypeInv, PageType, ChatOK, Chats
<1>10. ASSUME SameHumans(chat, z), ~IsBegin(f) PROVE LivePlaced'
  <2>1. LiveInRow'
    BY <1>5, <1>6, <1>10, LiveInRowStays DEF SameHumans, LivePlaced
  <2>2. ASSUME z.live # <<>>, NEW x, x = Last(z.live).m PROVE Continues(0, x)'
    <3>1. chat.live # <<>> /\ x = Last(chat.live).m
      BY <1>10, <2>2, SameHumansRow
    <3>2. Continues(0, x)
      BY <3>1 DEF LivePlaced
    <3> QED  BY <1>7, <1>10, <3>2
  <2> QED  BY <2>1, <2>2 DEF LivePlaced, Continues, BeginsAfter, IsBegin, Follows, EndsAt
<1>11. ASSUME f.act # NoItem, z.live = Bubble(f.act.m) PROVE LivePlaced'
  <2>1. PICK m : m = f.act.m
    OBVIOUS
  <2>2. ~Waits(m)' /\ Continues(0, m)'
    BY <1>5, <1>7, <1>8, <1>11, <2>1
  <2> QED  BY <1>11, <2>1, <2>2, AloneInRow
<1>12. CASE IsBegin(f)
  <2>1. PICK it \in Item : it = f.act
    BY <1>3, <1>12 DEF IsBegin
  <2>2. z = turn_begin(chat, it) /\ it # NoItem
    BY <1>4, <1>12, <2>1, NoItemApart DEF IsBegin
  <2>3. ~Waits(it.m) /\ Continues(0, it.m)'
    BY <1>7, <1>8, <2>1, <2>2
  <2> HIDE DEF f, z
  <2>4. /\ z.liveAgentIdx = Len(z.live) /\ Len(z.live) > 0 /\ Len(z.live) \in Nat
        /\ Same(z.live[Len(z.live)].m, it.m)
        /\ \/ SameHumans(chat, z)
           \/ /\ Len(z.live) = Len(chat.live) + 1 /\ z.live[Len(z.live)].m = it.m
              /\ \A n \in 1..Len(chat.live) : z.live[n].m = chat.live[n].m
    BY <1>1, <2>2, BeginLive
  <2>5. Last(z.live).m = it.m
    <3>1. z.live[Len(z.live)] \in Exchange(Shown)
      BY <1>9, <2>4
    <3>2. z.live[Len(z.live)].m \in Messages /\ it.m \in Messages
      BY <3>1 DEF Exchange, Item
    <3> QED  BY <2>4, <3>2 DEF Last, Same, DistinctTexts
  <2>6. LiveInRow'
    <3>1. CASE SameHumans(chat, z)
      BY <1>5, <1>6, <3>1, LiveInRowStays DEF SameHumans, LivePlaced, z
    <3>2. CASE ~SameHumans(chat, z)
      <4>1. ASSUME chat.live # <<>>, NEW x, NEW y, x = Last(chat.live).m, y = it.m
            PROVE  Follows(x, y)'
        <5>1. Continues(0, x)
          BY <4>1 DEF LivePlaced
        <5>2. Follows(x, y)
          BY <1>7, <1>12, <2>1, <4>1, <5>1
        <5> QED  BY <1>6, <2>3, <4>1, <5>2
      <4> QED  BY <1>5, <1>6, <2>3, <2>4, <2>5, <3>2, <4>1, LiveInRowStays DEF LivePlaced, z
    <3> QED  BY <3>1, <3>2
  <2> QED
    BY <2>3, <2>5, <2>6 DEF LivePlaced, Continues, BeginsAfter, IsBegin, Follows, EndsAt, z
<1>13. CASE f.ev \in {"done", "error"}
  <2>1. f.st \in Shown
    BY <1>3, <1>13 DEF Frame
  <2>2. SameHumans(chat, z)
    <3> DEFINE st == f.st
    <3>1. z = EndFrame(chat, st)
      BY <1>4, <1>13
    <3> HIDE DEF z, f, st
    <3>2. st \in Shown
      BY <2>1 DEF st
    <3> QED  BY <1>1, <3>1, <3>2, EndLive
  <2> QED  BY <1>10, <1>13, <2>2 DEF IsBegin
<1>14. CASE ~IsBegin(f) /\ f.ev \notin {"done", "error"}
  <2> DEFINE items == f.items
             busy == f.busy
             act == f.act
  <2>1. z = applyQueueState(chat, conv, items, busy, act)
    BY <1>4, <1>14 DEF IsBegin
  <2>2. items \in Seq(Item) /\ busy \in BOOLEAN /\ act \in Item \cup {NoItem}
    BY <1>3 DEF Frame
  <2> HIDE DEF items, busy, act, conv, z, f
  <2>3. SameHumans(chat, z) \/ (act # NoItem /\ z.live = Bubble(act.m))
    BY <1>1, <2>1, <2>2, QueueStateLive
  <2> QED  BY <1>10, <1>11, <1>14, <2>3 DEF act
<1> QED  BY <1>12, <1>13, <1>14

LEMMA LivePlacedNext ==
  ASSUME Inv, Inv', DistinctTexts, Next, ~retryLastFailed, ~upset', SaidInv,
         Refresh \/ (FramesPlaced /\ LivePlaced)
  PROVE  LivePlaced'
<1>1. TypeInv /\ ServerInv /\ ReqsOnce /\ FramesInv /\ TypeParts /\ TypeInv'
  BY TypePartsOK DEF Inv, Unique
<1>2. NoRetry /\ ConvOnce /\ ConvSaid /\ (srv.active # NoItem => EndsAt(srv.active.m))
  BY DEF SaidInv
<1>3. \A m : Waits(m)' => Waits(m)
  BY <1>1, <1>2, SourcesNext, WaitsLess
<1>4. srv.active # NoItem => ~Waits(srv.active.m)
  BY <1>2, ActiveSaid
<1> HIDE DEF Inv
<1>5. CASE RestoredLive
  <2>1. PICK m : m = srv.active.m
    OBVIOUS
  <2>2. ~Waits(m)'
    BY <1>3, <1>4, <1>5, <2>1 DEF RestoredLive
  <2>3. EndsAt(m)'
    BY <1>2, <1>5, <2>1 DEF RestoredLive, EndsAt
  <2>4. Continues(0, m)'
    BY <1>5, <2>3, NoBeginContinues DEF RestoredLive
  <2> QED  BY <1>5, <2>1, <2>2, <2>4, AloneInRow DEF RestoredLive
<1>6. CASE Refresh
  BY <1>1, <1>5, <1>6, RefreshLive, NoBubbleInRow
<1>7. CASE FramesPlaced /\ LivePlaced /\ Receive
  BY <1>1, <1>2, <1>7, ReceiveLive
<1>8. CASE FramesPlaced /\ LivePlaced /\ ~Receive /\ ~Refresh
  <2>1. SameHumans(chat, chat') \/ chat'.live = <<>> \/ RestoredLive
    BY <1>1, <1>8, LiveSteps
  <2>2. CASE SameHumans(chat, chat')
    <3>1. \A x, y : Follows(x, y) /\ ~Waits(y) => Follows(x, y)'
      BY <1>1, <1>2, FollowsNext
    <3>2. LiveInRow'
      BY <1>1, <1>3, <1>8, <2>2, <3>1, LiveInRowStays DEF SameHumans, LivePlaced
    <3>3. ASSUME chat'.live # <<>>, NEW x, x = Last(chat'.live).m PROVE Continues(0, x)'
      <4>1. chat.live # <<>> /\ x = Last(chat.live).m
        BY <1>1, <2>2, <3>3, SameHumansRow
      <4>2. Continues(0, x)
        BY <1>8, <4>1 DEF LivePlaced
      <4>3. FramesExtend \/ Dequeue
        BY <1>1, <1>8, FrameSteps
      <4>4. 0 \in 0..Len(frames)
        BY <1>1 DEF TypeParts
      <4> QED  BY <1>1, <1>2, <1>8, <4>2, <4>3, <4>4, ContinuesNext
    <3> QED  BY <3>2, <3>3 DEF LivePlaced, Continues, BeginsAfter, IsBegin, Follows, EndsAt
  <2> QED  BY <1>5, <2>1, <2>2, NoBubbleInRow
<1> QED  BY <1>6, <1>7, <1>8

LEMMA ShownInvInit == Init => ShownInv
<1> SUFFICES ASSUME Init PROVE ShownInv
  OBVIOUS
<1> DEFINE e == <<>>
<1>1. /\ Len(e) = 0 /\ srv.queue = e /\ srv.conv = e /\ srv.active = NoItem /\ reqs = {}
      /\ frames = e /\ chat.live = e /\ NoItem.retry = 0
  BY DEF Init, NewChat, NoItem
<1>2. \A s : s = e => Len(s) = 0 /\ Rows(s) = {}
  BY DEF Rows
<1>3. chat.live = <<>>
  BY <1>1
<1> HIDE DEF e
<1>4. NoRetry
  BY <1>1, <1>2 DEF NoRetry
<1>5. SaidInv
  BY <1>1, <1>4 DEF SaidInv, ConvOnce, ConvSaid
<1>6. FramesPlaced
  BY <1>1 DEF FramesPlaced
<1>7. LivePlaced
  BY <1>1, <1>3 DEF LivePlaced, LiveInRow
<1> QED  BY <1>5, <1>6, <1>7 DEF ShownInv

LEMMA ShownInvStays == ShownInv /\ UNCHANGED vars => ShownInv'
<1> SUFFICES ASSUME ShownInv, UNCHANGED vars PROVE ShownInv'
  OBVIOUS
<1>1. UNCHANGED <<unsent, srv, frames, reqs, chat, upset>>
  BY DEF vars
<1>2. SaidInv <=> SaidInv'
  BY <1>1 DEF SaidInv, NoRetry, ConvOnce, ConvSaid, Waits, EndsAt, Rows
<1>3. FramesPlaced <=> FramesPlaced'
  BY <1>1 DEF FramesPlaced, Waits, Continues, BeginsAfter, IsBegin, Follows, EndsAt, Rows
<1>4. LivePlaced <=> LivePlaced'
  BY <1>1 DEF LivePlaced, LiveInRow, Waits, Continues, BeginsAfter, IsBegin, Follows, EndsAt, Rows
<1> QED  BY <1>1, <1>2, <1>3, <1>4 DEF ShownInv

LEMMA ShownInvNext ==
  DistinctTexts /\ Inv /\ Inv' /\ ShownInv /\ Next /\ ~retryLastFailed => ShownInv'
<1> SUFFICES ASSUME DistinctTexts, Inv, Inv', ShownInv, Next, ~retryLastFailed
             PROVE  ShownInv'
  OBVIOUS
<1>1. TypeInv /\ ServerInv /\ ReqsOnce
  BY DEF Inv, Unique
<1>2. SaidInv /\ NoRetry /\ (~upset => FramesPlaced /\ LivePlaced)
  BY DEF ShownInv, SaidInv
<1>3. NoRetry'
  BY <1>1, <1>2, NoRetryNext
<1>4. srv'.active # NoItem => ~Waits(srv.active.m)'
  <2>1. (Inv /\ NoRetry /\ srv.active # NoItem => ~Waits(srv.active.m))'
    BY ActiveSaid, PTL
  <2> QED  BY <1>3, <2>1
<1>5. SaidInv'
  BY <1>2, <1>3, <1>4, SaidNext
<1>6. ASSUME ~upset' PROVE FramesPlaced' /\ LivePlaced'
  <2>1. Refresh \/ (FramesPlaced /\ LivePlaced)
    BY <1>2, <1>6, UpsetStays
  <2> QED  BY <1>2, <1>4, <1>6, <2>1, FramesPlacedNext, LivePlacedNext
<1> QED  BY <1>5, <1>6 DEF ShownInv

-----------------------------------------------------------------------------
(* What the screen makes of it                                             *)

LEMMA NoBubblesShown ==
  ASSUME NEW conv \in Seq(Exchange(Saved)), NEW live, live = <<>>
  PROVE  mergePersistedAndLiveTurns(conv, live) = Turns(conv)
<1>1. mergePersistedAndLiveTurns(conv, live) = Turns(conv) \o Turns(live)
  BY DEF mergePersistedAndLiveTurns
<1>2. Turns(live) = <<>>
  BY DEF Turns
<1>3. Turns(conv) \in Seq(TurnRow)
  BY TurnsType
<1> QED  BY <1>1, <1>2, <1>3, ConcatEmptySeq

\* Live bubbles that the transcript ends with are not shown again.
LEMMA SuffixShownOnce ==
  ASSUME NEW conv \in Seq(Exchange(Saved)), NEW live \in Seq(Exchange(Shown)),
         live # <<>>, NEW d \in Nat, Len(conv) = d + Len(live),
         \A i \in 1..Len(live) : conv[d + i] = live[i]
  PROVE  mergePersistedAndLiveTurns(conv, live) = Turns(conv)
<1> DEFINE M == Len(live)
           N == Len(conv)
           p == Turns(conv)
           l == Turns(live)
           Match(k) == \A n \in 1..k : MatchTurn(p[Len(p) - k + n], l[n])
           most == IF Len(p) < Len(l) THEN Len(p) ELSE Len(l)
           matched == CHOOSE k \in 0..most :
                        Match(k) /\ \A j \in k + 1 .. most : ~Match(j)
           T(s, i) == LET e == s[(i + 1) \div 2]
                      IN IF i % 2 = 1 THEN [role |-> "human", m |-> e.m, st |-> "open"]
                                      ELSE [role |-> "agent", m |-> e.m, st |-> e.st]
<1>1. M \in Nat /\ M > 0 /\ N \in Nat /\ N = d + M /\ conv # <<>>
  OBVIOUS
<1>2. conv[N] = live[M] /\ conv[d + 1] = live[1]
  <2> HIDE DEF N
  <2>1. M \in 1..M /\ 1 \in 1..M
    BY <1>1
  <2> QED  BY <1>1, <2>1
<1>3. Last(conv).st # "open" /\ Last(live).st # "open" /\ live[1].st # "stream"
  <2>1. live[M] \in Exchange(Shown) /\ conv[d + 1] \in Exchange(Saved)
    <3>1. M \in 1..M /\ d + 1 \in 1..N
      BY <1>1
    <3> QED  BY <3>1
  <2>2. live[M].st # "open" /\ live[1].st # "stream"
    BY <1>2, <2>1 DEF Exchange, Shown, Saved
  <2> QED  BY <1>2, <2>2 DEF Last
<1>4. p = [i \in 1..2 * N |-> T(conv, i)] /\ l = [i \in 1..2 * M |-> T(live, i)]
  BY <1>3 DEF Turns
<1>5. p \in Seq(TurnRow) /\ l \in Seq(TurnRow) /\ Len(p) = 2 * N /\ Len(l) = 2 * M
  <2>1. p \in Seq(TurnRow) /\ l \in Seq(TurnRow)
    BY TurnsType
  <2>2. DOMAIN p = 1..2 * N /\ DOMAIN l = 1..2 * M /\ 2 * N \in Nat /\ 2 * M \in Nat
    <3> HIDE DEF T
    <3> QED  BY <1>1, <1>4
  <2> HIDE DEF p, l, N, M
  <2> QED  BY <2>1, <2>2, LenProperties
<1>6. ASSUME NEW n \in 1..2 * M PROVE p[2 * N - 2 * M + n] = l[n]
  <2> DEFINE i == 2 * d + n
             h == (n + 1) \div 2
  <2>1. i = 2 * N - 2 * M + n /\ i \in 1..2 * N /\ h \in 1..M
        /\ (i + 1) \div 2 = d + h /\ (i % 2 = 1 <=> n % 2 = 1)
    <3> HIDE DEF N, M
    <3>1. n \in Nat /\ n >= 1 /\ n <= 2 * M
      BY <1>1, <1>6
    <3>2. PICK q \in Int, r \in 0..1 : n = 2 * q + r
      <4>1. n = 2 * (n \div 2) + (n % 2) /\ n % 2 \in 0..1 /\ n \div 2 \in Int
        BY <3>1
      <4> QED  BY <4>1
    <3> QED  BY <1>1, <3>1, <3>2
  <2> HIDE DEF i, h, N, M
  <2>2. conv[d + h] = live[h]
    BY <2>1 DEF M
  <2>3. p[i] = T(conv, i) /\ l[n] = T(live, n)
    <3> HIDE DEF T
    <3> QED  BY <1>4, <1>6, <2>1
  <2>4. T(conv, i) = T(live, n)
    <3>1. conv[(i + 1) \div 2] = live[(n + 1) \div 2]
      BY <2>1, <2>2 DEF h
    <3> QED  BY <2>1, <3>1
  <2> QED  BY <2>1, <2>3, <2>4
<1> HIDE DEF p, l, N, M
<1>7. most = Len(l) /\ Len(l) \in Nat
  BY <1>1, <1>5
<1>8. Match(Len(l))
  <2> SUFFICES ASSUME NEW n \in 1..Len(l) PROVE MatchTurn(p[Len(p) - Len(l) + n], l[n])
    OBVIOUS
  <2>1. p[Len(p) - Len(l) + n] = l[n]
    BY <1>5, <1>6
  <2> QED  BY <2>1 DEF MatchTurn, Same
<1>9. matched = Len(l)
  <2> HIDE DEF most, Match
  <2>1. /\ Len(l) \in 0..most /\ Match(Len(l))
        /\ \A j \in Len(l) + 1 .. most : ~Match(j)
    BY <1>7, <1>8
  <2>2. matched \in 0..most /\ \A j \in matched + 1 .. most : ~Match(j)
    BY <2>1
  <2>3. ~(Len(l) \in matched + 1 .. most)
    BY <1>8, <2>2
  <2> QED  BY <1>7, <2>2, <2>3
<1>10. \/ mergePersistedAndLiveTurns(conv, live) = p
       \/ mergePersistedAndLiveTurns(conv, live) = p \o SubSeq(l, matched + 1, Len(l))
  BY <1>1, <1>3 DEF mergePersistedAndLiveTurns, p, l
<1> HIDE DEF matched
<1>11. SubSeq(l, matched + 1, Len(l)) = <<>>
  BY <1>7, <1>9, SubSeqEmpty
<1> QED  BY <1>5, <1>10, <1>11, ConcatEmptySeq DEF p

\* Bubbles in a row that end as the transcript ends are how it ends.
LEMMA LiveEndsTranscript ==
  ASSUME TypeParts, ConvOnce, LiveInRow, AnsweredAsSaved,
         NEW live \in Seq(Exchange(Shown)), live = chat.live, live # <<>>
  PROVE  \E d \in Nat : /\ Len(srv.conv) = d + Len(live)
                        /\ \A i \in 1..Len(live) : srv.conv[d + i] = live[i]
<1> DEFINE conv == srv.conv
           M == Len(live)
           N == Len(conv)
           Agrees(k) == N - k >= 1 /\ conv[N - k] = live[M - k]
           D == {k \in 0..M - 1 : ~Agrees(k)}
<1>1. conv \in Seq(Exchange(Saved)) /\ M \in Nat /\ M >= 1 /\ N \in Nat
  BY DEF TypeParts, ServerState
<1>2. live[M] = conv[N] /\ \A i \in 1..M : \E k \in 1..N : live[i] = conv[k]
  <2>1. Last(live) = Last(conv) /\ Rows(live) \subseteq Rows(conv)
    BY DEF AnsweredAsSaved
  <2> QED  BY <2>1 DEF Last, Rows
<1>3. N >= 1
  <2>1. 1 \in 1..M
    BY <1>1
  <2>2. PICK k \in 1..N : live[1] = conv[k]
    BY <1>2, <2>1
  <2> QED  BY <1>1, <2>2
<1>4. \A i \in 2..M : \A j \in 1..N :
        conv[j].m = live[i].m => j > 1 /\ conv[j - 1].m = live[i - 1].m
  BY DEF LiveInRow, Follows
<1>5. \A i, j \in 1..N : conv[i].m = conv[j].m => i = j
  BY DEF ConvOnce
<1> HIDE DEF conv, M, N
<1>6. Agrees(0)
  BY <1>1, <1>2, <1>3
<1>7. ASSUME NEW k \in 1..M - 1, Agrees(k - 1) PROVE Agrees(k)
  <2> DEFINE i == M - (k - 1)
             j == N - (k - 1)
  <2>1. /\ i \in 2..M /\ j \in 1..N /\ i - 1 \in 1..M
        /\ N - k = j - 1 /\ M - k = i - 1 /\ conv[j] = live[i] /\ i \in Int /\ j \in Int
    BY <1>1, <1>7
  <2> HIDE DEF i, j
  <2>2. j > 1 /\ conv[j - 1].m = live[i - 1].m
    BY <1>4, <2>1
  <2>3. PICK n \in 1..N : live[i - 1] = conv[n]
    BY <1>2, <2>1
  <2>4. j - 1 \in 1..N
    BY <1>1, <2>1, <2>2
  <2>5. n = j - 1
    BY <1>5, <2>2, <2>3, <2>4
  <2> QED  BY <2>1, <2>2, <2>3, <2>4, <2>5
<1>8. D = {}
  <2> SUFFICES ASSUME D # {} PROVE FALSE
    OBVIOUS
  <2>1. D \in SUBSET Nat
    BY <1>1
  <2>2. PICK k \in D : \A n \in D : k <= n
    <3> HIDE DEF D
    <3> QED  BY <2>1, LeastNumber
  <2> HIDE DEF Agrees
  <2>3. k \in 0..M - 1 /\ ~Agrees(k)
    BY <2>2
  <2>4. k # 0
    BY <1>6, <2>3
  <2>5. k \in 1..M - 1 /\ k - 1 \in 0..M - 1 /\ ~(k <= k - 1)
    BY <1>1, <2>3, <2>4
  <2>6. Agrees(k - 1)
    BY <2>2, <2>5
  <2> QED  BY <1>7, <2>3, <2>5, <2>6
<1>9. \A k \in 0..M - 1 : Agrees(k)
  <2> HIDE DEF Agrees
  <2> QED  BY <1>8
<1>10. N - M \in Nat /\ N = (N - M) + M
  <2>1. M - 1 \in 0..M - 1
    BY <1>1
  <2>2. N - (M - 1) >= 1
    BY <1>9, <2>1
  <2> QED  BY <1>1, <2>2
<1>11. ASSUME NEW i \in 1..M PROVE conv[(N - M) + i] = live[i]
  <2>1. M - i \in 0..M - 1 /\ N - (M - i) = (N - M) + i /\ M - (M - i) = i
    BY <1>1
  <2> QED  BY <1>9, <2>1
<1> QED  BY <1>10, <1>11 DEF conv, M, N

LEMMA ShownInvTranscript == TypeInv /\ ShownInv => TranscriptAgrees
<1> SUFFICES ASSUME TypeInv, ShownInv, ~upset, AnsweredAsSaved, run.conv = srv.conv
             PROVE  displayTurns = Turns(srv.conv)
  BY DEF TranscriptAgrees
<1> DEFINE conv == srv.conv
           live == chat.live
<1>1. /\ TypeParts /\ conv \in Seq(Exchange(Saved)) /\ live \in Seq(Exchange(Shown))
      /\ ConvOnce /\ LiveInRow
  BY TypePartsOK DEF TypeParts, ServerState, TypeInv, PageType, ChatOK, Chats,
                     ShownInv, SaidInv, LivePlaced
<1>2. displayTurns = mergePersistedAndLiveTurns(conv, live)
  BY DEF displayTurns
<1>3. CASE live = <<>>
  <2> HIDE DEF conv, live
  <2> QED  BY <1>1, <1>2, <1>3, NoBubblesShown DEF conv
<1>4. CASE live # <<>>
  <2>1. PICK d \in Nat : /\ Len(conv) = d + Len(live)
                         /\ \A i \in 1..Len(live) : conv[d + i] = live[i]
    BY <1>1, <1>4, LiveEndsTranscript
  <2> HIDE DEF conv, live
  <2>2. mergePersistedAndLiveTurns(conv, live) = Turns(conv)
    BY <1>1, <1>4, <2>1, SuffixShownOnce
  <2> QED  BY <1>2, <2>2 DEF conv
<1> QED  BY <1>3, <1>4

\* Once the page holds the transcript, the screen shows each exchange once and in
\* order, for any messages that do not say the same and any bounds, as long as
\* nobody retries: a retry pressed on a transcript that is out of date places the
\* bubble of an old message after newer ones.
THEOREM TranscriptShownOnce ==
  ASSUME DistinctTexts
  PROVE  Spec /\ [][~retryLastFailed]_vars => []TranscriptAgrees
<1>1. Inv /\ Inv' /\ ShownInv /\ [Next]_vars /\ [~retryLastFailed]_vars => ShownInv'
  BY ShownInvNext, ShownInvStays
<1>2. Inv => TypeInv
  BY DEF Inv
<1> QED  BY <1>1, <1>2, ShownInvInit, ShownInvTranscript, InvHolds, PTL DEF Spec
=============================================================================
