-------------------------- MODULE ReviewLedgerProofs --------------------------
(***************************************************************************)
(* The turn controller of ReviewSession implements TurnLedger: proofs that *)
(* a message is in one place at a time, and that every step of the         *)
(* controller is a step of the ledger or leaves it alone.                  *)
(***************************************************************************)
EXTENDS ReviewSessionProofs, FiniteSetTheorems, FunctionTheorems

USE SessionAssumption DEF Sessions

-----------------------------------------------------------------------------
(* The queue operators                                                     *)

\* A queue without repetition, and the messages in it.
LEMMA QueueView ==
    ASSUME NEW S, NEW q \in Seq(S)
    PROVE  /\ ToSet(q) = {q[j] : j \in 1..Len(q)}
           /\ IsInjective(q) <=> \A j, k \in 1..Len(q) : q[j] = q[k] => j = k
  <1>1. DOMAIN q = 1..Len(q)
    BY LenProperties
  <1> QED
    BY <1>1 DEF ToSet, IsInjective

LEMMA AppendPlaces ==
    ASSUME NEW S, NEW q \in Seq(S), NEW i \in S, IsInjective(q), i \notin ToSet(q)
    PROVE  IsInjective(Append(q, i)) /\ ToSet(Append(q, i)) = ToSet(q) \cup {i}
  <1> DEFINE r == Append(q, i)
  <1>1. /\ r \in Seq(S) /\ Len(r) = Len(q) + 1 /\ Len(q) \in Nat
        /\ \A j \in 1..Len(q) : r[j] = q[j]
        /\ r[Len(q) + 1] = i
    BY AppendProperties, LenProperties
  <1> HIDE DEF r
  <1>2. /\ ToSet(q) = {q[j] : j \in 1..Len(q)}
        /\ \A j, k \in 1..Len(q) : q[j] = q[k] => j = k
    BY QueueView
  <1>3. \A j \in 1..Len(r) : j \in 1..Len(q) \/ j = Len(q) + 1
    BY <1>1
  <1>4. \A j, k \in 1..Len(r) : r[j] = r[k] => j = k
    BY <1>1, <1>2, <1>3
  <1>5. {r[j] : j \in 1..Len(r)} = {q[j] : j \in 1..Len(q)} \cup {i}
    <2>1. \A j \in 1..Len(q) : j \in 1..Len(r)
      BY <1>1
    <2>2. Len(q) + 1 \in 1..Len(r)
      BY <1>1
    <2> QED
      BY <1>1, <1>3, <2>1, <2>2
  <1>6. IsInjective(r) /\ ToSet(r) = ToSet(q) \cup {i}
    BY <1>1, <1>2, <1>4, <1>5, QueueView
  <1> QED
    BY <1>6 DEF r

LEMMA TailPlaces ==
    ASSUME NEW S, NEW q \in Seq(S), q # <<>>, IsInjective(q)
    PROVE  /\ IsInjective(Tail(q)) /\ ToSet(Tail(q)) \subseteq ToSet(q)
           /\ Head(q) \in ToSet(q) /\ Head(q) \notin ToSet(Tail(q))
           /\ \A i \in ToSet(q) : i = Head(q) \/ i \in ToSet(Tail(q))
  <1> DEFINE r == Tail(q)
  <1>1. /\ r \in Seq(S) /\ Len(r) = Len(q) - 1 /\ Len(q) \in Nat \ {0}
        /\ \A j \in 1..Len(r) : r[j] = q[j + 1]
    BY HeadTailProperties, LenProperties, EmptySeq
  <1>2. Head(q) = q[1]
    OBVIOUS
  <1> HIDE DEF r
  <1>3. /\ ToSet(q) = {q[j] : j \in 1..Len(q)}
        /\ \A j, k \in 1..Len(q) : q[j] = q[k] => j = k
        /\ ToSet(r) = {r[j] : j \in 1..Len(r)}
    BY <1>1, QueueView
  <1>4. \A j \in 1..Len(r) : j + 1 \in 1..Len(q) /\ j + 1 # 1
    BY <1>1
  <1>5. 1 \in 1..Len(q)
    BY <1>1
  <1>6. \A j, k \in 1..Len(r) : r[j] = r[k] => j = k
    <2> SUFFICES ASSUME NEW j \in 1..Len(r), NEW k \in 1..Len(r), r[j] = r[k]
                 PROVE  j = k
      OBVIOUS
    <2>1. j + 1 = k + 1
      BY <1>1, <1>3, <1>4
    <2> QED
      BY <2>1
  <1>7. \A j \in 1..Len(q) : j = 1 \/ \E k \in 1..Len(r) : q[j] = r[k]
    <2> SUFFICES ASSUME NEW j \in 1..Len(q), j # 1 PROVE \E k \in 1..Len(r) : q[j] = r[k]
      OBVIOUS
    <2>1. j - 1 \in 1..Len(r) /\ (j - 1) + 1 = j
      BY <1>1
    <2> QED
      BY <1>1, <2>1
  <1>8. IsInjective(r)
    BY <1>1, <1>6, QueueView
  <1>9. \A j \in 1..Len(r) : r[j] \in ToSet(q) /\ r[j] # q[1]
    BY <1>1, <1>3, <1>4, <1>5
  <1>10. ToSet(r) \subseteq ToSet(q)
    BY <1>3, <1>9
  <1>11. q[1] \in ToSet(q) /\ q[1] \notin ToSet(r)
    BY <1>3, <1>5, <1>9
  <1>12. \A i \in ToSet(q) : i = q[1] \/ i \in ToSet(r)
    BY <1>3, <1>7
  <1> QED
    BY <1>2, <1>8, <1>10, <1>11, <1>12 DEF r

LEMMA WithoutPlaces ==
    ASSUME NEW S, NEW q \in Seq(S), NEW idx \in 1..Len(q), IsInjective(q)
    PROVE  /\ Without(q, idx) \in Seq(S)
           /\ IsInjective(Without(q, idx))
           /\ ToSet(Without(q, idx)) = ToSet(q) \ {q[idx]}
  <1> DEFINE front == SubSeq(q, 1, idx - 1)
             back  == SubSeq(q, idx + 1, Len(q))
             r     == front \o back
             n     == Len(q)
  <1>0. n \in Nat /\ \A j \in 1..n : q[j] \in S
    BY LenProperties
  <1>1. /\ front \in Seq(S) /\ Len(front) = idx - 1
        /\ \A j \in 1..(idx - 1) : front[j] = q[j]
    BY <1>0, SubSeqProperties
  <1>2. /\ back \in Seq(S) /\ Len(back) = n - idx
        /\ \A j \in 1..(n - idx) : back[j] = q[idx + j]
    BY <1>0, SubSeqProperties
  <1>3. Without(q, idx) = r
    BY DEF Without, RemoveAt
  <1> HIDE DEF front, back
  <1>4. /\ r \in Seq(S) /\ Len(r) = Len(front) + Len(back)
        /\ \A j \in 1..(Len(front) + Len(back)) :
              r[j] = IF j <= Len(front) THEN front[j] ELSE back[j - Len(front)]
    <2>1. front \in Seq(S) /\ back \in Seq(S)
      BY <1>1, <1>2
    <2>2. front \o back \in Seq(S) /\ Len(front \o back) = Len(front) + Len(back)
      BY <2>1, ConcatProperties
    <2>3. \A j \in 1..(Len(front) + Len(back)) :
             (front \o back)[j] = IF j <= Len(front) THEN front[j]
                                   ELSE back[j - Len(front)]
      BY <2>1, ConcatProperties
    <2> QED
      BY <2>2, <2>3
  <1> HIDE DEF r
  <1> DEFINE At(j) == IF j < idx THEN j ELSE j + 1
  <1>5. Len(r) = n - 1
    BY <1>0, <1>1, <1>2, <1>4
  <1>6. ASSUME NEW j \in 1..Len(r)
        PROVE  r[j] = q[At(j)] /\ At(j) \in 1..n /\ At(j) # idx
    <2>1. CASE j < idx
      <3>1. j \in 1..(idx - 1) /\ j <= Len(front) /\ j \in 1..(Len(front) + Len(back))
        BY <1>0, <1>1, <1>2, <1>5, <2>1
      <3>2. r[j] = q[j]
        BY <1>1, <1>4, <3>1
      <3> QED
        BY <1>0, <1>5, <2>1, <3>2
    <2>2. CASE ~(j < idx)
      <3>1. /\ ~(j <= Len(front)) /\ j \in 1..(Len(front) + Len(back))
            /\ j - Len(front) \in 1..(n - idx)
            /\ idx + (j - Len(front)) = j + 1
        BY <1>0, <1>1, <1>2, <1>5, <2>2
      <3>2. r[j] = back[j - Len(front)]
        BY <1>4, <3>1
      <3>3. back[j - Len(front)] = q[idx + (j - Len(front))]
        BY <1>2, <3>1
      <3>4. r[j] = q[j + 1]
        BY <3>1, <3>2, <3>3
      <3> QED
        BY <1>0, <1>5, <2>2, <3>4
    <2> QED
      BY <2>1, <2>2
  <1>7. \A j, k \in 1..Len(r) : At(j) = At(k) => j = k
    BY <1>0, <1>5
  <1>8. \A k \in 1..n : k # idx => \E j \in 1..Len(r) : At(j) = k
    <2> SUFFICES ASSUME NEW k \in 1..n, k # idx PROVE \E j \in 1..Len(r) : At(j) = k
      OBVIOUS
    <2>1. CASE k < idx
      <3>1. k \in 1..Len(r) /\ At(k) = k
        BY <1>0, <1>5, <2>1
      <3> QED
        BY <3>1
    <2>2. CASE k > idx
      <3>1. k - 1 \in 1..Len(r) /\ At(k - 1) = k
        BY <1>0, <1>5, <2>2
      <3> QED
        BY <3>1
    <2> QED
      BY <1>0, <2>1, <2>2
  <1> HIDE DEF At
  <1>9. /\ ToSet(q) = {q[j] : j \in 1..n}
        /\ \A j, k \in 1..n : q[j] = q[k] => j = k
        /\ ToSet(r) = {r[j] : j \in 1..Len(r)}
    BY <1>4, QueueView
  <1>10. \A j, k \in 1..Len(r) : r[j] = r[k] => j = k
    BY <1>6, <1>7, <1>9
  <1>11. IsInjective(r)
    BY <1>4, <1>10, QueueView
  <1>12. ToSet(r) = ToSet(q) \ {q[idx]}
    <2>1. \A j \in 1..Len(r) : r[j] \in ToSet(q) \ {q[idx]}
      BY <1>6, <1>9
    <2>2. \A k \in 1..n : q[k] # q[idx] => q[k] \in ToSet(r)
      BY <1>6, <1>8, <1>9
    <2> QED
      BY <1>9, <2>1, <2>2
  <1> QED
    BY <1>3, <1>4, <1>11, <1>12

\* A reorder list without repetition holds the same messages.
LEMMA ReorderPlaces ==
    ASSUME AnyOrder = FALSE, NEW S, NEW q \in Seq(S), IsInjective(q),
           NEW ids \in ReorderIds(q)
    PROVE  IsInjective(ids) /\ ToSet(ids) = ToSet(q)
  <1> DEFINE n == Len(q)
             T == ToSet(q)
  <1>0. n \in Nat
    BY LenProperties
  <1>1. /\ T = {q[j] : j \in 1..n}
        /\ \A j, k \in 1..n : q[j] = q[k] => j = k
        /\ q \in [1..n -> S]
    BY QueueView, LenProperties
  <1>2. /\ ids \in [1..n -> T]
        /\ \A j, k \in 1..n : ids[j] = ids[k] => j = k
    BY <1>1 DEF ReorderIds
  <1> HIDE DEF n, T
  <1>3. ids \in Seq(T) /\ Len(ids) = n
    BY <1>0, <1>2, LenProperties
  <1>4. q \in [1..n -> T]
    BY <1>1
  <1>5. q \in Bijection(1..n, T)
    <2>1. \A x \in T : \E j \in 1..n : q[j] = x
      BY <1>1
    <2> QED
      BY <1>1, <1>4, <2>1, Fun_IsBij, Zenon
  <1>6. IsFiniteSet(1..n) /\ Cardinality(1..n) = n
    BY <1>0, FS_Interval
  <1>7. IsFiniteSet(T) /\ Cardinality(T) = Cardinality(1..n)
    BY <1>5, <1>6, FS_Bijection, Zenon DEF ExistsBijection
  <1>8. ids \in Injection(1..n, T)
    BY <1>2, Fun_IsInj, Zenon
  <1>9. ids \in Surjection(1..n, T)
    <2>1. Cardinality(1..n) = Cardinality(T) <=> ids \in Surjection(1..n, T)
      BY <1>7, <1>8, FS_Injection, Zenon
    <2> QED
      BY <1>7, <2>1, Zenon
  <1>10. \A x \in T : \E j \in 1..n : ids[j] = x
    BY <1>9, Zenon DEF Surjection
  <1>11. ToSet(ids) = {ids[j] : j \in 1..n}
         /\ IsInjective(ids)
    BY <1>2, <1>3, QueueView
  <1>12. ToSet(ids) = T
    BY <1>2, <1>10, <1>11
  <1> QED
    BY <1>11, <1>12 DEF T

-----------------------------------------------------------------------------
(* A message is in one place at a time                                     *)

Waits(s) == ToSet(sess[s].queue)
Busy(p) == pump[p].pc \in {"exec", "turn"}
ActiveOf(p) == sess[pump[p].s].active

\* A message is "queued" exactly while it is in a queue, once in one queue;
\* a goroutine that works on a message works on an "active" one of its own.
QueuesPlaced ==
    /\ \A s \in Sessions : IsInjective(sess[s].queue)
    /\ \A s, t \in Sessions : s # t => Waits(s) \cap Waits(t) = {}
    /\ \A s \in Sessions : \A i \in Waits(s) : item[i].st = "queued"
    /\ \A i \in Items : item[i].st = "queued" => \E s \in Sessions : i \in Waits(s)

ActivesPlaced ==
    /\ \A p \in Pumps : Busy(p) =>
          ActiveOf(p) \in Items /\ item[ActiveOf(p)].st = "active"
    /\ \A p, q \in Pumps :
          Busy(p) /\ Busy(q) /\ ActiveOf(p) = ActiveOf(q) => p = q

Placement == QueuesPlaced /\ ActivesPlaced

LEMMA PlacementInit == Init => Placement
  <1> SUFFICES ASSUME Init PROVE Placement
    OBVIOUS
  <1>1. \A s \in Sessions : sess[s].queue = <<>>
    BY DEF Init, NewSession
  <1>2. IsInjective(<<>>) /\ ToSet(<<>>) = {}
    BY DEF IsInjective, ToSet
  <1>3. (\A i \in Items : item[i].st = "new") /\ (\A p \in Pumps : pump[p].pc = "none")
    BY DEF Init
  <1> QED
    BY <1>1, <1>2, <1>3 DEF Placement, QueuesPlaced, ActivesPlaced, Waits, Busy

\* A step after which every queue holds a part of what it held.
LEMMA QueuesKept ==
    ASSUME QueuesPlaced,
           \A s \in Sessions :
              /\ IsInjective(sess'[s].queue)
              /\ ToSet(sess'[s].queue) \subseteq Waits(s)
              /\ \A i \in Waits(s) :
                    i \in ToSet(sess'[s].queue) <=> item'[i].st = "queued",
           \A i \in Items : item'[i].st = "queued" => item[i].st = "queued"
    PROVE  QueuesPlaced'
  <1> DEFINE W(s) == ToSet(sess'[s].queue)
  <1>0. \A s : Waits(s)' = W(s)
    BY DEF Waits
  <1>1. /\ \A s \in Sessions : IsInjective(sess'[s].queue)
        /\ \A s \in Sessions : W(s) \subseteq Waits(s)
        /\ \A s \in Sessions : \A i \in Waits(s) : i \in W(s) <=> item'[i].st = "queued"
    OBVIOUS
  <1> HIDE DEF W
  <1>2. \A s, t \in Sessions : s # t => W(s) \cap W(t) = {}
    BY <1>1 DEF QueuesPlaced
  <1>3. \A s \in Sessions : \A i \in W(s) : item'[i].st = "queued"
    BY <1>1
  <1>4. \A i \in Items : item'[i].st = "queued" => \E s \in Sessions : i \in W(s)
    BY <1>1 DEF QueuesPlaced
  <1> QED
    BY <1>0, <1>1, <1>2, <1>3, <1>4 DEF QueuesPlaced

\* A step in which no goroutine takes a message up.
LEMMA ActivesKept ==
    ASSUME ActivesPlaced,
           \A p \in Pumps : Busy(p)' =>
              /\ Busy(p)
              /\ ActiveOf(p)' = ActiveOf(p)
              /\ item'[ActiveOf(p)].st = item[ActiveOf(p)].st
    PROVE  ActivesPlaced'
  <1>1. \A p \in Pumps : Busy(p)' =>
          ActiveOf(p)' \in Items /\ item'[ActiveOf(p)'].st = "active"
    BY DEF ActivesPlaced
  <1>2. \A p, q \in Pumps :
          Busy(p)' /\ Busy(q)' /\ ActiveOf(p)' = ActiveOf(q)' => p = q
    BY DEF ActivesPlaced
  <1> QED
    BY <1>1, <1>2 DEF ActivesPlaced

\* A step that touches neither the queues nor the messages in them.
LEMMA QueuesQuiet ==
    ASSUME QueuesPlaced,
           \A s \in Sessions : sess'[s].queue = sess[s].queue,
           \A i \in Items : item'[i].st = "queued" <=> item[i].st = "queued",
           TypeOK
    PROVE  QueuesPlaced'
  <1>1. \A s \in Sessions : Waits(s) \subseteq Items
    BY SessionParts, QueueView, LenProperties DEF Waits
  <1>2. \A s \in Sessions : ToSet(sess'[s].queue) = Waits(s)
    BY DEF Waits
  <1> QED
    BY <1>1, <1>2, QueuesKept DEF QueuesPlaced

LEMMA PlacementEnqueue ==
    ASSUME TypeOK, Placement, NEW i \in Items, Enqueue(i)
    PROVE  Placement'
  <1> DEFINE t == item[i].s
             q == Append(sess[t].queue, i)
             n == sess[t].waiting + 1
  <1>0. /\ sess \in [Sessions -> Session]
        /\ item \in [Items -> [st : ItemState, s : 0..MaxSessions]]
        /\ pump \in [Pumps -> [pc : PumpState, s : 0..MaxSessions]]
    BY DEF TypeOK
  <1>1. t \in Sessions /\ item[i].st = "lock"
    BY SessionOf DEF Enqueue
  <1>2. sess' = [sess EXCEPT ![t].queue = q, ![t].waiting = n, ![t].pumping = TRUE]
    BY DEF Enqueue
  <1>3. /\ item'[i].st = "queued"
        /\ \A j \in Items \ {i} : item'[j] = item[j]
    BY <1>0 DEF Enqueue, SetItem
  <1>4. \/ pump' = pump
        \/ \E p \in Pumps : pump' = [pump EXCEPT ![p] = [pc |-> "loop", s |-> t]]
    BY DEF Enqueue
  <1>5. \A s \in Sessions : i \notin Waits(s)
    BY <1>1 DEF Placement, QueuesPlaced
  <1>6. sess[t].queue \in Seq(Items)
    BY <1>1, SessionParts, Zenon
  <1>7. IsInjective(q) /\ ToSet(q) = Waits(t) \cup {i}
    BY <1>1, <1>5, <1>6, AppendPlaces DEF Waits, Placement, QueuesPlaced
  <1> HIDE DEF t, q, n
  <1>8. sess[t] \in Session
    BY <1>0, <1>1
  <1>9. /\ sess'[t].queue = q
        /\ \A u \in Sessions \ {t} : sess'[u] = sess[u]
        /\ \A u \in Sessions : sess'[u].active = sess[u].active
    BY <1>0, <1>1, <1>2, <1>8 DEF Session
  <1>10. QueuesPlaced'
    <2> DEFINE W(s) == ToSet(sess'[s].queue)
    <2>0. \A s : Waits(s)' = W(s)
      BY DEF Waits
    <2>1. /\ W(t) = Waits(t) \cup {i}
          /\ \A u \in Sessions \ {t} : W(u) = Waits(u)
      BY <1>7, <1>9 DEF Waits
    <2>2. \A s \in Sessions : IsInjective(sess'[s].queue)
      BY <1>7, <1>9 DEF Placement, QueuesPlaced
    <2> HIDE DEF W
    <2>3. \A s, u \in Sessions : s # u => W(s) \cap W(u) = {}
      BY <1>5, <2>1 DEF Placement, QueuesPlaced
    <2>4. \A s \in Sessions : \A j \in W(s) : item'[j].st = "queued"
      <3>1. \A s \in Sessions : Waits(s) \subseteq Items
        BY SessionParts, QueueView, LenProperties DEF Waits
      <3> QED
        BY <1>3, <1>5, <2>1, <3>1 DEF Placement, QueuesPlaced
    <2>5. \A j \in Items : item'[j].st = "queued" => \E s \in Sessions : j \in W(s)
      BY <1>1, <1>3, <2>1 DEF Placement, QueuesPlaced
    <2> QED
      BY <2>0, <2>2, <2>3, <2>4, <2>5 DEF QueuesPlaced
  <1>11. ActivesPlaced'
    <2>1. \A p \in Pumps : Busy(p)' => Busy(p) /\ pump'[p].s = pump[p].s
      <3>1. CASE pump' = pump
        BY <3>1 DEF Busy
      <3>2. ASSUME NEW r \in Pumps, pump' = [pump EXCEPT ![r] = [pc |-> "loop", s |-> t]]
            PROVE  \A p \in Pumps : Busy(p)' => Busy(p) /\ pump'[p].s = pump[p].s
        <4>1. pump'[r].pc = "loop" /\ \A p \in Pumps \ {r} : pump'[p] = pump[p]
          BY <1>0, <3>2
        <4> QED
          BY <4>1 DEF Busy
      <3> QED
        BY <1>4, <3>1, <3>2
    <2>2. \A p \in Pumps : Busy(p) => pump[p].s \in Sessions
      BY SessionOf DEF Busy
    <2>3. \A p \in Pumps : Busy(p)' => ActiveOf(p)' = ActiveOf(p)
      BY <1>9, <2>1, <2>2 DEF ActiveOf
    <2>4. \A p \in Pumps : Busy(p) => ActiveOf(p) \in Items \ {i}
      BY <1>1 DEF Placement, ActivesPlaced
    <2> QED
      BY <1>3, <2>1, <2>3, <2>4, ActivesKept DEF Placement
  <1> QED
    BY <1>10, <1>11 DEF Placement

LEMMA PlacementDequeue ==
    ASSUME TypeOK, Wake, Placement, NEW p \in Pumps, Dequeue(p)
    PROVE  Placement'
  <1> DEFINE t == pump[p].s
             i == Head(sess[t].queue)
             q == Tail(sess[t].queue)
             n == OneLess(sess[t].waiting)
  <1>0. /\ sess \in [Sessions -> Session]
        /\ item \in [Items -> [st : ItemState, s : 0..MaxSessions]]
        /\ pump \in [Pumps -> [pc : PumpState, s : 0..MaxSessions]]
    BY DEF TypeOK
  <1>1. t \in Sessions /\ sess[t].queue # <<>> /\ pump[p].pc = "loop"
    BY SessionOf DEF Dequeue
  <1>2. sess' = [sess EXCEPT ![t].queue = q, ![t].waiting = n, ![t].active = i,
                             ![t].cancelRequested = FALSE]
    BY DEF Dequeue
  <1>3. sess[t].queue \in Seq(Items)
    BY <1>1, SessionParts, Zenon
  <1>4. i \in Items
    BY <1>1, <1>3, HeadTailProperties
  <1>5. /\ item'[i].st = "active"
        /\ \A j \in Items \ {i} : item'[j] = item[j]
    <2>1. item' = [item EXCEPT ![i].st = "active"]
      BY DEF Dequeue, SetItem
    <2> HIDE DEF i
    <2> QED
      BY <1>0, <1>4, <2>1
  <1>6. /\ pump'[p].pc = "exec" /\ pump'[p].s = t
        /\ \A r \in Pumps \ {p} : pump'[r] = pump[r]
    BY <1>0 DEF Dequeue, Goto
  <1>7. /\ IsInjective(q) /\ ToSet(q) \subseteq Waits(t)
        /\ i \in Waits(t) /\ i \notin ToSet(q)
        /\ \A j \in Waits(t) : j = i \/ j \in ToSet(q)
    BY <1>1, <1>3, TailPlaces DEF Waits, Placement, QueuesPlaced
  <1>8. Draining(p, t)
    BY <1>1 DEF Draining
  <1> HIDE DEF t, q, n, i
  <1>9. sess[t] \in Session
    BY <1>0, <1>1
  <1>10. /\ sess'[t].queue = q /\ sess'[t].active = i
         /\ \A u \in Sessions \ {t} : sess'[u] = sess[u]
    BY <1>0, <1>1, <1>2, <1>9 DEF Session
  <1>11. item[i].st = "queued"
    BY <1>1, <1>7 DEF Placement, QueuesPlaced
  <1>12. QueuesPlaced'
    <2>1. \A s \in Sessions : Waits(s) \subseteq Items
      BY SessionParts, QueueView, LenProperties DEF Waits
    <2>2. \A u \in Sessions \ {t} : i \notin Waits(u) /\ ToSet(sess'[u].queue) = Waits(u)
      BY <1>1, <1>7, <1>10 DEF Placement, QueuesPlaced, Waits
    <2>3. \A u \in Sessions : IsInjective(sess'[u].queue)
      BY <1>7, <1>10 DEF Placement, QueuesPlaced
    <2>4. \A u \in Sessions : \A j \in Waits(u) : item[j].st = "queued"
      BY DEF Placement, QueuesPlaced
    <2>5. \A u \in Sessions : ToSet(sess'[u].queue) \subseteq Waits(u)
      BY <1>7, <1>10, <2>2
    <2>6. \A u \in Sessions : \A j \in Waits(u) :
             j \in ToSet(sess'[u].queue) <=> item'[j].st = "queued"
      BY <1>4, <1>5, <1>7, <1>10, <2>1, <2>2, <2>4
    <2>7. \A j \in Items : item'[j].st = "queued" => item[j].st = "queued"
      BY <1>5
    <2> QED
      BY <2>3, <2>5, <2>6, <2>7, QueuesKept DEF Placement
  \* The other goroutines work on other sessions, and not on i.
  <1>13. \A r \in Pumps \ {p} : Busy(r)' =>
            /\ Busy(r)
            /\ ActiveOf(r)' = ActiveOf(r)
            /\ ActiveOf(r) \in Items \ {i}
    <2> SUFFICES ASSUME NEW r \in Pumps \ {p}, Busy(r)'
                 PROVE  /\ Busy(r)
                        /\ ActiveOf(r)' = ActiveOf(r)
                        /\ ActiveOf(r) \in Items \ {i}
      OBVIOUS
    <2>1. Busy(r) /\ pump'[r].s = pump[r].s
      BY <1>6 DEF Busy
    <2>2. pump[r].s \in Sessions
      BY <2>1, SessionOf DEF Busy
    <2>3. Draining(r, pump[r].s)
      BY <2>1 DEF Busy, Draining
    <2>4. pump[r].s # t
      BY <1>1, <1>8, <2>3 DEF Wake, SinglePump
    <2>5. ActiveOf(r)' = ActiveOf(r)
      BY <1>10, <2>1, <2>2, <2>4 DEF ActiveOf
    <2>6. ActiveOf(r) \in Items \ {i}
      BY <1>11, <2>1 DEF Placement, ActivesPlaced
    <2> QED
      BY <2>1, <2>5, <2>6
  <1>14. ActiveOf(p)' = i
    BY <1>6, <1>10 DEF ActiveOf
  <1>15. ActivesPlaced'
    <2>1. \A r \in Pumps : Busy(r)' =>
             ActiveOf(r)' \in Items /\ item'[ActiveOf(r)'].st = "active"
      BY <1>4, <1>5, <1>13, <1>14 DEF Placement, ActivesPlaced
    <2>2. \A r, u \in Pumps :
             Busy(r)' /\ Busy(u)' /\ ActiveOf(r)' = ActiveOf(u)' => r = u
      BY <1>13, <1>14 DEF Placement, ActivesPlaced
    <2> QED
      BY <2>1, <2>2 DEF ActivesPlaced
  <1> QED
    BY <1>12, <1>15 DEF Placement

\* A step of one goroutine that leaves the messages and the queues alone.
LEMMA PlacementPump ==
    ASSUME TypeOK, Wake, Placement, NEW p \in Pumps,
           item' = item,
           \A s \in Sessions : sess'[s].queue = sess[s].queue,
           \A s \in Sessions : s # pump[p].s => sess'[s].active = sess[s].active,
           \A r \in Pumps \ {p} : pump'[r] = pump[r],
           \/ pump[p].pc \in Drains
           \/ \A s \in Sessions : sess'[s].active = sess[s].active,
           Busy(p)' => Busy(p) /\ pump'[p].s = pump[p].s /\ sess' = sess
    PROVE  Placement'
  <1>1. QueuesPlaced'
    BY QueuesQuiet DEF Placement
  <1>2. \A r \in Pumps : Busy(r)' => Busy(r) /\ ActiveOf(r)' = ActiveOf(r)
    <2> SUFFICES ASSUME NEW r \in Pumps, Busy(r)'
                 PROVE  Busy(r) /\ ActiveOf(r)' = ActiveOf(r)
      OBVIOUS
    <2>1. CASE r = p
      BY <2>1 DEF ActiveOf
    <2>2. CASE r # p
      <3>1. Busy(r) /\ pump'[r].s = pump[r].s
        BY <2>2 DEF Busy
      <3>2. pump[r].s \in Sessions
        BY <3>1, SessionOf DEF Busy
      <3>3. CASE \A s \in Sessions : sess'[s].active = sess[s].active
        BY <3>1, <3>2, <3>3 DEF ActiveOf
      <3>4. CASE pump[p].pc \in Drains
        <4>1. Draining(r, pump[r].s) /\ Draining(p, pump[p].s)
          BY <3>1, <3>4 DEF Busy, Draining, Drains
        <4>2. pump[r].s # pump[p].s
          BY <2>2, <3>2, <4>1 DEF Wake, SinglePump
        <4> QED
          BY <3>1, <3>2, <4>2 DEF ActiveOf
      <3> QED
        BY <3>1, <3>3, <3>4
    <2> QED
      BY <2>1, <2>2
  <1>3. ActivesPlaced'
    BY <1>2, ActivesKept DEF Placement
  <1> QED
    BY <1>1, <1>3 DEF Placement

\* The end of a turn: the message leaves the goroutine that worked on it.
LEMMA PlacementSettled ==
    ASSUME TypeOK, Placement, NEW p \in Pumps, NEW st \in {"failed", "ended"},
           Busy(p), sess' = sess, Goto(p, "ending"), SetItem(ActiveOf(p), st)
    PROVE  Placement'
  <1> DEFINE i == ActiveOf(p)
  <1>0. /\ item \in [Items -> [st : ItemState, s : 0..MaxSessions]]
        /\ pump \in [Pumps -> [pc : PumpState, s : 0..MaxSessions]]
    BY DEF TypeOK
  <1>1. i \in Items /\ item[i].st = "active"
    BY DEF Placement, ActivesPlaced
  <1>2. item' = [item EXCEPT ![i].st = st]
    BY DEF SetItem
  <1>3. pump'[p].pc = "ending" /\ \A r \in Pumps \ {p} : pump'[r] = pump[r]
    BY <1>0 DEF Goto
  <1>4. \A r \in Pumps : ActiveOf(r) = i /\ Busy(r) => r = p
    BY DEF Placement, ActivesPlaced
  <1> HIDE DEF i
  <1>5. item'[i].st = st /\ \A j \in Items \ {i} : item'[j] = item[j]
    BY <1>0, <1>1, <1>2
  <1>6. QueuesPlaced'
    BY <1>1, <1>5, QueuesQuiet DEF Placement
  <1>7. \A r \in Pumps : Busy(r)' => Busy(r) /\ r # p /\ ActiveOf(r)' = ActiveOf(r)
    BY <1>3 DEF Busy, ActiveOf
  <1>8. \A r \in Pumps : Busy(r)' => item'[ActiveOf(r)].st = item[ActiveOf(r)].st
    BY <1>4, <1>5, <1>7 DEF Placement, ActivesPlaced
  <1>9. ActivesPlaced'
    BY <1>7, <1>8, ActivesKept DEF Placement
  <1> QED
    BY <1>6, <1>9 DEF Placement

\* A request that moves a message which is in no queue and no goroutine.
LEMMA PlacementRequest ==
    ASSUME TypeOK, Placement, sess' = sess, pump' = pump, NEW i \in Items,
           item[i].st \notin {"queued", "active"},
           NEW x, item' = [item EXCEPT ![i] = x], x.st # "queued"
    PROVE  Placement'
  <1>0. item \in [Items -> [st : ItemState, s : 0..MaxSessions]]
    BY DEF TypeOK
  <1>1. item'[i].st # "queued" /\ \A j \in Items \ {i} : item'[j] = item[j]
    BY <1>0
  <1>2. QueuesPlaced'
    BY <1>1, QueuesQuiet DEF Placement
  <1>3. \A p \in Pumps : /\ Busy(p)' <=> Busy(p)
                         /\ ActiveOf(p)' = ActiveOf(p)
    BY DEF Busy, ActiveOf
  <1>4. \A p \in Pumps : Busy(p) => ActiveOf(p) \in Items \ {i}
    BY DEF Placement, ActivesPlaced
  <1>5. ActivesPlaced'
    BY <1>1, <1>3, <1>4, ActivesKept DEF Placement
  <1> QED
    BY <1>2, <1>5 DEF Placement

LEMMA PlacementRemove ==
    ASSUME TypeOK, Placement, NEW i \in Items, RemoveQueuedItem(i)
    PROVE  Placement'
  <1>0. /\ sess \in [Sessions -> Session]
        /\ item \in [Items -> [st : ItemState, s : 0..MaxSessions]]
    BY DEF TypeOK
  <1>1. reg \in Sessions /\ pump' = pump /\ SetItem(i, "removed")
    BY SessionOf DEF RemoveQueuedItem
  <1>2. PICK idx \in 1..Len(sess[reg].queue) :
          /\ sess[reg].queue[idx] = i
          /\ sess' = [sess EXCEPT ![reg].queue = Without(@, idx),
                                  ![reg].waiting = OneLess(@)]
    BY DEF RemoveQueuedItem
  <1> DEFINE q == Without(sess[reg].queue, idx)
             n == OneLess(sess[reg].waiting)
  <1>3. sess' = [sess EXCEPT ![reg].queue = q, ![reg].waiting = n]
    BY <1>2
  <1>4. sess[reg].queue \in Seq(Items) /\ sess[reg] \in Session
    BY <1>1, SessionParts, Zenon
  <1>5. IsInjective(sess[reg].queue)
    BY <1>1 DEF Placement, QueuesPlaced
  <1>6. IsInjective(q) /\ ToSet(q) = Waits(reg) \ {i}
    BY <1>2, <1>4, <1>5, WithoutPlaces, Zenon DEF Waits
  <1>7. i \in Waits(reg)
    BY <1>2, <1>4, QueueView DEF Waits
  <1> HIDE DEF q, n
  <1>8. /\ sess'[reg].queue = q
        /\ \A u \in Sessions \ {reg} : sess'[u] = sess[u]
        /\ \A u \in Sessions : sess'[u].active = sess[u].active
    BY <1>0, <1>1, <1>3, <1>4 DEF Session
  <1>9. item'[i].st = "removed" /\ \A j \in Items \ {i} : item'[j] = item[j]
    BY <1>0, <1>1 DEF SetItem
  <1>10. item[i].st = "queued"
    BY <1>1, <1>7 DEF Placement, QueuesPlaced
  <1>11. QueuesPlaced'
    <2>1. \A s \in Sessions : Waits(s) \subseteq Items
      BY SessionParts, QueueView, LenProperties DEF Waits
    <2>2. \A u \in Sessions \ {reg} : i \notin Waits(u) /\ ToSet(sess'[u].queue) = Waits(u)
      BY <1>1, <1>7, <1>8 DEF Placement, QueuesPlaced, Waits
    <2>3. \A u \in Sessions : IsInjective(sess'[u].queue)
      BY <1>6, <1>8 DEF Placement, QueuesPlaced
    <2>4. \A u \in Sessions : \A j \in Waits(u) : item[j].st = "queued"
      BY DEF Placement, QueuesPlaced
    <2>5. \A u \in Sessions : ToSet(sess'[u].queue) \subseteq Waits(u)
      BY <1>6, <1>8, <2>2
    <2>6. \A u \in Sessions : \A j \in Waits(u) :
             j \in ToSet(sess'[u].queue) <=> item'[j].st = "queued"
      BY <1>6, <1>8, <1>9, <2>1, <2>2, <2>4
    <2>7. \A j \in Items : item'[j].st = "queued" => item[j].st = "queued"
      BY <1>9
    <2> QED
      BY <2>3, <2>5, <2>6, <2>7, QueuesKept DEF Placement
  <1>12. ActivesPlaced'
    <2>1. \A p \in Pumps : Busy(p) => pump[p].s \in Sessions
      BY SessionOf DEF Busy
    <2>2. \A p \in Pumps : Busy(p)' => Busy(p) /\ ActiveOf(p)' = ActiveOf(p)
      BY <1>1, <1>8, <2>1 DEF Busy, ActiveOf
    <2>3. \A p \in Pumps : Busy(p) => ActiveOf(p) \in Items \ {i}
      BY <1>10 DEF Placement, ActivesPlaced
    <2> QED
      BY <1>9, <2>2, <2>3, ActivesKept DEF Placement
  <1> QED
    BY <1>11, <1>12 DEF Placement

LEMMA PlacementReorder ==
    ASSUME AnyOrder = FALSE, TypeOK, Placement, ReorderQueuedItems
    PROVE  Placement'
  <1>0. sess \in [Sessions -> Session]
    BY DEF TypeOK
  <1>1. reg \in Sessions /\ pump' = pump /\ item' = item
    BY SessionOf DEF ReorderQueuedItems
  <1>2. PICK ids \in ReorderIds(sess[reg].queue) :
          sess' = [sess EXCEPT ![reg].queue = ids]
    BY DEF ReorderQueuedItems
  <1>3. sess[reg].queue \in Seq(Items) /\ sess[reg] \in Session
    BY <1>1, SessionParts, Zenon
  <1>4. IsInjective(sess[reg].queue)
    BY <1>1 DEF Placement, QueuesPlaced
  <1>5. IsInjective(ids) /\ ToSet(ids) = Waits(reg)
    BY <1>2, <1>3, <1>4, ReorderPlaces, Zenon DEF Waits
  <1>6. /\ sess'[reg].queue = ids
        /\ \A u \in Sessions \ {reg} : sess'[u] = sess[u]
        /\ \A u \in Sessions : sess'[u].active = sess[u].active
    BY <1>0, <1>1, <1>2, <1>3 DEF Session
  <1>7. \A u \in Sessions : /\ IsInjective(sess'[u].queue)
                            /\ ToSet(sess'[u].queue) = Waits(u)
    BY <1>5, <1>6 DEF Placement, QueuesPlaced, Waits
  <1>8. QueuesPlaced'
    BY <1>1, <1>7, QueuesKept DEF Placement, QueuesPlaced
  <1>9. ActivesPlaced'
    <2>1. \A p \in Pumps : Busy(p) => pump[p].s \in Sessions
      BY SessionOf DEF Busy
    <2>2. \A p \in Pumps : Busy(p)' => Busy(p) /\ ActiveOf(p)' = ActiveOf(p)
      BY <1>1, <1>6, <2>1 DEF Busy, ActiveOf
    <2> QED
      BY <1>1, <2>2, ActivesKept DEF Placement
  <1> QED
    BY <1>8, <1>9 DEF Placement

LEMMA PlacementCancel ==
    ASSUME TypeOK, Placement, NEW k \in Cancels, CancelMark(k)
    PROVE  Placement'
  <1> DEFINE t == cancel[k].s
  <1>0. /\ sess \in [Sessions -> Session]
        /\ item \in [Items -> [st : ItemState, s : 0..MaxSessions]]
    BY DEF TypeOK
  <1>1. t \in Sessions /\ pump' = pump
    BY SessionOf DEF CancelMark
  <1>2. sess[t].queue \in Seq(Items) /\ sess[t] \in Session
    BY <1>1, SessionParts, Zenon
  <1>3. Waits(t) = {sess[t].queue[j] : j \in 1..Len(sess[t].queue)}
    BY <1>2, QueueView DEF Waits
  <1>4. CASE Kind = "review"
    <2> DEFINE x == Swept(sess[t])
    <2>1. sess' = [sess EXCEPT ![t] = x]
      BY <1>4 DEF CancelMark
    <2>2. item' = [i \in Items |-> IF i \in Waits(t)
                                   THEN [item[i] EXCEPT !.st = "cleared"] ELSE item[i]]
      BY <1>3, <1>4 DEF CancelMark
    <2>3. x.queue = <<>> /\ x.active = sess[t].active
      BY <1>2 DEF Swept, Session
    <2> HIDE DEF x, t
    <2>4. /\ sess'[t].queue = <<>>
          /\ \A u \in Sessions \ {t} : sess'[u] = sess[u]
          /\ \A u \in Sessions : sess'[u].active = sess[u].active
      BY <1>0, <1>1, <2>1, <2>3
    <2>5. /\ \A i \in Items : i \in Waits(t) => item'[i].st = "cleared"
          /\ \A i \in Items : i \notin Waits(t) => item'[i] = item[i]
      <3> SUFFICES ASSUME NEW i \in Items
                   PROVE  /\ i \in Waits(t) => item'[i].st = "cleared"
                          /\ i \notin Waits(t) => item'[i] = item[i]
        OBVIOUS
      <3>1. item[i] \in [st : ItemState, s : 0..MaxSessions]
        BY <1>0
      <3> QED
        BY <2>2, <3>1
    <2>6. IsInjective(<<>>) /\ ToSet(<<>>) = {}
      BY DEF IsInjective, ToSet
    <2>7. \A s \in Sessions : Waits(s) \subseteq Items
      BY SessionParts, QueueView, LenProperties DEF Waits
    <2>8. QueuesPlaced'
      <3>1. \A u \in Sessions \ {t} :
               Waits(u) \cap Waits(t) = {} /\ ToSet(sess'[u].queue) = Waits(u)
        BY <1>1, <2>4 DEF Placement, QueuesPlaced, Waits
      <3>2. \A u \in Sessions : IsInjective(sess'[u].queue)
        BY <2>4, <2>6 DEF Placement, QueuesPlaced
      <3>3. \A u \in Sessions : \A j \in Waits(u) : item[j].st = "queued"
        BY DEF Placement, QueuesPlaced
      <3>4. \A u \in Sessions : ToSet(sess'[u].queue) \subseteq Waits(u)
        BY <2>4, <2>6, <3>1
      <3>5. \A u \in Sessions : \A j \in Waits(u) :
               j \in ToSet(sess'[u].queue) <=> item'[j].st = "queued"
        <4>1. \A j \in Waits(t) : item'[j].st # "queued" /\ j \notin ToSet(sess'[t].queue)
          BY <1>1, <2>4, <2>5, <2>6, <2>7
        <4>2. \A u \in Sessions \ {t} : \A j \in Waits(u) :
                 item'[j].st = "queued" /\ j \in ToSet(sess'[u].queue)
          BY <2>5, <2>7, <3>1, <3>3
        <4> QED
          BY <4>1, <4>2
      <3>6. \A j \in Items : item'[j].st = "queued" => item[j].st = "queued"
        BY <2>5
      <3> QED
        BY <3>2, <3>4, <3>5, <3>6, QueuesKept DEF Placement
    <2>9. ActivesPlaced'
      <3>1. \A p \in Pumps : Busy(p) => pump[p].s \in Sessions
        BY SessionOf DEF Busy
      <3>2. \A p \in Pumps : Busy(p)' => Busy(p) /\ ActiveOf(p)' = ActiveOf(p)
        BY <1>1, <2>4, <3>1 DEF Busy, ActiveOf
      <3>3. \A p \in Pumps : Busy(p) => ActiveOf(p) \in Items /\ ActiveOf(p) \notin Waits(t)
        BY <1>1 DEF Placement, ActivesPlaced, QueuesPlaced
      <3> QED
        BY <2>5, <3>2, <3>3, ActivesKept DEF Placement
    <2> QED
      BY <2>8, <2>9 DEF Placement
  <1>5. CASE Kind # "review"
    <2>1. sess' = [sess EXCEPT ![t].cancelRequested = TRUE] /\ item' = item
      BY <1>5 DEF CancelMark
    <2> HIDE DEF t
    <2>2. \A u \in Sessions : sess'[u].queue = sess[u].queue /\ sess'[u].active = sess[u].active
      BY <1>0, <1>1, <1>2, <2>1 DEF Session
    <2>3. QueuesPlaced'
      BY <2>1, <2>2, QueuesQuiet DEF Placement
    <2>4. \A p \in Pumps : Busy(p) => pump[p].s \in Sessions
      BY SessionOf DEF Busy
    <2>5. \A p \in Pumps : Busy(p)' => Busy(p) /\ ActiveOf(p)' = ActiveOf(p)
      BY <1>1, <2>2, <2>4 DEF Busy, ActiveOf
    <2>6. ActivesPlaced'
      BY <2>1, <2>5, ActivesKept DEF Placement
    <2> QED
      BY <2>3, <2>6 DEF Placement
  <1> QED
    BY <1>4, <1>5

\* The steps of a goroutine that leave the messages alone.
LEMMA PlacementPumps ==
    ASSUME TypeOK, Wake, Placement, NEW p \in Pumps,
           \/ Drained(p) \/ TurnBegin(p) \/ EndTurn(p) \/ Exit(p) \/ Drop(p)
           \/ Restart(p)
    PROVE  Placement'
  <1> DEFINE t == pump[p].s
  <1>0. /\ sess \in [Sessions -> Session]
        /\ pump \in [Pumps -> [pc : PumpState, s : 0..MaxSessions]]
    BY DEF TypeOK
  <1>1. t \in Sessions /\ sess[t] \in Session
    <2>1. pump[p].pc # "none"
      BY DEF Drained, TurnBegin, EndTurn, Exit, Drop, Restart
    <2> QED
      BY <1>0, <2>1, SessionOf
  <1>2. item' = item
    BY DEF Drained, TurnBegin, EndTurn, Exit, Drop, Restart
  <1>3. \/ \E l \in PumpState \ {"exec", "turn"} : pump' = [pump EXCEPT ![p].pc = l]
        \/ pump' = [pump EXCEPT ![p] = [pc |-> "none", s |-> 0]]
        \/ /\ pump[p].pc = "exec" /\ pump' = [pump EXCEPT ![p].pc = "turn"]
           /\ sess' = sess
    BY DEF Drained, TurnBegin, EndTurn, Exit, Drop, Restart, Goto, PumpState
  <1>4. /\ \A r \in Pumps \ {p} : pump'[r] = pump[r]
        /\ Busy(p)' => Busy(p) /\ pump'[p].s = pump[p].s /\ sess' = sess
    BY <1>0, <1>3 DEF Busy
  <1>5. \/ sess' = sess
        \/ /\ sess' = [sess EXCEPT ![t].active = None, ![t].cancelRequested = FALSE]
           /\ pump[p].pc = "ending"
        \/ sess' = [sess EXCEPT ![t].pumping = FALSE]
        \/ sess' = [sess EXCEPT ![t].pumping = TRUE]
    BY DEF Drained, TurnBegin, EndTurn, Exit, Drop, Restart
  <1> HIDE DEF t
  <1>6. /\ \A s \in Sessions : sess'[s].queue = sess[s].queue
        /\ \A s \in Sessions : s # t => sess'[s].active = sess[s].active
        /\ \/ pump[p].pc \in Drains
           \/ \A s \in Sessions : sess'[s].active = sess[s].active
    <2>1. CASE sess' = sess
      BY <2>1
    <2>2. CASE /\ sess' = [sess EXCEPT ![t].active = None, ![t].cancelRequested = FALSE]
               /\ pump[p].pc = "ending"
      BY <1>0, <1>1, <2>2 DEF Session, Drains
    <2>3. CASE sess' = [sess EXCEPT ![t].pumping = FALSE]
      BY <1>0, <1>1, <2>3 DEF Session
    <2>4. CASE sess' = [sess EXCEPT ![t].pumping = TRUE]
      BY <1>0, <1>1, <2>4 DEF Session
    <2> QED
      BY <1>5, <2>1, <2>2, <2>3, <2>4
  <1> QED
    BY <1>2, <1>4, <1>6, PlacementPump DEF t

LEMMA PlacementNext ==
    ASSUME AnyOrder = FALSE
    PROVE  TypeOK /\ Wake /\ Placement /\ [Next]_vars => Placement'
  <1> SUFFICES ASSUME TypeOK, Wake, Placement, [Next]_vars PROVE Placement'
    OBVIOUS
  <1>1. ASSUME NEW i \in Items,
               Submit(i) \/ SubmitRefused(i) \/ CheckTranscript(i) \/ EnqueueRefused(i)
        PROVE  Placement'
    <2>1. sess' = sess /\ pump' = pump /\ item[i].st \notin {"queued", "active"}
      BY <1>1 DEF Submit, SubmitRefused, CheckTranscript, EnqueueRefused
    <2>2. \E x : item' = [item EXCEPT ![i] = x] /\ x.st # "queued"
      <3>1. CASE Submit(i)
        <4> DEFINE x == [st |-> IF i \in ChoiceItems THEN "choice" ELSE "lock", s |-> reg']
        <4>1. item' = [item EXCEPT ![i] = x]
          BY <3>1 DEF Submit
        <4>2. x.st # "queued"
          OBVIOUS
        <4> QED
          BY <4>1, <4>2
      <3>2. CASE SubmitRefused(i) \/ CheckTranscript(i) \/ EnqueueRefused(i)
        <4>1. PICK st \in {"refused", "lock"} : item' = [item EXCEPT ![i].st = st]
          BY <3>2 DEF SubmitRefused, CheckTranscript, EnqueueRefused, SetItem
        <4> DEFINE x == [item[i] EXCEPT !.st = st]
        <4>2. item' = [item EXCEPT ![i] = x]
          BY <4>1
        <4>3. item[i] \in [st : ItemState, s : 0..MaxSessions]
          BY DEF TypeOK
        <4>4. x.st # "queued"
          BY <4>3
        <4> QED
          BY <4>2, <4>4
      <3> QED
        BY <1>1, <3>1, <3>2
    <2> QED
      BY <2>1, <2>2, PlacementRequest
  <1>2. ASSUME NEW p \in Pumps, TurnRefused(p) \/ TurnReturns(p)
        PROVE  Placement'
    <2>1. sess' = sess /\ Busy(p) /\ Goto(p, "ending")
      BY <1>2 DEF TurnRefused, TurnReturns, Busy
    <2>2. \E st \in {"failed", "ended"} : SetItem(ActiveOf(p), st)
      BY <1>2 DEF TurnRefused, TurnReturns, ActiveOf
    <2> QED
      BY <2>1, <2>2, PlacementSettled
  <1>3. CASE UNCHANGED <<sess, item, pump>>
    BY <1>3 DEF Placement, QueuesPlaced, ActivesPlaced, Waits, Busy, ActiveOf
  <1>4. ASSUME NEW i \in Items, Enqueue(i) \/ RemoveQueuedItem(i)
        PROVE  Placement'
    BY <1>4, PlacementEnqueue, PlacementRemove
  <1>5. CASE ReorderQueuedItems
    BY <1>5, PlacementReorder
  <1>6. ASSUME NEW p \in Pumps,
               \/ Dequeue(p) \/ Drained(p) \/ TurnBegin(p) \/ EndTurn(p) \/ Exit(p)
               \/ Drop(p) \/ Restart(p)
        PROVE  Placement'
    BY <1>6, PlacementDequeue, PlacementPumps
  <1>7. ASSUME NEW k \in Cancels, CancelLookup(k) \/ CancelMark(k) \/ CancelAbort(k)
        PROVE  Placement'
    BY <1>3, <1>7, PlacementCancel DEF CancelLookup, CancelAbort
  <1>8. ASSUME NEW c \in Confirms, ConfirmReady(c) \/ ConfirmBegin(c) \/ ConfirmEnd(c)
        PROVE  Placement'
    BY <1>3, <1>8 DEF ConfirmReady, ConfirmBegin, ConfirmEnd
  <1>9. CASE Halt \/ UNCHANGED vars
    BY <1>3, <1>9 DEF Halt, vars
  <1> QED
    BY <1>1, <1>2, <1>4, <1>5, <1>6, <1>7, <1>8, <1>9 DEF Next, PumpStep

LEMMA PlacementAlways ==
    ASSUME AnyOrder = FALSE
    PROVE  Spec => []Placement
  <1> QED
    BY PlacementInit, PlacementNext, TypeCorrect, WakeAlways, PTL DEF Spec

-----------------------------------------------------------------------------
(* The refinement mapping                                                  *)

Running(i) == \E p \in Pumps : pump[p].pc = "turn" /\ ActiveOf(p) = i

Phase == IF ~conv.done THEN "open" ELSE IF routed > 0 THEN "closed" ELSE "closing"

\* What a message's state maps to.
LEMMA StatusMap ==
    ASSUME NEW i \in Items
    PROVE  /\ item[i].st \in {"new", "choice", "lock"} => TurnStatus(i) = "new"
           /\ item[i].st = "refused" => TurnStatus(i) = "refused"
           /\ item[i].st = "queued" => TurnStatus(i) = "waiting"
           /\ item[i].st = "active" /\ Running(i) => TurnStatus(i) = "running"
           /\ item[i].st = "active" /\ ~Running(i) => TurnStatus(i) = "waiting"
           /\ item[i].st = "ended" => TurnStatus(i) = "settled"
           /\ item[i].st \in {"failed", "removed", "cleared"} => TurnStatus(i) = "dropped"
  BY DEF TurnStatus, Running, ActiveOf

LEMMA StatusMapNext ==
    ASSUME NEW i \in Items
    PROVE  /\ item'[i].st \in {"new", "choice", "lock"} => TurnStatus(i)' = "new"
           /\ item'[i].st = "refused" => TurnStatus(i)' = "refused"
           /\ item'[i].st = "queued" => TurnStatus(i)' = "waiting"
           /\ item'[i].st = "active" /\ Running(i)' => TurnStatus(i)' = "running"
           /\ item'[i].st = "active" /\ ~Running(i)' => TurnStatus(i)' = "waiting"
           /\ item'[i].st = "ended" => TurnStatus(i)' = "settled"
           /\ item'[i].st \in {"failed", "removed", "cleared"} => TurnStatus(i)' = "dropped"
  BY DEF TurnStatus, Running, ActiveOf

LEMMA StatusKept ==
    ASSUME NEW i \in Items, item'[i].st = item[i].st, Running(i)' <=> Running(i)
    PROVE  TurnStatus(i)' = TurnStatus(i)
  <1>1. Running(i) <=> \E p \in Pumps : pump[p].pc = "turn" /\ sess[pump[p].s].active = i
    BY DEF Running, ActiveOf
  <1>2. Running(i)' <=> \E p \in Pumps : pump'[p].pc = "turn" /\ sess'[pump'[p].s].active = i
    BY DEF Running, ActiveOf
  <1> QED
    BY <1>1, <1>2 DEF TurnStatus

LEMMA NoneRunning ==
    ASSUME TypeOK, \A p \in Pumps : pump[p].pc # "turn"
    PROVE  \A i \in Items : TurnStatus(i) # "running"
  <1>1. \A i \in Items : item[i].st \in ItemState /\ ~Running(i)
    BY DEF TypeOK, Running
  <1> QED
    BY <1>1, StatusMap DEF ItemState

\* The three shapes of a step of the ledger.
LEMMA MapMove ==
    ASSUME NEW i \in Items, NEW from, NEW to,
           TurnStatus(i) = from, TurnStatus(i)' = to,
           \A j \in Items \ {i} : TurnStatus(j)' = TurnStatus(j)
    PROVE  Ledger!Move(i, from, to)
  BY DEF Ledger!Move

LEMMA MapStay ==
    ASSUME \A j \in Items : TurnStatus(j)' = TurnStatus(j), Phase' = Phase
    PROVE  UNCHANGED Ledger!vars
  BY DEF Ledger!vars, Phase

LEMMA MapDiscard ==
    ASSUME NEW T \in SUBSET Items, T # {}, Phase' = Phase,
           \A i \in T : TurnStatus(i) = "waiting" /\ TurnStatus(i)' = "dropped",
           \A i \in Items \ T : TurnStatus(i)' = TurnStatus(i)
    PROVE  Ledger!Discard(T)
  BY DEF Ledger!Discard, Phase

LEMMA PhaseKept ==
    ASSUME conv' = conv, routed' = routed
    PROVE  Phase' = Phase
  BY DEF Phase

\* Which turns run, when no turn begins or returns.
SameTurns == \A p \in Pumps : /\ pump'[p].pc = "turn" <=> pump[p].pc = "turn"
                              /\ pump[p].pc = "turn" => ActiveOf(p)' = ActiveOf(p)

LEMMA SameRunning ==
    ASSUME SameTurns
    PROVE  \A i : Running(i)' <=> Running(i)
  BY DEF SameTurns, Running

LEMMA TurnsQuiet ==
    ASSUME TypeOK, pump' = pump,
           \A s \in Sessions : sess'[s].active = sess[s].active
    PROVE  SameTurns
  <1>1. \A p \in Pumps : pump[p].pc = "turn" => pump[p].s \in Sessions
    BY SessionOf
  <1> QED
    BY <1>1 DEF SameTurns, ActiveOf

\* A step of a goroutine that is not in a turn, before or after.
LEMMA TurnsPump ==
    ASSUME TypeOK, Wake, NEW p \in Pumps,
           \A r \in Pumps \ {p} : pump'[r] = pump[r],
           pump[p].pc # "turn", pump'[p].pc # "turn",
           \A s \in Sessions : s # pump[p].s => sess'[s].active = sess[s].active,
           \/ pump[p].pc \in Drains
           \/ \A s \in Sessions : sess'[s].active = sess[s].active
    PROVE  SameTurns
  <1> SUFFICES ASSUME NEW r \in Pumps
               PROVE  /\ pump'[r].pc = "turn" <=> pump[r].pc = "turn"
                      /\ pump[r].pc = "turn" => ActiveOf(r)' = ActiveOf(r)
    BY DEF SameTurns
  <1>1. CASE r = p
    BY <1>1
  <1>2. CASE r # p
    <2>1. pump'[r] = pump[r]
      BY <1>2
    <2>2. ASSUME pump[r].pc = "turn" PROVE ActiveOf(r)' = ActiveOf(r)
      <3>1. pump[r].s \in Sessions
        BY <2>2, SessionOf
      <3>2. CASE \A s \in Sessions : sess'[s].active = sess[s].active
        BY <2>1, <3>1, <3>2 DEF ActiveOf
      <3>3. CASE pump[p].pc \in Drains
        <4>1. Draining(r, pump[r].s) /\ Draining(p, pump[p].s)
          BY <2>2, <3>3 DEF Draining, Drains
        <4>2. pump[r].s # pump[p].s
          BY <1>2, <3>1, <4>1 DEF Wake, SinglePump
        <4> QED
          BY <2>1, <3>1, <4>2 DEF ActiveOf
      <3> QED
        BY <3>2, <3>3
    <2> QED
      BY <2>1, <2>2
  <1> QED
    BY <1>1, <1>2

-----------------------------------------------------------------------------
(* Every step of the controller is a step of the ledger or leaves it alone *)

Refines == Ledger!Next \/ UNCHANGED Ledger!vars

\* A step that moves no message.
LEMMA RefineQuiet ==
    ASSUME SameTurns, Phase' = Phase,
           \A j \in Items : item'[j].st = item[j].st
    PROVE  Refines
  <1>1. \A j \in Items : TurnStatus(j)' = TurnStatus(j)
    BY SameRunning, StatusKept
  <1> QED
    BY <1>1, MapStay DEF Refines

LEMMA RefineRequest ==
    ASSUME TypeOK, Wake, NEW i \in Items,
           \/ Submit(i) \/ SubmitRefused(i) \/ CheckTranscript(i)
           \/ EnqueueRefused(i) \/ Enqueue(i)
    PROVE  Refines
  <1>0. /\ sess \in [Sessions -> Session]
        /\ item \in [Items -> [st : ItemState, s : 0..MaxSessions]]
        /\ pump \in [Pumps -> [pc : PumpState, s : 0..MaxSessions]]
    BY DEF TypeOK
  <1>1. item[i].st \in {"new", "choice", "lock"} /\ Phase' = Phase
    <2>1. conv' = conv /\ routed' = routed
      BY DEF Submit, SubmitRefused, CheckTranscript, EnqueueRefused, Enqueue
    <2> QED
      BY <2>1, PhaseKept
         DEF Submit, SubmitRefused, CheckTranscript, EnqueueRefused, Enqueue
  <1>2. /\ item'[i].st \in {"choice", "lock", "refused", "queued"}
        /\ \A j \in Items \ {i} : item'[j] = item[j]
    <2>1. CASE Submit(i)
      BY <1>0, <2>1 DEF Submit
    <2>2. CASE ~Submit(i)
      <3>1. \E st \in {"choice", "lock", "refused", "queued"} :
               item' = [item EXCEPT ![i].st = st]
        BY <2>2 DEF SubmitRefused, CheckTranscript, EnqueueRefused, Enqueue, SetItem
      <3> QED
        BY <1>0, <3>1
    <2> QED
      BY <2>1, <2>2
  <1>3. SameTurns
    <2>1. CASE Enqueue(i)
      <3> DEFINE t == item[i].s
                 q == Append(sess[t].queue, i)
                 n == sess[t].waiting + 1
      <3>1. t \in Sessions
        BY <2>1, SessionOf DEF Enqueue
      <3>2. sess' = [sess EXCEPT ![t].queue = q, ![t].waiting = n, ![t].pumping = TRUE]
        BY <2>1 DEF Enqueue
      <3>3. \/ pump' = pump
            \/ \E p \in Pumps : /\ pump[p].pc = "none"
                                /\ pump' = [pump EXCEPT ![p] = [pc |-> "loop", s |-> t]]
        BY <2>1 DEF Enqueue
      <3> HIDE DEF t, q, n
      <3>4. sess[t] \in Session
        BY <1>0, <3>1
      <3>5. \A s \in Sessions : sess'[s].active = sess[s].active
        BY <1>0, <3>1, <3>2, <3>4 DEF Session
      <3>6. ASSUME NEW p \in Pumps, pump[p].pc = "none",
                   pump' = [pump EXCEPT ![p] = [pc |-> "loop", s |-> t]]
            PROVE  SameTurns
        <4>1. pump'[p].pc = "loop" /\ \A r \in Pumps \ {p} : pump'[r] = pump[r]
          BY <1>0, <3>6
        <4> QED
          BY <3>5, <3>6, <4>1, TurnsPump
      <3> QED
        BY <3>3, <3>5, <3>6, TurnsQuiet
    <2>2. CASE ~Enqueue(i)
      <3>1. sess' = sess /\ pump' = pump
        BY <2>2 DEF Submit, SubmitRefused, CheckTranscript, EnqueueRefused
      <3> QED
        BY <3>1, TurnsQuiet
    <2> QED
      BY <2>1, <2>2
  <1>4. \A j \in Items \ {i} : TurnStatus(j)' = TurnStatus(j)
    BY <1>2, <1>3, SameRunning, StatusKept
  <1>5. TurnStatus(i) = "new"
    BY <1>1, StatusMap
  <1>6. CASE item'[i].st \in {"choice", "lock"}
    <2>1. TurnStatus(i)' = "new"
      BY <1>6, StatusMapNext
    <2> QED
      BY <1>1, <1>4, <1>5, <2>1, MapStay DEF Refines
  <1>7. CASE item'[i].st = "refused"
    <2>1. TurnStatus(i)' = "refused"
      BY <1>7, StatusMapNext
    <2>2. Ledger!Move(i, "new", "refused")
      BY <1>4, <1>5, <2>1, MapMove
    <2> QED
      BY <1>1, <2>2 DEF Refines, Ledger!Next, Ledger!Refuse, Phase
  <1>8. CASE item'[i].st = "queued"
    <2>1. TurnStatus(i)' = "waiting"
      BY <1>8, StatusMapNext
    <2>2. Ledger!Move(i, "new", "waiting")
      BY <1>4, <1>5, <2>1, MapMove
    <2> QED
      BY <1>1, <2>2 DEF Refines, Ledger!Next, Ledger!Accept, Phase
  <1> QED
    BY <1>2, <1>6, <1>7, <1>8

LEMMA RefineRemove ==
    ASSUME TypeOK, Placement, NEW i \in Items, RemoveQueuedItem(i)
    PROVE  Refines
  <1>0. /\ sess \in [Sessions -> Session]
        /\ item \in [Items -> [st : ItemState, s : 0..MaxSessions]]
    BY DEF TypeOK
  <1>1. reg \in Sessions /\ pump' = pump /\ conv' = conv /\ routed' = routed
    BY SessionOf DEF RemoveQueuedItem
  <1>2. PICK q, n : sess' = [sess EXCEPT ![reg].queue = q, ![reg].waiting = n]
    BY DEF RemoveQueuedItem
  <1>3. \A s \in Sessions : sess'[s].active = sess[s].active
    BY <1>0, <1>1, <1>2 DEF Session
  <1>4. item[i].st = "queued"
    <2>1. sess[reg].queue \in Seq(Items)
      BY <1>1, SessionParts, Zenon
    <2>2. i \in Waits(reg)
      BY <2>1, QueueView DEF RemoveQueuedItem, Waits
    <2> QED
      BY <1>1, <2>2 DEF Placement, QueuesPlaced
  <1>5. item'[i].st = "removed" /\ \A j \in Items \ {i} : item'[j] = item[j]
    BY <1>0 DEF RemoveQueuedItem, SetItem
  <1>6. SameTurns
    BY <1>1, <1>3, TurnsQuiet
  <1>7. TurnStatus(i) = "waiting" /\ TurnStatus(i)' = "dropped"
    BY <1>4, <1>5, StatusMap, StatusMapNext
  <1>8. \A j \in Items \ {i} : TurnStatus(j)' = TurnStatus(j)
    BY <1>5, <1>6, SameRunning, StatusKept
  <1>9. Ledger!Discard({i})
    BY <1>1, <1>7, <1>8, PhaseKept, MapDiscard
  <1> QED
    BY <1>9 DEF Refines, Ledger!Next

LEMMA RefineReorder ==
    ASSUME TypeOK, ReorderQueuedItems
    PROVE  Refines
  <1>0. sess \in [Sessions -> Session]
    BY DEF TypeOK
  <1>1. /\ reg \in Sessions /\ pump' = pump /\ item' = item
        /\ conv' = conv /\ routed' = routed
    BY SessionOf DEF ReorderQueuedItems
  <1>2. PICK q : sess' = [sess EXCEPT ![reg].queue = q]
    BY DEF ReorderQueuedItems
  <1>3. \A s \in Sessions : sess'[s].active = sess[s].active
    BY <1>0, <1>1, <1>2 DEF Session
  <1> QED
    BY <1>1, <1>3, TurnsQuiet, PhaseKept, RefineQuiet

LEMMA RefineCancel ==
    ASSUME TypeOK, Placement, NEW k \in Cancels, CancelMark(k)
    PROVE  Refines
  <1> DEFINE t == cancel[k].s
  <1>0. /\ sess \in [Sessions -> Session]
        /\ item \in [Items -> [st : ItemState, s : 0..MaxSessions]]
    BY DEF TypeOK
  <1>1. /\ t \in Sessions /\ pump' = pump /\ Phase' = Phase
    BY SessionOf, PhaseKept DEF CancelMark
  <1>2. sess[t].queue \in Seq(Items) /\ sess[t] \in Session
    BY <1>1, SessionParts, Zenon
  <1>3. Waits(t) = {sess[t].queue[j] : j \in 1..Len(sess[t].queue)}
    BY <1>2, QueueView DEF Waits
  <1>4. Waits(t) \subseteq Items
    BY <1>2, <1>3, LenProperties
  <1>5. CASE Kind = "review"
    <2> DEFINE x == Swept(sess[t])
    <2>1. sess' = [sess EXCEPT ![t] = x]
      BY <1>5 DEF CancelMark
    <2>2. item' = [i \in Items |-> IF i \in Waits(t)
                                   THEN [item[i] EXCEPT !.st = "cleared"] ELSE item[i]]
      BY <1>3, <1>5 DEF CancelMark
    <2>3. x.active = sess[t].active
      BY <1>2 DEF Swept, Session
    <2> HIDE DEF x, t
    <2>4. SameTurns
      <3>1. \A u \in Sessions : sess'[u].active = sess[u].active
        BY <1>0, <1>1, <2>1, <2>3
      <3> QED
        BY <1>1, <3>1, TurnsQuiet
    <2>5. \A i \in Waits(t) : item[i].st = "queued" /\ item'[i].st = "cleared"
      <3> SUFFICES ASSUME NEW i \in Waits(t)
                   PROVE  item[i].st = "queued" /\ item'[i].st = "cleared"
        OBVIOUS
      <3>1. i \in Items /\ item[i] \in [st : ItemState, s : 0..MaxSessions]
        BY <1>0, <1>4
      <3> QED
        BY <1>1, <2>2, <3>1 DEF Placement, QueuesPlaced
    <2>6. \A i \in Items \ Waits(t) : item'[i] = item[i]
      BY <2>2
    <2>7. \A i \in Waits(t) : TurnStatus(i) = "waiting" /\ TurnStatus(i)' = "dropped"
      BY <1>4, <2>5, StatusMap, StatusMapNext
    <2>8. \A i \in Items \ Waits(t) : TurnStatus(i)' = TurnStatus(i)
      BY <2>4, <2>6, SameRunning, StatusKept
    <2>9. CASE Waits(t) = {}
      BY <1>1, <2>8, <2>9, MapStay DEF Refines
    <2>10. CASE Waits(t) # {}
      <3>1. Ledger!Discard(Waits(t))
        BY <1>1, <1>4, <2>7, <2>8, <2>10, MapDiscard
      <3> QED
        BY <1>4, <3>1 DEF Refines, Ledger!Next
    <2> QED
      BY <2>9, <2>10
  <1>6. CASE Kind # "review"
    <2>1. sess' = [sess EXCEPT ![t].cancelRequested = TRUE] /\ item' = item
      BY <1>6 DEF CancelMark
    <2> HIDE DEF t
    <2>2. \A u \in Sessions : sess'[u].active = sess[u].active
      BY <1>0, <1>1, <1>2, <2>1 DEF Session
    <2> QED
      BY <1>1, <2>1, <2>2, TurnsQuiet, RefineQuiet
  <1> QED
    BY <1>5, <1>6

\* Taking a message up does not run it yet.
LEMMA RefineDequeue ==
    ASSUME TypeOK, Wake, Placement, NEW p \in Pumps, Dequeue(p)
    PROVE  Refines
  <1> DEFINE t == pump[p].s
             q == Tail(sess[t].queue)
             n == OneLess(sess[t].waiting)
  <1>0. /\ sess \in [Sessions -> Session]
        /\ item \in [Items -> [st : ItemState, s : 0..MaxSessions]]
        /\ pump \in [Pumps -> [pc : PumpState, s : 0..MaxSessions]]
    BY DEF TypeOK
  <1>1. t \in Sessions /\ sess[t].queue # <<>> /\ pump[p].pc = "loop"
    BY SessionOf DEF Dequeue
  <1>2. sess[t].queue \in Seq(Items)
    BY <1>1, SessionParts, Zenon
  <1>3. PICK i \in Items : i = Head(sess[t].queue)
    BY <1>1, <1>2, HeadTailProperties
  <1>4. sess' = [sess EXCEPT ![t].queue = q, ![t].waiting = n, ![t].active = i,
                             ![t].cancelRequested = FALSE]
    BY <1>3 DEF Dequeue
  <1>5. /\ item'[i].st = "active"
        /\ \A j \in Items \ {i} : item'[j] = item[j]
    <2>1. item' = [item EXCEPT ![i].st = "active"]
      BY <1>3 DEF Dequeue, SetItem
    <2> QED
      BY <1>0, <2>1
  <1>6. pump'[p].pc = "exec" /\ \A r \in Pumps \ {p} : pump'[r] = pump[r]
    BY <1>0 DEF Dequeue, Goto
  <1>7. item[i].st = "queued"
    <2>1. i \in Waits(t)
      BY <1>1, <1>2, <1>3, TailPlaces DEF Waits, Placement, QueuesPlaced
    <2> QED
      BY <1>1, <2>1 DEF Placement, QueuesPlaced
  <1>8. Phase' = Phase
    BY PhaseKept DEF Dequeue
  <1>9. \A u \in Sessions : u # pump[p].s => sess'[u].active = sess[u].active
    <2>1. \A u \in Sessions \ {t} : sess'[u] = sess[u]
      BY <1>0, <1>4
    <2> QED
      BY <2>1
  <1>10. SameTurns
    BY <1>1, <1>6, <1>9, TurnsPump DEF Drains
  <1> HIDE DEF t, q, n
  <1>11. ~Running(i) /\ ~Running(i)'
    <2>1. ~Running(i)
      BY <1>7 DEF Running, Placement, ActivesPlaced, Busy
    <2> QED
      BY <1>10, <2>1, SameRunning
  <1>12. TurnStatus(i) = "waiting" /\ TurnStatus(i)' = "waiting"
    BY <1>5, <1>7, <1>11, StatusMap, StatusMapNext
  <1>13. \A j \in Items \ {i} : TurnStatus(j)' = TurnStatus(j)
    BY <1>5, <1>10, SameRunning, StatusKept
  <1> QED
    BY <1>8, <1>12, <1>13, MapStay DEF Refines

LEMMA RefinePump ==
    ASSUME TypeOK, Wake, NEW p \in Pumps,
           Drained(p) \/ EndTurn(p) \/ Exit(p) \/ Drop(p) \/ Restart(p)
    PROVE  Refines
  <1> DEFINE t == pump[p].s
  <1>0. /\ sess \in [Sessions -> Session]
        /\ pump \in [Pumps -> [pc : PumpState, s : 0..MaxSessions]]
    BY DEF TypeOK
  <1>1. t \in Sessions /\ sess[t] \in Session
    <2>1. pump[p].pc # "none"
      BY DEF Drained, EndTurn, Exit, Drop, Restart
    <2> QED
      BY <1>0, <2>1, SessionOf
  <1>2. item' = item /\ pump[p].pc # "turn"
    BY DEF Drained, EndTurn, Exit, Drop, Restart
  <1>3. Phase' = Phase
    BY PhaseKept DEF Drained, EndTurn, Exit, Drop, Restart
  <1>4. \/ \E l \in {"exit", "loop", "drop", "restart"} : pump' = [pump EXCEPT ![p].pc = l]
        \/ pump' = [pump EXCEPT ![p] = [pc |-> "none", s |-> 0]]
    BY DEF Drained, EndTurn, Exit, Drop, Restart, Goto
  <1>5. pump'[p].pc # "turn" /\ \A r \in Pumps \ {p} : pump'[r] = pump[r]
    BY <1>0, <1>4
  <1>6. \/ sess' = sess
        \/ /\ sess' = [sess EXCEPT ![t].active = None, ![t].cancelRequested = FALSE]
           /\ pump[p].pc = "ending"
        \/ sess' = [sess EXCEPT ![t].pumping = FALSE]
        \/ sess' = [sess EXCEPT ![t].pumping = TRUE]
    BY DEF Drained, EndTurn, Exit, Drop, Restart
  <1> HIDE DEF t
  <1>7. /\ \A s \in Sessions : s # t => sess'[s].active = sess[s].active
        /\ \/ pump[p].pc \in Drains
           \/ \A s \in Sessions : sess'[s].active = sess[s].active
    <2>1. CASE sess' = sess
      BY <2>1
    <2>2. CASE /\ sess' = [sess EXCEPT ![t].active = None, ![t].cancelRequested = FALSE]
               /\ pump[p].pc = "ending"
      BY <1>0, <1>1, <2>2 DEF Session, Drains
    <2>3. CASE sess' = [sess EXCEPT ![t].pumping = FALSE]
      BY <1>0, <1>1, <2>3 DEF Session
    <2>4. CASE sess' = [sess EXCEPT ![t].pumping = TRUE]
      BY <1>0, <1>1, <2>4 DEF Session
    <2> QED
      BY <1>6, <2>1, <2>2, <2>3, <2>4
  <1>8. SameTurns
    BY <1>2, <1>5, <1>7, TurnsPump DEF t
  <1> QED
    BY <1>2, <1>3, <1>8, RefineQuiet

\* A turn begins with the dialogue's lock free, so no other runs.
LEMMA RefineTurnBegin ==
    ASSUME TypeOK, LockDiscipline, Placement, NEW p \in Pumps, TurnBegin(p)
    PROVE  Refines
  <1>0. pump \in [Pumps -> [pc : PumpState, s : 0..MaxSessions]]
    BY DEF TypeOK
  <1>1. PICK i \in Items : i = ActiveOf(p) /\ item[i].st = "active"
    BY DEF TurnBegin, Placement, ActivesPlaced, Busy
  <1>2. lock = None /\ ~conv.done /\ item' = item /\ sess' = sess
    BY DEF TurnBegin, Acquire, Closed
  <1>3. \A r \in Pumps : pump[r].pc # "turn"
    BY <1>2 DEF LockDiscipline
  <1>4. /\ pump'[p].pc = "turn" /\ pump'[p].s = pump[p].s
        /\ \A r \in Pumps \ {p} : pump'[r] = pump[r]
    BY <1>0 DEF TurnBegin, Goto
  <1>5. Phase = "open" /\ Phase' = Phase
    <2>1. conv'.done = conv.done /\ routed' = routed
      BY DEF TurnBegin, TypeOK
    <2> QED
      BY <1>2, <2>1 DEF Phase
  <1>6. ~Running(i) /\ Running(i)'
    <2>1. ~Running(i)
      BY <1>3 DEF Running
    <2>2. ActiveOf(p)' = i
      BY <1>1, <1>2, <1>4 DEF ActiveOf
    <2> QED
      BY <1>4, <2>1, <2>2 DEF Running
  <1>7. \A j \in Items \ {i} : Running(j)' <=> Running(j)
    <2>1. \A r \in Pumps \ {p} : pump'[r].pc # "turn"
      BY <1>3, <1>4
    <2>2. ActiveOf(p)' = i
      BY <1>1, <1>2, <1>4 DEF ActiveOf
    <2> QED
      BY <1>3, <2>1, <2>2 DEF Running
  <1>8. TurnStatus(i) = "waiting" /\ TurnStatus(i)' = "running"
    BY <1>1, <1>2, <1>6, StatusMap, StatusMapNext
  <1>9. \A j \in Items \ {i} : TurnStatus(j)' = TurnStatus(j)
    BY <1>2, <1>7, StatusKept
  <1>10. Ledger!Move(i, "waiting", "running")
    BY <1>1, <1>8, <1>9, MapMove
  <1>11. \A j \in Items : TurnStatus(j) # "running"
    BY <1>3, NoneRunning
  <1>12. Ledger!Run(i)
    BY <1>5, <1>10, <1>11 DEF Ledger!Run, Phase
  <1> QED
    BY <1>1, <1>12 DEF Refines, Ledger!Next

LEMMA RefineTurnRefused ==
    ASSUME TypeOK, LockDiscipline, Placement, NEW p \in Pumps, TurnRefused(p)
    PROVE  Refines
  <1>0. /\ item \in [Items -> [st : ItemState, s : 0..MaxSessions]]
        /\ pump \in [Pumps -> [pc : PumpState, s : 0..MaxSessions]]
    BY DEF TypeOK
  <1>1. PICK i \in Items : i = ActiveOf(p) /\ item[i].st = "active"
    BY DEF TurnRefused, Placement, ActivesPlaced, Busy
  <1>2. lock = None /\ sess' = sess /\ item' = [item EXCEPT ![i].st = "failed"]
    BY <1>1 DEF TurnRefused, SetItem, ActiveOf
  <1>3. \A r \in Pumps : pump[r].pc # "turn"
    BY <1>2 DEF LockDiscipline
  <1>4. pump'[p].pc = "ending" /\ \A r \in Pumps \ {p} : pump'[r] = pump[r]
    BY <1>0 DEF TurnRefused, Goto
  <1>5. \A j : ~Running(j) /\ ~Running(j)'
    BY <1>3, <1>4 DEF Running
  <1>6. Phase' = Phase
    BY PhaseKept DEF TurnRefused
  <1>7. item'[i].st = "failed" /\ \A j \in Items \ {i} : item'[j] = item[j]
    BY <1>0, <1>1, <1>2
  <1>8. TurnStatus(i) = "waiting" /\ TurnStatus(i)' = "dropped"
    BY <1>1, <1>5, <1>7, StatusMap, StatusMapNext
  <1>9. \A j \in Items \ {i} : TurnStatus(j)' = TurnStatus(j)
    BY <1>5, <1>7, StatusKept
  <1>10. Ledger!Discard({i})
    BY <1>1, <1>6, <1>8, <1>9, MapDiscard
  <1> QED
    BY <1>1, <1>10 DEF Refines, Ledger!Next

LEMMA RefineTurnReturns ==
    ASSUME TypeOK, LockDiscipline, Placement, NEW p \in Pumps, TurnReturns(p)
    PROVE  Refines
  <1>0. /\ item \in [Items -> [st : ItemState, s : 0..MaxSessions]]
        /\ pump \in [Pumps -> [pc : PumpState, s : 0..MaxSessions]]
        /\ conv \in [done : BOOLEAN, msgs : Seq(Message)]
        /\ routed \in Nat
    BY DEF TypeOK
  <1>1. PICK i \in Items :
          i = ActiveOf(p) /\ item[i].st = "active" /\ pump[p].pc = "turn"
    <2>1. pump[p].pc = "turn"
      BY DEF TurnReturns
    <2>2. ActiveOf(p) \in Items /\ item[ActiveOf(p)].st = "active"
      BY <2>1 DEF Placement, ActivesPlaced, Busy
    <2> QED
      BY <2>1, <2>2
  <1>2. sess' = sess /\ item' = [item EXCEPT ![i].st = "ended"]
    BY <1>1 DEF TurnReturns, SetItem, ActiveOf
  <1>3. lock = p /\ ~conv.done
    BY <1>1 DEF LockDiscipline
  <1>4. \A r \in Pumps \ {p} : pump[r].pc # "turn"
    BY <1>3 DEF LockDiscipline
  <1>5. pump'[p].pc = "ending" /\ \A r \in Pumps \ {p} : pump'[r] = pump[r]
    BY <1>0 DEF TurnReturns, Goto
  <1>6. Running(i) /\ \A j : ~Running(j)'
    <2>1. Running(i)
      BY <1>1 DEF Running
    <2>2. \A r \in Pumps : pump'[r].pc # "turn"
      BY <1>4, <1>5
    <2> QED
      BY <2>1, <2>2 DEF Running
  <1>7. \A j \in Items \ {i} : ~Running(j)
    BY <1>1, <1>4 DEF Running
  <1>8. Phase' \in {"open", "closed"}
    <2>1. \/ /\ \E m : conv' = [conv EXCEPT !.msgs = m]
             /\ routed' = routed
          \/ /\ \E m : conv' = [done |-> TRUE, msgs |-> m]
             /\ routed' = routed + 1
      BY Zenon DEF TurnReturns
    <2>2. CASE \E m : conv' = [conv EXCEPT !.msgs = m]
      <3>1. conv'.done = conv.done
        BY <1>0, <2>2
      <3> QED
        BY <1>3, <3>1 DEF Phase
    <2>3. CASE routed' = routed + 1
      <3>1. routed' > 0
        BY <1>0, <2>3
      <3> QED
        BY <3>1 DEF Phase
    <2> QED
      BY <2>1, <2>2, <2>3
  <1>9. item'[i].st = "ended" /\ \A j \in Items \ {i} : item'[j] = item[j]
    BY <1>0, <1>1, <1>2
  <1>10. TurnStatus(i) = "running" /\ TurnStatus(i)' = "settled"
    BY <1>1, <1>6, <1>9, StatusMap, StatusMapNext
  <1>11. \A j \in Items \ {i} : TurnStatus(j)' = TurnStatus(j)
    BY <1>6, <1>7, <1>9, StatusKept
  <1>12. Ledger!Move(i, "running", "settled")
    BY <1>1, <1>10, <1>11, MapMove
  <1>13. Ledger!Settle(i)
    BY <1>8, <1>12 DEF Ledger!Settle, Phase
  <1> QED
    BY <1>1, <1>13 DEF Refines, Ledger!Next

\* A confirm closes the dialogue with the lock free, so no turn runs.
LEMMA RefineConfirm ==
    ASSUME TypeOK, LockDiscipline, NEW c \in Confirms,
           ConfirmReady(c) \/ ConfirmBegin(c) \/ ConfirmEnd(c)
    PROVE  Refines
  <1>0. conv.done \in BOOLEAN /\ routed \in Nat
    BY DEF TypeOK
  <1>1. sess' = sess /\ item' = item /\ pump' = pump
    BY DEF ConfirmReady, ConfirmBegin, ConfirmEnd
  <1>2. SameTurns
    BY <1>1, TurnsQuiet
  <1>3. \A j \in Items : TurnStatus(j)' = TurnStatus(j)
    BY <1>1, <1>2, SameRunning, StatusKept
  <1>4. CASE conv' = conv /\ routed' = routed
    BY <1>1, <1>2, <1>4, PhaseKept, RefineQuiet
  <1>5. CASE ConfirmReady(c)
    BY <1>4, <1>5 DEF ConfirmReady
  <1>6. CASE ConfirmBegin(c)
    <2>1. CASE conv.done
      BY <1>4, <1>6, <2>1 DEF ConfirmBegin, Closed
    <2>2. CASE ~conv.done
      <3>1. /\ lock = None /\ routed' = routed
            /\ conv' = [done |-> TRUE, msgs |-> Append(conv.msgs, HumanRow(None))]
        BY <1>6, <2>2 DEF ConfirmBegin, Acquire, Closed
      <3>2. conv'.done = TRUE
        BY <3>1
      <3>3. routed = 0
        BY <1>0, <2>2 DEF LockDiscipline, RoutedOnce
      <3>4. Phase = "open" /\ Phase' = "closing"
        BY <2>2, <3>1, <3>2, <3>3 DEF Phase
      <3>5. \A p \in Pumps : pump[p].pc # "turn"
        BY <3>1 DEF LockDiscipline
      <3>6. \A j \in Items : TurnStatus(j) # "running"
        BY <3>5, NoneRunning
      <3>7. Ledger!Confirm
        BY <1>3, <3>4, <3>6 DEF Ledger!Confirm, Phase
      <3> QED
        BY <3>7 DEF Refines, Ledger!Next
    <2> QED
      BY <2>1, <2>2
  <1>7. CASE ConfirmEnd(c)
    <2>1. conv.done /\ routed = 0
      BY <1>7 DEF ConfirmEnd, LockDiscipline
    <2>2. \/ routed' = routed + 1 /\ \E m : conv' = [done |-> TRUE, msgs |-> m]
          \/ \E m : conv' = [done |-> FALSE, msgs |-> m]
      BY <1>7, Zenon DEF ConfirmEnd
    <2>3. Phase = "closing" /\ Phase' \in {"open", "closed"}
      BY <2>1, <2>2 DEF Phase
    <2>4. Ledger!Concluded
      BY <1>3, <2>3 DEF Ledger!Concluded, Phase
    <2> QED
      BY <2>4 DEF Refines, Ledger!Next
  <1> QED
    BY <1>5, <1>6, <1>7

LEMMA RefineNext ==
    TypeOK /\ LockDiscipline /\ Wake /\ Placement /\ [Next]_vars
        => [Ledger!Next]_(Ledger!vars)
  <1> SUFFICES ASSUME TypeOK, LockDiscipline, Wake, Placement, [Next]_vars
               PROVE  Refines
    BY DEF Refines
  <1>1. CASE UNCHANGED <<sess, item, pump, conv, routed>>
    BY <1>1, TurnsQuiet, PhaseKept, RefineQuiet
  <1>2. ASSUME NEW k \in Cancels, CancelLookup(k) \/ CancelMark(k) \/ CancelAbort(k)
        PROVE  Refines
    BY <1>1, <1>2, RefineCancel DEF CancelLookup, CancelAbort
  <1>3. CASE Halt \/ UNCHANGED vars
    BY <1>1, <1>3 DEF Halt, vars
  <1>4. ASSUME NEW p \in Pumps, PumpStep(p)
        PROVE  Refines
    BY <1>4, RefineDequeue, RefinePump, RefineTurnBegin, RefineTurnRefused,
       RefineTurnReturns DEF PumpStep
  <1>5. ASSUME NEW i \in Items,
               \/ Submit(i) \/ SubmitRefused(i) \/ CheckTranscript(i)
               \/ EnqueueRefused(i) \/ Enqueue(i) \/ RemoveQueuedItem(i)
        PROVE  Refines
    BY <1>5, RefineRequest, RefineRemove
  <1> QED
    BY <1>2, <1>3, <1>4, <1>5, RefineReorder, RefineConfirm DEF Next

LEMMA RefineInit == Init => Ledger!Init
  <1> SUFFICES ASSUME Init PROVE Ledger!Init
    OBVIOUS
  <1>1. \A i \in Items : item[i].st = "new"
    BY DEF Init
  <1>2. \A i \in Items : TurnStatus(i) = "new"
    BY <1>1, StatusMap
  <1>3. Phase = "open"
    BY DEF Init, Phase
  <1> QED
    BY <1>2, <1>3 DEF Ledger!Init, Phase

\* The controller with its queues, sessions, goroutines and locks does what the
\* ledger promises, for any number of messages, pumps, cancels, confirms and
\* session objects: every accepted message is worked on at most once, one at a
\* time, while the dialogue is open, or is dropped.  Reorder lists are taken to
\* be permutations, as those of useClarifyChat.ts and useGateApproval.ts are.
THEOREM LedgerImplemented ==
    ASSUME AnyOrder = FALSE
    PROVE  Spec => ImplementsLedger
  <1> QED
    BY RefineInit, RefineNext, TypeCorrect, LockAlways, WakeAlways, PlacementAlways,
       PTL DEF Spec, ImplementsLedger, Ledger!Spec

-----------------------------------------------------------------------------
(* Every message is accounted for                                          *)

\* A message has one human row at most, and none before its turn begins.
RowsPlaced ==
    \A i \in Items :
        /\ \A j, k \in HumanRows(i) : j = k
        /\ HumanRows(i) # {} =>
              \/ item[i].st = "ended"
              \/ /\ item[i].st = "active"
                 /\ \A p \in Pumps : pump[p].pc = "exec" => ActiveOf(p) # i

LEMMA RowsInit == Init => RowsPlaced
  <1> SUFFICES ASSUME Init, NEW i \in Items PROVE HumanRows(i) = {}
    BY DEF RowsPlaced
  <1>1. PICK m : m.role = "agent" /\ conv.msgs = <<m>>
    BY DEF Init, AgentRow
  <1>2. \A j \in 1..Len(conv.msgs) : conv.msgs[j].role = "agent"
    BY <1>1
  <1> QED
    BY <1>2 DEF HumanRows

LEMMA RowAppended ==
    ASSUME TypeOK, NEW m \in Message, conv'.msgs = Append(conv.msgs, m), NEW i
    PROVE  HumanRows(i)' = IF m.role = "human" /\ m.item = i
                           THEN HumanRows(i) \cup {Len(conv.msgs) + 1}
                           ELSE HumanRows(i)
  <1> DEFINE q == conv.msgs
             r == conv'.msgs
             n == Len(q)
  <1>1. q \in Seq(Message) /\ n \in Nat
    BY LenProperties DEF TypeOK
  <1>2. /\ Len(r) = n + 1 /\ r[n + 1] = m
        /\ \A j \in 1..n : r[j] = q[j]
    BY <1>1, AppendProperties
  <1>3. HumanRows(i)' = {j \in 1..Len(r) : r[j].role = "human" /\ r[j].item = i}
    BY DEF HumanRows
  <1>4. HumanRows(i) = {j \in 1..n : q[j].role = "human" /\ q[j].item = i}
    BY DEF HumanRows
  <1> HIDE DEF q, r, n
  <1>5. \A j : j \in 1..Len(r) <=> j \in 1..n \/ j = n + 1
    BY <1>1, <1>2
  <1>6. CASE m.role = "human" /\ m.item = i
    <2>1. HumanRows(i)' = HumanRows(i) \cup {n + 1}
      BY <1>2, <1>3, <1>4, <1>5, <1>6
    <2> QED
      BY <1>6, <2>1 DEF n, q
  <1>7. CASE ~(m.role = "human" /\ m.item = i)
    <2>1. HumanRows(i)' = HumanRows(i)
      BY <1>2, <1>3, <1>4, <1>5, <1>7
    <2> QED
      BY <1>7, <2>1
  <1> QED
    BY <1>6, <1>7

\* Only Dequeue gives a goroutine a message to work on.
LEMMA ExecsKept ==
    ASSUME TypeOK, Wake, [Next]_vars, \A p \in Pumps : ~Dequeue(p)
    PROVE  \A p \in Pumps : pump'[p].pc = "exec" =>
              pump[p].pc = "exec" /\ ActiveOf(p)' = ActiveOf(p)
  <1> DEFINE Kept == \A p \in Pumps : pump'[p].pc = "exec" =>
                        pump[p].pc = "exec" /\ ActiveOf(p)' = ActiveOf(p)
  <1>0. /\ sess \in [Sessions -> Session]
        /\ pump \in [Pumps -> [pc : PumpState, s : 0..MaxSessions]]
        /\ \A p \in Pumps : pump[p].pc # "none" => pump[p].s \in Sessions
    BY SessionOf DEF TypeOK
  <1>1. ASSUME \A s \in Sessions : sess'[s].active = sess[s].active,
               \A p \in Pumps : pump'[p].pc = "exec" => pump'[p] = pump[p]
        PROVE  Kept
    BY <1>0, <1>1 DEF ActiveOf
  <1>2. ASSUME NEW i \in Items, Enqueue(i) PROVE Kept
    <2> DEFINE t == item[i].s
               q == Append(sess[t].queue, i)
               n == sess[t].waiting + 1
    <2>1. t \in Sessions
      BY <1>2, SessionOf DEF Enqueue
    <2>2. sess' = [sess EXCEPT ![t].queue = q, ![t].waiting = n, ![t].pumping = TRUE]
      BY <1>2 DEF Enqueue
    <2>3. \/ pump' = pump
          \/ \E p \in Pumps : pump' = [pump EXCEPT ![p] = [pc |-> "loop", s |-> t]]
      BY <1>2 DEF Enqueue
    <2> HIDE DEF t, q, n
    <2>4. sess[t] \in Session
      BY <1>0, <2>1
    <2>5. \A s \in Sessions : sess'[s].active = sess[s].active
      BY <1>0, <2>1, <2>2, <2>4 DEF Session
    <2>6. ASSUME NEW p \in Pumps, pump' = [pump EXCEPT ![p] = [pc |-> "loop", s |-> t]]
          PROVE  Kept
      <3>1. pump'[p].pc = "loop" /\ \A r \in Pumps \ {p} : pump'[r] = pump[r]
        BY <1>0, <2>6
      <3> QED
        BY <1>1, <2>5, <3>1
    <2> QED
      BY <1>1, <2>3, <2>5, <2>6
  <1>3. ASSUME NEW i \in Items, RemoveQueuedItem(i) PROVE Kept
    <2>1. reg \in Sessions /\ pump' = pump
      BY <1>3, SessionOf DEF RemoveQueuedItem
    <2>2. \E q, n : sess' = [sess EXCEPT ![reg].queue = q, ![reg].waiting = n]
      BY <1>3 DEF RemoveQueuedItem
    <2>3. \A s \in Sessions : sess'[s].active = sess[s].active
      BY <1>0, <2>1, <2>2 DEF Session
    <2> QED
      BY <1>1, <2>1, <2>3
  <1>4. CASE ReorderQueuedItems
    <2>1. reg \in Sessions /\ pump' = pump
      BY <1>4, SessionOf DEF ReorderQueuedItems
    <2>2. \E q : sess' = [sess EXCEPT ![reg].queue = q]
      BY <1>4 DEF ReorderQueuedItems
    <2>3. \A s \in Sessions : sess'[s].active = sess[s].active
      BY <1>0, <2>1, <2>2 DEF Session
    <2> QED
      BY <1>1, <2>1, <2>3
  <1>5. ASSUME NEW k \in Cancels, CancelMark(k) PROVE Kept
    <2> DEFINE t == cancel[k].s
    <2>1. t \in Sessions /\ pump' = pump
      BY <1>5, SessionOf DEF CancelMark
    <2>2. \/ sess' = [sess EXCEPT ![t] = Swept(sess[t])]
          \/ sess' = [sess EXCEPT ![t].cancelRequested = TRUE]
      BY <1>5 DEF CancelMark
    <2> HIDE DEF t
    <2>3. sess[t] \in Session
      BY <1>0, <2>1
    <2>4. Swept(sess[t]).active = sess[t].active
      BY <2>3 DEF Swept, Session
    <2>5. CASE sess' = [sess EXCEPT ![t] = Swept(sess[t])]
      BY <1>0, <1>1, <2>1, <2>4, <2>5
    <2>6. CASE sess' = [sess EXCEPT ![t].cancelRequested = TRUE]
      <3>1. \A s \in Sessions : sess'[s].active = sess[s].active
        BY <1>0, <2>1, <2>3, <2>6 DEF Session
      <3> QED
        BY <1>1, <2>1, <3>1
    <2> QED
      BY <2>2, <2>5, <2>6
  <1>6. CASE UNCHANGED <<sess, pump>>
    BY <1>1, <1>6
  <1>7. ASSUME NEW p \in Pumps,
               \/ Drained(p) \/ TurnBegin(p) \/ TurnRefused(p) \/ TurnReturns(p)
               \/ Drop(p)
        PROVE  Kept
    <2>1. sess' = sess
      BY <1>7 DEF Drained, TurnBegin, TurnRefused, TurnReturns, Drop
    <2>2. \/ \E l \in {"exit", "turn", "ending"} : pump' = [pump EXCEPT ![p].pc = l]
          \/ pump' = [pump EXCEPT ![p] = [pc |-> "none", s |-> 0]]
      BY <1>7 DEF Drained, TurnBegin, TurnRefused, TurnReturns, Drop, Goto
    <2>3. pump'[p].pc # "exec" /\ \A r \in Pumps \ {p} : pump'[r] = pump[r]
      BY <1>0, <2>2
    <2> QED
      BY <1>1, <2>1, <2>3
  <1>8. ASSUME NEW p \in Pumps, EndTurn(p) \/ Exit(p) \/ Restart(p)
        PROVE  Kept
    <2> DEFINE t == pump[p].s
    <2>1. t \in Sessions /\ sess[t] \in Session
      BY <1>0, <1>8 DEF EndTurn, Exit, Restart
    <2>2. \/ \E l \in {"loop", "drop", "restart"} : pump' = [pump EXCEPT ![p].pc = l]
          \/ pump' = [pump EXCEPT ![p] = [pc |-> "none", s |-> 0]]
      BY <1>8 DEF EndTurn, Exit, Restart, Goto
    <2>3. pump'[p].pc # "exec" /\ \A r \in Pumps \ {p} : pump'[r] = pump[r]
      BY <1>0, <2>2
    <2>4. CASE EndTurn(p)
      <3>1. sess' = [sess EXCEPT ![t].active = None, ![t].cancelRequested = FALSE]
        BY <2>4 DEF EndTurn
      <3>2. Draining(p, t)
        BY <2>4 DEF EndTurn, Draining
      <3>3. \A s \in Sessions \ {t} : sess'[s] = sess[s]
        BY <1>0, <3>1
      <3> SUFFICES ASSUME NEW r \in Pumps, pump'[r].pc = "exec"
                   PROVE  pump[r].pc = "exec" /\ ActiveOf(r)' = ActiveOf(r)
        OBVIOUS
      <3>4. r # p /\ pump'[r] = pump[r]
        BY <2>3
      <3>5. pump[r].s \in Sessions /\ Draining(r, pump[r].s)
        BY <1>0, <3>4 DEF Draining
      <3>6. pump[r].s # t
        BY <2>1, <3>2, <3>4, <3>5 DEF Wake, SinglePump
      <3> QED
        BY <3>3, <3>4, <3>5, <3>6 DEF ActiveOf
    <2>5. CASE Exit(p) \/ Restart(p)
      <3>1. \E b \in BOOLEAN : sess' = [sess EXCEPT ![t].pumping = b] \/ sess' = sess
        BY <2>5 DEF Exit, Restart
      <3> HIDE DEF t
      <3>2. \A s \in Sessions : sess'[s].active = sess[s].active
        <4> SUFFICES ASSUME NEW s \in Sessions
                     PROVE  sess'[s].active = sess[s].active
          OBVIOUS
        <4>1. CASE sess' = sess
          BY <4>1
        <4>2. ASSUME NEW b \in BOOLEAN, sess' = [sess EXCEPT ![t].pumping = b]
              PROVE  sess'[s].active = sess[s].active
          <5>1. sess \in [Sessions -> Session] /\ t \in Sessions
            BY <1>0, <2>1
          <5>2. sess'[s] = IF s = t THEN [sess[s] EXCEPT !.pumping = b] ELSE sess[s]
            BY <4>2, <5>1
          <5>3. sess[s] \in Session
            BY <5>1
          <5> QED
            BY <5>2, <5>3 DEF Session
        <4> QED
          BY <3>1, <4>1, <4>2
      <3> QED
        BY <1>1, <2>3, <3>2
    <2> QED
      BY <1>8, <2>4, <2>5
  <1> QED
    BY <1>2, <1>3, <1>4, <1>5, <1>6, <1>7, <1>8
       DEF Next, PumpStep, vars, Submit, SubmitRefused, CheckTranscript,
           EnqueueRefused, CancelLookup, CancelAbort, ConfirmReady, ConfirmBegin,
           ConfirmEnd, Halt

\* The rows of the dialogue after a step other than TurnBegin.
LEMMA SameRows ==
    ASSUME TypeOK, [Next]_vars, \A p \in Pumps : ~TurnBegin(p), NEW i \in Items
    PROVE  HumanRows(i)' = HumanRows(i)
  <1>0. conv \in [done : BOOLEAN, msgs : Seq(Message)]
    BY DEF TypeOK
  <1>1. CASE conv' = conv
    BY <1>1 DEF HumanRows
  <1>2. ASSUME NEW m \in Message, conv'.msgs = Append(conv.msgs, m),
               ~(m.role = "human" /\ m.item = i)
        PROVE  HumanRows(i)' = HumanRows(i)
    BY <1>2, RowAppended
  <1>3. \A a, c \in BOOLEAN : AgentRow(a, c) \in Message /\ AgentRow(a, c).role # "human"
    BY RowTypes DEF AgentRow
  <1>4. HumanRow(None) \in Message /\ HumanRow(None).item # i
    BY RowTypes DEF HumanRow
  <1>5. ASSUME NEW p \in Pumps, TurnReturns(p)
        PROVE  HumanRows(i)' = HumanRows(i)
    <2>1. \E a, c \in BOOLEAN : conv'.msgs = Append(conv.msgs, AgentRow(a, c))
      <3> DEFINE cut == sess[pump[p].s].cancelRequested
                 Saved(x, y) == Append(conv.msgs, AgentRow(x, y))
      <3>1. cut \in BOOLEAN
        <4>1. pump[p].s \in Sessions
          BY <1>5, SessionOf DEF TurnReturns
        <4>2. sess[pump[p].s] \in Session
          BY <4>1, SessionParts
        <4> QED
          BY <4>2 DEF Session
      <3>2. \/ \E x \in BOOLEAN : conv' = [conv EXCEPT !.msgs = Saved(x, cut)]
            \/ conv' = [conv EXCEPT !.msgs = Saved(FALSE, TRUE)]
            \/ conv' = [done |-> TRUE, msgs |-> Saved(FALSE, FALSE)]
        BY <1>5, Zenon DEF TurnReturns
      <3>3. \A x : [conv EXCEPT !.msgs = x].msgs = x
        BY <1>0
      <3>4. \A x : [done |-> TRUE, msgs |-> x].msgs = x
        OBVIOUS
      <3>5. TRUE \in BOOLEAN /\ FALSE \in BOOLEAN
        OBVIOUS
      <3> HIDE DEF cut
      <3> QED
        BY <3>1, <3>2, <3>3, <3>4, <3>5, Zenon
    <2> QED
      BY <1>2, <1>3, <2>1
  <1>6. ASSUME NEW c \in Confirms, ConfirmBegin(c)
        PROVE  HumanRows(i)' = HumanRows(i)
    <2>1. \/ conv' = conv
          \/ conv' = [done |-> TRUE, msgs |-> Append(conv.msgs, HumanRow(None))]
      BY <1>6 DEF ConfirmBegin
    <2>2. conv' = conv \/ conv'.msgs = Append(conv.msgs, HumanRow(None))
      BY <2>1
    <2> QED
      BY <1>1, <1>2, <1>4, <2>2
  <1>7. ASSUME NEW c \in Confirms, ConfirmEnd(c)
        PROVE  HumanRows(i)' = HumanRows(i)
    <2>1. PICK a \in BOOLEAN, d \in BOOLEAN :
             conv' = [done |-> d, msgs |-> Append(conv.msgs, AgentRow(a, FALSE))]
      BY <1>7 DEF ConfirmEnd
    <2>2. conv'.msgs = Append(conv.msgs, AgentRow(a, FALSE))
      BY <2>1
    <2>3. AgentRow(a, FALSE) \in Message /\ AgentRow(a, FALSE).role # "human"
      BY <1>3
    <2> QED
      BY <1>2, <2>2, <2>3
  <1> QED
    BY <1>1, <1>5, <1>6, <1>7
       DEF Next, PumpStep, vars, Submit, SubmitRefused, CheckTranscript,
           EnqueueRefused, Enqueue, RemoveQueuedItem, ReorderQueuedItems, Dequeue,
           Drained, TurnRefused, EndTurn, Exit, Drop, Restart, CancelLookup,
           CancelMark, CancelAbort, ConfirmReady, Halt

\* A message with a human row only moves on to the end of its turn.
LEMMA RowItems ==
    ASSUME TypeOK, Placement, RowsPlaced, [Next]_vars, NEW i \in Items,
           HumanRows(i) # {}
    PROVE  item'[i].st \in {item[i].st, "ended"}
  <1>0. item \in [Items -> [st : ItemState, s : 0..MaxSessions]]
    BY DEF TypeOK
  <1>1. /\ item[i].st \in {"active", "ended"}
        /\ \A p \in Pumps : Busy(p) /\ ActiveOf(p) = i => pump[p].pc # "exec"
    BY DEF RowsPlaced, Placement, ActivesPlaced
  <1>2. ASSUME NEW j \in Items, item[j].st \notin {"active", "ended"}, NEW x,
               item' = [item EXCEPT ![j] = x]
        PROVE  item'[i].st = item[i].st
    BY <1>0, <1>1, <1>2
  <1>3. ASSUME NEW j \in Items,
               Submit(j) \/ SubmitRefused(j) \/ CheckTranscript(j) \/ EnqueueRefused(j)
               \/ Enqueue(j)
        PROVE  item'[i].st = item[i].st
    <2>1. item[j].st \notin {"active", "ended"} /\ \E x : item' = [item EXCEPT ![j] = x]
      BY <1>3 DEF Submit, SubmitRefused, CheckTranscript, EnqueueRefused, Enqueue, SetItem
    <2> QED
      BY <1>2, <2>1
  <1>4. ASSUME NEW j \in Items, RemoveQueuedItem(j)
        PROVE  item'[i].st = item[i].st
    <2>1. reg \in Sessions
      BY <1>4, SessionOf DEF RemoveQueuedItem
    <2>2. sess[reg].queue \in Seq(Items)
      BY <2>1, SessionParts, Zenon
    <2>3. j \in Waits(reg)
      BY <1>4, <2>2, QueueView DEF RemoveQueuedItem, Waits
    <2>4. item[j].st = "queued"
      BY <2>1, <2>3 DEF Placement, QueuesPlaced
    <2>5. \E x : item' = [item EXCEPT ![j] = x]
      BY <1>4 DEF RemoveQueuedItem, SetItem
    <2> QED
      BY <1>2, <2>4, <2>5
  <1>5. ASSUME NEW p \in Pumps, Dequeue(p)
        PROVE  item'[i].st = item[i].st
    <2> DEFINE q == sess[pump[p].s].queue
    <2>1. pump[p].s \in Sessions /\ q # <<>>
      BY <1>5, SessionOf DEF Dequeue
    <2>2. q \in Seq(Items) /\ IsInjective(q)
      BY <2>1, SessionParts, Zenon DEF Placement, QueuesPlaced
    <2>3. Head(q) \in Items /\ Head(q) \in Waits(pump[p].s)
      BY <2>1, <2>2, HeadTailProperties, TailPlaces DEF Waits
    <2>4. item[Head(q)].st = "queued"
      BY <2>1, <2>3 DEF Placement, QueuesPlaced
    <2>5. \E x : item' = [item EXCEPT ![Head(q)] = x]
      BY <1>5 DEF Dequeue, SetItem
    <2> HIDE DEF q
    <2> QED
      BY <1>2, <2>3, <2>4, <2>5
  <1>6. ASSUME NEW p \in Pumps, TurnRefused(p)
        PROVE  item'[i].st = item[i].st
    <2>1. pump[p].pc = "exec" /\ item' = [item EXCEPT ![ActiveOf(p)].st = "failed"]
      BY <1>6 DEF TurnRefused, SetItem, ActiveOf
    <2>2. ActiveOf(p) # i
      BY <1>1, <2>1 DEF Busy
    <2> QED
      BY <1>0, <2>1, <2>2
  <1>7. ASSUME NEW p \in Pumps, TurnReturns(p)
        PROVE  item'[i].st \in {item[i].st, "ended"}
    <2>1. item' = [item EXCEPT ![ActiveOf(p)].st = "ended"]
      BY <1>7 DEF TurnReturns, SetItem, ActiveOf
    <2> QED
      BY <1>0, <2>1
  <1>8. ASSUME NEW k \in Cancels, CancelMark(k)
        PROVE  item'[i].st = item[i].st
    <2> DEFINE t == cancel[k].s
    <2>1. t \in Sessions
      BY <1>8, SessionOf DEF CancelMark
    <2>2. sess[t].queue \in Seq(Items)
      BY <2>1, SessionParts, Zenon
    <2>3. \/ item' = item
          \/ item' = [j \in Items |-> IF j \in Waits(t)
                                      THEN [item[j] EXCEPT !.st = "cleared"] ELSE item[j]]
      <3>1. Waits(t) = {sess[t].queue[j] : j \in 1..Len(sess[t].queue)}
        BY <2>2, QueueView DEF Waits
      <3> QED
        BY <1>8, <3>1 DEF CancelMark
    <2>4. i \notin Waits(t)
      BY <1>1, <2>1 DEF Placement, QueuesPlaced
    <2> QED
      BY <2>3, <2>4
  <1>9. CASE item' = item
    BY <1>9
  <1> QED
    BY <1>3, <1>4, <1>5, <1>6, <1>7, <1>8, <1>9
       DEF Next, PumpStep, vars, ReorderQueuedItems, Drained, TurnBegin, EndTurn,
           Exit, Drop, Restart, CancelLookup, CancelAbort, ConfirmReady,
           ConfirmBegin, ConfirmEnd, Halt

LEMMA RowsNext ==
    TypeOK /\ Wake /\ Placement /\ RowsPlaced /\ [Next]_vars => RowsPlaced'
  <1> SUFFICES ASSUME TypeOK, Wake, Placement, RowsPlaced, [Next]_vars
               PROVE  RowsPlaced'
    OBVIOUS
  <1>0. /\ item \in [Items -> [st : ItemState, s : 0..MaxSessions]]
        /\ pump \in [Pumps -> [pc : PumpState, s : 0..MaxSessions]]
        /\ sess \in [Sessions -> Session]
        /\ conv \in [done : BOOLEAN, msgs : Seq(Message)]
    BY DEF TypeOK
  \* A step that appends no human row, for the messages that have one.
  <1>1. ASSUME NEW i \in Items, HumanRows(i)' = HumanRows(i),
               \A p \in Pumps : pump'[p].pc = "exec" /\ ActiveOf(p)' = i =>
                  pump[p].pc = "exec" /\ ActiveOf(p) = i
        PROVE  /\ \A j, k \in HumanRows(i)' : j = k
               /\ HumanRows(i)' # {} =>
                     \/ item'[i].st = "ended"
                     \/ /\ item'[i].st = "active"
                        /\ \A p \in Pumps : pump'[p].pc = "exec" => ActiveOf(p)' # i
    <2>1. \A j, k \in HumanRows(i) : j = k
      BY DEF RowsPlaced
    <2>2. ASSUME HumanRows(i) # {}
          PROVE  \/ item'[i].st = "ended"
                 \/ /\ item'[i].st = "active"
                    /\ \A p \in Pumps : pump'[p].pc = "exec" => ActiveOf(p)' # i
      <3>1. item'[i].st \in {item[i].st, "ended"}
        BY <2>2, RowItems
      <3> QED
        BY <1>1, <2>2, <3>1 DEF RowsPlaced
    <2> QED
      BY <1>1, <2>1, <2>2
  <1>2. ASSUME NEW p \in Pumps, Dequeue(p) PROVE RowsPlaced'
    <2> DEFINE t == pump[p].s
    <2>1. /\ t \in Sessions /\ sess[t].queue # <<>> /\ pump[p].pc = "loop"
          /\ conv' = conv
      BY <1>2, SessionOf DEF Dequeue
    <2>2. sess[t].queue \in Seq(Items) /\ sess[t] \in Session
      BY <2>1, SessionParts, Zenon
    <2>3. PICK h \in Items : h = Head(sess[t].queue) /\ item[h].st = "queued"
      <3>1. Head(sess[t].queue) \in Items
        BY <2>1, <2>2, HeadTailProperties
      <3>2. Head(sess[t].queue) \in Waits(t)
        BY <2>1, <2>2, TailPlaces DEF Waits, Placement, QueuesPlaced
      <3> QED
        BY <2>1, <3>1, <3>2 DEF Placement, QueuesPlaced
    <2>4. \E q, n : sess' = [sess EXCEPT ![t].queue = q, ![t].waiting = n,
                                         ![t].active = h, ![t].cancelRequested = FALSE]
      BY <1>2, <2>3 DEF Dequeue
    <2>5. pump'[p].s = t /\ \A r \in Pumps \ {p} : pump'[r] = pump[r]
      BY <1>0, <1>2 DEF Dequeue, Goto
    <2>6. Draining(p, t)
      BY <2>1 DEF Draining
    <2> HIDE DEF t
    <2>7. sess'[t].active = h /\ \A u \in Sessions \ {t} : sess'[u] = sess[u]
      BY <1>0, <2>1, <2>2, <2>4 DEF Session
    <2>8. HumanRows(h) = {}
      BY <2>3 DEF RowsPlaced
    <2>9. \A i \in Items : HumanRows(i)' = HumanRows(i)
      BY <2>1 DEF HumanRows
    <2>10. \A r \in Pumps : pump'[r].pc = "exec" =>
              \/ ActiveOf(r)' = h
              \/ pump[r].pc = "exec" /\ ActiveOf(r)' = ActiveOf(r)
      <3> SUFFICES ASSUME NEW r \in Pumps, pump'[r].pc = "exec"
                   PROVE  \/ ActiveOf(r)' = h
                          \/ pump[r].pc = "exec" /\ ActiveOf(r)' = ActiveOf(r)
        OBVIOUS
      <3>1. CASE r = p
        BY <2>5, <2>7, <3>1 DEF ActiveOf
      <3>2. CASE r # p
        <4>1. pump'[r] = pump[r]
          BY <2>5, <3>2
        <4>2. pump[r].s \in Sessions /\ Draining(r, pump[r].s)
          BY <4>1, SessionOf DEF Draining
        <4>3. pump[r].s # t
          BY <2>1, <2>6, <3>2, <4>2 DEF Wake, SinglePump
        <4> QED
          BY <2>7, <4>1, <4>2, <4>3 DEF ActiveOf
      <3> QED
        BY <3>1, <3>2
    <2>11. ASSUME NEW i \in Items, i # h
           PROVE  /\ \A j, k \in HumanRows(i)' : j = k
                  /\ HumanRows(i)' # {} =>
                        \/ item'[i].st = "ended"
                        \/ /\ item'[i].st = "active"
                           /\ \A r \in Pumps : pump'[r].pc = "exec" => ActiveOf(r)' # i
      <3>1. \A r \in Pumps : pump'[r].pc = "exec" /\ ActiveOf(r)' = i =>
               pump[r].pc = "exec" /\ ActiveOf(r) = i
        BY <2>10, <2>11
      <3> QED
        BY <1>1, <2>9, <3>1
    <2>12. HumanRows(h)' = {}
      BY <2>8, <2>9
    <2> QED
      BY <2>11, <2>12 DEF RowsPlaced
  <1>3. ASSUME NEW p \in Pumps, TurnBegin(p) PROVE RowsPlaced'
    <2>1. PICK h \in Items : h = ActiveOf(p) /\ item[h].st = "active"
      BY <1>3 DEF TurnBegin, Placement, ActivesPlaced, Busy
    <2>2. HumanRows(h) = {}
      BY <1>3, <2>1 DEF RowsPlaced, TurnBegin
    <2>3. /\ item' = item /\ sess' = sess
          /\ conv'.msgs = Append(conv.msgs, HumanRow(h))
      BY <1>0, <1>3, <2>1 DEF TurnBegin, ActiveOf
    <2>4. /\ HumanRow(h) \in Message /\ HumanRow(h).role = "human"
          /\ HumanRow(h).item = h
      BY RowTypes DEF HumanRow
    <2>5. /\ HumanRows(h)' = {Len(conv.msgs) + 1}
          /\ \A i \in Items \ {h} : HumanRows(i)' = HumanRows(i)
      BY <2>2, <2>3, <2>4, RowAppended
    <2>6. pump'[p].pc = "turn" /\ \A r \in Pumps \ {p} : pump'[r] = pump[r]
      BY <1>0, <1>3 DEF TurnBegin, Goto
    <2>7. \A r \in Pumps : pump'[r].pc = "exec" =>
             r # p /\ pump[r].pc = "exec" /\ ActiveOf(r)' = ActiveOf(r)
      BY <2>3, <2>6 DEF ActiveOf
    <2>8. \A i \in Items \ {h} :
             /\ \A j, k \in HumanRows(i)' : j = k
             /\ HumanRows(i)' # {} =>
                   \/ item'[i].st = "ended"
                   \/ /\ item'[i].st = "active"
                      /\ \A r \in Pumps : pump'[r].pc = "exec" => ActiveOf(r)' # i
      BY <1>1, <2>5, <2>7
    <2>9. \A r \in Pumps : pump'[r].pc = "exec" => ActiveOf(r)' # h
      <3>1. \A r \in Pumps : pump[r].pc = "exec" /\ ActiveOf(r) = h => r = p
        BY <1>3, <2>1 DEF Placement, ActivesPlaced, Busy, TurnBegin
      <3> QED
        BY <2>7, <3>1
    <2> QED
      BY <2>1, <2>3, <2>5, <2>8, <2>9 DEF RowsPlaced
  <1>4. CASE \A p \in Pumps : ~Dequeue(p) /\ ~TurnBegin(p)
    <2>1. \A i \in Items : HumanRows(i)' = HumanRows(i)
      BY <1>4, SameRows
    <2>2. \A p \in Pumps : pump'[p].pc = "exec" =>
             pump[p].pc = "exec" /\ ActiveOf(p)' = ActiveOf(p)
      BY <1>4, ExecsKept
    <2> QED
      BY <1>1, <2>1, <2>2 DEF RowsPlaced
  <1> QED
    BY <1>2, <1>3, <1>4

\* A queued message stands in one place of one queue, any other in none.
LEMMA PlacesCounted ==
    ASSUME TypeOK, QueueAccounting, Placement, NEW i \in Items
    PROVE  Cardinality(Places(i)) = IF item[i].st = "queued" THEN 1 ELSE 0
  <1>1. ASSUME NEW s \in Sessions, NEW j
        PROVE  (j \in 1..MaxReviewQueueItems /\ j <= Len(sess[s].queue))
               <=> j \in 1..Len(sess[s].queue)
    <2>1. /\ sess[s].waiting = Len(sess[s].queue)
          /\ sess[s].waiting <= MaxReviewQueueItems
          /\ Len(sess[s].queue) \in Nat
      BY SessionParts DEF QueueAccounting
    <2> QED
      BY <2>1
  <1>2. ASSUME NEW s \in Sessions
        PROVE  /\ i \in Waits(s) <=> \E j \in 1..Len(sess[s].queue) : sess[s].queue[j] = i
               /\ \A j, k \in 1..Len(sess[s].queue) :
                     sess[s].queue[j] = i /\ sess[s].queue[k] = i => j = k
    <2>1. sess[s].queue \in Seq(Items) /\ IsInjective(sess[s].queue)
      BY SessionParts, Zenon DEF Placement, QueuesPlaced
    <2> QED
      BY <2>1, QueueView DEF Waits
  <1>3. \A x : x \in Places(i) <=>
           \E s \in Sessions : \E j \in 1..Len(sess[s].queue) :
              x = <<s, j>> /\ sess[s].queue[j] = i
    BY <1>1 DEF Places
  <1>4. CASE item[i].st = "queued"
    <2>1. PICK s \in Sessions : i \in Waits(s)
      BY <1>4 DEF Placement, QueuesPlaced
    <2>2. PICK j \in 1..Len(sess[s].queue) : sess[s].queue[j] = i
      BY <1>2, <2>1
    <2>3. \A u \in Sessions : i \in Waits(u) => u = s
      BY <2>1 DEF Placement, QueuesPlaced
    <2>4. Places(i) = {<<s, j>>}
      BY <1>2, <1>3, <2>2, <2>3
    <2> QED
      BY <1>4, <2>4, FS_Singleton
  <1>5. CASE item[i].st # "queued"
    <2>1. \A s \in Sessions : i \notin Waits(s)
      BY <1>5 DEF Placement, QueuesPlaced
    <2>2. Places(i) = {}
      BY <1>2, <1>3, <2>1
    <2> QED
      BY <1>5, <2>2, FS_EmptySet
  <1> QED
    BY <1>4, <1>5

LEMMA RowsCounted ==
    ASSUME RowsPlaced, NEW i \in Items
    PROVE  /\ Cardinality(HumanRows(i)) <= 1
           /\ HumanRows(i) # {} => item[i].st \in {"active", "ended"}
  <1>1. HumanRows(i) = {} \/ \E j : HumanRows(i) = {j}
    BY DEF RowsPlaced
  <1>2. Cardinality(HumanRows(i)) \in {0, 1}
    BY <1>1, FS_EmptySet, FS_Singleton
  <1> QED
    BY <1>2 DEF RowsPlaced

\* An accepted message is in one place of one queue until it is taken, and
\* reaches the agent at most once; a removed, cleared or refused one never does.
\* Reorder lists are permutations here too.
THEOREM NothingLost ==
    ASSUME AnyOrder = FALSE
    PROVE  Spec => []ItemsAccountedFor
  <1>1. TypeOK /\ QueueAccounting /\ Placement /\ RowsPlaced => ItemsAccountedFor
    BY PlacesCounted, RowsCounted DEF ItemsAccountedFor
  <1>2. Spec => []RowsPlaced
    BY RowsInit, RowsNext, TypeCorrect, WakeAlways, PlacementAlways, PTL DEF Spec
  <1> QED
    BY <1>1, <1>2, TypeCorrect, AccountingAlways, PlacementAlways, PTL
=============================================================================
