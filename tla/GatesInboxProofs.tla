-------------------------- MODULE GatesInboxProofs --------------------------
(***************************************************************************)
(* Proofs about GatesInbox for any approvals, visits and bounds.           *)
(***************************************************************************)
EXTENDS GatesInbox, ListFilterProofs

-----------------------------------------------------------------------------
(* Filtering a list                                                        *)

\* The rows at different places differ in their keys.
Distinct(l) == \A m, n \in 1..Len(l) : l[m].key = l[n].key => m = n

LEMMA KeepList ==
  ASSUME NEW R, NEW l \in Seq(R), NEW S
  PROVE  /\ Keep(l, S) \in Seq(R \cap S)
         /\ Len(Keep(l, S)) = Cardinality(Kept(l, S))
         /\ Rows(Keep(l, S)) = Rows(l) \cap S
         /\ Distinct(l) => Distinct(Keep(l, S))
<1> DEFINE C == Cardinality(Kept(l, S))
<1>1. C \in Nat /\ Len(l) \in Nat
  <2>1. Len(l) \in Nat /\ 0 \in Nat
    OBVIOUS
  <2> QED  BY <2>1, KeptFinite
<1>2. Keep(l, S) = [i \in 1..C |-> l[KeptAt(l, S, i)]]
  BY DEF Keep, KeptAt
<1>3. \A i \in 1..C : KeptAt(l, S, i) \in 1..Len(l)
  BY <1>1, KeptAtRank DEF Kept
<1>4. /\ Keep(l, S) \in Seq(R \cap S) /\ Len(Keep(l, S)) = C
      /\ Rows(Keep(l, S)) = Rows(l) \cap S
  BY KeepRows
<1>5. ASSUME Distinct(l), NEW i \in 1..C, NEW j \in 1..C,
             Keep(l, S)[i].key = Keep(l, S)[j].key
      PROVE  i = j
  <2>1. KeptAt(l, S, i) = KeptAt(l, S, j)
    <3> HIDE DEF C
    <3> QED  BY <1>2, <1>3, <1>5 DEF Distinct
  <2> QED  BY <1>1, <2>1, KeptAtRank
<1>6. Distinct(l) => Distinct(Keep(l, S))
  <2> HIDE DEF C
  <2> QED  BY <1>4, <1>5 DEF Distinct
<1> QED  BY <1>4, <1>6

-----------------------------------------------------------------------------
(* Rows and lists of rows                                                  *)

LEMMA RowType ==
  /\ \A r \in Row : /\ r.key \in Item /\ r.it \in 1..Visits[r.key]
                    /\ r.key \in Nat \ {0} /\ r.it \in Nat \ {0}
                    /\ r # NoRow /\ r # PageOwner /\ r # UpdateOwner
  /\ \A r, s \in Row : r.key = s.key /\ r.it = s.it => r = s
  /\ \A k \in Item, i \in Nat : [key |-> k, it |-> i] \in Row <=> i \in 1..Visits[k]
<1>1. Item \subseteq Nat \ {0} /\ \A k \in Item : Visits[k] \in Nat
  BY ItemAssumption, BoundsAssumption
<1>2. ASSUME NEW r \in Row
      PROVE  \E k \in Item : r \in [key : {k}, it : 1..Visits[k]]
  BY <1>2 DEF Row
<1>3. ASSUME NEW r \in Row
      PROVE  /\ r.key \in Item /\ r.it \in 1..Visits[r.key]
             /\ r = [key |-> r.key, it |-> r.it]
  BY <1>2, <1>3
<1>4. ASSUME NEW r \in Row
      PROVE  /\ r.key \in Nat \ {0} /\ r.it \in Nat \ {0}
             /\ r # NoRow /\ r # PageOwner /\ r # UpdateOwner
  BY <1>1, <1>3 DEF NoRow, PageOwner, UpdateOwner
<1>5. ASSUME NEW k \in Item, NEW i \in 1..Visits[k]
      PROVE  [key |-> k, it |-> i] \in Row
  BY DEF Row
<1>6. ASSUME NEW k \in Item, NEW i \in Nat, [key |-> k, it |-> i] \in Row
      PROVE  i \in 1..Visits[k]
  BY <1>3, <1>6
<1> QED  BY <1>3, <1>4, <1>5, <1>6

LEMMA KeysOfRows ==
  ASSUME NEW l
  PROVE  Keys(l) = {r.key : r \in Rows(l)}
BY DEF Keys, Rows

LEMMA EmptyList ==
  ASSUME NEW R, NEW l \in Seq(R)
  PROVE  l = <<>> <=> Rows(l) = {}
<1>1. l = <<>> => Rows(l) = {}
  BY DEF Rows
<1>2. ASSUME l # <<>> PROVE l[1] \in Rows(l)
  BY <1>2 DEF Rows
<1> QED  BY <1>1, <1>2

LEMMA RowsTyped ==
  ASSUME NEW R, NEW l \in Seq(R)
  PROVE  Rows(l) \subseteq R /\ l \in Seq(Rows(l))
BY DEF Rows

LEMMA SeqOfRows ==
  ASSUME NEW R, NEW S, NEW l \in Seq(S), Rows(l) \subseteq R
  PROVE  l \in Seq(R)
BY DEF Rows

LEMMA DistinctCount ==
  ASSUME NEW R, NEW l \in Seq(R), Distinct(l)
  PROVE  Cardinality(Keys(l)) = Len(l)
<1> DEFINE f == [n \in 1..Len(l) |-> l[n].key]
<1>1. f \in Bijection(1..Len(l), Keys(l))
  <2>1. f \in [1..Len(l) -> Keys(l)] /\ \A k \in Keys(l) : \E n \in 1..Len(l) : f[n] = k
    BY DEF Keys
  <2>2. \A m, n \in 1..Len(l) : f[m] = f[n] => m = n
    BY DEF Distinct
  <2> HIDE DEF f
  <2> QED  BY <2>1, <2>2 DEF Bijection, Injection, Surjection, IsInjective
<1>2. IsFiniteSet(1..Len(l)) /\ Cardinality(1..Len(l)) = Len(l)
  <2>1. Len(l) \in Nat
    OBVIOUS
  <2>2. 1 > Len(l) => Len(l) = 0
    BY <2>1
  <2> QED  BY <2>1, <2>2, FS_Interval
<1> HIDE DEF f
<1> QED  BY <1>1, <1>2, FS_Bijection DEF ExistsBijection

LEMMA WithoutList ==
  ASSUME NEW R, NEW l \in Seq(R), NEW k
  PROVE  /\ Without(l, k) \in Seq(R)
         /\ Rows(Without(l, k)) = {r \in Rows(l) : r.key # k}
         /\ k \notin Keys(Without(l, k))
         /\ Distinct(l) => Distinct(Without(l, k))
<1> DEFINE S == {r \in Rows(l) : r.key # k}
<1>1. Without(l, k) = Keep(l, S)
  BY DEF Without
<1>2. /\ Keep(l, S) \in Seq(R \cap S)
      /\ Rows(Keep(l, S)) = Rows(l) \cap S
      /\ Distinct(l) => Distinct(Keep(l, S))
  <2> HIDE DEF S
  <2> QED  BY KeepList
<1>3. Keep(l, S) \in Seq(R)
  <2> HIDE DEF S
  <2> QED  BY <1>2
<1>4. Rows(Keep(l, S)) = S
  BY <1>2
<1> QED  BY <1>1, <1>2, <1>3, <1>4, KeysOfRows

\* Removing one row leaves all but one.
LEMMA WithoutLength ==
  ASSUME NEW R, NEW l \in Seq(R), NEW k, NEW n \in 1..Len(l),
         \A m \in 1..Len(l) : l[m].key = k => m = n
  PROVE  Len(Without(l, k)) \in Nat /\ Len(Without(l, k)) >= Len(l) - 1
<1> DEFINE S == {r \in Rows(l) : r.key # k}
           Rest == (1..Len(l)) \ {n}
<1>1. Len(l) \in Nat /\ Len(l) >= 1
  OBVIOUS
<1>2. Len(Without(l, k)) = Cardinality(Kept(l, S))
  <2> HIDE DEF S
  <2>1. Len(Keep(l, S)) = Cardinality(Kept(l, S))
    BY KeepList
  <2> QED  BY <2>1 DEF Without, S
<1>3. Rest \subseteq Kept(l, S)
  BY DEF Kept, Rows
<1>4. IsFiniteSet(Kept(l, S)) /\ Cardinality(Kept(l, S)) \in Nat
  <2> HIDE DEF S
  <2>1. 0 \in Nat
    OBVIOUS
  <2> QED  BY <1>1, <2>1, KeptFinite
<1>5. IsFiniteSet(1..Len(l)) /\ Cardinality(1..Len(l)) = Len(l)
  BY <1>1, FS_Interval
<1>6. IsFiniteSet(Rest) /\ Cardinality(Rest) = Len(l) - 1
  BY <1>5, FS_RemoveElement
<1>7. Cardinality(Rest) <= Cardinality(Kept(l, S))
  <2> HIDE DEF Rest, S
  <2> QED  BY <1>3, <1>4, FS_Subset
<1> HIDE DEF Rest, S
<1> QED  BY <1>1, <1>2, <1>4, <1>6, <1>7

LEMMA PositionOf ==
  ASSUME NEW R, NEW l \in Seq(R), NEW k
  PROVE  /\ k \notin Keys(l) => Position(l, k) = 0
         /\ k \in Keys(l) => /\ Position(l, k) \in 1..Len(l)
                             /\ l[Position(l, k)].key = k
BY DEF Position, Keys

Once(l, k) ==
  \A m, n \in 1..Len(l) : l[m].key = k /\ l[n].key = k => m = n

\* pickNextActiveAfterRemove stays in the list and leaves the removed row.
LEMMA PickNext ==
  ASSUME NEW R, NEW l \in Seq(R), NEW k, Once(l, k)
  PROVE  \/ pickNextActiveAfterRemove(l, k) = NoRow
         \/ /\ pickNextActiveAfterRemove(l, k) \in Rows(l)
            /\ pickNextActiveAfterRemove(l, k).key # k
<1> DEFINE n == Position(l, k)
           w == Without(l, k)
<1>1. w \in Seq(R) /\ Rows(w) = {r \in Rows(l) : r.key # k}
  BY WithoutList
<1>2. CASE w = <<>>
  BY <1>2 DEF pickNextActiveAfterRemove
<1>3. CASE w # <<>> /\ k \notin Keys(l)
  <2>1. pickNextActiveAfterRemove(l, k) = l[1]
    BY <1>3, PositionOf DEF pickNextActiveAfterRemove
  <2>2. l # <<>>
    BY <1>1, <1>3, EmptyList
  <2>3. l[1] \in Rows(l) /\ l[1].key \in Keys(l)
    BY <2>2 DEF Rows, Keys
  <2> QED  BY <2>1, <2>3, <1>3
<1>4. CASE w # <<>> /\ k \in Keys(l)
  <2>1. n \in 1..Len(l) /\ l[n].key = k
    BY <1>4, PositionOf
  <2>2. Len(w) \in Nat /\ Len(w) >= Len(l) - 1
    <3>1. \A m \in 1..Len(l) : l[m].key = k => m = n
      BY <2>1 DEF Once
    <3> HIDE DEF n
    <3> QED  BY <2>1, <3>1, WithoutLength
  <2>3. Len(w) >= 1
    BY <1>1, <1>4
  <2>4. pickNextActiveAfterRemove(l, k) = IF n <= Len(w) THEN w[n] ELSE w[n - 1]
    BY <1>4, <2>1 DEF pickNextActiveAfterRemove
  <2> HIDE DEF n, w
  <2>5. PICK m \in 1..Len(w) : pickNextActiveAfterRemove(l, k) = w[m]
    BY <2>1, <2>2, <2>3, <2>4
  <2>6. w[m] \in Rows(w)
    BY DEF Rows
  <2> QED  BY <2>5, <2>6, <1>1
<1> QED  BY <1>2, <1>3, <1>4

LEMMA InsertRow ==
  ASSUME NEW R, NEW l \in Seq(R), NEW x \in R, NEW at \in 1..(Len(l) + 1)
  PROVE  /\ InsertAt(l, at, x) \in Seq(R)
         /\ Rows(InsertAt(l, at, x)) = Rows(l) \cup {x}
         /\ Distinct(l) /\ x.key \notin Keys(l) => Distinct(InsertAt(l, at, x))
<1> DEFINE i == InsertAt(l, at, x)
<1>1. /\ i \in Seq(R) /\ Len(i) = Len(l) + 1
      /\ \A m \in 1..Len(i) : i[m] = IF m < at THEN l[m]
                                     ELSE IF m = at THEN x ELSE l[m - 1]
  <2> DEFINE h == SubSeq(l, 1, at - 1)
             t == SubSeq(l, at, Len(l))
  <2>1. /\ h \in Seq(R) /\ Len(h) = at - 1
        /\ \A m \in 1..(at - 1) : h[m] = l[m]
    OBVIOUS
  <2>2. /\ t \in Seq(R) /\ Len(t) = Len(l) - at + 1
        /\ \A m \in 1..(Len(l) - at + 1) : t[m] = l[at + m - 1]
    OBVIOUS
  <2>3. i = h \o <<x>> \o t
    BY DEF InsertAt
  <2> HIDE DEF h, t, i
  <2>4. /\ h \o <<x>> \in Seq(R) /\ Len(h \o <<x>>) = at
        /\ (h \o <<x>>)[at] = x
        /\ \A m \in 1..(at - 1) : (h \o <<x>>)[m] = l[m]
    BY <2>1
  <2> DEFINE g == h \o <<x>>
  <2> HIDE DEF g
  <2>5. /\ g \in Seq(R) /\ Len(g) = at /\ g[at] = x
        /\ \A m \in 1..(at - 1) : g[m] = l[m]
    BY <2>4 DEF g
  <2>6. i = g \o t
    BY <2>3 DEF g
  <2>7. i \in Seq(R) /\ Len(i) = Len(l) + 1
    BY <2>2, <2>5, <2>6
  <2>8. ASSUME NEW m \in 1..Len(i)
        PROVE  i[m] = IF m < at THEN l[m] ELSE IF m = at THEN x ELSE l[m - 1]
    <3>1. i[m] = IF m <= at THEN g[m] ELSE t[m - at]
      BY <2>2, <2>5, <2>6, <2>7
    <3>2. CASE m <= at
      BY <3>1, <3>2, <2>5
    <3>3. CASE m > at
      <4>1. m - at \in 1..(Len(l) - at + 1) /\ at + (m - at) - 1 = m - 1
        BY <3>3, <2>7
      <4> QED  BY <4>1, <3>1, <3>3, <2>2
    <3> QED  BY <3>2, <3>3
  <2> QED  BY <2>7, <2>8
<1> HIDE DEF i
<1>2. Rows(i) \subseteq Rows(l) \cup {x}
  <2> SUFFICES ASSUME NEW m \in 1..Len(i) PROVE i[m] \in Rows(l) \cup {x}
    BY DEF Rows
  <2>1. CASE m < at
    BY <2>1, <1>1 DEF Rows
  <2>2. CASE m = at
    BY <2>2, <1>1
  <2>3. CASE m > at
    BY <2>3, <1>1 DEF Rows
  <2> QED  BY <2>1, <2>2, <2>3
<1>3. Rows(l) \cup {x} \subseteq Rows(i)
  <2>1. at \in 1..Len(i) /\ i[at] = x
    BY <1>1
  <2>2. ASSUME NEW m \in 1..Len(l) PROVE l[m] \in Rows(i)
    <3>1. CASE m < at
      BY <3>1, <1>1 DEF Rows
    <3>2. CASE m >= at
      <4>1. m + 1 \in 1..Len(i) /\ i[m + 1] = l[m]
        BY <3>2, <1>1
      <4> QED  BY <4>1 DEF Rows
    <3> QED  BY <3>1, <3>2
  <2>3. x \in Rows(i)
    BY <2>1 DEF Rows
  <2> QED  BY <2>2, <2>3 DEF Rows
<1>4. ASSUME Distinct(l), x.key \notin Keys(l),
             NEW m \in 1..Len(i), NEW n \in 1..Len(i), i[m].key = i[n].key
      PROVE  m = n
  <2>1. \A j \in 1..Len(l) : l[j].key # x.key
    BY <1>4 DEF Keys
  <2>2. CASE m = at \/ n = at
    <3>1. ASSUME NEW j \in 1..Len(i), j # at PROVE i[j].key # x.key
      <4>1. i[j] = IF j < at THEN l[j] ELSE l[j - 1]
        BY <1>1, <3>1
      <4>2. j < at => j \in 1..Len(l)
        OBVIOUS
      <4>3. ~(j < at) => j - 1 \in 1..Len(l)
        BY <1>1, <3>1
      <4> QED  BY <4>1, <4>2, <4>3, <2>1
    <3>2. i[at] = x
      BY <1>1
    <3> QED  BY <2>2, <3>1, <3>2, <1>4
  <2>3. CASE m # at /\ n # at
    <3> DEFINE o(j) == IF j < at THEN j ELSE j - 1
    <3>1. /\ o(m) \in 1..Len(l) /\ o(n) \in 1..Len(l)
          /\ i[m] = l[o(m)] /\ i[n] = l[o(n)]
      BY <2>3, <1>1
    <3>2. o(m) = o(n)
      <4> HIDE DEF o
      <4> QED  BY <3>1, <1>4 DEF Distinct
    <3> QED  BY <3>2, <2>3
  <2> QED  BY <2>2, <2>3
<1> QED  BY <1>1, <1>2, <1>3, <1>4 DEF i, Distinct

LEMMA AppendRow ==
  ASSUME NEW R, NEW l \in Seq(R), NEW x \in R
  PROVE  /\ Append(l, x) \in Seq(R)
         /\ Rows(Append(l, x)) = Rows(l) \cup {x}
         /\ Distinct(l) /\ x.key \notin Keys(l) => Distinct(Append(l, x))
<1> DEFINE a == Append(l, x)
<1>1. /\ a \in Seq(R) /\ Len(a) = Len(l) + 1
      /\ \A m \in 1..Len(l) : a[m] = l[m]
      /\ a[Len(l) + 1] = x
  OBVIOUS
<1> HIDE DEF a
<1>2. Rows(a) = Rows(l) \cup {x}
  BY <1>1 DEF Rows
<1>3. Distinct(l) /\ x.key \notin Keys(l) => Distinct(a)
  BY <1>1 DEF Distinct, Keys
<1> QED  BY <1>1, <1>2, <1>3 DEF a

\* What the server lists: the visits that wait.
LEMMA ServerLists ==
  ASSUME pend \in [Item -> Nat]
  PROVE  /\ ServerList \in Seq(Row) /\ Distinct(ServerList)
         /\ Rows(ServerList) = {r \in Row : pend[r.key] = r.it}
<1> DEFINE b == [k \in 1..NItems |-> [key |-> k, it |-> pend[k]]]
           R == [key : Item, it : Nat]
<1>1. b \in Seq(R) /\ Len(b) = NItems
  <2>1. \A k \in 1..NItems : [key |-> k, it |-> pend[k]] \in R
    BY ItemAssumption
  <2>2. NItems \in Nat
    BY ItemAssumption
  <2> HIDE DEF R
  <2>3. b \in [1..NItems -> R]
    BY <2>1
  <2> QED  BY <2>2, <2>3
<1>2. Distinct(b)
  BY <1>1 DEF Distinct
<1>3. Rows(b) = {[key |-> k, it |-> pend[k]] : k \in Item}
  BY <1>1, ItemAssumption DEF Rows
<1>4. /\ ServerList \in Seq(R \cap Row) /\ Distinct(ServerList)
      /\ Rows(ServerList) = Rows(b) \cap Row
  <2>1. ServerList = Keep(b, Row)
    BY DEF ServerList
  <2> HIDE DEF b, R
  <2> QED  BY <2>1, <1>1, <1>2, KeepList
<1>5. ServerList \in Seq(Row)
  <2> HIDE DEF R
  <2> QED  BY <1>4
<1>6. Rows(b) \cap Row \subseteq {r \in Row : pend[r.key] = r.it}
  BY <1>3
<1>7. ASSUME NEW r \in Row, pend[r.key] = r.it PROVE r \in Rows(b) \cap Row
  <2>1. r.key \in Item /\ r.it \in 1..Visits[r.key] /\ r.it \in Nat
    BY RowType
  <2>2. [key |-> r.key, it |-> pend[r.key]] \in Row
    BY <2>1, <1>7, RowType
  <2>3. r = [key |-> r.key, it |-> pend[r.key]]
    BY <2>2, <1>7, RowType
  <2> QED  BY <2>1, <2>3, <1>3
<1> QED  BY <1>4, <1>5, <1>6, <1>7

-----------------------------------------------------------------------------
(* Pages                                                                   *)
(*                                                                         *)
(* A page whose rows are all in R, and the answer it awaits in S.          *)

PageOf(R, S) ==
  [list : Seq(R), active : R \cup {NoRow}, detail : R \cup {NoRow},
   ctx : [row : R \cup {NoRow}, hard : BOOLEAN, found : BOOLEAN],
   ws : Item \cup {0}, processed : SUBSET R, absent : SUBSET R,
   intents : SUBSET R, owner : Row \cup {NoOwner, PageOwner, UpdateOwner},
   snap : Seq(S), snapBefore : Seq(R), listLoading : BOOLEAN]

SocketOK(p) == p.ws \in {0, p.active.key}

\* What one page keeps by itself, whatever the server and the confirms do.
Sound(p) ==
  /\ Distinct(p.list) /\ Distinct(p.snap) /\ Distinct(p.snapBefore)
  /\ Rows(p.list) \cap p.processed = {}
  /\ p.absent \subseteq p.processed
  /\ p.owner = NoOwner => p.snap = <<>>
  /\ p.ctx.row \notin p.processed
  /\ SocketOK(p)

\* The context request was just sent for the selected row.
Fresh(p) ==
  /\ p.ctx.row = p.active /\ p.active \in Row
  /\ p.active \notin p.processed /\ p.active.key \in Keys(p.list)
  /\ p.ctx.found = (pend[p.active.key] = p.active.it)

\* q differs from p in what is selected and asked for only.
Frame(p, q) ==
  /\ q.list = p.list /\ q.processed = p.processed /\ q.absent = p.absent
  /\ q.intents = p.intents /\ q.owner = p.owner /\ q.snap = p.snap
  /\ q.snapBefore = p.snapBefore
  /\ q.ctx = p.ctx \/ Fresh(q)

\* And a row that becomes the selected one is asked for, unless it is marked
\* processed, or unlisted while nothing is being confirmed.
Looks(p, q) ==
  /\ Frame(p, q) /\ SocketOK(q)
  /\ \/ q.active = p.active \/ q.active = NoRow \/ q.active \in q.processed
     \/ q.ctx.row = q.active
     \/ q.active.key \notin Keys(q.list) /\ q.intents = {}

LEMMA NoRowApart == NoRow.key = 0 /\ NoRow \notin Row
<1>1. NoRow.key = 0
  BY DEF NoRow
<1> QED  BY <1>1, RowType

\* A fresh context request for the selected row.
LEMMA AskedType ==
  ASSUME NEW R \in SUBSET Row, NEW S, NEW p \in PageOf(R, S),
         shouldFetchActiveInboxContext(p), NEW h \in BOOLEAN
  PROVE  /\ NewCtx(p.active, h) \in [row : R \cup {NoRow}, hard : BOOLEAN, found : BOOLEAN]
         /\ NewCtx(p.active, h).row = p.active
         /\ NewCtx(p.active, h).found = (pend[p.active.key] = p.active.it)
         /\ p.active \in R /\ p.active \notin p.processed
         /\ p.active.key \in Keys(p.list)
<1>1. p.active \in R \cup {NoRow}
  BY DEF PageOf
<1> QED  BY <1>1 DEF NewCtx, shouldFetchActiveInboxContext, isActiveStillInList

LEMMA SoftLooks ==
  ASSUME NEW R \in SUBSET Row, NEW S, NEW p \in PageOf(R, S)
  PROVE  LET q == softRefreshActiveRun(p)
         IN  /\ q \in PageOf(R, S) /\ Frame(p, q)
             /\ q.active = p.active /\ q.ws = p.ws
<1>1. CASE shouldFetchActiveInboxContext(p) /\ p.ctx.row # p.active
  <2> DEFINE c == NewCtx(p.active, FALSE)
  <2>1. softRefreshActiveRun(p) = [p EXCEPT !.ctx = c]
    BY <1>1 DEF softRefreshActiveRun
  <2>2. /\ c \in [row : R \cup {NoRow}, hard : BOOLEAN, found : BOOLEAN]
        /\ c.row = p.active
        /\ c.found = (pend[p.active.key] = p.active.it)
        /\ p.active \in R /\ p.active \notin p.processed
        /\ p.active.key \in Keys(p.list)
    BY <1>1, AskedType
  <2> HIDE DEF c
  <2> QED  BY <2>1, <2>2 DEF PageOf, Frame, Fresh
<1>2. CASE ~(shouldFetchActiveInboxContext(p) /\ p.ctx.row # p.active)
  BY <1>2 DEF softRefreshActiveRun, Frame
<1> QED  BY <1>1, <1>2

LEMMA HardLooks ==
  ASSUME NEW R \in SUBSET Row, NEW S, NEW p \in PageOf(R, S)
  PROVE  LET q == loadActiveRunHard(p)
         IN  /\ q \in PageOf(R, S) /\ Frame(p, q)
             /\ q.active = p.active /\ q.ws = p.ws
             /\ shouldFetchActiveInboxContext(p) => q.ctx.row = q.active
<1>1. CASE ~shouldFetchActiveInboxContext(p)
  BY <1>1 DEF loadActiveRunHard, PageOf, Frame
<1>2. CASE shouldFetchActiveInboxContext(p) /\ p.ctx.row = p.active
  BY <1>2 DEF loadActiveRunHard, Frame
<1>3. CASE shouldFetchActiveInboxContext(p) /\ p.ctx.row # p.active
  <2> DEFINE c == NewCtx(p.active, TRUE)
  <2>1. loadActiveRunHard(p) = [p EXCEPT !.detail = NoRow, !.ctx = c]
    BY <1>3 DEF loadActiveRunHard
  <2>2. /\ c \in [row : R \cup {NoRow}, hard : BOOLEAN, found : BOOLEAN]
        /\ c.row = p.active
        /\ c.found = (pend[p.active.key] = p.active.it)
        /\ p.active \in R /\ p.active \notin p.processed
        /\ p.active.key \in Keys(p.list)
    BY <1>3, AskedType
  <2> HIDE DEF c
  <2> QED  BY <2>1, <2>2 DEF PageOf, Frame, Fresh
<1> QED  BY <1>1, <1>2, <1>3

\* watch(active): the socket follows the selection, and a row that becomes the
\* selected one is asked for if it is listed and not marked.
LEMMA WatchLooks ==
  ASSUME NEW R \in SUBSET Row, NEW S, NEW p \in PageOf(R, S), NEW b
  PROVE  LET q == watchActive(p, b)
         IN  /\ q \in PageOf(R, S) /\ Frame(p, q) /\ q.active = p.active
             /\ p.active = b => q = p
             /\ p.active # b => SocketOK(q)
             /\ p.active # b => \/ q.active = NoRow \/ q.active \in q.processed
                                \/ q.ctx.row = q.active
                                \/ q.active.key \notin Keys(q.list)
<1>1. CASE p.active = b
  BY <1>1 DEF watchActive, Frame
<1>2. CASE p.active # b /\ p.active = NoRow
  BY <1>2 DEF watchActive, closeActiveRunWs, PageOf, Frame, SocketOK
<1>3. CASE /\ p.active # b /\ p.active # NoRow
           /\ p.active \in p.processed \/ ~isActiveStillInList(p)
  BY <1>3 DEF watchActive, closeActiveRunWs, PageOf, Frame, SocketOK, isActiveStillInList
<1>4. CASE /\ p.active # b /\ p.active # NoRow
           /\ ~(p.active \in p.processed \/ ~isActiveStillInList(p))
  <2> DEFINE u == loadActiveRunHard(p)
  <2>1. watchActive(p, b) = [u EXCEPT !.ws = u.active.key]
    BY <1>4 DEF watchActive, connectActiveRunWs
  <2>2. /\ u \in PageOf(R, S) /\ Frame(p, u) /\ u.active = p.active
        /\ u.ctx.row = u.active
    BY <1>4, HardLooks DEF shouldFetchActiveInboxContext
  <2>3. u.active \in Row
    BY <1>4, <2>2 DEF PageOf
  <2>4. u.active.key \in Item
    BY <2>3, RowType
  <2> HIDE DEF u
  <2> QED  BY <1>4, <2>1, <2>2, <2>4 DEF PageOf, Frame, Fresh, SocketOK
<1> QED  BY <1>1, <1>2, <1>3, <1>4

LEMMA SelectLooks ==
  ASSUME NEW R \in SUBSET Row, NEW S, NEW p \in PageOf(R, S), SocketOK(p),
         NEW x \in R \cup {NoRow},
         x # NoRow /\ x # p.active => x.key \in Keys(p.list) \/ p.intents = {}
  PROVE  LET q == select(p, x)
         IN  q \in PageOf(R, S) /\ Looks(p, q) /\ q.active = x
<1> DEFINE u == [p EXCEPT !.active = x]
           q == watchActive(u, p.active)
<1>1. u \in PageOf(R, S) /\ u.active = x
  BY DEF PageOf
<1>2. /\ u.list = p.list /\ u.processed = p.processed /\ u.absent = p.absent
      /\ u.intents = p.intents /\ u.owner = p.owner /\ u.snap = p.snap
      /\ u.snapBefore = p.snapBefore /\ u.ctx = p.ctx /\ u.ws = p.ws
  BY DEF PageOf
<1>3. select(p, x) = q
  BY DEF select
<1> HIDE DEF u
<1>4. /\ q \in PageOf(R, S) /\ Frame(u, q) /\ q.active = x
      /\ x = p.active => q = u
      /\ x # p.active => SocketOK(q)
      /\ x # p.active => \/ x = NoRow \/ x \in q.processed
                         \/ q.ctx.row = x \/ x.key \notin Keys(q.list)
  BY <1>1, WatchLooks
<1> HIDE DEF q
<1>5. Frame(p, q)
  BY <1>2, <1>4 DEF Frame
<1>6. SocketOK(q)
  BY <1>1, <1>2, <1>4 DEF SocketOK
<1>7. q.list = p.list /\ q.intents = p.intents
  BY <1>5 DEF Frame
<1> QED  BY <1>3, <1>4, <1>5, <1>6, <1>7 DEF Looks

LEMMA LooksSame ==
  ASSUME NEW p, SocketOK(p)
  PROVE  Looks(p, p)
BY DEF Looks, Frame

LEMMA EnsureLooks ==
  ASSUME NEW R \in SUBSET Row, NEW S, NEW p \in PageOf(R, S), SocketOK(p)
  PROVE  LET q == ensureValidActive(p)
         IN  /\ q \in PageOf(R, S) /\ Looks(p, q)
             /\ q.active \in {p.active, NoRow} \cup Rows(p.list)
<1>1. CASE p.intents # {} \/ (p.list # <<>> /\ isActiveStillInList(p))
  BY <1>1, LooksSame DEF ensureValidActive
<1>2. CASE p.intents = {} /\ p.list = <<>>
  BY <1>2, SelectLooks DEF ensureValidActive
<1>3. CASE p.intents = {} /\ p.list # <<>> /\ ~isActiveStillInList(p)
  <2>1. ensureValidActive(p) = select(p, p.list[1])
    BY <1>3 DEF ensureValidActive
  <2>2. p.list[1] \in R /\ p.list[1] \in Rows(p.list)
    BY <1>3 DEF PageOf, Rows
  <2> QED  BY <1>3, <2>1, <2>2, SelectLooks
<1> QED  BY <1>1, <1>2, <1>3

-----------------------------------------------------------------------------
(* The page, the server and the confirms                                   *)
(*                                                                         *)
(* For a page p, the waiting visits w, the step f of each confirm and the  *)
(* confirms c that have succeeded.                                         *)

Sent == {"sent", "left", "ok", "refresh", "load"}     \* not to be rolled back
Answered == {"left", "ok", "refresh", "load"}

\* An answered visit does not wait, and a confirm that is done is over.
Final(w, f, c) ==
  \A r \in Row :
    /\ f[r] \in Answered \/ r \in c => w[r.key] # r.it
    /\ r \in c => f[r] = "idle"

\* Only a failed confirm may lose its mark.
Marked(p, f, c) == \A r \in Row : f[r] \in Sent \/ r \in c => r \in p.processed

\* The list answer under way was read after the confirm it waits for.
NotAwaited(p, f, c) ==
  \A r \in Row : f[r] = "load" \/ r \in c => r \notin Rows(p.snap)

Known(p) == Row \cap (Rows(p.list) \cup Rows(p.snapBefore) \cup p.processed
                        \cup p.absent \cup p.intents
                        \cup {p.active, p.detail, p.ctx.row})

\* The list answer under way has every known visit that waits, but for one
\* that a refusal has just put back.
Complete(p, w, f) ==
  \A r \in Known(p) :
    f[r] # "err" /\ w[r.key] = r.it /\ p.owner # NoOwner => r \in Rows(p.snap)

\* A marked row that a list did not have is not coming back.
Gone(p, w, f) ==
  \A r \in p.absent : f[r] # "err" => w[r.key] # r.it /\ r \notin Rows(p.snap)

\* A context answer that says "gone" is right.
CtxTrue(p, w) ==
  p.ctx.row \in Row /\ ~p.ctx.found => w[p.ctx.row.key] # p.ctx.row.it

\* An earlier visit of its node has been confirmed here.
Older(r, c) == \E d \in c : d.key = r.key /\ d.it < r.it

\* A visit that waits and is asked for is listed, or its node's rows have just
\* been dropped, or it is being confirmed.
CtxListed(p, w, f, c) ==
  p.ctx.row \in Row /\ w[p.ctx.row.key] = p.ctx.row.it =>
    \/ p.ctx.row.key \in Keys(p.list) \/ Older(p.ctx.row, c)
    \/ f[p.ctx.row] # "idle"

\* HiddenOnlyInFlight
Hidden(p, w, c) ==
  \A r \in p.processed : w[r.key] = r.it => r \in p.intents \/ Older(r, c)

\* A row being confirmed and marked is not the selected one.
Apart(p, f) == \A r \in p.processed : f[r] # "idle" => p.active # r

\* Another visit of the selected node is asked for only in passing.
CtxOwned(p, w, c) ==
  /\ p.ctx.row \in Row /\ w[p.ctx.row.key] = p.ctx.row.it
  /\ p.active.key = p.ctx.row.key /\ p.active # p.ctx.row
  => p.active \in p.processed \/ Older(p.ctx.row, c)

Base(p, w, f, c) ==
  /\ Marked(p, f, c) /\ NotAwaited(p, f, c) /\ Complete(p, w, f)
  /\ Gone(p, w, f) /\ CtxTrue(p, w) /\ CtxListed(p, w, f, c) /\ Hidden(p, w, c)
Coherent(p, w, f, c) == Base(p, w, f, c) /\ Apart(p, f) /\ CtxOwned(p, w, c)

Locks(p, f) == p.intents = {r \in Row : f[r] # "idle"}

LEMMA KnownPage ==
  ASSUME NEW R \in SUBSET Row, NEW S, NEW p \in PageOf(R, S)
  PROVE  /\ Known(p) \in SUBSET R
         /\ p \in PageOf(Known(p), S)
<1> DEFINE K == Known(p)
<1>1. Rows(p.list) \subseteq R /\ Rows(p.snapBefore) \subseteq R
  BY RowsTyped DEF PageOf
<1>2. K \in SUBSET R
  BY <1>1, NoRowApart DEF PageOf, Known
<1>3. Rows(p.list) \subseteq K /\ Rows(p.snapBefore) \subseteq K
  BY <1>1 DEF Known
<1>4. p.list \in Seq(K) /\ p.snapBefore \in Seq(K)
  <2>1. p.list \in Seq(R) /\ p.snapBefore \in Seq(R)
    BY DEF PageOf
  <2> HIDE DEF K
  <2> QED  BY <2>1, <1>3, SeqOfRows
<1>5. /\ p.processed \subseteq K /\ p.absent \subseteq K /\ p.intents \subseteq K
      /\ {p.active, p.detail, p.ctx.row} \subseteq K \cup {NoRow}
  BY DEF Known, PageOf
<1>6. p.ctx \in [row : K \cup {NoRow}, hard : BOOLEAN, found : BOOLEAN]
  <2>1. p.ctx \in [row : R \cup {NoRow}, hard : BOOLEAN, found : BOOLEAN]
    BY DEF PageOf
  <2> HIDE DEF K
  <2> QED  BY <2>1, <1>5
<1> HIDE DEF K
<1>7. p \in PageOf(K, S)
  BY <1>4, <1>5, <1>6 DEF PageOf
<1> QED  BY <1>2, <1>7 DEF K

\* Looking elsewhere changes nothing of this.
LEMMA LooksKeeps ==
  ASSUME NEW R \in SUBSET Row, NEW S, NEW p \in PageOf(R, S),
         NEW q \in PageOf(R, S), p.owner # NoOwner => q \in PageOf(Known(p), S),
         NEW f, NEW c, Sound(p), Base(p, pend, f, c), Looks(p, q),
         \/ q.active = p.active /\ Apart(p, f) /\ CtxOwned(p, pend, c)
         \/ q.active # p.active /\ q.active \notin p.processed
         \/ q.active # p.active /\ p.intents = {},
         p.intents = {} => \A r \in Row : f[r] = "idle"
  PROVE  Sound(q) /\ Coherent(q, pend, f, c)
<1>1. Frame(p, q) /\ SocketOK(q)
  BY DEF Looks
<1>2. Known(p) \in SUBSET Row /\ Known(p) \in SUBSET R /\ R \subseteq Row
  BY KnownPage
<1>3. p.owner # NoOwner => Known(q) \in SUBSET Known(p)
  BY <1>2, KnownPage
<1>4. q.ctx = p.ctx \/ Fresh(q)
  BY <1>1 DEF Frame
<1>5. Sound(q)
  BY <1>1, <1>4 DEF Sound, Frame, Fresh
<1>6. p.processed \subseteq Row /\ q.processed = p.processed
  BY <1>1 DEF PageOf, Frame
<1>7. Marked(q, f, c) /\ NotAwaited(q, f, c) /\ Gone(q, pend, f) /\ Hidden(q, pend, c)
  BY <1>1 DEF Base, Marked, NotAwaited, Gone, Hidden, Frame
<1>8. Complete(q, pend, f)
  BY <1>1, <1>3 DEF Base, Complete, Frame
<1>9. CtxTrue(q, pend)
  BY <1>4 DEF Base, CtxTrue, Fresh
<1>10. CtxListed(q, pend, f, c)
  <2>1. q.list = p.list
    BY <1>1 DEF Frame
  <2> QED  BY <1>4, <2>1 DEF Base, CtxListed, Fresh
<1>11. Apart(q, f)
  BY <1>6 DEF Apart
<1>12. CtxOwned(q, pend, c)
  <2> SUFFICES ASSUME q.ctx.row \in Row, pend[q.ctx.row.key] = q.ctx.row.it,
                      q.active.key = q.ctx.row.key, q.active # q.ctx.row
               PROVE  q.active \in q.processed \/ Older(q.ctx.row, c)
    BY DEF CtxOwned
  <2>1. q.ctx = p.ctx
    BY <1>4 DEF Fresh
  <2>2. CASE q.active = p.active
    <3>1. CASE CtxOwned(p, pend, c)
      BY <2>1, <2>2, <3>1, <1>6 DEF CtxOwned
    <3> QED  BY <2>2, <3>1
  <2>3. CASE q.active = NoRow
    <3>1. q.ctx.row.key # 0
      BY RowType
    <3> QED  BY <2>3, <3>1, NoRowApart
  <2>4. CASE q.active.key \notin Keys(q.list) /\ q.intents = {}
    <3>1. q.list = p.list /\ q.intents = p.intents
      BY <1>1 DEF Frame
    <3>2. p.ctx.row.key \notin Keys(p.list) /\ f[p.ctx.row] = "idle"
      BY <2>1, <2>4, <3>1
    <3> QED  BY <2>1, <3>2 DEF Base, CtxListed
  <2> QED  BY <2>2, <2>3, <2>4 DEF Looks
<1> QED  BY <1>5, <1>7, <1>8, <1>9, <1>10, <1>11, <1>12 DEF Coherent, Base

\* A row that may become the selected one of page p.
MaySelect(p, x, f, c) ==
  /\ Sound(p) /\ Base(p, pend, f, c)
  /\ p.owner = NoOwner \/ x \in Known(p) \cup {NoRow}
  /\ x = p.active => Apart(p, f) /\ CtxOwned(p, pend, c)
  /\ x # p.active => x \notin p.processed
  /\ x # p.active /\ x # NoRow => x.key \in Keys(p.list)
  /\ p.intents = {} => \A r \in Row : f[r] = "idle"

LEMMA SelectKeeps ==
  ASSUME NEW R \in SUBSET Row, NEW p \in PageOf(R, R), NEW x \in R \cup {NoRow},
         NEW f, NEW c, MaySelect(p, x, f, c)
  PROVE  LET q == select(p, x)
         IN  /\ q \in PageOf(R, R) /\ q.active = x /\ q.intents = p.intents
             /\ q.owner = p.owner
             /\ Sound(q) /\ Coherent(q, pend, f, c)
<1> USE DEF MaySelect
<1> DEFINE q == select(p, x)
<1>1. SocketOK(p)
  BY DEF Sound
<1>2. q \in PageOf(R, R) /\ Looks(p, q) /\ q.active = x
  BY <1>1, SelectLooks
<1>3. Known(p) \in SUBSET Row /\ p \in PageOf(Known(p), R)
  BY KnownPage
<1>4. p.owner # NoOwner => q \in PageOf(Known(p), R)
  BY <1>1, <1>3, SelectLooks
<1> HIDE DEF q
<1>5. Sound(q) /\ Coherent(q, pend, f, c)
  BY <1>2, <1>4, LooksKeeps
<1> QED  BY <1>2, <1>5 DEF q, Looks, Frame

LEMMA EnsureKeeps ==
  ASSUME NEW R \in SUBSET Row, NEW S, NEW p \in PageOf(R, S),
         NEW f, NEW c, Sound(p), Coherent(p, pend, f, c),
         p.intents = {} => \A r \in Row : f[r] = "idle"
  PROVE  LET q == ensureValidActive(p)
         IN  /\ q \in PageOf(R, S) /\ q.intents = p.intents
             /\ Sound(q) /\ Coherent(q, pend, f, c)
<1> DEFINE q == ensureValidActive(p)
<1>1. SocketOK(p) /\ Rows(p.list) \cap p.processed = {} /\ NoRow \notin p.processed
  BY NoRowApart DEF Sound, PageOf
<1>2. /\ q \in PageOf(R, S) /\ Looks(p, q)
      /\ q.active \in {p.active, NoRow} \cup Rows(p.list)
  BY <1>1, EnsureLooks
<1>3. Known(p) \in SUBSET Row /\ p \in PageOf(Known(p), S)
  BY KnownPage
<1>4. q \in PageOf(Known(p), S)
  BY <1>1, <1>3, EnsureLooks
<1> HIDE DEF q
<1>5. Sound(q) /\ Coherent(q, pend, f, c)
  BY <1>1, <1>2, <1>4, LooksKeeps DEF Coherent
<1> QED  BY <1>2, <1>5 DEF q, Looks, Frame

-----------------------------------------------------------------------------
(* Type correctness: whatever is anywhere was opened before                *)

Opened == {r \in Row : r.it <= last[r.key]}

TypeInv ==
  /\ TypeOK /\ pg \in PageOf(Opened, Opened)
  /\ confirmed \subseteq Opened /\ prev \in [Row -> Seq(Opened)]

LEMMA OpenedRows ==
  ASSUME TypeOK
  PROVE  /\ Opened \in SUBSET Row
         /\ ServerList \in Seq(Opened) /\ Distinct(ServerList)
         /\ Rows(ServerList) = {r \in Row : pend[r.key] = r.it}
         /\ \A r \in Row : pend[r.key] = r.it => r \in Opened /\ r.it = last[r.key]
<1>1. Opened \in SUBSET Row
  BY DEF Opened
<1>2. pend \in [Item -> Nat]
  BY DEF TypeOK
<1>3. /\ ServerList \in Seq(Row) /\ Distinct(ServerList)
      /\ Rows(ServerList) = {r \in Row : pend[r.key] = r.it}
  BY <1>2, ServerLists
<1>4. ASSUME NEW r \in Row, pend[r.key] = r.it
      PROVE  r \in Opened /\ r.it = last[r.key]
  <2>1. r.key \in Item /\ r.it \in Nat \ {0}
    BY RowType
  <2>2. pend[r.key] \in {0, last[r.key]} /\ last[r.key] \in Nat
    BY <2>1 DEF TypeOK
  <2> QED  BY <2>1, <2>2, <1>4 DEF Opened
<1>5. ServerList \in Seq(Opened)
  <2>1. Rows(ServerList) \subseteq Opened
    BY <1>3, <1>4
  <2> HIDE DEF Opened
  <2> QED  BY <2>1, <1>3, SeqOfRows
<1> QED  BY <1>1, <1>3, <1>4, <1>5

LEMMA NoRows ==
  /\ Rows(<<>>) = {} /\ Distinct(<<>>) /\ \A R : <<>> \in Seq(R)
BY DEF Rows, Distinct

-----------------------------------------------------------------------------
(* List requests                                                           *)

\* A page that differs from p only in a reading of the server just taken.
LEMMA ReadingKeeps ==
  ASSUME TypeOK, NEW p \in PageOf(Opened, Opened), NEW w, NEW b \in BOOLEAN,
         w \in Row \cup {PageOwner, UpdateOwner},
         NEW f, NEW c, Sound(p), Final(pend, f, c),
         Marked(p, f, c), Gone(p, pend, f), CtxTrue(p, pend),
         CtxListed(p, pend, f, c), Hidden(p, pend, c), Apart(p, f),
         CtxOwned(p, pend, c)
  PROVE  LET q == [p EXCEPT !.owner = w, !.snap = ServerList, !.listLoading = b]
         IN  /\ q \in PageOf(Opened, Opened) /\ q.intents = p.intents
             /\ Sound(q) /\ Coherent(q, pend, f, c)
<1> DEFINE q == [p EXCEPT !.owner = w, !.snap = ServerList, !.listLoading = b]
<1>1. /\ Opened \in SUBSET Row
      /\ ServerList \in Seq(Opened) /\ Distinct(ServerList)
      /\ Rows(ServerList) = {r \in Row : pend[r.key] = r.it}
  BY OpenedRows
<1>2. w # NoOwner
  BY RowType DEF NoOwner, NoRow, PageOwner, UpdateOwner
<1>3. q \in PageOf(Opened, Opened)
  BY <1>1 DEF PageOf
<1>4. /\ q.list = p.list /\ q.processed = p.processed /\ q.absent = p.absent
      /\ q.intents = p.intents /\ q.owner = w /\ q.snap = ServerList
      /\ q.snapBefore = p.snapBefore /\ q.ctx = p.ctx /\ q.active = p.active
      /\ q.ws = p.ws
  BY DEF PageOf
<1>5. p.absent \subseteq Row
  BY <1>1 DEF PageOf
<1> HIDE DEF q
<1>6. Sound(q)
  BY <1>1, <1>2, <1>4 DEF Sound, SocketOK
<1>7. NotAwaited(q, f, c)
  BY <1>1, <1>4 DEF NotAwaited, Final, Answered
<1>8. Complete(q, pend, f)
  BY <1>1, <1>4 DEF Complete, Known
<1>9. Gone(q, pend, f)
  BY <1>1, <1>4 DEF Gone
<1>10. /\ Marked(q, f, c) /\ CtxTrue(q, pend) /\ CtxListed(q, pend, f, c)
       /\ Hidden(q, pend, c) /\ Apart(q, f) /\ CtxOwned(q, pend, c)
  BY <1>4 DEF Marked, CtxTrue, CtxListed, Hidden, Apart, CtxOwned
<1> QED  BY <1>3, <1>4, <1>6, <1>7, <1>8, <1>9, <1>10 DEF q, Coherent, Base

\* Dropping the answer under way.
LEMMA InvalidateKeeps ==
  ASSUME NEW R, NEW p \in PageOf(R, R), NEW f, NEW c, NEW b \in BOOLEAN,
         Sound(p), Coherent(p, pend, f, c)
  PROVE  LET q == [p EXCEPT !.owner = NoOwner, !.snap = <<>>, !.listLoading = b]
         IN  /\ q \in PageOf(R, R) /\ q.intents = p.intents
             /\ Sound(q) /\ Coherent(q, pend, f, c)
<1> DEFINE q == [p EXCEPT !.owner = NoOwner, !.snap = <<>>, !.listLoading = b]
<1>1. /\ q.list = p.list /\ q.processed = p.processed /\ q.absent = p.absent
      /\ q.intents = p.intents /\ q.owner = NoOwner /\ q.snap = <<>>
      /\ q.snapBefore = p.snapBefore /\ q.ctx = p.ctx /\ q.active = p.active
      /\ q.ws = p.ws
  BY DEF PageOf
<1>2. q \in PageOf(R, R)
  <2>1. <<>> \in Seq(R)
    BY NoRows
  <2> QED  BY <2>1 DEF PageOf
<1> HIDE DEF q
<1>3. Sound(q)
  BY <1>1, NoRows DEF Sound, SocketOK
<1>4. Coherent(q, pend, f, c)
  BY <1>1, NoRows DEF Coherent, Base, Marked, NotAwaited, Complete, Gone, CtxTrue,
     CtxListed, Hidden, Apart, CtxOwned
<1> QED  BY <1>1, <1>2, <1>3, <1>4 DEF q

\* The body of loadList.  Its answer was complete for everything the page knows,
\* so only a refused confirm can be un-marked, and a row it lacks has left.
LEMMA ApplyKeeps ==
  ASSUME NEW R \in SUBSET Row, NEW p \in PageOf(R, R), NEW f, NEW c, Sound(p),
         Final(pend, f, c), Coherent(p, pend, f, c), p.owner # NoOwner,
         p.intents = {} => \A r \in Row : f[r] = "idle"
  PROVE  LET q == applyList(p)
         IN  /\ q \in PageOf(R, R) /\ q.intents = p.intents
             /\ Sound(q) /\ Coherent(q, pend, f, c)
<1> DEFINE rows == p.snap
           new == Keep(rows, Row \ p.processed)
           u == [p EXCEPT !.list = new, !.snapBefore = p.list,
                          !.listLoading = FALSE, !.owner = NoOwner, !.snap = <<>>]
           here == Rows(rows)
           back == p.processed \cap here \cap p.absent
           v == [u EXCEPT !.processed = @ \ back,
                          !.absent = (@ \cup (p.processed \ here)) \ back]
<1>1. rows \in Seq(R) /\ p.list \in Seq(R) /\ here \subseteq R
  BY RowsTyped DEF PageOf
<1>2. /\ new \in Seq(R) /\ Rows(new) = here \ p.processed
      /\ Distinct(new)
  <2>1. /\ new \in Seq(R \cap (Row \ p.processed))
        /\ Rows(new) = here \cap (Row \ p.processed)
        /\ Distinct(rows) => Distinct(new)
    BY <1>1, KeepList
  <2>2. Distinct(rows)
    BY DEF Sound
  <2> HIDE DEF new, here, rows
  <2>3. new \in Seq(R)
    BY <2>1
  <2> QED  BY <2>1, <2>2, <2>3, <1>1
<1>3. u \in PageOf(R, R) /\ u.processed = p.processed /\ u.absent = p.absent
  <2>1. <<>> \in Seq(R)
    BY NoRows
  <2> HIDE DEF new
  <2> QED  BY <2>1, <1>1, <1>2 DEF PageOf
<1>4. applyList(p) = ensureValidActive(v)
  BY <1>3 DEF applyList, reconcileProcessedWithList
<1>5. /\ v \in PageOf(R, R)
      /\ v.list = new /\ v.snapBefore = p.list /\ v.owner = NoOwner
      /\ v.snap = <<>> /\ v.processed = p.processed \ back
      /\ v.absent = (p.absent \cup (p.processed \ here)) \ back
      /\ v.intents = p.intents /\ v.ctx = p.ctx /\ v.active = p.active
      /\ v.ws = p.ws
  <2>1. <<>> \in Seq(R)
    BY NoRows
  <2> HIDE DEF new, here, back
  <2> QED  BY <2>1, <1>1, <1>2 DEF PageOf
<1>6. p.processed \subseteq R /\ p.absent \subseteq p.processed
  BY DEF PageOf, Sound
<1>7. \A r \in back : f[r] = "err" /\ r \notin c /\ r \in Row
  BY <1>6 DEF Coherent, Base, Gone, Final
<1>8. \A r \in p.processed \ here : f[r] # "err" => pend[r.key] # r.it
  BY <1>6 DEF Coherent, Base, Complete, Known
<1> HIDE DEF rows, new, u, here, back, v
<1>9. Sound(v)
  <2>1. Rows(v.list) \cap v.processed = {}
    BY <1>2, <1>5
  <2>2. v.absent \subseteq v.processed
    BY <1>5, <1>6
  <2>3. Distinct(v.list) /\ Distinct(v.snap) /\ Distinct(v.snapBefore)
    BY <1>2, <1>5, NoRows DEF Sound
  <2> QED  BY <2>1, <2>2, <2>3, <1>5 DEF Sound, SocketOK
<1>10. Marked(v, f, c)
  BY <1>5, <1>7 DEF Coherent, Base, Marked, Sent
<1>11. NotAwaited(v, f, c) /\ Complete(v, pend, f)
  BY <1>5, NoRows DEF NotAwaited, Complete
<1>12. Gone(v, pend, f)
  BY <1>5, <1>8, NoRows DEF Coherent, Base, Gone
<1>13. CtxTrue(v, pend) /\ Hidden(v, pend, c)
  BY <1>5 DEF Coherent, Base, CtxTrue, Hidden
<1>14. CtxListed(v, pend, f, c)
  <2> SUFFICES ASSUME p.ctx.row \in Row, pend[p.ctx.row.key] = p.ctx.row.it,
                      f[p.ctx.row] = "idle"
               PROVE  p.ctx.row.key \in Keys(new)
    BY <1>5 DEF CtxListed
  <2>1. p.ctx.row \in here
    BY DEF Coherent, Base, Complete, Known, here, rows
  <2>2. p.ctx.row \in Rows(new)
    BY <2>1, <1>2 DEF Sound
  <2> QED  BY <2>2, KeysOfRows
<1>15. Apart(v, f) /\ CtxOwned(v, pend, c)
  <2>1. Apart(v, f)
    BY <1>5 DEF Coherent, Apart
  <2>2. p.active \in p.processed => p.active \in v.processed
    BY <1>5, <1>7 DEF Coherent, Apart
  <2> QED  BY <2>1, <2>2, <1>5 DEF Coherent, CtxOwned
<1>16. Coherent(v, pend, f, c)
  BY <1>10, <1>11, <1>12, <1>13, <1>14, <1>15 DEF Coherent, Base
<1>17. v.intents = {} => \A r \in Row : f[r] = "idle"
  BY <1>5
<1> DEFINE q == ensureValidActive(v)
<1>18. /\ q \in PageOf(R, R) /\ q.intents = v.intents
       /\ Sound(q) /\ Coherent(q, pend, f, c)
  BY <1>5, <1>9, <1>16, <1>17, EnsureKeeps
<1>19. applyList(p) = q
  BY <1>4
<1> HIDE DEF q
<1> QED  BY <1>5, <1>18, <1>19

\* However the list request somebody awaits has settled.
LEMMA ResultsKeep ==
  ASSUME NEW R \in SUBSET Row, NEW p \in PageOf(R, R), NEW f, NEW c, Sound(p),
         Final(pend, f, c), Coherent(p, pend, f, c), p = pg,
         p.intents = {} => \A r \in Row : f[r] = "idle",
         NEW who, who # NoOwner, NEW q \in LoadResults(who)
  PROVE  /\ q \in PageOf(R, R) /\ q.intents = p.intents
         /\ Sound(q) /\ Coherent(q, pend, f, c)
<1>1. CASE q = pg
  BY <1>1
<1>2. CASE q = failList(pg)
  <2>1. p.listLoading \in BOOLEAN
    BY DEF PageOf
  <2>2. q = [p EXCEPT !.owner = NoOwner, !.snap = <<>>, !.listLoading = FALSE]
    BY <1>2 DEF failList, invalidateListLoads
  <2> QED  BY <2>2, InvalidateKeeps
<1>3. CASE pg.owner = who /\ q = applyList(pg)
  BY <1>3, ApplyKeeps
<1> QED  BY <1>1, <1>2, <1>3 DEF LoadResults

-----------------------------------------------------------------------------
(* Dropping and restoring rows                                             *)

\* removeListItemLocally, of a page whose marked rows may still be listed under k.
LEMMA DropKeeps ==
  ASSUME NEW R \in SUBSET Row, NEW S, NEW p \in PageOf(R, S), NEW f, NEW c, NEW k,
         Distinct(p.list), Distinct(p.snapBefore), SocketOK(p),
         \A x \in Rows(p.list) \cap p.processed : x.key = k,
         p.absent \subseteq p.processed, p.ctx.row \notin p.processed,
         Marked(p, f, c), Gone(p, pend, f), CtxTrue(p, pend), Hidden(p, pend, c),
         p.ctx.row \in Row /\ pend[p.ctx.row.key] = p.ctx.row.it =>
           \/ p.ctx.row.key \in Keys(p.list) \ {k} \/ Older(p.ctx.row, c)
           \/ f[p.ctx.row] # "idle"
  PROVE  LET q == removeListItemLocally(p, k)
         IN  /\ q \in PageOf(R, S) /\ Sound(q) /\ Base(q, pend, f, c)
             /\ q.owner = NoOwner /\ q.active = p.active /\ q.ctx = p.ctx
             /\ q.processed = p.processed /\ q.intents = p.intents /\ q.ws = p.ws
             /\ Rows(q.list) = {x \in Rows(p.list) : x.key # k}
             /\ k \notin Keys(q.list)
<1> DEFINE w == Without(p.list, k)
           q == [p EXCEPT !.owner = NoOwner, !.snap = <<>>, !.list = w]
<1>1. /\ w \in Seq(R) /\ Rows(w) = {x \in Rows(p.list) : x.key # k}
      /\ k \notin Keys(w) /\ Distinct(w)
  <2>1. p.list \in Seq(R)
    BY DEF PageOf
  <2> QED  BY <2>1, WithoutList
<1>2. Keys(w) = Keys(p.list) \ {k}
  BY <1>1, KeysOfRows
<1>3. removeListItemLocally(p, k) = q
  BY DEF removeListItemLocally, invalidateListLoads, PageOf
<1> HIDE DEF w
<1>4. q \in PageOf(R, S)
  <2>1. <<>> \in Seq(S)
    BY NoRows
  <2> QED  BY <2>1, <1>1 DEF PageOf
<1>5. /\ q.list = w /\ q.processed = p.processed /\ q.absent = p.absent
      /\ q.intents = p.intents /\ q.owner = NoOwner /\ q.snap = <<>>
      /\ q.snapBefore = p.snapBefore /\ q.ctx = p.ctx /\ q.active = p.active
      /\ q.ws = p.ws
  BY DEF PageOf
<1> HIDE DEF q
<1>6. Sound(q)
  BY <1>1, <1>5, NoRows DEF Sound, SocketOK
<1>7. Marked(q, f, c) /\ CtxTrue(q, pend) /\ Hidden(q, pend, c)
  BY <1>5 DEF Marked, CtxTrue, Hidden
<1>8. NotAwaited(q, f, c) /\ Complete(q, pend, f) /\ Gone(q, pend, f)
  BY <1>5, NoRows DEF NotAwaited, Complete, Gone
<1>9. CtxListed(q, pend, f, c)
  BY <1>2, <1>5 DEF CtxListed
<1> QED  BY <1>1, <1>3, <1>4, <1>5, <1>6, <1>7, <1>8, <1>9 DEF Base

\* q is p with row r somewhere in its list, and no answer under way.
Restored(R, p, r, q) ==
  \E l \in Seq(R) :
    /\ q = [p EXCEPT !.owner = NoOwner, !.snap = <<>>, !.list = l]
    /\ Distinct(l) /\ r.key \in Keys(l)
    /\ Rows(p.list) \subseteq Rows(l) /\ Rows(l) \subseteq Rows(p.list) \cup {r}

LEMMA RestoreList ==
  ASSUME NEW R \in SUBSET Row, NEW S, NEW p \in PageOf(R, S), NEW r \in R,
         NEW before \in Seq(R), Distinct(p.list)
  PROVE  Restored(R, p, r, restoreListItemLocally(p, r, before))
<1> DEFINE n == Position(before, r.key)
           at == IF n = 0 THEN 1
                 ELSE IF n <= Len(p.list) + 1 THEN n ELSE Len(p.list) + 1
           q == restoreListItemLocally(p, r, before)
<1>1. p.list \in Seq(R)
  BY DEF PageOf
<1>2. at \in 1..(Len(p.list) + 1)
  <2>1. n \in 0..Len(before)
    BY PositionOf
  <2>2. Len(p.list) \in Nat /\ Len(before) \in Nat
    BY <1>1
  <2> HIDE DEF n
  <2> QED  BY <2>1, <2>2
<1>3. CASE r.key \in Keys(p.list)
  <2>1. q = [p EXCEPT !.owner = NoOwner, !.snap = <<>>, !.list = p.list]
    BY <1>3 DEF restoreListItemLocally, invalidateListLoads, PageOf
  <2> HIDE DEF q
  <2> QED  BY <2>1, <1>1, <1>3 DEF Restored, q
<1>4. CASE r.key \notin Keys(p.list)
  <2> DEFINE l == InsertAt(p.list, at, r)
  <2>1. /\ l \in Seq(R) /\ Rows(l) = Rows(p.list) \cup {r} /\ Distinct(l)
    <3> HIDE DEF at
    <3> QED  BY <1>1, <1>2, <1>4, InsertRow
  <2>2. q = [p EXCEPT !.owner = NoOwner, !.snap = <<>>, !.list = l]
    BY <1>4 DEF restoreListItemLocally, invalidateListLoads, PageOf
  <2> HIDE DEF l, q
  <2>3. r.key \in Keys(l)
    BY <2>1, KeysOfRows
  <2> QED  BY <2>1, <2>2, <2>3 DEF q, Restored
<1> QED  BY <1>3, <1>4

-----------------------------------------------------------------------------
(* The invariant of the page, action by action                             *)

Good(R, p, w, f, c) ==
  /\ p \in PageOf(R, R) /\ c \subseteq R
  /\ Sound(p) /\ Final(w, f, c) /\ Coherent(p, w, f, c) /\ Locks(p, f)

PageInv == Good(Opened, pg, pend, flow, confirmed)

LEMMA QuietPage ==
  ASSUME NEW p, NEW f, Locks(p, f)
  PROVE  p.intents = {} => \A r \in Row : f[r] = "idle"
BY DEF Locks

\* The visit of the node that waits now is later than one confirmed before.
LEMMA LaterVisit ==
  ASSUME TypeOK, NEW x \in Row, pend[x.key] = x.it, NEW r \in Opened,
         r.key = x.key, r # x
  PROVE  r.it < x.it
<1>1. x.it = last[x.key] /\ r \in Row /\ r.it <= last[r.key]
  BY OpenedRows DEF Opened
<1>2. r.it # x.it /\ r.it \in Nat /\ x.it \in Nat
  BY <1>1, RowType
<1> QED  BY <1>1, <1>2

LEMMA onResolveKeeps ==
  ASSUME TypeInv, PageInv, onResolve
  PROVE  Good(Opened, pg', pend, flow', confirmed)
<1> DEFINE r == pg.active
           b == beginProcessingIntent(pg, r)
           q == removeListItemLocally(b, r.key)
           x == pickNextActiveAfterRemove(pg.list, r.key)
           f == [flow EXCEPT ![r] = "sent"]
<1>1. /\ pg \in PageOf(Opened, Opened) /\ Opened \in SUBSET Row
      /\ flow \in [Row -> FlowSteps] /\ pend \in [Item -> Nat]
  BY OpenedRows DEF TypeInv, TypeOK
<1>2. /\ r \in Opened /\ r \in Row /\ r \notin pg.processed /\ r \notin pg.intents
      /\ flow[r] = "idle"
  BY <1>1 DEF onResolve, PageOf
<1>3. r.key # 0 /\ r # NoRow /\ r \notin confirmed
  BY <1>2, RowType DEF PageInv, Good, Coherent, Base, Marked
<1>4. pg' = select(q, x) /\ flow' = f
  BY DEF onResolve
<1>5. /\ f[r] = "sent" /\ \A y \in Row : y # r => f[y] = flow[y]
      /\ f \in [Row -> FlowSteps]
  BY <1>1, <1>2 DEF FlowSteps
<1>6. /\ Sound(pg) /\ Final(pend, flow, confirmed) /\ Locks(pg, flow)
      /\ Coherent(pg, pend, flow, confirmed) /\ confirmed \subseteq Opened
  BY DEF PageInv, Good
<1>7. /\ b \in PageOf(Opened, Opened)
      /\ b.list = pg.list /\ b.snapBefore = pg.snapBefore /\ b.active = r
      /\ b.processed = pg.processed \cup {r} /\ b.absent = pg.absent
      /\ b.intents = pg.intents \cup {r} /\ b.ws = 0
      /\ b.ctx = IF pg.ctx.row = r THEN NoCtx ELSE pg.ctx
  BY <1>1, <1>2 DEF beginProcessingIntent, closeActiveRunWs, PageOf, NoCtx
<1> HIDE DEF r, b, f
<1>8. b.ctx.row \in Row => b.ctx = pg.ctx /\ b.ctx.row # r
  <2>1. NoCtx.row \notin Row
    BY NoRowApart DEF NoCtx
  <2> QED  BY <2>1, <1>7
<1>9. Marked(b, f, confirmed) /\ Gone(b, pend, f)
  <2>1. Marked(b, f, confirmed)
    BY <1>5, <1>6, <1>7 DEF Coherent, Base, Marked
  <2>2. r \notin pg.absent
    BY <1>2, <1>6 DEF Sound
  <2>3. pg.absent \subseteq Row
    BY <1>1 DEF PageOf
  <2>4. \A y \in pg.absent : f[y] = flow[y]
    BY <2>2, <2>3, <1>5
  <2>5. Gone(pg, pend, flow)
    BY <1>6 DEF Coherent, Base
  <2> DEFINE s == b.snap
  <2>6. b.snap = pg.snap
    BY <1>1 DEF b, beginProcessingIntent, closeActiveRunWs, PageOf
  <2> QED  BY <2>1, <2>4, <2>5, <2>6, <1>7 DEF Gone
<1>10. CtxTrue(b, pend) /\ Hidden(b, pend, confirmed)
  BY <1>6, <1>7, <1>8 DEF Coherent, Base, CtxTrue, Hidden
<1>11. b.ctx.row \notin b.processed
  <2>1. CASE b.ctx.row \in Row
    BY <2>1, <1>6, <1>7, <1>8 DEF Sound
  <2>2. CASE b.ctx.row \notin Row
    BY <2>2, <1>1, <1>2, <1>7 DEF PageOf
  <2> QED  BY <2>1, <2>2
<1>12. b.ctx.row \in Row /\ pend[b.ctx.row.key] = b.ctx.row.it =>
         \/ b.ctx.row.key \in Keys(b.list) \ {r.key} \/ Older(b.ctx.row, confirmed)
         \/ f[b.ctx.row] # "idle"
  <2> SUFFICES ASSUME b.ctx.row \in Row, pend[b.ctx.row.key] = b.ctx.row.it,
                      ~Older(b.ctx.row, confirmed), f[b.ctx.row] = "idle"
               PROVE  b.ctx.row.key \in Keys(b.list) \ {r.key}
    OBVIOUS
  <2>1. b.ctx = pg.ctx /\ b.ctx.row # r /\ flow[b.ctx.row] = "idle"
    BY <1>5, <1>8
  <2>2. b.ctx.row.key \in Keys(pg.list)
    BY <2>1, <1>6 DEF Coherent, Base, CtxListed
  <2>3. b.ctx.row.key # r.key
    BY <2>1, <1>2, <1>6 DEF Coherent, CtxOwned, r
  <2> QED  BY <2>2, <2>3, <1>7
<1>13. /\ q \in PageOf(Opened, Opened) /\ Sound(q) /\ Base(q, pend, f, confirmed)
       /\ q.owner = NoOwner /\ q.active = r /\ q.processed = b.processed
       /\ q.intents = b.intents
       /\ Rows(q.list) = {y \in Rows(pg.list) : y.key # r.key}
  <2>1. \A y \in Rows(b.list) \cap b.processed : y.key = r.key
    BY <1>6, <1>7 DEF Sound
  <2>2. Distinct(b.list) /\ Distinct(b.snapBefore) /\ b.absent \subseteq b.processed
    BY <1>6, <1>7 DEF Sound
  <2>3. SocketOK(b)
    BY <1>7 DEF SocketOK
  <2>4. /\ q \in PageOf(Opened, Opened) /\ Sound(q) /\ Base(q, pend, f, confirmed)
        /\ q.owner = NoOwner /\ q.active = b.active /\ q.ctx = b.ctx
        /\ q.processed = b.processed /\ q.intents = b.intents /\ q.ws = b.ws
        /\ Rows(q.list) = {y \in Rows(b.list) : y.key # r.key}
        /\ r.key \notin Keys(q.list)
    <3>1. b \in PageOf(Opened, Opened) /\ Opened \in SUBSET Row
      BY <1>1, <1>7
    <3> QED  BY <3>1, <2>1, <2>2, <2>3, <1>9, <1>10, <1>11, <1>12, DropKeeps
  <2> HIDE DEF q
  <2> QED  BY <2>4, <1>7
<1>14. x = NoRow \/ (x \in Rows(pg.list) /\ x.key # r.key)
  <2>1. pg.list \in Seq(Opened) /\ Once(pg.list, r.key)
    BY <1>1, <1>6 DEF PageOf, Sound, Distinct, Once
  <2> QED  BY <2>1, PickNext
<1> HIDE DEF x, q
<1>15. /\ x \in Opened \cup {NoRow} /\ x # r /\ x \notin q.processed
       /\ x # NoRow => x.key \in Keys(q.list)
  <2>1. CASE x = NoRow
    BY <2>1, <1>1, <1>3, <1>7, <1>13, NoRowApart DEF PageOf
  <2>2. CASE x \in Rows(pg.list) /\ x.key # r.key
    <3>1. x \in Rows(q.list)
      BY <2>2, <1>13
    <3>2. Rows(pg.list) \subseteq Opened
      BY <1>1, RowsTyped DEF PageOf
    <3>3. x \notin q.processed
      BY <3>1, <1>13 DEF Sound
    <3> QED  BY <2>2, <3>1, <3>2, <3>3, KeysOfRows
  <2> QED  BY <1>14, <2>1, <2>2
<1>16. /\ pg' \in PageOf(Opened, Opened) /\ pg'.intents = q.intents
       /\ Sound(pg') /\ Coherent(pg', pend, f, confirmed)
  <2> DEFINE z == select(q, x)
  <2>1. q.intents = {} => \A y \in Row : f[y] = "idle"
    BY <1>7, <1>13
  <2>2. MaySelect(q, x, f, confirmed)
    BY <2>1, <1>13, <1>15 DEF MaySelect
  <2>3. /\ z \in PageOf(Opened, Opened) /\ z.intents = q.intents
        /\ Sound(z) /\ Coherent(z, pend, f, confirmed)
    BY <2>2, <1>1, <1>13, <1>15, SelectKeeps
  <2> HIDE DEF z
  <2>4. pg' = z
    BY <1>4 DEF z
  <2> QED  BY <2>3, <2>4
<1>17. Locks(pg', f)
  BY <1>2, <1>5, <1>6, <1>7, <1>13, <1>16 DEF Locks
<1>18. Final(pend, f, confirmed)
  BY <1>3, <1>5, <1>6 DEF Final, Answered
<1> QED  BY <1>4, <1>6, <1>16, <1>17, <1>18 DEF Good

LEMMA resumeFailedKeeps ==
  ASSUME TypeInv, PageInv, NEW r \in Row, resumeFailed(r)
  PROVE  Good(Opened, pg', pend, flow', confirmed)
<1> DEFINE b == restoreListItemLocally(pg, r, prev[r])
           q == rollbackProcessingIntent(b, r)
           f == [flow EXCEPT ![r] = "idle"]
<1>1. /\ pg \in PageOf(Opened, Opened) /\ Opened \in SUBSET Row
      /\ flow \in [Row -> FlowSteps] /\ prev[r] \in Seq(Opened)
  BY OpenedRows DEF TypeInv, TypeOK
<1>2. /\ Sound(pg) /\ Final(pend, flow, confirmed) /\ Locks(pg, flow)
      /\ Coherent(pg, pend, flow, confirmed) /\ confirmed \subseteq Opened
  BY DEF PageInv, Good
<1>3. /\ flow[r] = "err" /\ flow' = f
      /\ pg' = IF q.active \in q.intents THEN q ELSE select(q, r)
  BY DEF resumeFailed
<1>4. /\ f[r] = "idle" /\ \A y \in Row : y # r => f[y] = flow[y]
  BY <1>1
<1>5. r \in pg.intents /\ r \in Opened /\ r \notin confirmed
  BY <1>1, <1>2, <1>3 DEF Locks, PageOf, Final
<1>6. PICK l \in Seq(Opened) :
        /\ b = [pg EXCEPT !.owner = NoOwner, !.snap = <<>>, !.list = l]
        /\ Distinct(l) /\ r.key \in Keys(l)
        /\ Rows(pg.list) \subseteq Rows(l) /\ Rows(l) \subseteq Rows(pg.list) \cup {r}
  <2>1. Distinct(pg.list)
    BY <1>2 DEF Sound
  <2>2. Restored(Opened, pg, r, b)
    BY <2>1, <1>1, <1>5, RestoreList
  <2> HIDE DEF b
  <2> QED  BY <2>2 DEF Restored
<1>7. /\ q \in PageOf(Opened, Opened)
      /\ q.list = l /\ q.snapBefore = pg.snapBefore /\ q.active = pg.active
      /\ q.owner = NoOwner /\ q.snap = <<>> /\ q.ctx = pg.ctx
      /\ q.processed = pg.processed \ {r} /\ q.absent = pg.absent \ {r}
      /\ q.intents = pg.intents \ {r} /\ q.ws \in {pg.ws, pg.active.key}
  <2> DEFINE u == [b EXCEPT !.processed = @ \ {r}, !.absent = @ \ {r},
                            !.intents = @ \ {r}]
  <2>1. <<>> \in Seq(Opened)
    BY NoRows
  <2>2. b \in PageOf(Opened, Opened)
    BY <2>1, <1>1, <1>6 DEF PageOf
  <2>3. /\ u \in PageOf(Opened, Opened)
        /\ u.list = l /\ u.snapBefore = pg.snapBefore /\ u.active = pg.active
        /\ u.owner = NoOwner /\ u.snap = <<>> /\ u.ctx = pg.ctx
        /\ u.processed = pg.processed \ {r} /\ u.absent = pg.absent \ {r}
        /\ u.intents = pg.intents \ {r} /\ u.ws = pg.ws
    BY <2>2, <1>1, <1>6 DEF PageOf
  <2>4. q = IF u.active = r /\ isActiveStillInList(u)
              THEN [u EXCEPT !.ws = u.active.key] ELSE u
    BY DEF rollbackProcessingIntent, connectActiveRunWs
  <2>5. CASE u.active = r /\ isActiveStillInList(u)
    <3>1. u.active.key \in Item
      BY <2>5, RowType
    <3> HIDE DEF u, q
    <3> QED  BY <2>3, <2>4, <2>5, <3>1 DEF PageOf
  <2>6. CASE ~(u.active = r /\ isActiveStillInList(u))
    <3> HIDE DEF u, q
    <3> QED  BY <2>3, <2>4, <2>6
  <2> QED  BY <2>5, <2>6
<1> HIDE DEF b, q, f
<1>8. Sound(q)
  <2>1. Rows(q.list) \cap q.processed = {}
    BY <1>2, <1>6, <1>7 DEF Sound
  <2>2. q.absent \subseteq q.processed /\ q.ctx.row \notin q.processed
    BY <1>2, <1>7 DEF Sound
  <2>3. SocketOK(q)
    BY <1>2, <1>7 DEF Sound, SocketOK
  <2> QED  BY <2>1, <2>2, <2>3, <1>2, <1>6, <1>7, NoRows DEF Sound
<1>9. Marked(q, f, confirmed)
  BY <1>2, <1>4, <1>5, <1>7 DEF Coherent, Base, Marked, Sent
<1>10. NotAwaited(q, f, confirmed) /\ Complete(q, pend, f)
  BY <1>7, NoRows DEF NotAwaited, Complete
<1>11. Gone(q, pend, f)
  <2>1. q.absent \subseteq Row
    BY <1>1, <1>7 DEF PageOf
  <2> QED  BY <2>1, <1>2, <1>4, <1>7, NoRows DEF Coherent, Base, Gone
<1>12. CtxTrue(q, pend) /\ Hidden(q, pend, confirmed)
  BY <1>2, <1>7 DEF Coherent, Base, CtxTrue, Hidden
<1>13. CtxListed(q, pend, f, confirmed)
  <2>1. Keys(pg.list) \subseteq Keys(l)
    BY <1>6, KeysOfRows
  <2> QED  BY <2>1, <1>2, <1>4, <1>6, <1>7 DEF Coherent, Base, CtxListed
<1>14. Apart(q, f)
  <2>1. q.processed \subseteq Row
    BY <1>1, <1>7 DEF PageOf
  <2> QED  BY <2>1, <1>2, <1>4, <1>7 DEF Coherent, Apart
<1>15. CtxOwned(q, pend, confirmed)
  <2>1. r \in pg.processed => pg.active # r
    BY <1>2, <1>3 DEF Coherent, Apart
  <2> QED  BY <2>1, <1>2, <1>7 DEF Coherent, CtxOwned
<1>16. Base(q, pend, f, confirmed)
  BY <1>9, <1>10, <1>11, <1>12, <1>13 DEF Base
<1>17. Locks(q, f)
  BY <1>2, <1>3, <1>4, <1>7 DEF Locks
<1>18. Final(pend, f, confirmed)
  BY <1>2, <1>4, <1>5 DEF Final, Answered
<1>19. /\ pg' \in PageOf(Opened, Opened) /\ pg'.intents = q.intents
       /\ Sound(pg') /\ Coherent(pg', pend, f, confirmed)
  <2>1. CASE q.active \in q.intents
    BY <2>1, <1>3, <1>7, <1>8, <1>14, <1>15, <1>16 DEF Coherent
  <2>2. CASE q.active \notin q.intents
    <3> DEFINE z == select(q, r)
    <3>1. q.intents = {} => \A y \in Row : f[y] = "idle"
      BY <1>17, QuietPage
    <3>2. r \notin q.processed /\ r.key \in Keys(q.list)
      BY <1>6, <1>7
    <3>3. MaySelect(q, r, f, confirmed)
      BY <3>1, <3>2, <1>7, <1>8, <1>14, <1>15, <1>16 DEF MaySelect
    <3>4. r \in Opened \cup {NoRow}
      BY <1>5
    <3>5. /\ z \in PageOf(Opened, Opened) /\ z.intents = q.intents
          /\ Sound(z) /\ Coherent(z, pend, f, confirmed)
      <4>1. q \in PageOf(Opened, Opened) /\ Opened \in SUBSET Row
        BY <1>1, <1>7
      <4> QED  BY <4>1, <3>3, <3>4, SelectKeeps
    <3> HIDE DEF z
    <3>6. pg' = z
      BY <2>2, <1>3 DEF z
    <3> QED  BY <3>5, <3>6
  <2> QED  BY <2>1, <2>2
<1>20. Locks(pg', f)
  BY <1>17, <1>19 DEF Locks
<1> QED  BY <1>2, <1>3, <1>18, <1>19, <1>20 DEF Good

\* A confirm that is done: its node's rows leave the list, its lock goes.
LEMMA ConvergeKeeps ==
  ASSUME TypeInv, PageInv, NEW r \in Row, flow[r] = "load",
         NEW p \in PageOf(Opened, Opened), p.intents = pg.intents,
         Sound(p), Coherent(p, pend, flow, confirmed)
  PROVE  Good(Opened, converge(p, r), pend, [flow EXCEPT ![r] = "idle"],
              confirmed \cup {r})
<1> DEFINE u == removeListItemLocally(p, r.key)
           x == pickNextActiveAfterRemove(u.list, r.key)
           s == IF u.active.key = r.key THEN select(u, x) ELSE u
           f == [flow EXCEPT ![r] = "idle"]
           c == confirmed \cup {r}
           q == [s EXCEPT !.intents = @ \ {r}]
<1>1. Opened \in SUBSET Row /\ flow \in [Row -> FlowSteps]
  BY OpenedRows DEF TypeInv, TypeOK
<1>2. /\ Final(pend, flow, confirmed) /\ Locks(p, flow) /\ confirmed \subseteq Opened
  BY DEF PageInv, Good, Locks
<1>3. converge(p, r) = q
  BY DEF converge, endProcessingIntent
<1>4. f[r] = "idle" /\ \A y \in Row : y # r => f[y] = flow[y]
  BY <1>1
<1>5. pend[r.key] # r.it /\ r \in p.processed /\ r \in Opened /\ r \in p.intents
  <2>1. r \in p.processed
    BY DEF Coherent, Base, Marked, Sent
  <2> QED  BY <2>1, <1>2 DEF Final, Answered, PageOf, Locks
<1>6. \A y \in Row : Older(y, confirmed) => Older(y, c)
  BY DEF Older
<1> HIDE DEF f, c
<1>7. Marked(p, f, c) /\ CtxTrue(p, pend)
  BY <1>4, <1>5 DEF Coherent, Base, Marked, CtxTrue, Sent, c
<1>8. Gone(p, pend, f)
  <2>1. p.absent \subseteq Row
    BY <1>1 DEF PageOf
  <2> QED  BY <2>1, <1>4, <1>5 DEF Coherent, Base, Gone
<1>9. Hidden(p, pend, c)
  <2>1. p.processed \subseteq Row
    BY <1>1 DEF PageOf
  <2> QED  BY <2>1, <1>6 DEF Coherent, Base, Hidden
<1>10. p.ctx.row \in Row /\ pend[p.ctx.row.key] = p.ctx.row.it =>
         \/ p.ctx.row.key \in Keys(p.list) \ {r.key} \/ Older(p.ctx.row, c)
         \/ f[p.ctx.row] # "idle"
  <2> SUFFICES ASSUME p.ctx.row \in Row, pend[p.ctx.row.key] = p.ctx.row.it,
                      ~Older(p.ctx.row, c), f[p.ctx.row] = "idle"
               PROVE  p.ctx.row.key \in Keys(p.list) \ {r.key}
    OBVIOUS
  <2>1. p.ctx.row # r
    BY <1>5
  <2>2. flow[p.ctx.row] = "idle" /\ ~Older(p.ctx.row, confirmed)
    BY <2>1, <1>4, <1>6
  <2>3. p.ctx.row.key \in Keys(p.list)
    BY <2>2 DEF Coherent, Base, CtxListed
  <2>4. p.ctx.row.key # r.key
    <3> SUFFICES ASSUME p.ctx.row.key = r.key PROVE FALSE
      OBVIOUS
    <3>1. r.it < p.ctx.row.it
      BY <2>1, <1>5, LaterVisit DEF TypeInv
    <3> QED  BY <3>1 DEF Older, c
  <2> QED  BY <2>3, <2>4
<1>11. /\ u \in PageOf(Opened, Opened) /\ Sound(u) /\ Base(u, pend, f, c)
       /\ u.owner = NoOwner /\ u.active = p.active /\ u.ctx = p.ctx
       /\ u.processed = p.processed /\ u.intents = p.intents /\ u.ws = p.ws
       /\ Rows(u.list) = {y \in Rows(p.list) : y.key # r.key}
       /\ r.key \notin Keys(u.list)
  <2>1. /\ Distinct(p.list) /\ Distinct(p.snapBefore) /\ SocketOK(p)
        /\ \A y \in Rows(p.list) \cap p.processed : y.key = r.key
        /\ p.absent \subseteq p.processed /\ p.ctx.row \notin p.processed
    BY DEF Sound
  <2> QED  BY <2>1, <1>1, <1>7, <1>8, <1>9, <1>10, DropKeeps
<1> HIDE DEF u
<1>12. /\ s \in PageOf(Opened, Opened) /\ s.intents = p.intents /\ s.owner = NoOwner
       /\ Sound(s) /\ Coherent(s, pend, f, c)
  <2>1. CASE u.active.key # r.key
    <3>1. Apart(u, f)
      <4>1. u.processed \subseteq Row
        BY <1>1, <1>11 DEF PageOf
      <4> QED  BY <4>1, <1>4, <1>11 DEF Coherent, Apart
    <3>2. CtxOwned(u, pend, c)
      BY <1>6, <1>11 DEF Coherent, CtxOwned
    <3> QED  BY <2>1, <3>1, <3>2, <1>11 DEF Coherent
  <2>2. CASE u.active.key = r.key
    <3> DEFINE z == select(u, x)
    <3>1. x = NoRow \/ (x \in Rows(u.list) /\ x.key # r.key)
      <4>1. u.list \in Seq(Opened) /\ Once(u.list, r.key)
        BY <1>11 DEF PageOf, Sound, Distinct, Once
      <4> QED  BY <4>1, PickNext
    <3>2. r.key # 0
      BY RowType
    <3> HIDE DEF x
    <3>3. /\ x \in Opened \cup {NoRow} /\ x # u.active /\ x \notin u.processed
          /\ x # NoRow => x.key \in Keys(u.list)
      <4>1. CASE x = NoRow
        BY <4>1, <2>2, <3>2, <1>1, <1>11, NoRowApart DEF PageOf
      <4>2. CASE x \in Rows(u.list) /\ x.key # r.key
        <5>1. Rows(u.list) \subseteq Opened
          BY <1>11, RowsTyped DEF PageOf
        <5> QED  BY <4>2, <2>2, <5>1, <1>11, KeysOfRows DEF Sound
      <4> QED  BY <3>1, <4>1, <4>2
    <3>4. u.intents # {}
      BY <1>5, <1>11
    <3>5. MaySelect(u, x, f, c)
      BY <3>3, <3>4, <1>11 DEF MaySelect
    <3>6. /\ z \in PageOf(Opened, Opened) /\ z.intents = u.intents /\ z.owner = u.owner
          /\ Sound(z) /\ Coherent(z, pend, f, c)
      BY <3>3, <3>5, <1>1, <1>11, SelectKeeps
    <3> HIDE DEF z
    <3>7. s = z
      BY <2>2 DEF z
    <3> QED  BY <3>6, <3>7, <1>11
  <2> QED  BY <2>1, <2>2
<1> HIDE DEF s
<1>13. /\ q \in PageOf(Opened, Opened)
       /\ q.list = s.list /\ q.snapBefore = s.snapBefore /\ q.active = s.active
       /\ q.owner = s.owner /\ q.snap = s.snap /\ q.ctx = s.ctx /\ q.ws = s.ws
       /\ q.processed = s.processed /\ q.absent = s.absent
       /\ q.intents = p.intents \ {r}
  BY <1>12 DEF PageOf
<1> HIDE DEF q
<1>14. Sound(q)
  BY <1>12, <1>13 DEF Sound, SocketOK
<1>15. Coherent(q, pend, f, c)
  <2>1. Hidden(q, pend, c)
    BY <1>5, <1>12, <1>13 DEF Coherent, Base, Hidden
  <2>2. Complete(q, pend, f)
    BY <1>12, <1>13 DEF Complete
  <2> QED  BY <2>1, <2>2, <1>12, <1>13 DEF Coherent, Base, Marked, NotAwaited, Gone,
           CtxTrue, CtxListed, Apart, CtxOwned
<1>16. Locks(q, f)
  BY <1>2, <1>4, <1>13 DEF Locks
<1>17. Final(pend, f, c)
  BY <1>2, <1>4, <1>5 DEF Final, Answered, c
<1>18. c \subseteq Opened
  BY <1>2, <1>5 DEF c
<1> QED  BY <1>3, <1>13, <1>14, <1>15, <1>16, <1>17, <1>18 DEF Good, f, c

LEMMA CtxFailsKeeps ==
  ASSUME TypeInv, PageInv, CtxFails
  PROVE  Good(Opened, pg', pend, flow, confirmed)
<1> DEFINE r == pg.ctx.row
           p == [pg EXCEPT !.ctx = NoCtx]
           left == ~pg.ctx.found \/ r \in pg.processed \/ r.key \notin Keys(pg.list)
           m == [p EXCEPT !.processed = @ \cup {r}]
           q == removeListItemLocally(m, r.key)
           u == [q EXCEPT !.ws = 0, !.detail = NoRow]
           before == IF r.key \in Keys(p.list) THEN p.list ELSE Append(p.list, r)
           x == pickNextActiveAfterRemove(before, r.key)
<1>1. /\ pg \in PageOf(Opened, Opened) /\ Opened \in SUBSET Row
  BY OpenedRows DEF TypeInv
<1>2. /\ Sound(pg) /\ Final(pend, flow, confirmed) /\ Locks(pg, flow)
      /\ Coherent(pg, pend, flow, confirmed) /\ confirmed \subseteq Opened
  BY DEF PageInv, Good
<1>3. r \in Opened /\ r \in Row /\ r.key # 0
  <2>1. r # NoRow
    BY DEF CtxFails
  <2>2. r \in Opened
    BY <2>1, <1>1 DEF PageOf
  <2> QED  BY <2>2, <1>1, RowType
<1>4. NoCtx \in [row : Opened \cup {NoRow}, hard : BOOLEAN, found : BOOLEAN]
      /\ NoCtx.row = NoRow
  BY DEF NoCtx
<1>5. NoRow \notin Row
  BY NoRowApart
\* The request is over whatever else happens.
<1>6. /\ p \in PageOf(Opened, Opened)
      /\ p.list = pg.list /\ p.snapBefore = pg.snapBefore /\ p.active = pg.active
      /\ p.owner = pg.owner /\ p.snap = pg.snap /\ p.ctx = NoCtx
      /\ p.processed = pg.processed /\ p.absent = pg.absent
      /\ p.intents = pg.intents /\ p.ws = pg.ws /\ p.detail = pg.detail
  BY <1>1, <1>4 DEF PageOf
<1>7. CASE ~left
  <2> DEFINE v == [p EXCEPT !.detail = NoRow]
  <2>1. pg' \in {p, v}
    BY <1>7 DEF CtxFails
  <2>2. /\ v \in PageOf(Opened, Opened)
        /\ v.list = p.list /\ v.snapBefore = p.snapBefore /\ v.active = p.active
        /\ v.owner = p.owner /\ v.snap = p.snap /\ v.ctx = NoCtx
        /\ v.processed = p.processed /\ v.absent = p.absent
        /\ v.intents = p.intents /\ v.ws = p.ws /\ v.detail = NoRow
    BY <1>6 DEF PageOf
  <2> HIDE DEF p, v, left
  <2>3. /\ pg' \in PageOf(Opened, Opened)
        /\ pg'.list = pg.list /\ pg'.snapBefore = pg.snapBefore
        /\ pg'.active = pg.active /\ pg'.owner = pg.owner /\ pg'.snap = pg.snap
        /\ pg'.ctx = NoCtx /\ pg'.processed = pg.processed
        /\ pg'.absent = pg.absent /\ pg'.intents = pg.intents /\ pg'.ws = pg.ws
        /\ pg'.detail \in {pg.detail, NoRow}
    BY <2>1, <2>2, <1>6
  <2>4. Sound(pg')
    <3>1. NoCtx.row \notin pg.processed
      BY <1>1, <1>4, <1>5 DEF PageOf
    <3> QED  BY <2>3, <3>1, <1>2 DEF Sound, SocketOK
  <2>5. Known(pg') \subseteq Known(pg)
    BY <2>3, <1>4, <1>5 DEF Known
  <2>6. Complete(pg', pend, flow)
    BY <2>3, <2>5, <1>2 DEF Coherent, Base, Complete
  <2>7. Coherent(pg', pend, flow, confirmed)
    BY <2>3, <2>6, <1>2, <1>4, <1>5 DEF Coherent, Base, Marked, NotAwaited, Gone,
       CtxTrue, CtxListed, Hidden, Apart, CtxOwned
  <2>8. Locks(pg', flow)
    BY <2>3, <1>2 DEF Locks
  <2> QED  BY <2>3, <2>4, <2>7, <2>8, <1>2 DEF Good
<1>8. CASE left
  <2>1. pend[r.key] = r.it => r \in pg.intents \/ Older(r, confirmed)
    <3>1. ~(r \in pg.processed)
      BY <1>2 DEF Sound
    <3>2. ~pg.ctx.found => pend[r.key] # r.it
      BY <1>2, <1>3 DEF Coherent, Base, CtxTrue
    <3>3. pend[r.key] = r.it /\ r.key \notin Keys(pg.list)
            => Older(r, confirmed) \/ flow[r] # "idle"
      BY <1>2, <1>3 DEF Coherent, Base, CtxListed
    <3>4. flow[r] # "idle" => r \in pg.intents
      BY <1>2, <1>3 DEF Locks
    <3> QED  BY <3>1, <3>2, <3>3, <3>4, <1>8
  <2>2. /\ m \in PageOf(Opened, Opened)
        /\ m.list = pg.list /\ m.snapBefore = pg.snapBefore /\ m.active = pg.active
        /\ m.ctx = NoCtx /\ m.snap = pg.snap
        /\ m.processed = pg.processed \cup {r} /\ m.absent = pg.absent
        /\ m.intents = pg.intents /\ m.ws = pg.ws
    <3> HIDE DEF p
    <3> QED  BY <1>3, <1>6 DEF PageOf
  <2>3. pg' = IF pg.active.key # r.key THEN q ELSE select(u, x)
    <3>1. pg' = handleLeftInboxContext(p, r)
      BY <1>8 DEF CtxFails
    <3>2. p.active = pg.active
      BY <1>6
    <3> QED  BY <3>1, <3>2 DEF handleLeftInboxContext, closeActiveRunWs
  <2>4. before = IF r.key \in Keys(pg.list) THEN pg.list ELSE Append(pg.list, r)
    BY <1>6
  <2> HIDE DEF p, m, r, before
  <2>5. /\ Distinct(m.list) /\ Distinct(m.snapBefore) /\ SocketOK(m)
        /\ \A y \in Rows(m.list) \cap m.processed : y.key = r.key
        /\ m.absent \subseteq m.processed /\ m.ctx.row \notin m.processed
    <3>1. NoRow \notin m.processed
      BY <2>2, <1>1, <1>5 DEF PageOf
    <3> QED  BY <2>2, <3>1, <1>2, <1>4 DEF Sound, SocketOK
  <2>6. Marked(m, flow, confirmed) /\ Gone(m, pend, flow) /\ CtxTrue(m, pend)
    BY <2>2, <1>2, <1>4, <1>5 DEF Coherent, Base, Marked, Gone, CtxTrue
  <2>7. Hidden(m, pend, confirmed)
    BY <2>1, <2>2, <1>2 DEF Coherent, Base, Hidden
  <2>8. m.ctx.row \in Row /\ pend[m.ctx.row.key] = m.ctx.row.it =>
          \/ m.ctx.row.key \in Keys(m.list) \ {r.key} \/ Older(m.ctx.row, confirmed)
          \/ flow[m.ctx.row] # "idle"
    BY <2>2, <1>4, <1>5
  <2>9. /\ q \in PageOf(Opened, Opened) /\ Sound(q) /\ Base(q, pend, flow, confirmed)
        /\ q.owner = NoOwner /\ q.active = m.active /\ q.ctx = m.ctx
        /\ q.processed = m.processed /\ q.intents = m.intents /\ q.ws = m.ws
        /\ Rows(q.list) = {y \in Rows(m.list) : y.key # r.key}
        /\ r.key \notin Keys(q.list)
    <3>1. m \in PageOf(Opened, Opened) /\ Opened \in SUBSET Row
      BY <1>1, <2>2
    <3> QED  BY <3>1, <2>5, <2>6, <2>7, <2>8, DropKeeps
  <2>10. CASE pg.active.key # r.key
    <3> HIDE DEF q
    <3>1. pg' = q
      BY <2>3, <2>10
    <3>2. Apart(q, flow)
      BY <2>2, <2>9, <2>10, <1>2 DEF Coherent, Apart
    <3>3. CtxOwned(q, pend, confirmed)
      BY <2>2, <2>9, <1>4, <1>5 DEF CtxOwned
    <3>4. Locks(q, flow)
      BY <2>2, <2>9, <1>2 DEF Locks
    <3> QED  BY <2>9, <3>1, <3>2, <3>3, <3>4, <1>2 DEF Good, Coherent
  <2>11. CASE pg.active.key = r.key
    <3> DEFINE z == select(u, x)
    <3> HIDE DEF q
    <3>1. /\ u \in PageOf(Opened, Opened)
          /\ u.list = q.list /\ u.snapBefore = q.snapBefore /\ u.active = pg.active
          /\ u.owner = NoOwner /\ u.snap = q.snap /\ u.ctx = NoCtx
          /\ u.processed = q.processed /\ u.absent = q.absent
          /\ u.intents = pg.intents /\ u.ws = 0
      BY <2>2, <2>9 DEF PageOf
    <3>2. before \in Seq(Opened) /\ Once(before, r.key)
          /\ Rows(before) \subseteq Rows(pg.list) \cup {r}
      <4>1. pg.list \in Seq(Opened) /\ Distinct(pg.list)
        BY <1>1, <1>2 DEF PageOf, Sound
      <4>2. CASE r.key \in Keys(pg.list)
        BY <4>1, <4>2, <2>4 DEF Distinct, Once
      <4>3. CASE r.key \notin Keys(pg.list)
        <5>1. /\ before \in Seq(Opened) /\ Distinct(before)
              /\ Rows(before) = Rows(pg.list) \cup {r}
          BY <4>1, <4>3, <2>4, <1>3, AppendRow
        <5> QED  BY <5>1 DEF Distinct, Once
      <4> QED  BY <4>2, <4>3
    <3>3. x = NoRow \/ (x \in Rows(before) /\ x.key # r.key)
      BY <3>2, PickNext
    <3> HIDE DEF x, u
    <3>4. x = NoRow \/ x \in Rows(q.list)
      BY <3>2, <3>3, <2>2, <2>9
    <3>5. /\ x \in Opened \cup {NoRow} /\ x # u.active /\ x \notin u.processed
          /\ x # NoRow => x.key \in Keys(u.list)
      <4>1. CASE x = NoRow
        BY <4>1, <3>1, <2>2, <2>9, <2>11, <1>1, <1>3, <1>5, NoRowApart DEF PageOf
      <4>2. CASE x # NoRow
        <5>1. Rows(q.list) \subseteq Opened
          BY <2>9, RowsTyped DEF PageOf
        <5> QED  BY <4>2, <5>1, <3>1, <3>3, <3>4, <2>9, <2>11, KeysOfRows DEF Sound
      <4> QED  BY <4>1, <4>2
    <3>6. Sound(u)
      BY <2>9, <3>1, <2>2 DEF Sound, SocketOK
    <3>7. Base(u, pend, flow, confirmed)
      <4>1. Complete(u, pend, flow)
        BY <3>1 DEF Complete
      <4> QED  BY <4>1, <3>1, <2>2, <2>9 DEF Base, Marked, NotAwaited, Gone, CtxTrue,
               CtxListed, Hidden
    <3>8. u.intents = {} => \A y \in Row : flow[y] = "idle"
      BY <3>1, <1>2, QuietPage
    <3>9. MaySelect(u, x, flow, confirmed)
      BY <3>1, <3>5, <3>6, <3>7, <3>8 DEF MaySelect
    <3>10. /\ z \in PageOf(Opened, Opened) /\ z.intents = u.intents
           /\ Sound(z) /\ Coherent(z, pend, flow, confirmed)
      BY <3>1, <3>5, <3>9, <1>1, SelectKeeps
    <3> HIDE DEF z
    <3>11. pg' = z
      BY <2>3, <2>11 DEF z
    <3>12. Locks(z, flow)
      BY <3>1, <3>10, <1>2 DEF Locks
    <3> QED  BY <3>10, <3>11, <3>12, <1>2 DEF Good
  <2> QED  BY <2>10, <2>11
<1> QED  BY <1>7, <1>8

\* s is p with a selection that moved only if nothing is being confirmed.
Synced(R, p, s) ==
  \E a \in R \cup {NoRow} :
    s = [p EXCEPT !.active = a] /\ (a = p.active \/ p.intents = {})

\* The selection after an applied update stays on the page.
LEMMA SyncLooks ==
  ASSUME NEW R \in SUBSET Row, NEW S, NEW p \in PageOf(R, S), Sound(p),
         NEW key, NEW e \in BOOLEAN
  PROVE  Synced(R, p, syncActiveAfterApply(p, key, e))
<1> DEFINE k == IF key # 0 THEN key ELSE p.active.key
           before == IF k \in Keys(p.snapBefore) THEN p.snapBefore
                     ELSE <<p.active>> \o Without(p.list, k)
           x == pickNextActiveAfterRemove(before, k)
           s == syncActiveAfterApply(p, key, e)
<1>1. /\ p.list \in Seq(R) /\ p.snapBefore \in Seq(R) /\ p.active \in R \cup {NoRow}
      /\ Distinct(p.snapBefore)
  BY DEF PageOf, Sound
<1>2. p = [p EXCEPT !.active = p.active]
  BY DEF PageOf
<1>3. CASE s = p
  <2> HIDE DEF s
  <2> QED  BY <1>1, <1>2, <1>3 DEF s, Synced
<1>4. CASE p.intents = {} /\ p.list # <<>> /\ s = [p EXCEPT !.active = p.list[1]]
  <2>1. p.list[1] \in R
    BY <1>1, <1>4
  <2> HIDE DEF s
  <2> QED  BY <1>4, <2>1 DEF s, Synced
<1>5. CASE p.intents = {} /\ p.active # NoRow /\ s = [p EXCEPT !.active = x]
  <2>1. before \in Seq(R) /\ Once(before, k)
    <3>1. CASE k \in Keys(p.snapBefore)
      <4>1. before = p.snapBefore
        BY <3>1
      <4> HIDE DEF before, k
      <4> QED  BY <1>1, <4>1 DEF Distinct, Once
    <3>2. CASE k \notin Keys(p.snapBefore)
      <4> DEFINE w == Without(p.list, k)
      <4>1. before = <<p.active>> \o w
        BY <3>2
      <4>2. w \in Seq(R) /\ k \notin Keys(w)
        <5> HIDE DEF k
        <5> QED  BY <1>1, WithoutList
      <4>3. p.active \in R
        BY <1>1, <1>5
      <4> HIDE DEF w, before, k
      <4>4. before \in Seq(R) /\ Len(before) = Len(w) + 1 /\ Len(w) \in Nat
        BY <4>1, <4>2, <4>3
      <4>5. \A n \in 1..Len(before) : n # 1 => n - 1 \in 1..Len(w) /\ before[n] = w[n - 1]
        BY <4>1, <4>2, <4>3, <4>4
      <4>6. \A n \in 1..Len(w) : w[n].key # k
        BY <4>2 DEF Keys
      <4> QED  BY <4>4, <4>5, <4>6 DEF Once
    <3> QED  BY <3>1, <3>2
  <2>2. x = NoRow \/ x \in Rows(before)
    <3> HIDE DEF before, k
    <3> QED  BY <2>1, PickNext
  <2>3. x \in R \cup {NoRow}
    <3> HIDE DEF before, k, x
    <3> QED  BY <2>1, <2>2, RowsTyped
  <2> HIDE DEF x, s
  <2> QED  BY <1>5, <2>3 DEF s, Synced
<1>6. \/ s = p
      \/ p.intents = {} /\ p.list # <<>> /\ s = [p EXCEPT !.active = p.list[1]]
      \/ p.intents = {} /\ p.active # NoRow /\ s = [p EXCEPT !.active = x]
  BY DEF syncActiveAfterApply
<1> QED  BY <1>3, <1>4, <1>5, <1>6

LEMMA UpdateLooks ==
  ASSUME NEW R \in SUBSET Row, NEW S, NEW p \in PageOf(R, S), Sound(p),
         NEW key, NEW e \in BOOLEAN, NEW hard \in BOOLEAN
  PROVE  LET q == watchActive(reloadActiveRun(syncActiveAfterApply(p, key, e), hard),
                              p.active)
         IN  /\ q \in PageOf(R, S) /\ Looks(p, q)
             /\ q.active = p.active \/ p.intents = {}
<1>1. PICK a \in R \cup {NoRow} :
        /\ syncActiveAfterApply(p, key, e) = [p EXCEPT !.active = a]
        /\ a = p.active \/ p.intents = {}
  <2>1. Synced(R, p, syncActiveAfterApply(p, key, e))
    BY SyncLooks
  <2> QED  BY <2>1 DEF Synced
<1> DEFINE s == [p EXCEPT !.active = a]
           t == reloadActiveRun(s, hard)
           q == watchActive(t, p.active)
<1>2. /\ s \in PageOf(R, S) /\ s.active = a
      /\ s.list = p.list /\ s.processed = p.processed /\ s.absent = p.absent
      /\ s.intents = p.intents /\ s.owner = p.owner /\ s.snap = p.snap
      /\ s.snapBefore = p.snapBefore /\ s.ctx = p.ctx /\ s.ws = p.ws
  BY DEF PageOf
<1> HIDE DEF s
<1>3. /\ t \in PageOf(R, S) /\ Frame(s, t) /\ t.active = a /\ t.ws \in {s.ws, 0}
  <2>1. CASE s.active = NoRow
    <3>1. t = [s EXCEPT !.ws = 0, !.detail = NoRow]
      BY <2>1 DEF reloadActiveRun, closeActiveRunWs
    <3> HIDE DEF t
    <3> QED  BY <3>1, <1>2 DEF PageOf, Frame
  <2>2. CASE s.active # NoRow /\ hard
    <3>1. t = loadActiveRunHard(s)
      BY <2>2 DEF reloadActiveRun
    <3> QED  BY <3>1, <1>2, HardLooks
  <2>3. CASE s.active # NoRow /\ ~hard
    <3>1. t = softRefreshActiveRun(s)
      BY <2>3 DEF reloadActiveRun
    <3> QED  BY <3>1, <1>2, SoftLooks
  <2> QED  BY <2>1, <2>2, <2>3
<1> HIDE DEF t
<1>4. /\ q \in PageOf(R, S) /\ Frame(t, q) /\ q.active = a
      /\ a = p.active => q = t
      /\ a # p.active => SocketOK(q)
      /\ a # p.active => \/ q.active = NoRow \/ q.active \in q.processed
                         \/ q.ctx.row = q.active \/ q.active.key \notin Keys(q.list)
  BY <1>3, WatchLooks
<1> HIDE DEF q
<1>5. q.ctx = t.ctx \/ Fresh(q)
  BY <1>4 DEF Frame
<1>6. t.ctx = p.ctx \/ Fresh(t)
  BY <1>2, <1>3 DEF Frame
<1>7. t.list = q.list /\ t.processed = q.processed /\ q.active = t.active
  BY <1>3, <1>4 DEF Frame
<1>8. q.ctx = p.ctx \/ Fresh(q)
  BY <1>5, <1>6, <1>7 DEF Fresh
<1>9. Frame(p, q)
  BY <1>2, <1>3, <1>4, <1>8 DEF Frame
<1>10. SocketOK(q)
  <2>1. CASE a = p.active
    BY <2>1, <1>2, <1>3, <1>4 DEF SocketOK, Sound
  <2> QED  BY <2>1, <1>4
<1>11. q.intents = p.intents
  BY <1>9 DEF Frame
<1>12. Looks(p, q) /\ (q.active = p.active \/ p.intents = {})
  BY <1>1, <1>4, <1>9, <1>10, <1>11 DEF Looks
<1> QED  BY <1>1, <1>4, <1>12 DEF q, t, s

LEMMA updateConvergesKeeps ==
  ASSUME TypeInv, PageInv, updateConverges
  PROVE  Good(Opened, pg', pend, flow, confirmed)
<1>1. /\ pg \in PageOf(Opened, Opened) /\ Opened \in SUBSET Row
      /\ upd.manual \in BOOLEAN
  BY OpenedRows DEF TypeInv, TypeOK
<1>2. /\ Sound(pg) /\ Final(pend, flow, confirmed) /\ Locks(pg, flow)
      /\ Coherent(pg, pend, flow, confirmed) /\ confirmed \subseteq Opened
  BY DEF PageInv, Good
<1>3. pg.intents = {} => \A r \in Row : flow[r] = "idle"
  BY <1>2, QuietPage
<1>4. UpdateOwner # NoOwner
  BY DEF UpdateOwner, NoOwner, NoRow
<1>5. PICK p \in LoadResults(UpdateOwner), e \in BOOLEAN :
        pg' = watchActive(reloadActiveRun(syncActiveAfterApply(p, upd.key, e),
                                          upd.manual /\ ~e), p.active)
  BY DEF updateConverges
<1>6. /\ p \in PageOf(Opened, Opened) /\ p.intents = pg.intents
      /\ Sound(p) /\ Coherent(p, pend, flow, confirmed)
  BY <1>1, <1>2, <1>3, <1>4, ResultsKeep
<1> DEFINE q == watchActive(reloadActiveRun(syncActiveAfterApply(p, upd.key, e),
                                            upd.manual /\ ~e), p.active)
<1>7. (upd.manual /\ ~e) \in BOOLEAN
  OBVIOUS
<1>8. /\ q \in PageOf(Opened, Opened) /\ Looks(p, q)
      /\ q.active = p.active \/ p.intents = {}
  BY <1>1, <1>6, <1>7, UpdateLooks
<1>9. Known(p) \in SUBSET Row /\ p \in PageOf(Known(p), Opened)
  BY <1>1, <1>6, KnownPage
<1>10. q \in PageOf(Known(p), Opened)
  BY <1>6, <1>7, <1>9, UpdateLooks
<1>11. pg' = q
  BY <1>5
<1> HIDE DEF q
<1>12. p.intents = {} => \A r \in Row : flow[r] = "idle"
  BY <1>3, <1>6
<1>13. Sound(q) /\ Coherent(q, pend, flow, confirmed)
  <2>1. /\ Base(p, pend, flow, confirmed)
        /\ Apart(p, flow) /\ CtxOwned(p, pend, confirmed)
    BY <1>6 DEF Coherent
  <2> QED  BY <2>1, <1>1, <1>6, <1>8, <1>10, <1>12, LooksKeeps
<1>14. Locks(q, flow)
  BY <1>2, <1>6, <1>8 DEF Locks, Looks, Frame
<1> QED  BY <1>2, <1>8, <1>11, <1>13, <1>14 DEF Good

\* What the invariant says of the page before a step.
LEMMA PageNow ==
  ASSUME TypeInv, PageInv
  PROVE  /\ pg \in PageOf(Opened, Opened) /\ Opened \in SUBSET Row /\ TypeOK
         /\ flow \in [Row -> FlowSteps] /\ pend \in [Item -> Nat]
         /\ Sound(pg) /\ Final(pend, flow, confirmed) /\ Locks(pg, flow)
         /\ Coherent(pg, pend, flow, confirmed) /\ confirmed \subseteq Opened
         /\ pg.intents = {} => \A r \in Row : flow[r] = "idle"
<1>1. TypeOK /\ pg \in PageOf(Opened, Opened)
  BY DEF TypeInv
<1>2. Opened \in SUBSET Row
  BY DEF Opened
<1>3. flow \in [Row -> FlowSteps] /\ pend \in [Item -> Nat]
  BY <1>1 DEF TypeOK
<1>4. /\ Sound(pg) /\ Final(pend, flow, confirmed) /\ Locks(pg, flow)
      /\ Coherent(pg, pend, flow, confirmed) /\ confirmed \subseteq Opened
  BY DEF PageInv, Good
<1>5. pg.intents = {} => \A r \in Row : flow[r] = "idle"
  BY <1>4, QuietPage
<1> QED  BY <1>1, <1>2, <1>3, <1>4, <1>5

LEMMA confirmConvergesKeeps ==
  ASSUME TypeInv, PageInv, NEW r \in Row, confirmConverges(r)
  PROVE  Good(Opened, pg', pend, flow', confirmed')
<1>1. PICK q \in LoadResults(r) : pg' = converge(q, r)
  BY DEF confirmConverges
<1>2. /\ flow[r] = "load" /\ flow' = [flow EXCEPT ![r] = "idle"]
      /\ confirmed' = confirmed \cup {r}
  BY DEF confirmConverges
<1>3. r # NoOwner
  BY RowType DEF NoOwner
<1>4. /\ q \in PageOf(Opened, Opened) /\ q.intents = pg.intents
      /\ Sound(q) /\ Coherent(q, pend, flow, confirmed)
  BY <1>3, PageNow, ResultsKeep
<1>5. Good(Opened, converge(q, r), pend, [flow EXCEPT ![r] = "idle"],
           confirmed \cup {r})
  BY <1>2, <1>4, ConvergeKeeps
<1> QED  BY <1>1, <1>2, <1>5

LEMMA PageLoadLandsKeeps ==
  ASSUME TypeInv, PageInv, PageLoadLands
  PROVE  Good(Opened, pg', pend, flow, confirmed)
<1>1. pg' \in LoadResults(PageOwner)
  BY DEF PageLoadLands
<1>2. PageOwner # NoOwner
  BY DEF PageOwner, NoOwner, NoRow
<1> DEFINE q == pg'
<1> HIDE DEF q
<1>3. q \in LoadResults(PageOwner)
  BY <1>1 DEF q
<1>4. /\ q \in PageOf(Opened, Opened) /\ q.intents = pg.intents
      /\ Sound(q) /\ Coherent(q, pend, flow, confirmed)
  BY <1>2, <1>3, PageNow, ResultsKeep
<1> QED  BY <1>4, PageNow DEF q, Good, Locks

\* The list request of page p reads the server.
LEMMA LoadKeeps ==
  ASSUME TypeInv, PageInv, NEW w \in Row \cup {PageOwner, UpdateOwner},
         NEW b \in BOOLEAN
  PROVE  Good(Opened, [pg EXCEPT !.owner = w, !.snap = ServerList, !.listLoading = b],
              pend, flow, confirmed)
<1> DEFINE q == [pg EXCEPT !.owner = w, !.snap = ServerList, !.listLoading = b]
<1>1. /\ Marked(pg, flow, confirmed) /\ Gone(pg, pend, flow) /\ CtxTrue(pg, pend)
      /\ CtxListed(pg, pend, flow, confirmed) /\ Hidden(pg, pend, confirmed)
      /\ Apart(pg, flow) /\ CtxOwned(pg, pend, confirmed)
  BY PageNow DEF Coherent, Base
<1>2. /\ q \in PageOf(Opened, Opened) /\ q.intents = pg.intents
      /\ Sound(q) /\ Coherent(q, pend, flow, confirmed)
  BY <1>1, PageNow, ReadingKeeps
<1> HIDE DEF q
<1> QED  BY <1>2, PageNow DEF q, Good, Locks

LEMMA ListRequestsKeep ==
  ASSUME TypeInv, PageInv, LoadReads \/ FilterChange \/ applyListUpdate
  PROVE  Good(Opened, pg', pend, flow, confirmed)
<1>1. /\ pg.listLoading \in BOOLEAN
      /\ pg.owner \in Row \cup {NoOwner, PageOwner, UpdateOwner}
      /\ pg = [pg EXCEPT !.owner = pg.owner, !.listLoading = pg.listLoading]
  BY PageNow DEF PageOf
<1>2. CASE LoadReads
  <2>1. pg' = [pg EXCEPT !.owner = pg.owner, !.snap = ServerList,
                         !.listLoading = pg.listLoading]
    BY <1>1, <1>2, PageNow DEF LoadReads, PageOf
  <2>2. pg.owner \in Row \cup {PageOwner, UpdateOwner}
    BY <1>1, <1>2 DEF LoadReads
  <2> QED  BY <1>1, <2>1, <2>2, LoadKeeps
<1>3. CASE FilterChange
  <2>1. pg' = [pg EXCEPT !.owner = PageOwner, !.snap = ServerList,
                         !.listLoading = TRUE]
    BY <1>1, <1>3, PageNow DEF FilterChange, loadList, PageOf
  <2> QED  BY <2>1, LoadKeeps
<1>4. CASE applyListUpdate
  <2>1. pg' = [pg EXCEPT !.owner = UpdateOwner, !.snap = ServerList,
                         !.listLoading = pg.listLoading]
    BY <1>1, <1>4, PageNow DEF applyListUpdate, loadList, PageOf
  <2> QED  BY <1>1, <2>1, LoadKeeps
<1> QED  BY <1>2, <1>3, <1>4

LEMMA FlightSettlesKeeps ==
  ASSUME TypeInv, PageInv, NEW s, FlightSettles(s)
  PROVE  Good(Opened, pg', pend, flow', confirmed)
<1> DEFINE force == side.flight.kind = "force"
           rows == {r \in Row : force /\ flow[r] = "refresh"}
           refreshing == force /\ upd.st = "refresh"
           who == rows \cup (IF refreshing THEN {UpdateOwner} ELSE {})
           f == [r \in Row |-> IF r \in rows THEN "load" ELSE flow[r]]
<1>1. flow' = f
  BY DEF FlightSettles
<1>2. /\ who = {} => pg' = pg
      /\ who # {} => \E w \in who : pg' = loadList(pg, w, refreshing /\ pg.list = <<>>)
  BY DEF FlightSettles
<1>3. \A r \in Row : f[r] = flow[r] \/ (flow[r] = "refresh" /\ f[r] = "load")
  OBVIOUS
<1>4. who = {} => f = flow
  BY PageNow
<1>5. who \subseteq Row \cup {UpdateOwner}
  OBVIOUS
<1> HIDE DEF f, who
<1>6. CASE who = {}
  BY <1>1, <1>2, <1>4, <1>6 DEF PageInv
<1>7. CASE who # {}
  <2>1. PICK w \in who : pg' = loadList(pg, w, refreshing /\ pg.list = <<>>)
    BY <1>2, <1>7
  <2> DEFINE b == pg.listLoading \/ (refreshing /\ pg.list = <<>>)
             q == [pg EXCEPT !.owner = w, !.snap = ServerList, !.listLoading = b]
  <2>2. pg' = q
    BY <2>1 DEF loadList
  <2>3. Final(pend, f, confirmed) /\ Locks(pg, f)
    BY <1>3, PageNow DEF Final, Locks, Answered
  <2>4. Marked(pg, f, confirmed)
    BY <1>3, PageNow DEF Coherent, Base, Marked, Sent
  <2>5. pg.processed \subseteq Row /\ pg.absent \subseteq Row
    BY PageNow DEF PageOf
  <2>6. Gone(pg, pend, f) /\ Apart(pg, f)
    BY <1>3, <2>5, PageNow DEF Coherent, Base, Gone, Apart
  <2>7. CtxTrue(pg, pend) /\ Hidden(pg, pend, confirmed) /\ CtxOwned(pg, pend, confirmed)
    BY PageNow DEF Coherent, Base
  <2>8. CtxListed(pg, pend, f, confirmed)
    BY <1>3, PageNow DEF Coherent, Base, CtxListed
  <2>9. b \in BOOLEAN /\ w \in Row \cup {PageOwner, UpdateOwner}
    BY <1>5, PageNow DEF PageOf
  <2> HIDE DEF b
  <2>10. /\ q \in PageOf(Opened, Opened) /\ q.intents = pg.intents
         /\ Sound(q) /\ Coherent(q, pend, f, confirmed)
    BY <2>3, <2>4, <2>6, <2>7, <2>8, <2>9, PageNow, ReadingKeeps
  <2> HIDE DEF q
  <2> QED  BY <1>1, <2>2, <2>3, <2>10, PageNow DEF Good, Locks
<1> QED  BY <1>6, <1>7

\* The context request reads the server again, is answered, or another is sent.
LEMMA CtxReadsKeeps ==
  ASSUME TypeInv, PageInv, CtxReads
  PROVE  Good(Opened, pg', pend, flow, confirmed)
<1> DEFINE found == pend[pg.ctx.row.key] = pg.ctx.row.it
           q == [pg EXCEPT !.ctx.found = found]
<1>1. pg' = q
  BY DEF CtxReads
<1>2. pg.ctx \in [row : Opened \cup {NoRow}, hard : BOOLEAN, found : BOOLEAN]
  BY PageNow DEF PageOf
<1>3. q.ctx = [pg.ctx EXCEPT !.found = found]
  BY PageNow DEF PageOf
<1>4. /\ q.ctx.row = pg.ctx.row /\ q.ctx.found = found
      /\ q.ctx \in [row : Opened \cup {NoRow}, hard : BOOLEAN, found : BOOLEAN]
  <2>1. found \in BOOLEAN
    OBVIOUS
  <2> HIDE DEF found, q
  <2> QED  BY <2>1, <1>2, <1>3
<1>5. /\ q \in PageOf(Opened, Opened)
      /\ q.list = pg.list /\ q.snapBefore = pg.snapBefore /\ q.active = pg.active
      /\ q.owner = pg.owner /\ q.snap = pg.snap /\ q.ws = pg.ws
      /\ q.processed = pg.processed /\ q.absent = pg.absent
      /\ q.intents = pg.intents /\ q.detail = pg.detail
  <2> DEFINE x == [pg.ctx EXCEPT !.found = found]
  <2>1. q = [pg EXCEPT !.ctx = x]
    OBVIOUS
  <2>2. x \in [row : Opened \cup {NoRow}, hard : BOOLEAN, found : BOOLEAN]
    BY <1>3, <1>4
  <2> HIDE DEF x, q
  <2> QED  BY <2>1, <2>2, PageNow DEF PageOf
<1>6. q.ctx.row \in Row /\ ~q.ctx.found => pend[q.ctx.row.key] # q.ctx.row.it
  BY <1>4
<1> HIDE DEF q, found
<1>7. Sound(q)
  BY <1>4, <1>5, PageNow DEF Sound, SocketOK
<1>8. Known(q) = Known(pg)
  BY <1>4, <1>5 DEF Known
<1>9. Coherent(q, pend, flow, confirmed)
  <2>1. CtxTrue(q, pend)
    BY <1>6 DEF CtxTrue
  <2>2. CtxListed(q, pend, flow, confirmed) /\ CtxOwned(q, pend, confirmed)
    BY <1>4, <1>5, PageNow DEF Coherent, Base, CtxListed, CtxOwned
  <2>3. Complete(q, pend, flow)
    BY <1>5, <1>8, PageNow DEF Coherent, Base, Complete
  <2>4. /\ Marked(q, flow, confirmed) /\ NotAwaited(q, flow, confirmed)
        /\ Gone(q, pend, flow) /\ Hidden(q, pend, confirmed) /\ Apart(q, flow)
    BY <1>5, PageNow DEF Coherent, Base, Marked, NotAwaited, Gone, Hidden, Apart
  <2> QED  BY <2>1, <2>2, <2>3, <2>4 DEF Coherent, Base
<1> QED  BY <1>1, <1>5, <1>7, <1>9, PageNow DEF Good, Locks

LEMMA CtxArrivesKeeps ==
  ASSUME TypeInv, PageInv, CtxArrives
  PROVE  Good(Opened, pg', pend, flow, confirmed)
<1> DEFINE r == pg.ctx.row
           p == [pg EXCEPT !.ctx = NoCtx]
           q == [p EXCEPT !.detail = r]
<1>1. pg' \in {p, q}
  BY DEF CtxArrives
<1>2. NoCtx \in [row : Opened \cup {NoRow}, hard : BOOLEAN, found : BOOLEAN]
      /\ NoCtx.row = NoRow
  BY DEF NoCtx
<1>3. r \in Opened \cup {NoRow}
  BY PageNow DEF PageOf
<1>4. /\ p \in PageOf(Opened, Opened)
      /\ p.list = pg.list /\ p.snapBefore = pg.snapBefore /\ p.active = pg.active
      /\ p.owner = pg.owner /\ p.snap = pg.snap /\ p.ws = pg.ws /\ p.ctx = NoCtx
      /\ p.processed = pg.processed /\ p.absent = pg.absent
      /\ p.intents = pg.intents /\ p.detail = pg.detail
  BY <1>2, PageNow DEF PageOf
<1>5. /\ q \in PageOf(Opened, Opened)
      /\ q.list = p.list /\ q.snapBefore = p.snapBefore /\ q.active = p.active
      /\ q.owner = p.owner /\ q.snap = p.snap /\ q.ws = p.ws /\ q.ctx = NoCtx
      /\ q.processed = p.processed /\ q.absent = p.absent
      /\ q.intents = p.intents /\ q.detail = r
  <2> HIDE DEF p, r
  <2> QED  BY <1>3, <1>4 DEF PageOf
<1> HIDE DEF p, q
<1>6. /\ pg' \in PageOf(Opened, Opened)
      /\ pg'.list = pg.list /\ pg'.snapBefore = pg.snapBefore
      /\ pg'.active = pg.active /\ pg'.owner = pg.owner /\ pg'.snap = pg.snap
      /\ pg'.ws = pg.ws /\ pg'.ctx = NoCtx /\ pg'.processed = pg.processed
      /\ pg'.absent = pg.absent /\ pg'.intents = pg.intents
      /\ pg'.detail \in {pg.detail, r}
  BY <1>1, <1>4, <1>5
<1>7. NoRow \notin Row /\ NoRow \notin pg.processed
  BY NoRowApart, PageNow DEF PageOf
<1>8. Sound(pg')
  BY <1>2, <1>6, <1>7, PageNow DEF Sound, SocketOK
<1>9. Known(pg') \subseteq Known(pg)
  BY <1>2, <1>6, <1>7 DEF Known
<1>10. Complete(pg', pend, flow)
  BY <1>6, <1>9, PageNow DEF Coherent, Base, Complete
<1>11. Coherent(pg', pend, flow, confirmed)
  <2>1. /\ CtxTrue(pg', pend) /\ CtxListed(pg', pend, flow, confirmed)
        /\ CtxOwned(pg', pend, confirmed)
    BY <1>2, <1>6, <1>7 DEF CtxTrue, CtxListed, CtxOwned
  <2>2. /\ Marked(pg', flow, confirmed) /\ NotAwaited(pg', flow, confirmed)
        /\ Gone(pg', pend, flow) /\ Hidden(pg', pend, confirmed) /\ Apart(pg', flow)
    BY <1>6, PageNow DEF Coherent, Base, Marked, NotAwaited, Gone, Hidden, Apart
  <2> QED  BY <1>10, <2>1, <2>2 DEF Coherent, Base
<1> QED  BY <1>6, <1>8, <1>11, PageNow DEF Good, Locks

LEMMA WsFrameKeeps ==
  ASSUME TypeInv, PageInv, WsFrame
  PROVE  Good(Opened, pg', pend, flow, confirmed)
<1> DEFINE q == softRefreshActiveRun(pg)
<1>1. pg' = q
  BY DEF WsFrame
<1>2. /\ q \in PageOf(Opened, Opened) /\ Frame(pg, q)
      /\ q.active = pg.active /\ q.ws = pg.ws
  BY PageNow, SoftLooks
<1>3. Known(pg) \in SUBSET Row /\ pg \in PageOf(Known(pg), Opened)
  BY PageNow, KnownPage
<1>4. q \in PageOf(Known(pg), Opened)
  BY <1>3, SoftLooks
<1> HIDE DEF q
<1>5. Looks(pg, q)
  BY <1>2, PageNow DEF Looks, SocketOK, Sound
<1>6. Base(pg, pend, flow, confirmed) /\ Apart(pg, flow) /\ CtxOwned(pg, pend, confirmed)
  BY PageNow DEF Coherent
<1>7. Sound(q) /\ Coherent(q, pend, flow, confirmed)
  BY <1>2, <1>4, <1>5, <1>6, PageNow, LooksKeeps
<1> QED  BY <1>1, <1>2, <1>7, PageNow DEF Good, Locks, Frame

LEMMA selectItemKeeps ==
  ASSUME TypeInv, PageInv, NEW r \in Row, selectItem(r)
  PROVE  Good(Opened, pg', pend, flow, confirmed)
<1> DEFINE q == select(pg, r)
<1>1. /\ pg' = q /\ r \in Rows(pg.list) /\ r # pg.active /\ r \notin pg.processed
  BY DEF selectItem
<1>2. r \in Opened /\ r \in Known(pg) /\ r.key \in Keys(pg.list)
  <2>1. pg.list \in Seq(Opened)
    BY PageNow DEF PageOf
  <2> QED  BY <1>1, <2>1, RowsTyped, KeysOfRows DEF Known
<1>3. MaySelect(pg, r, flow, confirmed)
  BY <1>1, <1>2, PageNow DEF MaySelect, Coherent
<1>4. /\ q \in PageOf(Opened, Opened) /\ q.intents = pg.intents
      /\ Sound(q) /\ Coherent(q, pend, flow, confirmed)
  BY <1>2, <1>3, PageNow, SelectKeeps
<1> HIDE DEF q
<1> QED  BY <1>1, <1>4, PageNow DEF Good, Locks

-----------------------------------------------------------------------------
(* The server and the confirms, while the page stays as it is              *)

\* Visits the page knows only cease to wait, but for a marked and locked one whose
\* confirm is refused, and a confirm goes on, at most to its failure.
LEMMA ServerKeeps ==
  ASSUME NEW R \in SUBSET Row, NEW S, NEW p \in PageOf(R, S),
         NEW w, NEW v, NEW f, NEW g, NEW c,
         p.ctx.row \notin p.processed, Coherent(p, w, f, c), Locks(p, f),
         \A y \in R : v[y.key] = y.it =>
           w[y.key] = y.it \/ (g[y] = "err" /\ y \in p.processed \cap p.intents),
         \A y \in Row : g[y] = f[y] \/ (f[y] \in Sent /\ g[y] \notin {"idle", "load"})
  PROVE  Coherent(p, v, g, c) /\ Locks(p, g)
<1>1. \A y \in Row : /\ g[y] \in Sent => f[y] \in Sent
                     /\ g[y] = "load" => f[y] = "load"
                     /\ f[y] = "err" => g[y] = "err"
                     /\ f[y] = "idle" <=> g[y] = "idle"
  BY DEF Sent
<1>2. /\ p.processed \subseteq R /\ p.absent \subseteq R /\ p.ctx.row \in R \cup {NoRow}
      /\ Known(p) \subseteq R /\ R \subseteq Row
  BY KnownPage DEF PageOf
<1>3. p.ctx.row \in Row => p.ctx.row \in R
  BY <1>2, NoRowApart
<1>4. p.ctx.row \in Row /\ v[p.ctx.row.key] = p.ctx.row.it
        => w[p.ctx.row.key] = p.ctx.row.it
  BY <1>3
<1>5. Marked(p, g, c) /\ NotAwaited(p, g, c)
  BY <1>1 DEF Coherent, Base, Marked, NotAwaited
<1>6. Complete(p, v, g)
  BY <1>1, <1>2 DEF Coherent, Base, Complete
<1>7. Gone(p, v, g)
  BY <1>1, <1>2 DEF Coherent, Base, Gone
<1>8. CtxTrue(p, v)
  BY <1>4 DEF Coherent, Base, CtxTrue
<1>9. CtxListed(p, v, g, c)
  BY <1>1, <1>4 DEF Coherent, Base, CtxListed
<1>10. Hidden(p, v, c)
  BY <1>2 DEF Coherent, Base, Hidden
<1>11. Apart(p, g)
  BY <1>1, <1>2 DEF Coherent, Apart
<1>12. CtxOwned(p, v, c)
  BY <1>4 DEF Coherent, CtxOwned
<1>13. Locks(p, g)
  BY <1>1 DEF Locks
<1> QED  BY <1>5, <1>6, <1>7, <1>8, <1>9, <1>10, <1>11, <1>12, <1>13 DEF Coherent, Base

\* A step of the server or of confirm r, the page apart.
LEMMA ConfirmStepsKeep ==
  ASSUME TypeInv, PageInv, NEW r \in Row,
         \/ ServerResume(r) \/ ServerAdvances(r) \/ ServerRefuses(r)
         \/ ResumeLost(r) \/ resumeOk(r)
  PROVE  Good(Opened, pg', pend', flow', confirmed)
<1>1. /\ r.key \in Item /\ \A y \in Row : y.key \in Item /\ y.it # 0
      /\ \A y \in Row : y.key = r.key /\ y.it = r.it => y = r
  BY RowType
<1>2. pg' = pg
  BY DEF ServerResume, ServerAdvances, ServerRefuses, ResumeLost, resumeOk
<1>3. flow[r] \in Sent /\ (flow[r] = "left" => r \in pg.processed \cap pg.intents)
  <2>1. flow[r] \in Sent
    BY DEF ServerResume, ServerAdvances, ServerRefuses, ResumeLost, resumeOk, Sent
  <2>2. flow[r] = "left" => r \in pg.processed \cap pg.intents
    BY PageNow DEF Coherent, Base, Marked, Locks, Sent
  <2> QED  BY <2>1, <2>2
<1>4. \A y \in Row : flow'[y] = flow[y]
                       \/ (flow[y] \in Sent /\ flow'[y] \notin {"idle", "load"})
  BY <1>3, PageNow DEF ServerResume, ServerAdvances, ServerRefuses, ResumeLost, resumeOk
<1>5. \A y \in Row : pend'[y.key] = y.it =>
        \/ pend[y.key] = y.it
        \/ flow'[y] = "err" /\ y = r /\ flow[r] = "left"
  <2>1. CASE ServerResume(r)
    BY <1>1, <2>1, PageNow DEF ServerResume
  <2>2. CASE ServerRefuses(r)
    BY <1>1, <2>2, PageNow DEF ServerRefuses
  <2>3. CASE ServerAdvances(r) \/ ResumeLost(r) \/ resumeOk(r)
    BY <2>3 DEF ServerAdvances, ResumeLost, resumeOk
  <2> QED  BY <2>1, <2>2, <2>3
<1>6. Final(pend', flow', confirmed)
  <2>1. r \notin confirmed
    BY <1>3, PageNow DEF Final, Sent
  <2>2. ASSUME NEW y \in Row, flow'[y] \in Answered \/ y \in confirmed
        PROVE  pend'[y.key] # y.it
    <3>1. pend[y.key] # y.it \/ (y = r /\ ServerResume(r))
      BY <2>1, <2>2, PageNow DEF Final, Answered, ServerResume, ServerAdvances,
         ServerRefuses, ResumeLost, resumeOk
    <3>2. CASE y = r /\ ServerResume(r)
      BY <1>1, <3>2, PageNow DEF ServerResume
    <3>3. CASE pend[y.key] # y.it
      <4>1. flow'[y] # "err"
        BY <2>1, <2>2, <1>3, <1>4, PageNow DEF Final, Answered, Sent
      <4> QED  BY <1>5, <3>3, <4>1
    <3> QED  BY <3>1, <3>2, <3>3
  <2>3. ASSUME NEW y \in Row, y \in confirmed PROVE flow'[y] = "idle"
    BY <2>3, <1>4, PageNow DEF Final, Sent
  <2> QED  BY <2>2, <2>3 DEF Final
<1>7. \A y \in Opened : pend'[y.key] = y.it =>
        pend[y.key] = y.it \/ (flow'[y] = "err" /\ y \in pg.processed \cap pg.intents)
  BY <1>3, <1>5, PageNow
<1>8. pg.ctx.row \notin pg.processed
  BY PageNow DEF Sound
<1>9. Coherent(pg, pend', flow', confirmed) /\ Locks(pg, flow')
  BY <1>4, <1>7, <1>8, PageNow, ServerKeeps
<1> QED  BY <1>2, <1>6, <1>9, PageNow DEF Good

LEMMA LeaveElsewhereKeeps ==
  ASSUME TypeInv, PageInv, NEW k \in Item, LeaveElsewhere(k)
  PROVE  Good(Opened, pg', pend', flow, confirmed)
<1>1. pg' = pg /\ pend' = [pend EXCEPT ![k] = 0]
  BY DEF LeaveElsewhere
<1>2. \A y \in Row : y.key \in Item /\ y.it # 0
  BY RowType
<1>3. \A y \in Row : pend'[y.key] = y.it => pend[y.key] = y.it
  BY <1>1, <1>2, PageNow
<1>4. Final(pend', flow, confirmed)
  BY <1>3, PageNow DEF Final
<1>5. pg.ctx.row \notin pg.processed
  BY PageNow DEF Sound
<1>6. \A y \in Opened : pend'[y.key] = y.it =>
        pend[y.key] = y.it \/ (flow[y] = "err" /\ y \in pg.processed \cap pg.intents)
  BY <1>3, PageNow
<1>7. Coherent(pg, pend', flow, confirmed) /\ Locks(pg, flow)
  BY <1>5, <1>6, PageNow, ServerKeeps
<1> QED  BY <1>1, <1>4, <1>7, PageNow DEF Good

\* A node opens its next visit: nothing on the page is it.
LEMMA PageGrows ==
  ASSUME NEW R, NEW S, R \subseteq S, NEW p \in PageOf(R, R)
  PROVE  p \in PageOf(S, S)
BY DEF PageOf

LEMMA OpenItemKeeps ==
  ASSUME TypeInv, PageInv, NEW k \in Item, OpenItem(k)
  PROVE  Opened \subseteq Opened' /\ Good(Opened', pg', pend', flow, confirmed)
<1>1. /\ pg' = pg /\ pend' = [pend EXCEPT ![k] = last[k] + 1]
      /\ last' = [last EXCEPT ![k] = @ + 1] /\ last \in [Item -> Nat]
  BY PageNow DEF OpenItem, TypeOK
<1>2. \A y \in Row : y.key \in Item /\ y.it \in Nat
  BY RowType
<1>3. Opened \subseteq Opened'
  BY <1>1, <1>2 DEF Opened
<1>4. \A y \in Opened : pend'[y.key] = y.it => pend[y.key] = y.it
  BY <1>1, <1>2, PageNow DEF Opened
<1>5. Final(pend', flow, confirmed)
  <2>1. \A y \in Row : flow[y] \in Answered \/ y \in confirmed => y \in Opened
    BY PageNow DEF Coherent, Base, Marked, Answered, Sent, PageOf
  <2> QED  BY <1>4, <2>1, PageNow DEF Final
<1>6. pg.ctx.row \notin pg.processed
  BY PageNow DEF Sound
<1>7. \A y \in Opened : pend'[y.key] = y.it =>
        pend[y.key] = y.it \/ (flow[y] = "err" /\ y \in pg.processed \cap pg.intents)
  BY <1>4
<1>8. Coherent(pg, pend', flow, confirmed) /\ Locks(pg, flow)
  BY <1>6, <1>7, PageNow, ServerKeeps
<1>9. pg \in PageOf(Opened', Opened') /\ confirmed \subseteq Opened'
  BY <1>3, PageNow, PageGrows
<1> QED  BY <1>1, <1>3, <1>5, <1>8, <1>9, PageNow DEF Good

-----------------------------------------------------------------------------
(* The sidebar                                                             *)

SideSound(s) ==
  /\ s \in SideType /\ s.hasPending = diffKeys(s)
  /\ s.flight.kind = "none" => s.flight.snap = {}

LEMMA CountOf ==
  ASSUME NEW A \in SUBSET Item
  PROVE  Cardinality(A) \in 0..Cardinality(Item) /\ Cardinality(Item) \in Nat
<1>1. IsFiniteSet(Item)
  BY ItemAssumption, FS_Interval
<1>2. Cardinality(Item) \in Nat /\ IsFiniteSet(A) /\ Cardinality(A) <= Cardinality(Item)
  BY <1>1, FS_Subset, FS_CardinalityType
<1>3. Cardinality(A) \in Nat
  BY <1>2, FS_CardinalityType
<1> QED  BY <1>2, <1>3

LEMMA RemoveSide ==
  ASSUME NEW s, SideSound(s), NEW k \in Item
  PROVE  LET t == removeItemLocally(s, k)
         IN  /\ SideSound(t) /\ t.flight = s.flight
             /\ t.displayed \cup t.remote = (s.displayed \cup s.remote) \ {k}
<1>1. CASE k \notin s.displayed \cup s.remote
  BY <1>1 DEF removeItemLocally
<1>2. CASE k \in s.displayed \cup s.remote
  <2> DEFINE n == IF s.totalCount = 0 THEN 0 ELSE s.totalCount - 1
             d == s.displayed \ {k}
             m == s.remote \ {k}
             t == [s EXCEPT !.displayed = d, !.remote = m, !.totalCount = n]
             b == (d # m)
  <2>1. n \in 0..Cardinality(Item)
    BY CountOf DEF SideSound, SideType
  <2>2. d \in SUBSET Item /\ m \in SUBSET Item /\ b \in BOOLEAN
    BY DEF SideSound, SideType
  <2>3. t.displayed = d /\ t.remote = m
    BY DEF SideSound, SideType
  <2>4. removeItemLocally(s, k) = [t EXCEPT !.hasPending = b]
    BY <1>2, <2>3 DEF removeItemLocally, syncPendingMetaFromDiff, diffKeys
  <2>5. d \cup m = (s.displayed \cup s.remote) \ {k}
    OBVIOUS
  <2> DEFINE u == [t EXCEPT !.hasPending = b]
  <2> HIDE DEF n, d, m
  <2>6. /\ u \in SideType /\ u.displayed = d /\ u.remote = m /\ u.hasPending = b
        /\ u.flight = s.flight
    <3> HIDE DEF b
    <3> QED  BY <2>1, <2>2 DEF SideSound, SideType
  <2> HIDE DEF u
  <2>7. SideSound(u)
    BY <2>6 DEF SideSound, diffKeys
  <2> QED  BY <2>4, <2>5, <2>6, <2>7 DEF u
<1> QED  BY <1>1, <1>2

LEMMA RestoreSide ==
  ASSUME NEW s, SideSound(s), NEW k \in Item
  PROVE  LET t == restoreItemLocally(s, k)
         IN  /\ SideSound(t) /\ t.flight = s.flight
             /\ t.displayed \cup t.remote = s.displayed \cup s.remote \cup {k}
<1> DEFINE d == s.displayed \cup {k}
           m == s.remote \cup {k}
           n == IF k \in s.displayed \cap s.remote \/ s.totalCount > Cardinality(d)
                  THEN s.totalCount ELSE Cardinality(d)
           t == [s EXCEPT !.displayed = d, !.remote = m, !.totalCount = n]
           b == (d # m)
           u == [t EXCEPT !.hasPending = b]
<1>1. d \in SUBSET Item /\ m \in SUBSET Item /\ b \in BOOLEAN
  BY DEF SideSound, SideType
<1>2. n \in 0..Cardinality(Item)
  <2>1. Cardinality(d) \in 0..Cardinality(Item)
    BY <1>1, CountOf
  <2>2. s.totalCount \in 0..Cardinality(Item)
    BY DEF SideSound, SideType
  <2> HIDE DEF d
  <2> QED  BY <2>1, <2>2
<1>3. t.displayed = d /\ t.remote = m
  BY DEF SideSound, SideType
<1>4. restoreItemLocally(s, k) = u
  BY <1>3 DEF restoreItemLocally, syncPendingMetaFromDiff, diffKeys
<1>5. d \cup m = s.displayed \cup s.remote \cup {k}
  OBVIOUS
<1> HIDE DEF n, d, m
<1>6. /\ u \in SideType /\ u.displayed = d /\ u.remote = m /\ u.hasPending = b
      /\ u.flight = s.flight
  <2> HIDE DEF b
  <2> QED  BY <1>1, <1>2 DEF SideSound, SideType
<1> HIDE DEF u
<1>7. SideSound(u)
  BY <1>6 DEF SideSound, diffKeys
<1> QED  BY <1>4, <1>5, <1>6, <1>7

LEMMA ApplySide ==
  ASSUME NEW s, SideSound(s)
  PROVE  LET t == applyPending(s)
         IN  /\ SideSound(t) /\ t.flight = s.flight
             /\ t.displayed \cup t.remote \subseteq s.displayed \cup s.remote
BY DEF applyPending, SideSound, SideType, diffKeys

Asked(s, x, P) == [s EXCEPT !.flight = [kind |-> x, snap |-> P]]

LEMMA AskSide ==
  ASSUME NEW s, SideSound(s), NEW P \in SUBSET Item, NEW x \in {"peek", "force"}
  PROVE  LET t == Asked(s, x, P)
         IN  /\ SideSound(t) /\ t.flight.kind = x /\ t.flight.snap = P
             /\ t.displayed = s.displayed /\ t.remote = s.remote
<1> DEFINE y == [kind |-> x, snap |-> P]
           t == [s EXCEPT !.flight = y]
<1>1. y \in Flights /\ y.kind = x /\ y.snap = P /\ x # "none"
  BY DEF Flights
<1> HIDE DEF y
<1>2. /\ t \in SideType /\ t.flight = y /\ t.hasPending = s.hasPending
      /\ t.displayed = s.displayed /\ t.remote = s.remote
  BY <1>1 DEF SideSound, SideType
<1> QED  BY <1>1, <1>2 DEF SideSound, diffKeys, y, Asked

\* The request in flight is over, its answer written or not.
LEMMA SettleSide ==
  ASSUME NEW s, SideSound(s), NEW t \in {flightLands(s), flightFails(s)}
  PROVE  /\ SideSound(t) /\ t.flight = NoFlight
         /\ t.displayed \cup t.remote
              \subseteq s.displayed \cup s.remote \cup s.flight.snap
<1> DEFINE r == s.flight.snap
           n == Cardinality(r)
           u == [s EXCEPT !.flight = NoFlight]
<1>1. r \in SUBSET Item /\ n \in 0..Cardinality(Item)
  <2>1. r \in SUBSET Item
    BY DEF SideSound, SideType, Flights
  <2> QED  BY <2>1, CountOf
<1>2. NoFlight \in Flights /\ NoFlight.snap = {}
  BY DEF NoFlight, Flights
<1>3. /\ u \in SideType /\ u.flight = NoFlight /\ u.hasPending = s.hasPending
      /\ u.displayed = s.displayed /\ u.remote = s.remote
  BY <1>2 DEF SideSound, SideType
<1>4. CASE t = flightFails(s)
  <2>1. t = u
    BY <1>4 DEF flightFails
  <2> HIDE DEF u
  <2> QED  BY <2>1, <1>2, <1>3 DEF SideSound, diffKeys
<1>5. CASE t = flightLands(s) /\ s.flight.kind = "peek"
  <2> DEFINE v == [u EXCEPT !.remote = r, !.totalCount = n]
             b == (s.displayed # r)
             z == [v EXCEPT !.hasPending = b]
  <2>1. t = syncPendingMetaFromDiff(v)
    BY <1>5 DEF flightLands, setPending
  <2>2. v.displayed = s.displayed /\ v.remote = r /\ b \in BOOLEAN
    BY <1>3 DEF SideType
  <2>3. t = z
    BY <2>1, <2>2 DEF syncPendingMetaFromDiff, diffKeys
  <2> HIDE DEF u, r, n
  <2>4. /\ z \in SideType /\ z.displayed = s.displayed /\ z.remote = r
        /\ z.hasPending = b /\ z.flight = NoFlight
    <3> HIDE DEF b
    <3> QED  BY <1>1, <1>3, <2>2 DEF SideType
  <2> HIDE DEF z
  <2> QED  BY <2>3, <2>4, <1>2 DEF SideSound, diffKeys, r
<1>6. CASE t = flightLands(s) /\ s.flight.kind # "peek"
  <2> DEFINE v == [u EXCEPT !.remote = r, !.totalCount = n, !.displayed = r,
                            !.hasPending = FALSE]
  <2>1. t = v
    BY <1>6 DEF flightLands, applyRemoteToDisplayed
  <2> HIDE DEF u, r, n
  <2>2. /\ v \in SideType /\ v.displayed = r /\ v.remote = r
        /\ v.hasPending = FALSE /\ v.flight = NoFlight
    BY <1>1, <1>3 DEF SideType
  <2> HIDE DEF v
  <2> QED  BY <2>1, <2>2, <1>2 DEF SideSound, diffKeys, r
<1> QED  BY <1>4, <1>5, <1>6

\* Every visit of a node has been confirmed; or its confirm only waits for the list.
Done(k, c) == \A r \in Row : r.key = k => r \in c
Over(k, f, c) == \A r \in Row : r.key = k => r \in c \/ f[r] = "load"

SideGood(s, f, c) ==
  /\ SideSound(s)
  /\ \A k \in Item : /\ Over(k, f, c) => k \notin s.flight.snap
                     /\ Done(k, c) => k \notin s.displayed \cup s.remote

SideInv == SideGood(side, flow, confirmed)

\* A node that is over is not read as pending.
LEMMA OverIsNotPending ==
  ASSUME TypeOK, NEW f, NEW c, Final(pend, f, c)
  PROVE  \A k \in Item : Over(k, f, c) => k \notin Pending
<1> SUFFICES ASSUME NEW k \in Item, Over(k, f, c), pend[k] # 0
             PROVE  FALSE
  BY DEF Pending
<1>1. pend[k] \in {0, last[k]} /\ last[k] <= Visits[k] /\ pend[k] \in Nat
  BY DEF TypeOK
<1>2. Visits[k] \in Nat
  BY BoundsAssumption
<1>3. pend[k] \in 1..Visits[k]
  BY <1>1, <1>2
<1> DEFINE r == [key |-> k, it |-> pend[k]]
<1>4. r \in Row /\ r.key = k /\ r.it = pend[k]
  BY <1>1, <1>3, RowType
<1> HIDE DEF r
<1> QED  BY <1>4 DEF Over, Final, Answered

\* A step that asks nothing, shows nothing new, and ends no confirm.
LEMMA SideKeeps ==
  ASSUME NEW s, NEW t, NEW f, NEW g, NEW c, SideGood(s, f, c), SideSound(t),
         t.flight = s.flight,
         t.displayed \cup t.remote \subseteq s.displayed \cup s.remote,
         \A r \in Row : g[r] = "load" => f[r] = "load"
  PROVE  SideGood(t, g, c)
BY DEF SideGood, Over, Done

\* A request that has just been sent, or read again.
LEMMA AskKeeps ==
  ASSUME TypeOK, NEW s, NEW f, NEW c, SideGood(s, f, c), Final(pend, f, c),
         NEW x \in {"peek", "force"}
  PROVE  SideGood(Asked(s, x, Pending), f, c)
<1> DEFINE t == Asked(s, x, Pending)
<1>1. Pending \in SUBSET Item
  BY DEF Pending
<1>2. SideSound(s)
  BY DEF SideGood
<1>3. /\ SideSound(t) /\ t.flight.snap = Pending
      /\ t.displayed = s.displayed /\ t.remote = s.remote
  BY <1>1, <1>2, AskSide
<1> HIDE DEF t
<1>4. SideGood(t, f, c)
  BY <1>3, OverIsNotPending DEF SideGood
<1> QED  BY <1>4 DEF t

LEMMA SideNext ==
  ASSUME TypeInv, PageInv, SideInv, [Next]_vars
  PROVE  SideInv'
<1>1. /\ TypeOK /\ Final(pend, flow, confirmed) /\ SideSound(side)
      /\ SideGood(side, flow, confirmed) /\ flow \in [Row -> FlowSteps]
      /\ \A r \in Row : flow[r] # "idle" => r \notin confirmed
  BY PageNow DEF Final, SideInv, SideGood
<1>2. \A r \in Row : r.key \in Item
  BY RowType
<1>3. Asked(side, "peek", Pending) = [side EXCEPT !.flight = [kind |-> "peek", snap |-> Pending]]
      /\ Asked(side, "force", Pending) = [side EXCEPT !.flight = [kind |-> "force", snap |-> Pending]]
  BY DEF Asked
<1>4. ASSUME side' = side, confirmed' = confirmed,
             \A r \in Row : flow'[r] = "load" => flow[r] = "load"
      PROVE  SideInv'
  <2>1. SideGood(side, flow', confirmed)
    BY <1>1, <1>4, SideKeeps
  <2> QED  BY <1>4, <2>1 DEF SideInv
<1>5. ASSUME NEW x \in {"peek", "force"}, side' = Asked(side, x, Pending),
             confirmed' = confirmed,
             \A r \in Row : flow'[r] = "load" => flow[r] = "load"
      PROVE  SideInv'
  <2> DEFINE t == Asked(side, x, Pending)
  <2>1. SideGood(t, flow, confirmed)
    BY <1>1, AskKeeps
  <2> HIDE DEF t
  <2>2. SideSound(t)
    BY <2>1 DEF SideGood
  <2>3. SideGood(t, flow', confirmed)
    BY <2>1, <2>2, <1>5, SideKeeps
  <2> QED  BY <1>5, <2>3 DEF SideInv, t
<1>6. ASSUME NEW r \in Row, side' = removeItemLocally(side, r.key),
             confirmed' = confirmed,
             \A y \in Row : flow'[y] = "load" => flow[y] = "load"
      PROVE  SideInv'
  <2> DEFINE t == removeItemLocally(side, r.key)
  <2>1. /\ SideSound(t) /\ t.flight = side.flight
        /\ t.displayed \cup t.remote = (side.displayed \cup side.remote) \ {r.key}
    BY <1>1, <1>2, RemoveSide
  <2> HIDE DEF t
  <2>2. t.displayed \cup t.remote \subseteq side.displayed \cup side.remote
    BY <2>1
  <2>3. SideGood(t, flow', confirmed)
    BY <1>1, <2>1, <2>2, <1>6, SideKeeps
  <2> QED  BY <1>6, <2>3 DEF SideInv, t
<1>7. CASE onResolve
  <2> DEFINE r == pg.active
  <2>1. r \in Row
    BY <1>7, PageNow DEF onResolve, PageOf
  <2>2. /\ side' = removeItemLocally(side, r.key) /\ confirmed' = confirmed
        /\ flow' = [flow EXCEPT ![r] = "sent"]
    BY <1>7 DEF onResolve
  <2> HIDE DEF r
  <2> QED  BY <2>1, <2>2, <1>1, <1>6
<1>8. ASSUME NEW r \in Row,
             \/ ServerResume(r) \/ ServerAdvances(r) \/ ServerRefuses(r)
             \/ ResumeLost(r) \/ selectItem(r)
      PROVE  SideInv'
  BY <1>1, <1>4, <1>8 DEF ServerResume, ServerAdvances, ServerRefuses, ResumeLost, selectItem
<1>9. ASSUME NEW r \in Row, resumeFailed(r) PROVE SideInv'
  <2> DEFINE t == restoreItemLocally(side, r.key)
  <2>1. /\ side' = t /\ confirmed' = confirmed /\ flow[r] = "err"
        /\ flow' = [flow EXCEPT ![r] = "idle"]
    BY <1>9 DEF resumeFailed
  <2>2. /\ SideSound(t) /\ t.flight = side.flight
        /\ t.displayed \cup t.remote = side.displayed \cup side.remote \cup {r.key}
    BY <1>1, <1>2, RestoreSide
  <2> HIDE DEF t
  <2>3. r \notin confirmed
    BY <1>1, <2>1
  <2>4. \A k \in Item : Over(k, flow', confirmed) => Over(k, flow, confirmed)
    BY <1>1, <2>1 DEF Over
  <2> QED  BY <1>1, <2>1, <2>2, <2>3, <2>4 DEF SideInv, SideGood, Done
<1>10. ASSUME NEW r \in Row, resumeOk(r) PROVE SideInv'
  <2>1. /\ side' = refreshForce(side, Pending) /\ confirmed' = confirmed
        /\ flow' = [flow EXCEPT ![r] = "refresh"]
    BY <1>10 DEF resumeOk
  <2>2. \A y \in Row : flow'[y] = "load" => flow[y] = "load"
    BY <1>1, <2>1
  <2>3. side' = side \/ side' = Asked(side, "force", Pending)
    BY <1>3, <2>1 DEF refreshForce
  <2> QED  BY <2>1, <2>2, <2>3, <1>4, <1>5
<1>11. ASSUME NEW r \in Row, confirmConverges(r) PROVE SideInv'
  <2> DEFINE t == removeItemLocally(side, r.key)
  <2>1. /\ side' = t /\ confirmed' = confirmed \cup {r} /\ flow[r] = "load"
        /\ flow' = [flow EXCEPT ![r] = "idle"]
    BY <1>11 DEF confirmConverges
  <2>2. /\ SideSound(t) /\ t.flight = side.flight
        /\ t.displayed \cup t.remote = (side.displayed \cup side.remote) \ {r.key}
    BY <1>1, <1>2, RemoveSide
  <2> HIDE DEF t
  <2>3. \A k \in Item : Over(k, flow', confirmed') => Over(k, flow, confirmed)
    BY <1>1, <2>1 DEF Over
  <2>4. \A k \in Item : k # r.key /\ Done(k, confirmed') => Done(k, confirmed)
    BY <2>1 DEF Done
  <2> QED  BY <1>1, <2>1, <2>2, <2>3, <2>4 DEF SideInv, SideGood
<1>12. CASE FlightReads
  <2> DEFINE x == side.flight.kind
  <2>1. x \in {"peek", "force"} /\ side.flight = [kind |-> x, snap |-> side.flight.snap]
    BY <1>1, <1>12 DEF FlightReads, SideSound, SideType, Flights
  <2>2. /\ side' = [side EXCEPT !.flight = [side.flight EXCEPT !.snap = Pending]]
        /\ confirmed' = confirmed /\ flow' = flow
    BY <1>12 DEF FlightReads
  <2>3. [side.flight EXCEPT !.snap = Pending] = [kind |-> x, snap |-> Pending]
    BY <2>1
  <2>4. side' = Asked(side, x, Pending)
    BY <2>2, <2>3 DEF Asked
  <2> HIDE DEF x
  <2> QED  BY <2>1, <2>2, <2>4, <1>5
<1>13. ASSUME NEW t \in {flightLands(side), flightFails(side)}, FlightSettles(t)
       PROVE  SideInv'
  <2>1. /\ SideSound(t) /\ t.flight = NoFlight
        /\ t.displayed \cup t.remote
             \subseteq side.displayed \cup side.remote \cup side.flight.snap
    BY <1>1, SettleSide
  <2>2. side' = t /\ confirmed' = confirmed
    BY <1>13 DEF FlightSettles
  <2>3. NoFlight.snap = {}
    BY DEF NoFlight
  <2>4. \A k \in Item : Done(k, confirmed) => Over(k, flow, confirmed)
    BY DEF Done, Over
  <2>5. SideGood(t, flow', confirmed)
    BY <1>1, <2>1, <2>3, <2>4 DEF SideGood
  <2> QED  BY <2>2, <2>5 DEF SideInv
<1>14. CASE FlightLands \/ FlightFails
  BY <1>13, <1>14 DEF FlightLands, FlightFails
<1>15. CASE applyListUpdate
  <2> DEFINE t == applyPending(side)
  <2>1. side' = t /\ confirmed' = confirmed /\ flow' = flow
    BY <1>15 DEF applyListUpdate
  <2>2. /\ SideSound(t) /\ t.flight = side.flight
        /\ t.displayed \cup t.remote \subseteq side.displayed \cup side.remote
    BY <1>1, ApplySide
  <2> HIDE DEF t
  <2>3. SideGood(t, flow, confirmed)
    BY <1>1, <2>2, SideKeeps
  <2> QED  BY <2>1, <2>3 DEF SideInv
<1>16. CASE onManualRefresh
  <2>1. /\ side' = refreshForce(side, Pending) /\ confirmed' = confirmed /\ flow' = flow
    BY <1>16 DEF onManualRefresh
  <2>2. side' = side \/ side' = Asked(side, "force", Pending)
    BY <1>3, <2>1 DEF refreshForce
  <2> QED  BY <2>1, <2>2, <1>4, <1>5
<1>17. CASE Peek
  <2>1. /\ side' = peek(side, Pending) /\ confirmed' = confirmed /\ flow' = flow
    BY <1>17 DEF Peek
  <2>2. side' = side \/ side' = Asked(side, "peek", Pending)
    BY <1>3, <2>1 DEF peek
  <2> QED  BY <2>1, <2>2, <1>4, <1>5
<1>18. CASE CtxFails
  <2> DEFINE r == pg.ctx.row
  <2>1. r \in Row
    BY <1>18, PageNow DEF CtxFails, PageOf
  <2>2. /\ side' = side \/ side' = removeItemLocally(side, r.key)
        /\ confirmed' = confirmed /\ flow' = flow
    BY <1>18 DEF CtxFails
  <2> HIDE DEF r
  <2> QED  BY <2>1, <2>2, <1>4, <1>6
<1>19. CASE \/ LoadReads \/ PageLoadLands \/ updateConverges \/ CtxReads \/ CtxArrives
            \/ WsFrame \/ FilterChange \/ (\E k \in Item : OpenItem(k) \/ LeaveElsewhere(k))
            \/ UNCHANGED vars
  <2>1. side' = side /\ confirmed' = confirmed /\ flow' = flow
    BY <1>19 DEF LoadReads, PageLoadLands, updateConverges, CtxReads, CtxArrives,
       WsFrame, FilterChange, OpenItem, LeaveElsewhere, vars
  <2> QED  BY <2>1, <1>4
<1> QED  BY <1>7, <1>8, <1>9, <1>10, <1>11, <1>12, <1>14, <1>15, <1>16, <1>17, <1>18,
         <1>19 DEF Next

LEMMA WaitersNext ==
  ASSUME TypeInv, PageInv, SideInv, WaitersHaveFlight, [Next]_vars
  PROVE  WaitersHaveFlight'
<1>1. flow \in [Row -> FlowSteps] /\ SideSound(side) /\ \A r \in Row : r.key \in Item
  BY PageNow, RowType DEF SideInv, SideGood
<1>2. ASSUME side'.flight.kind = side.flight.kind,
             upd'.st = "refresh" => upd.st = "refresh",
             \A r \in Row : flow'[r] = "refresh" => flow[r] = "refresh"
      PROVE  WaitersHaveFlight'
  BY <1>2 DEF WaitersHaveFlight
<1>3. CASE onResolve
  <2>1. pg.active \in Row
    BY <1>3, PageNow DEF onResolve, PageOf
  <2>2. side'.flight = side.flight
    BY <1>1, <1>3, <2>1, RemoveSide DEF onResolve
  <2>3. upd' = upd /\ flow' = [flow EXCEPT ![pg.active] = "sent"]
    BY <1>3 DEF onResolve
  <2>4. \A r \in Row : flow'[r] = "refresh" => flow[r] = "refresh"
    BY <1>1, <2>3
  <2> QED  BY <1>2, <2>2, <2>3, <2>4
<1>4. ASSUME NEW r \in Row,
             \/ ServerResume(r) \/ ServerAdvances(r) \/ ServerRefuses(r)
             \/ ResumeLost(r) \/ selectItem(r)
      PROVE  WaitersHaveFlight'
  <2>1. side' = side /\ upd' = upd /\ \A y \in Row : flow'[y] = "refresh" => flow[y] = "refresh"
    BY <1>1, <1>4 DEF ServerResume, ServerAdvances, ServerRefuses, ResumeLost, selectItem
  <2> QED  BY <1>2, <2>1
<1>5. ASSUME NEW r \in Row, resumeFailed(r) \/ confirmConverges(r)
      PROVE  WaitersHaveFlight'
  <2>1. side'.flight = side.flight
    BY <1>1, <1>5, RemoveSide, RestoreSide DEF resumeFailed, confirmConverges
  <2>2. upd' = upd /\ flow' = [flow EXCEPT ![r] = "idle"]
    BY <1>5 DEF resumeFailed, confirmConverges
  <2>3. \A y \in Row : flow'[y] = "refresh" => flow[y] = "refresh"
    BY <1>1, <2>2
  <2> QED  BY <1>2, <2>1, <2>2, <2>3
<1>6. CASE onManualRefresh \/ \E r \in Row : resumeOk(r)
  <2>1. side' = refreshForce(side, Pending)
    BY <1>6 DEF onManualRefresh, resumeOk
  <2>2. refreshForce(side, Pending).flight.kind = "force"
    <3>1. CASE side.flight.kind = "force"
      BY <3>1 DEF refreshForce
    <3>2. CASE side.flight.kind # "force"
      <4>1. refreshForce(side, Pending) = Asked(side, "force", Pending)
        BY <3>2 DEF refreshForce, Asked
      <4>2. Pending \in SUBSET Item
        BY DEF Pending
      <4> QED  BY <4>1, <4>2, <1>1, AskSide
    <3> QED  BY <3>1, <3>2
  <2> QED  BY <2>1, <2>2 DEF WaitersHaveFlight
<1>7. CASE FlightReads
  <2>1. side'.flight.kind = side.flight.kind /\ upd' = upd /\ flow' = flow
    BY <1>1, <1>7 DEF FlightReads, SideSound, SideType, Flights
  <2> QED  BY <1>2, <2>1
<1>8. ASSUME NEW t, FlightSettles(t) PROVE WaitersHaveFlight'
  <2>1. \A r \in Row : flow'[r] # "refresh"
    <3> SUFFICES ASSUME NEW r \in Row, flow'[r] = "refresh" PROVE FALSE
      OBVIOUS
    <3>1. flow[r] = "refresh" /\ side.flight.kind # "force"
      BY <1>8 DEF FlightSettles
    <3> QED  BY <3>1 DEF WaitersHaveFlight
  <2>2. upd'.st # "refresh"
    <3>1. upd \in [st : {"idle", "refresh", "load"}, key : Item \cup {0}, manual : BOOLEAN]
      BY PageNow DEF TypeOK
    <3> QED  BY <1>8, <3>1 DEF FlightSettles, WaitersHaveFlight
  <2> QED  BY <2>1, <2>2 DEF WaitersHaveFlight
<1>9. CASE FlightLands \/ FlightFails
  BY <1>8, <1>9 DEF FlightLands, FlightFails
<1>10. CASE applyListUpdate \/ updateConverges
  <2>1. side' \in {side, applyPending(side)} /\ flow' = flow /\ upd'.st # "refresh"
    <3>1. CASE applyListUpdate
      BY <3>1 DEF applyListUpdate
    <3>2. CASE updateConverges
      <4>1. upd' = UpdateIdle /\ side' = side /\ flow' = flow
        BY <3>2 DEF updateConverges
      <4> QED  BY <4>1 DEF UpdateIdle
    <3> QED  BY <1>10, <3>1, <3>2
  <2>2. applyPending(side).flight = side.flight
    BY <1>1, ApplySide
  <2> QED  BY <1>2, <2>1, <2>2
<1>11. CASE Peek
  <2>1. side.flight.kind = "none" /\ upd' = upd /\ flow' = flow
    BY <1>11 DEF Peek
  <2> QED  BY <2>1 DEF WaitersHaveFlight
<1>12. CASE CtxFails
  <2>1. pg.ctx.row \in Row
    BY <1>12, PageNow DEF CtxFails, PageOf
  <2>2. side'.flight = side.flight /\ upd' = upd /\ flow' = flow
    BY <1>1, <1>12, <2>1, RemoveSide DEF CtxFails
  <2> QED  BY <1>2, <2>2
<1>13. CASE \/ LoadReads \/ PageLoadLands \/ CtxReads \/ CtxArrives \/ WsFrame
            \/ FilterChange \/ (\E k \in Item : OpenItem(k) \/ LeaveElsewhere(k))
            \/ UNCHANGED vars
  <2>1. side' = side /\ upd' = upd /\ flow' = flow
    BY <1>13 DEF LoadReads, PageLoadLands, CtxReads, CtxArrives,
       WsFrame, FilterChange, OpenItem, LeaveElsewhere, vars
  <2> QED  BY <2>1, <1>2
<1> QED  BY <1>3, <1>4, <1>5, <1>6, <1>7, <1>9, <1>10, <1>11, <1>12, <1>13 DEF Next

-----------------------------------------------------------------------------
(* Every step                                                              *)

\* What the page and the sidebar leave to the rest of the state.
Rest ==
  /\ pend \in [Item -> Nat] /\ last \in [Item -> Nat]
  /\ \A k \in Item : pend[k] \in {0, last[k]} /\ last[k] <= Visits[k]
  /\ flow \in [Row -> FlowSteps] /\ prev \in [Row -> Seq(Opened)]
  /\ upd \in [st : {"idle", "refresh", "load"}, key : Item \cup {0},
              manual : BOOLEAN]
  /\ events \in [user : 0..MaxUser, server : 0..MaxServer]

Parts ==
  /\ Rest /\ pg \in PageOf(Opened, Opened) /\ confirmed \subseteq Opened
  /\ side \in SideType

LEMMA TypeParts == TypeInv <=> Parts
<1>1. Opened \subseteq Row
  BY DEF Opened
<1>2. pg \in PageOf(Opened, Opened) => pg \in PageType
  BY <1>1 DEF PageOf, PageType, Ctx
<1>3. prev \in [Row -> Seq(Opened)] => prev \in [Row -> Seq(Row)]
  <2> SUFFICES ASSUME prev \in [Row -> Seq(Opened)], NEW r \in Row
               PROVE  prev[r] \in Seq(Row)
    OBVIOUS
  <2>1. prev[r] \in Seq(Opened)
    OBVIOUS
  <2>2. Rows(prev[r]) \subseteq Row
    BY <1>1, <2>1, RowsTyped
  <2> QED  BY <2>1, <2>2, SeqOfRows
<1> QED  BY <1>1, <1>2, <1>3 DEF TypeInv, TypeOK, Rest, Parts

LEMMA ServerNext ==
  ASSUME TypeInv, [Next]_vars
  PROVE  /\ pend' \in [Item -> Nat] /\ last' \in [Item -> Nat]
         /\ \A k \in Item : pend'[k] \in {0, last'[k]} /\ last'[k] <= Visits[k]
         /\ events' \in [user : 0..MaxUser, server : 0..MaxServer]
<1>1. /\ pend \in [Item -> Nat] /\ last \in [Item -> Nat]
      /\ \A k \in Item : pend[k] \in {0, last[k]} /\ last[k] <= Visits[k]
      /\ \A k \in Item : Visits[k] \in Nat
      /\ events \in [user : 0..MaxUser, server : 0..MaxServer]
      /\ MaxUser \in Nat /\ MaxServer \in Nat
  BY BoundsAssumption DEF TypeInv, TypeOK
<1>2. events' \in [user : 0..MaxUser, server : 0..MaxServer]
  <2>1. UserEvent \/ ServerEvent \/ events' = events
    BY DEF Next, vars, onResolve, ServerResume, ServerAdvances, ServerRefuses, ResumeLost,
       resumeFailed, resumeOk, confirmConverges, selectItem, FlightReads, FlightLands,
       FlightFails, FlightSettles, LoadReads, PageLoadLands, applyListUpdate,
       onManualRefresh, updateConverges, CtxReads, CtxArrives, CtxFails, WsFrame,
       FilterChange, Peek, OpenItem, LeaveElsewhere
  <2> QED  BY <2>1, <1>1 DEF UserEvent, ServerEvent
<1>3. CASE \E r \in Row : ServerResume(r) \/ ServerRefuses(r)
  <2>1. PICK r \in Row : ServerResume(r) \/ ServerRefuses(r)
    BY <1>3
  <2>2. r.key \in Item /\ r.it \in Nat
    BY RowType
  <2>3. last' = last /\ (pend' = [pend EXCEPT ![r.key] = 0]
                          \/ (pend' = [pend EXCEPT ![r.key] = r.it] /\ last[r.key] = r.it))
    BY <2>1 DEF ServerResume, ServerRefuses
  <2> QED  BY <1>1, <1>2, <2>2, <2>3
<1>4. CASE \E k \in Item : OpenItem(k)
  <2>1. PICK k \in Item : OpenItem(k)
    BY <1>4
  <2>2. /\ last[k] < Visits[k] /\ pend' = [pend EXCEPT ![k] = last[k] + 1]
        /\ last' = [last EXCEPT ![k] = last[k] + 1]
    BY <2>1 DEF OpenItem
  <2> QED  BY <1>1, <1>2, <2>2
<1>5. CASE \E k \in Item : LeaveElsewhere(k)
  <2>1. PICK k \in Item : LeaveElsewhere(k)
    BY <1>5
  <2>2. last' = last /\ pend' = [pend EXCEPT ![k] = 0]
    BY <2>1 DEF LeaveElsewhere
  <2> QED  BY <1>1, <1>2, <2>2
<1>6. CASE pend' = pend /\ last' = last
  BY <1>1, <1>2, <1>6
<1>7. \/ \E r \in Row : ServerResume(r) \/ ServerRefuses(r)
      \/ \E k \in Item : OpenItem(k)
      \/ \E k \in Item : LeaveElsewhere(k)
      \/ pend' = pend /\ last' = last
  BY DEF Next, vars, onResolve, ServerAdvances, ResumeLost,
     resumeFailed, resumeOk, confirmConverges, selectItem, FlightReads, FlightLands,
     FlightFails, FlightSettles, LoadReads, PageLoadLands, applyListUpdate,
     onManualRefresh, updateConverges, CtxReads, CtxArrives, CtxFails, WsFrame,
     FilterChange, Peek
<1> QED  BY <1>3, <1>4, <1>5, <1>6, <1>7

LEMMA ConfirmsNext ==
  ASSUME TypeInv, [Next]_vars, Opened \subseteq Opened'
  PROVE  flow' \in [Row -> FlowSteps] /\ prev' \in [Row -> Seq(Opened')]
<1>1. /\ flow \in [Row -> FlowSteps] /\ prev \in [Row -> Seq(Opened)]
      /\ pg \in PageOf(Opened, Opened) /\ Opened \subseteq Row
      /\ {"idle", "sent", "left", "ok", "err", "refresh", "load"} = FlowSteps
  BY DEF TypeInv, TypeOK, FlowSteps, Opened
<1>2. \A S : S \in Seq(Opened) => S \in Seq(Opened')
  BY RowsTyped, SeqOfRows
<1>3. prev \in [Row -> Seq(Opened')]
  BY <1>1, <1>2
<1>4. CASE onResolve
  <2>1. pg.active \in Row /\ pg.list \in Seq(Opened)
    BY <1>1, <1>4 DEF onResolve, PageOf
  <2>2. /\ flow' = [flow EXCEPT ![pg.active] = "sent"]
        /\ prev' = [prev EXCEPT ![pg.active] = pg.list]
    BY <1>4 DEF onResolve
  <2>3. flow' \in [Row -> FlowSteps]
    BY <1>1, <2>2
  <2>4. prev' \in [Row -> Seq(Opened')]
    BY <1>2, <1>3, <2>1, <2>2
  <2> QED  BY <2>3, <2>4
<1>5. ASSUME NEW r \in Row, resumeFailed(r) \/ confirmConverges(r)
      PROVE  flow' \in [Row -> FlowSteps] /\ prev' \in [Row -> Seq(Opened')]
  <2>1. flow' = [flow EXCEPT ![r] = "idle"] /\ prev' = [prev EXCEPT ![r] = <<>>]
    BY <1>5 DEF resumeFailed, confirmConverges
  <2>2. <<>> \in Seq(Opened')
    BY NoRows
  <2>3. flow' \in [Row -> FlowSteps]
    BY <1>1, <2>1
  <2>4. prev' \in [Row -> Seq(Opened')]
    BY <1>3, <2>1, <2>2
  <2> QED  BY <2>3, <2>4
<1>6. ASSUME NEW r \in Row,
             \/ ServerResume(r) \/ ServerAdvances(r) \/ ServerRefuses(r)
             \/ ResumeLost(r) \/ resumeOk(r)
      PROVE  flow' \in [Row -> FlowSteps] /\ prev' \in [Row -> Seq(Opened')]
  <2>1. prev' = prev /\ \E x \in FlowSteps : flow' = [flow EXCEPT ![r] = x]
    BY <1>1, <1>6 DEF ServerResume, ServerAdvances, ServerRefuses, ResumeLost, resumeOk
  <2> QED  BY <1>1, <1>3, <2>1
<1>7. ASSUME NEW t, FlightSettles(t)
      PROVE  flow' \in [Row -> FlowSteps] /\ prev' \in [Row -> Seq(Opened')]
  <2>1. /\ prev' = prev
        /\ \E x : flow' = [r \in Row |-> IF r \in x THEN "load" ELSE flow[r]]
    BY <1>7 DEF FlightSettles
  <2> QED  BY <1>1, <1>3, <2>1
<1>8. CASE FlightLands \/ FlightFails
  BY <1>7, <1>8 DEF FlightLands, FlightFails
<1>9. CASE flow' = flow /\ prev' = prev
  BY <1>1, <1>3, <1>9
<1>10. \/ onResolve \/ FlightLands \/ FlightFails \/ (flow' = flow /\ prev' = prev)
       \/ \E r \in Row : \/ resumeFailed(r) \/ confirmConverges(r)
                         \/ ServerResume(r) \/ ServerAdvances(r) \/ ServerRefuses(r)
                         \/ ResumeLost(r) \/ resumeOk(r)
  BY DEF Next, vars, selectItem, FlightReads, LoadReads, PageLoadLands, applyListUpdate,
     onManualRefresh, updateConverges, CtxReads, CtxArrives, CtxFails, WsFrame,
     FilterChange, Peek, OpenItem, LeaveElsewhere
<1> QED  BY <1>4, <1>5, <1>6, <1>8, <1>9, <1>10

LEMMA UpdateNext ==
  ASSUME TypeInv, [Next]_vars
  PROVE  upd' \in [st : {"idle", "refresh", "load"}, key : Item \cup {0}, manual : BOOLEAN]
<1>1. /\ upd \in [st : {"idle", "refresh", "load"}, key : Item \cup {0}, manual : BOOLEAN]
      /\ pg.active \in Row \cup {NoRow}
  BY DEF TypeInv, TypeOK, PageType
<1>2. pg.active.key \in Item \cup {0}
  BY <1>1, RowType, NoRowApart
<1>3. \/ upd' = upd \/ upd' = [upd EXCEPT !.st = "load"] \/ upd' = UpdateIdle
      \/ upd' = [st |-> "load", key |-> pg.active.key, manual |-> FALSE]
      \/ upd' = [st |-> "refresh", key |-> pg.active.key, manual |-> TRUE]
  BY DEF Next, vars, onResolve, ServerResume, ServerAdvances, ServerRefuses, ResumeLost,
     resumeFailed, resumeOk, confirmConverges, selectItem, FlightReads, FlightLands,
     FlightFails, FlightSettles, LoadReads, PageLoadLands, applyListUpdate,
     onManualRefresh, updateConverges, CtxReads, CtxArrives, CtxFails, WsFrame,
     FilterChange, Peek, OpenItem, LeaveElsewhere
<1> DEFINE k == pg.active.key
<1> HIDE DEF k
<1>4. k \in Item \cup {0}
  BY <1>2 DEF k
<1> DEFINE U == [st : {"idle", "refresh", "load"}, key : Item \cup {0}, manual : BOOLEAN]
<1>5. [upd EXCEPT !.st = "load"] \in U
  BY <1>1
<1>6. /\ [st |-> "load", key |-> k, manual |-> FALSE] \in U
      /\ [st |-> "refresh", key |-> k, manual |-> TRUE] \in U
      /\ UpdateIdle \in U
  BY <1>4 DEF UpdateIdle
<1> HIDE DEF U
<1> QED  BY <1>1, <1>3, <1>5, <1>6 DEF U, k

LEMMA PageNext ==
  ASSUME TypeInv, PageInv, [Next]_vars
  PROVE  Opened \subseteq Opened' /\ PageInv'
<1>1. ASSUME last' = last PROVE Opened' = Opened
  BY <1>1 DEF Opened
<1>2. CASE onResolve
  BY <1>1, <1>2, onResolveKeeps DEF onResolve, PageInv
<1>3. ASSUME NEW r \in Row, ServerResume(r) \/ ServerAdvances(r) \/ ServerRefuses(r)
                              \/ ResumeLost(r) \/ resumeOk(r)
      PROVE  Opened' = Opened /\ PageInv'
  <2>1. Good(Opened, pg', pend', flow', confirmed)
    BY <1>3, ConfirmStepsKeep
  <2>2. last' = last /\ confirmed' = confirmed
    BY <1>3 DEF ServerResume, ServerAdvances, ServerRefuses, ResumeLost, resumeOk
  <2> QED  BY <1>1, <2>1, <2>2 DEF PageInv
<1>4. ASSUME NEW r \in Row, resumeFailed(r) PROVE Opened' = Opened /\ PageInv'
  BY <1>1, <1>4, resumeFailedKeeps DEF resumeFailed, PageInv
<1>5. ASSUME NEW r \in Row, confirmConverges(r) PROVE Opened' = Opened /\ PageInv'
  BY <1>1, <1>5, confirmConvergesKeeps DEF confirmConverges, PageInv
<1>6. ASSUME NEW r \in Row, selectItem(r) PROVE Opened' = Opened /\ PageInv'
  BY <1>1, <1>6, selectItemKeeps DEF selectItem, PageInv
<1>7. ASSUME NEW t, FlightSettles(t) PROVE Opened' = Opened /\ PageInv'
  <2>1. Good(Opened, pg', pend, flow', confirmed)
    BY <1>7, FlightSettlesKeeps
  <2>2. last' = last /\ confirmed' = confirmed /\ pend' = pend
    BY <1>7 DEF FlightSettles
  <2> QED  BY <1>1, <2>1, <2>2 DEF PageInv
<1>8. CASE FlightLands \/ FlightFails
  BY <1>7, <1>8 DEF FlightLands, FlightFails
<1>9. CASE LoadReads \/ FilterChange \/ applyListUpdate
  BY <1>1, <1>9, ListRequestsKeep DEF LoadReads, FilterChange, applyListUpdate, PageInv
<1>10. CASE PageLoadLands
  BY <1>1, <1>10, PageLoadLandsKeeps DEF PageLoadLands, PageInv
<1>11. CASE updateConverges
  BY <1>1, <1>11, updateConvergesKeeps DEF updateConverges, PageInv
<1>12. CASE CtxReads
  BY <1>1, <1>12, CtxReadsKeeps DEF CtxReads, PageInv
<1>13. CASE CtxArrives
  BY <1>1, <1>13, CtxArrivesKeeps DEF CtxArrives, PageInv
<1>14. CASE CtxFails
  BY <1>1, <1>14, CtxFailsKeeps DEF CtxFails, PageInv
<1>15. CASE WsFrame
  BY <1>1, <1>15, WsFrameKeeps DEF WsFrame, PageInv
<1>16. ASSUME NEW k \in Item, LeaveElsewhere(k) PROVE Opened' = Opened /\ PageInv'
  BY <1>1, <1>16, LeaveElsewhereKeeps DEF LeaveElsewhere, PageInv
<1>17. ASSUME NEW k \in Item, OpenItem(k) PROVE Opened \subseteq Opened' /\ PageInv'
  BY <1>17, OpenItemKeeps DEF OpenItem, PageInv
<1>18. CASE FlightReads \/ onManualRefresh \/ Peek \/ UNCHANGED vars
  BY <1>1, <1>18 DEF FlightReads, onManualRefresh, Peek, vars, PageInv
<1> QED  BY <1>2, <1>3, <1>4, <1>5, <1>6, <1>8, <1>9, <1>10, <1>11, <1>12, <1>13, <1>14,
         <1>15, <1>16, <1>17, <1>18 DEF Next

-----------------------------------------------------------------------------
IInv == TypeInv /\ PageInv /\ SideInv /\ WaitersHaveFlight

LEMMA InitHolds == Init => IInv
<1> SUFFICES ASSUME Init PROVE IInv
  OBVIOUS
<1>1. /\ pend \in [Item -> {0, 1}] /\ last = pend /\ confirmed = {}
      /\ pg = [list |-> <<>>, active |-> NoRow, detail |-> NoRow, ctx |-> NoCtx,
               ws |-> 0, processed |-> {}, absent |-> {}, intents |-> {},
               owner |-> PageOwner, snap |-> ServerList,
               snapBefore |-> <<>>, listLoading |-> TRUE]
      /\ side = peek(SideInit, Pending)
      /\ flow = [r \in Row |-> "idle"] /\ prev = [r \in Row |-> <<>>]
      /\ upd = UpdateIdle /\ events = [user |-> 0, server |-> 0]
  BY DEF Init
<1>2. /\ pend \in [Item -> Nat] /\ last \in [Item -> Nat]
      /\ \A k \in Item : pend[k] \in {0, last[k]} /\ last[k] <= Visits[k]
  <2>1. \A k \in Item : pend[k] \in {0, 1} /\ Visits[k] \in Nat \ {0}
    BY <1>1, BoundsAssumption
  <2>2. pend \in [Item -> Nat]
    BY <1>1
  <2>3. \A k \in Item : pend[k] \in {0, last[k]} /\ last[k] <= Visits[k]
    BY <1>1, <2>1
  <2> QED  BY <1>1, <2>2, <2>3
<1>3. Rest
  <2>1. flow \in [Row -> FlowSteps]
    BY <1>1 DEF FlowSteps
  <2>2. prev \in [Row -> Seq(Opened)]
    BY <1>1, NoRows
  <2>3. upd \in [st : {"idle", "refresh", "load"}, key : Item \cup {0}, manual : BOOLEAN]
    BY <1>1 DEF UpdateIdle
  <2>4. events \in [user : 0..MaxUser, server : 0..MaxServer]
    BY <1>1, BoundsAssumption
  <2> QED  BY <1>2, <2>1, <2>2, <2>3, <2>4 DEF Rest
<1>4. /\ Opened \subseteq Row
      /\ ServerList \in Seq(Opened) /\ Distinct(ServerList)
  <2>1. /\ ServerList \in Seq(Row) /\ Distinct(ServerList)
        /\ Rows(ServerList) = {r \in Row : pend[r.key] = r.it}
    BY <1>2, ServerLists
  <2>2. Rows(ServerList) \subseteq Opened
    <3> SUFFICES ASSUME NEW r \in Row, pend[r.key] = r.it PROVE r \in Opened
      BY <2>1
    <3>1. r.it \in Nat
      BY RowType
    <3> QED  BY <1>1, <3>1 DEF Opened
  <2> HIDE DEF Opened
  <2>3. ServerList \in Seq(Opened)
    BY <2>1, <2>2, SeqOfRows
  <2> QED  BY <2>1, <2>3 DEF Opened
<1>5. pg \in PageOf(Opened, Opened)
  <2>1. NoCtx \in [row : Opened \cup {NoRow}, hard : BOOLEAN, found : BOOLEAN]
    BY DEF NoCtx
  <2>2. <<>> \in Seq(Opened)
    BY NoRows
  <2> HIDE DEF NoCtx
  <2> QED  BY <1>1, <1>4, <2>1, <2>2 DEF PageOf
<1>6. SideSound(side) /\ side.displayed \cup side.remote = {}
      /\ side.flight = [kind |-> "peek", snap |-> Pending]
  <2>1. SideSound(SideInit) /\ SideInit.displayed = {} /\ SideInit.remote = {}
    <3>1. 0 \in 0..Cardinality(Item)
      <4>1. Cardinality({}) \in 0..Cardinality(Item) /\ Cardinality(Item) \in Nat
        BY CountOf
      <4> QED  BY <4>1
    <3> QED  BY <3>1 DEF SideInit, SideSound, SideType, Flights, NoFlight, diffKeys
  <2>2. side = Asked(SideInit, "peek", Pending)
    BY <1>1 DEF peek, SideInit, NoFlight, Asked
  <2>3. Pending \in SUBSET Item
    BY DEF Pending
  <2>4. /\ SideSound(side) /\ side.displayed = {} /\ side.remote = {}
    BY <2>1, <2>2, <2>3, AskSide
  <2>5. side.flight = [kind |-> "peek", snap |-> Pending]
    BY <2>2 DEF Asked, SideInit
  <2> QED  BY <2>4, <2>5
<1>7. TypeInv
  BY <1>1, <1>3, <1>5, <1>6, TypeParts DEF SideSound, Parts
<1>8. \A r \in Row : flow[r] = "idle"
  BY <1>1
<1>9. Final(pend, flow, confirmed) /\ Locks(pg, flow)
  BY <1>1, <1>8 DEF Final, Locks, Answered
<1>10. /\ pg.list = <<>> /\ pg.snapBefore = <<>> /\ pg.snap = ServerList
       /\ pg.processed = {} /\ pg.absent = {} /\ pg.intents = {} /\ pg.active = NoRow
       /\ pg.detail = NoRow /\ pg.ctx.row = NoRow /\ pg.ws = 0 /\ pg.owner # NoOwner
  BY <1>1 DEF NoCtx, PageOwner, NoOwner, NoRow
<1>11. Sound(pg)
  BY <1>4, <1>10, NoRows DEF Sound, SocketOK
<1>12. Known(pg) = {}
  BY <1>10, NoRows, NoRowApart DEF Known
<1>13. Coherent(pg, pend, flow, confirmed)
  <2>1. Marked(pg, flow, confirmed) /\ NotAwaited(pg, flow, confirmed)
    BY <1>1, <1>8 DEF Marked, NotAwaited, Sent
  <2>2. Complete(pg, pend, flow) /\ Gone(pg, pend, flow) /\ Hidden(pg, pend, confirmed)
        /\ Apart(pg, flow)
    BY <1>10, <1>12 DEF Complete, Gone, Hidden, Apart
  <2>3. /\ CtxTrue(pg, pend) /\ CtxListed(pg, pend, flow, confirmed)
        /\ CtxOwned(pg, pend, confirmed)
    BY <1>10, NoRowApart DEF CtxTrue, CtxListed, CtxOwned
  <2> QED  BY <2>1, <2>2, <2>3 DEF Coherent, Base
<1>14. PageInv
  BY <1>1, <1>5, <1>9, <1>11, <1>13 DEF PageInv, Good
<1>15. SideInv
  <2>1. \A k \in Item : Over(k, flow, confirmed) => k \notin Pending
    BY <1>7, <1>9, OverIsNotPending DEF TypeInv
  <2> QED  BY <1>6, <2>1 DEF SideInv, SideGood
<1>16. WaitersHaveFlight
  BY <1>1, <1>8 DEF WaitersHaveFlight, UpdateIdle
<1> QED  BY <1>7, <1>14, <1>15, <1>16 DEF IInv

LEMMA NextHolds ==
  ASSUME IInv, [Next]_vars
  PROVE  IInv'
<1>1. TypeInv /\ PageInv /\ SideInv /\ WaitersHaveFlight
  BY DEF IInv
<1>2. Opened \subseteq Opened' /\ PageInv'
  BY <1>1, PageNext
<1>3. SideInv' /\ WaitersHaveFlight'
  BY <1>1, SideNext, WaitersNext
<1>4. Rest'
  <2>1. /\ pend' \in [Item -> Nat] /\ last' \in [Item -> Nat]
        /\ \A k \in Item : pend'[k] \in {0, last'[k]} /\ last'[k] <= Visits[k]
        /\ events' \in [user : 0..MaxUser, server : 0..MaxServer]
    BY <1>1, ServerNext
  <2>2. flow' \in [Row -> FlowSteps] /\ prev' \in [Row -> Seq(Opened')]
    BY <1>1, <1>2, ConfirmsNext
  <2>3. upd' \in [st : {"idle", "refresh", "load"}, key : Item \cup {0}, manual : BOOLEAN]
    BY <1>1, UpdateNext
  <2> QED  BY <2>1, <2>2, <2>3 DEF Rest
<1>5. pg' \in PageOf(Opened, Opened)' /\ confirmed' \subseteq Opened'
  BY <1>2 DEF PageInv, Good
<1>6. side' \in SideType'
  BY <1>3 DEF SideInv, SideGood, SideSound
<1>7. Parts'
  BY <1>4, <1>5, <1>6 DEF Parts
<1>8. TypeInv'
  BY <1>7, TypeParts, PTL
<1> QED  BY <1>2, <1>3, <1>8 DEF IInv

LEMMA Invariance == Spec => []IInv
BY InitHolds, NextHolds, PTL DEF Spec

-----------------------------------------------------------------------------
(* Every variable of the page, the sidebar and the server keeps its type,  *)
(* whatever the number of approvals and of their visits.                   *)
THEOREM TypeCorrect == Spec => []TypeOK
<1>1. IInv => TypeOK
  BY DEF IInv, TypeInv
<1> QED  BY Invariance, <1>1, PTL

(* No approval being confirmed or confirmed is listed, and none twice.     *)
THEOREM ListIsSound == Spec => []ListSound
<1>1. IInv => ListSound
  <2> SUFFICES ASSUME IInv PROVE ListSound
    OBVIOUS
  <2>1. pg.list \in Seq(Row) /\ Sound(pg)
    BY DEF IInv, PageInv, Good, TypeInv, TypeOK, PageType
  <2>2. Cardinality(Keys(pg.list)) = Len(pg.list)
    BY <2>1, DistinctCount DEF Sound
  <2> QED  BY <2>1, <2>2 DEF ListSound, Sound
<1> QED  BY Invariance, <1>1, PTL

(* A visit whose confirm has converged is never shown again, in the list   *)
(* or, when all visits of its node are confirmed, in the sidebar.          *)
THEOREM ConfirmIsFinal == Spec => []ConfirmedStaysGone
<1>1. IInv => ConfirmedStaysGone
  <2> SUFFICES ASSUME IInv, NEW r \in confirmed
               PROVE  /\ r \notin Rows(pg.list)
                      /\ (\A c \in Row : c.key = r.key => c \in confirmed)
                           => r.key \notin side.displayed \cup side.remote
    BY DEF ConfirmedStaysGone
  <2>1. r \in Row /\ Sound(pg) /\ Marked(pg, flow, confirmed)
    BY DEF IInv, PageInv, Good, Coherent, Base, TypeInv, TypeOK
  <2>2. r.key \in Item
    BY <2>1, RowType
  <2>3. r \notin Rows(pg.list)
    BY <2>1 DEF Sound, Marked
  <2>4. Done(r.key, confirmed) => r.key \notin side.displayed \cup side.remote
    BY <2>2 DEF IInv, SideInv, SideGood
  <2> QED  BY <2>3, <2>4 DEF Done
<1> QED  BY Invariance, <1>1, PTL

(* "The list changed" is announced exactly when it did.                    *)
THEOREM BannerIsTruthful == Spec => []BannerTruthful
<1>1. IInv => BannerTruthful
  BY DEF IInv, SideInv, SideGood, SideSound, BannerTruthful, diffKeys
<1> QED  BY Invariance, <1>1, PTL

(* The event socket is the selected run's or closed.                       *)
THEOREM SocketFollowsSelection == Spec => []SocketIsActive
<1>1. IInv => SocketIsActive
  BY DEF IInv, PageInv, Good, Sound, SocketOK, SocketIsActive
<1> QED  BY Invariance, <1>1, PTL

(* The list is locked by the confirms in flight and nothing else.          *)
THEOREM LockIsHeldExactly == Spec => []LockHeldExactly
<1>1. IInv => LockHeldExactly
  BY DEF IInv, PageInv, Good, Locks, LockHeldExactly
<1> QED  BY Invariance, <1>1, PTL

(* A waiting approval is hidden only by its own confirm in flight, or after *)
(* the confirm of an earlier visit of its node.                            *)
THEOREM HidesOnlyInFlight == Spec => []HiddenOnlyInFlight
<1>1. IInv => HiddenOnlyInFlight
  BY DEF IInv, PageInv, Good, Coherent, Base, Hidden, Older, HiddenOnlyInFlight
<1> QED  BY Invariance, <1>1, PTL

(* Whoever waits for a refresh waits for one that is in flight.            *)
THEOREM NobodyWaitsForNothing == Spec => []WaitersHaveFlight
<1>1. IInv => WaitersHaveFlight
  BY DEF IInv
<1> QED  BY Invariance, <1>1, PTL
=============================================================================
