----------------------------- MODULE ListFilter -----------------------------
(***************************************************************************)
(* Array.prototype.filter, as the handlers of the web client use it on     *)
(* their lists, defined by positions: the library's SelectSeq is recursive.*)
(***************************************************************************)
EXTENDS Naturals, Sequences, FiniteSets

Rows(l) == {l[n] : n \in 1..Len(l)}

(* The rows of l in S, in order: the i-th of them is the one with i places *)
(* kept up to its own.                                                     *)
Kept(l, S) == {n \in 1..Len(l) : l[n] \in S}
KeptUpTo(l, S, n) == Cardinality({m \in Kept(l, S) : m <= n})
Keep(l, S) ==
  [i \in 1..Cardinality(Kept(l, S)) |->
     l[CHOOSE n \in Kept(l, S) : KeptUpTo(l, S, n) = i]]
=============================================================================
