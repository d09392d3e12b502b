---------------------------- MODULE MCGatesInbox ----------------------------
(* Instances of GatesInbox for TLC: approvals are their place in the list. *)
EXTENDS GatesInbox

MCItem == 1..NItems

(* Only the first approval's node is visited twice.                        *)
MCVisits == [k \in MCItem |-> IF k = 1 THEN 2 ELSE 1]

(* Keep is the filter it is meant to be, on every short list.              *)
ASSUME KeepIsFilter ==
  \A n \in 0..4 : \A l \in [1..n -> 1..3], S \in SUBSET (1..3) :
    Keep(l, S) = SelectSeq(l, LAMBDA r : r \in S)
=============================================================================
