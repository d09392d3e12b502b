-------------------------- MODULE MCReviewSession --------------------------
(***************************************************************************)
(* Instances of ReviewSession for TLC.                                     *)
(***************************************************************************)
EXTENDS ReviewSession

CONSTANTS i1, i2, i3, p1, p2, p3

MCItems2 == {i1, i2}
MCItems3 == {i1, i2, i3}
MCChoice2 == {i1, i2}
MCPumps2 == {p1, p2}
MCPumps3 == {p1, p2, p3}

\* Messages that answer no choice card are interchangeable, and so are pumps.
MCSymmetry == Permutations(Items \ ChoiceItems) \cup Permutations(Pumps)
=============================================================================
