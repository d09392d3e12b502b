---------------------------- MODULE MCRunAdmission ----------------------------
(***************************************************************************)
(* Small instances of RunAdmission for TLC.                                *)
(***************************************************************************)
EXTENDS RunAdmission, TLC

CONSTANTS w1, w2, q1, q2, q3

MCRuns1 == {1}
MCRuns2 == {1, 2}
MCWorkers2 == {w1, w2}
MCRequests1 == {q1}
MCRequests2 == {q1, q2}
MCRequests3 == {q1, q2, q3}

\* An agent node, then a human gate that approves (the end of the run) or sends
\* the run back to the agent.
MCNodes == {1, 2}
MCGate == {2}
MCSuccess == [n \in MCNodes |-> IF n = 1 THEN {2} ELSE {0, 1}]
MCFailure == [n \in MCNodes |-> {0}]

\* The same with a last agent node behind the gate, which a failure of the
\* first one leads to as well.
MCNodes3 == {1, 2, 3}
MCSuccess3 == [n \in MCNodes3 |->
                 CASE n = 1 -> {2} [] n = 2 -> {1, 3} [] OTHER -> {0}]
MCFailure3 == [n \in MCNodes3 |-> IF n = 1 THEN {3} ELSE {0}]

\* A gate first and an agent node behind it: of two queued runs one can have a
\* gate ahead and the other none.
MCGateFirst == {1}
MCSuccessFirst == [n \in MCNodes |-> IF n = 1 THEN {2} ELSE {0}]

MCSymmetry == Permutations({w1, w2}) \cup Permutations({q1, q2, q3})
=============================================================================
