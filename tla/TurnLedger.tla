----------------------------- MODULE TurnLedger -----------------------------
(***************************************************************************)
(* What the turn controller of a parked dialogue promises, without queues, *)
(* sessions, goroutines or locks: the agent works on one turn at a time,   *)
(* on each accepted message at most once, only while the dialogue is open, *)
(* and the dialogue is left for good at most once.                         *)
(***************************************************************************)
CONSTANTS Items

VARIABLES
    status,  \* what became of every message
    phase    \* of the dialogue: "open", "closing" (confirm wrap-up), "closed"

vars == <<status, phase>>

Status == {"new", "refused", "waiting", "running", "settled", "dropped"}

TypeOK == /\ status \in [Items -> Status]
          /\ phase \in {"open", "closing", "closed"}

Init == /\ status = [i \in Items |-> "new"]
        /\ phase = "open"

Move(i, from, to) ==
    /\ status[i] = from
    /\ status' = [status EXCEPT ![i] = to]

Refuse(i) == Move(i, "new", "refused") /\ UNCHANGED phase
Accept(i) == Move(i, "new", "waiting") /\ UNCHANGED phase

\* Waiting messages are withdrawn by their sender or swept by a cancel.
Discard(S) ==
    /\ S # {}
    /\ \A i \in S : status[i] = "waiting"
    /\ status' = [i \in Items |-> IF i \in S THEN "dropped" ELSE status[i]]
    /\ UNCHANGED phase

Run(i) ==
    /\ phase = "open"
    /\ \A j \in Items : status[j] # "running"
    /\ Move(i, "waiting", "running")
    /\ UNCHANGED phase

\* The turn that is Done closes the dialogue.
Settle(i) ==
    /\ Move(i, "running", "settled")
    /\ phase' \in {"open", "closed"}

Confirm ==
    /\ phase = "open"
    /\ \A j \in Items : status[j] # "running"
    /\ phase' = "closing"
    /\ UNCHANGED status

Concluded ==
    /\ phase = "closing"
    /\ phase' \in {"open", "closed"}
    /\ UNCHANGED status

Next ==
    \/ \E i \in Items : Refuse(i) \/ Accept(i) \/ Run(i) \/ Settle(i)
    \/ \E S \in SUBSET Items : Discard(S)
    \/ Confirm
    \/ Concluded

Spec == Init /\ [][Next]_vars
=============================================================================
