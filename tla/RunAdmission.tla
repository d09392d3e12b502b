---------------------------- MODULE RunAdmission ----------------------------
(***************************************************************************)
(* How the engine admits, drives, parks and ends workflow runs             *)
(* (server/internal/engine: sema, dispatcher, execute, finish, resume,     *)
(* halt, auto_retry).  The run rows in the database are shared by          *)
(*   - the dispatcher goroutine, which promotes queued runs,               *)
(*   - worker goroutines: the "go resumeAdmitted" and "go runAdmitted"     *)
(*     calls, each of which may end up driving a run's FSM,                *)
(*   - client requests: Cancel, ResumeGate and ResumeFrom.                 *)
(* SQL statements and mutex sections of different goroutines interleave.   *)
(*                                                                         *)
(* Abstractions.  A graph is the set Nodes with the successors its edges   *)
(* and actions can select; a node's work has a nondeterministic result.    *)
(* SQL statements succeed.  The dispatcher polls (dispatchPoll), so its    *)
(* wake channel only makes it faster and is left out.                      *)
(***************************************************************************)
EXTENDS Naturals, FiniteSets

CONSTANTS
    Runs,         \* run ids, numbered in order of creation
    Workers,      \* bound on the worker goroutines alive at one time
    Requests,     \* client requests, each issued once
    Calls,        \* which engine calls clients make
    Nodes,        \* node ids, positive numbers
    Start,        \* Graph.StartNode
    GateNodes,    \* the human_gate nodes
    ClarifyNodes, \* nodes whose failed sandbox set-up leaves the run running
    Success,      \* routeSuccess: [Nodes -> possible results], 0 for ""
    Failure,      \* routeFailure: likewise
    Priorities,   \* admission bands
    MaxLimit,     \* largest concurrency limit an operator sets
    AutoRetryMax, \* automatic retries of a node by one driver
    MaxRestarts,  \* bound on server restarts
    MayHalt,      \* whether shutdown may begin
    None

ASSUME AdmissionAssumption ==
    /\ Runs \subseteq Nat
    /\ Nodes \subseteq Nat \ {0}
    /\ Start \in Nodes
    /\ GateNodes \subseteq Nodes
    /\ ClarifyNodes \subseteq Nodes \ GateNodes
    /\ Success \in [Nodes -> SUBSET (Nodes \cup {0})]
    /\ Failure \in [Nodes -> SUBSET (Nodes \cup {0})]
    /\ Priorities \subseteq Nat
    /\ \E p \in Priorities : \A x \in Priorities : x <= p
    /\ MaxLimit \in Nat \ {0}
    /\ AutoRetryMax \in Nat
    /\ MaxRestarts \in Nat
    /\ MayHalt \in BOOLEAN
    /\ Calls \subseteq {"Cancel", "ResumeGate", "ResumeFrom"}
    /\ None \notin Workers \cup Runs

VARIABLES
    run,      \* the database: one record per run, see Row
    sem,      \* sema: slots taken (cur) and limit
    exec,     \* execRuns and execGen: the worker that owns the execute slot
    disp,     \* the dispatcher goroutine
    worker,   \* the other engine goroutines
    req,      \* client requests
    halted,   \* Engine.halted
    restarts  \* server restarts so far

vars == <<run, sem, exec, disp, worker, req, halted, restarts>>

RunStatus == {"new", "queued", "running", "waiting_human",
              "completed", "failed", "cancelled"}
Ended == {"completed", "failed", "cancelled"}

\* status ("new" before StartRun) and prio are columns of the Run row, adm is
\* its Checkpoints[__admission_from__] (0 when absent); iter and visit are the
\* highest iteration per node and the latest of the StateRun rows, failures the
\* nodes with a failed one; gates are the Gate rows.
VisitStatus == {"none", "running", "waiting_human", "completed", "failed",
                "cancelled"}
GateRow == [node : GateNodes, iter : Nat, resolved : BOOLEAN]
Row == [status : RunStatus, prio : Priorities, adm : Nodes \cup {0},
        iter : [Nodes -> Nat],
        visit : [node : Nodes, iter : Nat, st : VisitStatus],
        failures : SUBSET Nodes,
        gates : SUBSET GateRow]

\* The program points of a worker at which it holds a concurrency slot.
SlotPC == {"direct", "clear", "slot", "requeue", "load", "enter", "node",
           "check", "act", "park", "wait", "cleanup", "drained", "complete",
           "end", "release"}
\* Those at which it drives the run: execute after acquireExecuteSlot.
DriverPC == SlotPC \ {"direct", "clear", "slot", "requeue", "release"}
AdmissionPC == {"admit", "direct", "clear", "queue"}
Outcomes == {"none", "ok", "paused", "failed", "retryable", "setup"}
WorkerPC == SlotPC \cup {"none", "admit", "queue"}
RequestPC == {"new", "done",
              "finish", "cleanup", "force",              \* Cancel
              "resolve", "advance", "halt", "complete",  \* ResumeGate
              "idle", "launch"}                          \* ResumeFrom

NoWorker == [pc |-> "none", run |-> None, node |-> 0, iter |-> 0,
             out |-> "none", tries |-> [n \in Nodes |-> 0]]
IdleDisp == [pc |-> "idle", run |-> None, node |-> 0]
NewRequest == [pc |-> "new", run |-> None, node |-> 0, iter |-> 0,
               seen |-> "new"]

-----------------------------------------------------------------------------
(* Which queued run goes first                                             *)

Status(r) == run[r].status

\* The nodes an admission at n can still reach, n included.
Reachable(n) ==
    {m \in Nodes : \A S \in SUBSET Nodes :
        /\ n \in S
        /\ \A x \in S : (Success[x] \cup Failure[x]) \ {0} \subseteq S
        => m \in S}

\* hasRemainingHumanGate
HasRemainingHumanGate(n) == Reachable(n) \cap GateNodes # {}

\* continueFromNodeID
ContinueFrom(r) == IF run[r].adm = 0 THEN Start ELSE run[r].adm

Queued == {r \in Runs : Status(r) = "queued"}

Oldest(S) == CHOOSE r \in S : \A x \in S : r <= x

\* Mutant: plain priority and age, as if no run had a human gate ahead.
PickOldest == Oldest({r \in Queued : \A x \in Queued : run[x].prio <= run[r].prio})

\* The highest queued band, and pickQueuedByRemainingHumanGate in it: runs with
\* a human gate ahead first, then the oldest.
PickQueued ==
    LET band == {r \in Queued : \A x \in Queued : run[x].prio <= run[r].prio}
        gated == {r \in band : HasRemainingHumanGate(ContinueFrom(r))}
    IN Oldest(IF gated # {} THEN gated ELSE band)

-----------------------------------------------------------------------------
(* Building blocks                                                         *)

Init ==
    /\ run \in [Runs -> [status : {"new"}, prio : Priorities, adm : {0},
                         iter : {[n \in Nodes |-> 0]},
                         visit : {[node |-> Start, iter |-> 0, st |-> "none"]},
                         failures : {{}}, gates : {{}}]]
    /\ sem \in [cur : {0}, limit : 1..MaxLimit]
    /\ exec = [r \in Runs |-> None]
    /\ disp = IdleDisp
    /\ worker = [w \in Workers |-> NoWorker]
    /\ req = [q \in Requests |-> NewRequest]
    /\ halted = FALSE
    /\ restarts = 0

SetStatus(r, st) == run' = [run EXCEPT ![r].status = st]
Goto(w, l) == worker' = [worker EXCEPT ![w].pc = l]

\* sema.TryAcquire and sema.Release
TryAcquire == sem.cur < sem.limit /\ sem' = [sem EXCEPT !.cur = @ + 1]
Release == sem' = [sem EXCEPT !.cur = IF @ > 0 THEN @ - 1 ELSE @]

\* A new goroutine for run r at node n: one that asks for admission ("admit")
\* or one that was handed a slot ("slot").
Spawn(l, r, n) ==
    \E w \in Workers :
        /\ worker[w].pc = "none"
        /\ worker' = [worker EXCEPT ![w] =
                         [NoWorker EXCEPT !.pc = l, !.run = r, !.node = n]]

\* saveState and the updates of StateRun rows: visit (n, i) of a row becomes st.
VisitBecomes(row, n, i, st) ==
    IF row.visit.node = n /\ row.visit.iter = i
    THEN [row EXCEPT !.visit.st = st,
                     !.failures = IF st = "failed" THEN @ \cup {n} ELSE @]
    ELSE row

\* saveState never takes a visit out of a terminal status for a pause, nor out
\* of failed or cancelled for a success.
SaveState(row, n, i, st) ==
    IF \/ st = "waiting_human" /\ row.visit.st \in Ended
       \/ st = "completed" /\ row.visit.st \in {"failed", "cancelled"}
    THEN row
    ELSE VisitBecomes(row, n, i, st)

\* A row after finish's finalizeActiveStateRuns and supersedePendingGates.
Finalized(row, st) ==
    IF row.visit.st \in {"running", "waiting_human"}
    THEN VisitBecomes(row, row.visit.node, row.visit.iter, st)
    ELSE row
Superseded(row) == [row EXCEPT !.gates = {[g EXCEPT !.resolved = TRUE] : g \in @}]

\* The Gate row of node n's highest iteration, as a set that may be empty.
LatestGate(r, n) ==
    {g \in run[r].gates :
        g.node = n /\ \A h \in run[r].gates : h.node = n => h.iter <= g.iter}

GateOpen(r, n) == \E g \in LatestGate(r, n) : ~g.resolved

GatePending(r) == \E g \in run[r].gates : ~g.resolved

-----------------------------------------------------------------------------
(* Runs, operators and shutdown                                            *)

StartRun(r) ==
    /\ ~halted
    /\ Status(r) = "new"
    /\ \A x \in Runs : x < r => Status(x) # "new"
    /\ SetStatus(r, "queued")
    /\ UNCHANGED <<sem, exec, disp, worker, req, halted, restarts>>

UpdateRunPriority(r) ==
    /\ Status(r) \in {"queued", "running", "waiting_human"}
    /\ \E p \in Priorities \ {run[r].prio} : run' = [run EXCEPT ![r].prio = p]
    /\ UNCHANGED <<sem, exec, disp, worker, req, halted, restarts>>

SetMaxConcurrent ==
    /\ \E n \in 1..MaxLimit \ {sem.limit} : sem' = [sem EXCEPT !.limit = n]
    /\ UNCHANGED <<run, exec, disp, worker, req, halted, restarts>>

Halt ==
    /\ MayHalt /\ ~halted
    /\ halted' = TRUE
    /\ UNCHANGED <<run, sem, exec, disp, worker, req, restarts>>

-----------------------------------------------------------------------------
(* dispatch: drainQueue and claimNextQueued                                *)

DispAcquire ==
    /\ disp.pc = "idle" /\ ~halted
    /\ TryAcquire
    /\ disp' = [disp EXCEPT !.pc = "read"]
    /\ UNCHANGED <<run, exec, worker, req, halted, restarts>>

\* Mutant: a lost claim keeps the tentative slot.
DispGiveUpLeaks ==
    /\ \/ disp.pc = "read" /\ Queued = {} /\ Release
       \/ disp.pc = "claim" /\ Status(disp.run) # "queued" /\ UNCHANGED sem
    /\ disp' = IdleDisp
    /\ UNCHANGED <<run, exec, worker, req, halted, restarts>>

DispGiveUp ==
    /\ \/ disp.pc = "read" /\ Queued = {}
       \/ disp.pc = "claim" /\ Status(disp.run) # "queued"
    /\ Release
    /\ disp' = IdleDisp
    /\ UNCHANGED <<run, exec, worker, req, halted, restarts>>

\* The row is read here: the admission node used later is the one it had then.
DispRead ==
    /\ disp.pc = "read" /\ Queued # {}
    /\ disp' = [pc |-> "claim", run |-> PickQueued, node |-> run[PickQueued].adm]
    /\ UNCHANGED <<run, sem, exec, worker, req, halted, restarts>>

\* Mutant: no fallback to the start node of a run without a checkpoint.
DispClaimNoStart ==
    /\ disp.pc = "claim" /\ Status(disp.run) = "queued"
    /\ SetStatus(disp.run, "running")
    /\ IF disp.node = 0
       THEN Spawn("slot", disp.run, disp.node) /\ disp' = IdleDisp
       ELSE disp' = [disp EXCEPT !.pc = "clear"] /\ UNCHANGED worker
    /\ UNCHANGED <<sem, exec, req, halted, restarts>>

DispClaim ==
    /\ disp.pc = "claim" /\ Status(disp.run) = "queued"
    /\ SetStatus(disp.run, "running")
    /\ IF disp.node = 0
       THEN Spawn("slot", disp.run, Start) /\ disp' = IdleDisp
       ELSE disp' = [disp EXCEPT !.pc = "clear"] /\ UNCHANGED worker
    /\ UNCHANGED <<sem, exec, req, halted, restarts>>

DispClear ==
    /\ disp.pc = "clear"
    /\ run' = [run EXCEPT ![disp.run].adm = 0]
    /\ Spawn("slot", disp.run, disp.node)
    /\ disp' = IdleDisp
    /\ UNCHANGED <<sem, exec, req, halted, restarts>>

Dispatch == DispAcquire \/ DispGiveUp \/ DispRead \/ DispClaim \/ DispClear

-----------------------------------------------------------------------------
(* resumeAdmitted: scheduleRunAdmission                                    *)

Admit(w) ==
    /\ worker[w].pc = "admit"
    /\ \/ TryAcquire /\ Goto(w, "direct")
       \/ sem.cur >= sem.limit /\ Goto(w, "queue") /\ UNCHANGED sem
    /\ UNCHANGED <<run, exec, disp, req, halted, restarts>>

\* Mutant: a run that is already running gives its slot back and is forgotten.
AdmitDirectOrForget(w) ==
    LET r == worker[w].run IN
    /\ worker[w].pc = "direct"
    /\ IF Status(r) # "running"
       THEN SetStatus(r, "running") /\ Goto(w, "clear") /\ UNCHANGED sem
       ELSE Release /\ worker' = [worker EXCEPT ![w] = NoWorker] /\ UNCHANGED run
    /\ UNCHANGED <<exec, disp, req, halted, restarts>>

\* admitRunDirect up to its guarded UPDATE
AdmitDirect(w) ==
    LET r == worker[w].run IN
    /\ worker[w].pc = "direct"
    /\ IF Status(r) # "running"
       THEN SetStatus(r, "running") /\ Goto(w, "clear") /\ UNCHANGED sem
       ELSE Release /\ Goto(w, "queue") /\ UNCHANGED run
    /\ UNCHANGED <<exec, disp, req, halted, restarts>>

\* clearAdmissionFrom, then go runAdmitted
AdmitClear(w) ==
    /\ worker[w].pc = "clear"
    /\ run' = [run EXCEPT ![worker[w].run].adm = 0]
    /\ Goto(w, "slot")
    /\ UNCHANGED <<sem, exec, disp, req, halted, restarts>>

QueueForAdmission(w) ==
    LET r == worker[w].run IN
    /\ worker[w].pc = "queue"
    /\ run' = [run EXCEPT ![r].status = "queued", ![r].adm = worker[w].node]
    /\ worker' = [worker EXCEPT ![w] = NoWorker]
    /\ UNCHANGED <<sem, exec, disp, req, halted, restarts>>

Admission(w) ==
    Admit(w) \/ AdmitDirect(w) \/ AdmitClear(w) \/ QueueForAdmission(w)

-----------------------------------------------------------------------------
(* runAdmitted and execute: one driver of one run                          *)

Owner(w) == exec[worker[w].run] = w

\* acquireExecuteSlot and waitExecIdle wait two seconds for the driver of r.  Two
\* of its steps can outlast that: the node's own work, and AbortRun, which finish
\* calls on a run it has ended.
HeldTooLong(r) ==
    /\ exec[r] # None
    /\ \/ worker[exec[r]].pc = "node"
       \/ worker[exec[r]].pc = "end" /\ Status(r) \in Ended

\* acquireExecuteSlot: beginExecute succeeds within two seconds ...
TakeExecuteSlot(w) ==
    LET r == worker[w].run IN
    /\ worker[w].pc = "slot"
    /\ exec[r] = None
    /\ exec' = [exec EXCEPT ![r] = w]
    /\ Goto(w, "load")
    /\ UNCHANGED <<run, sem, disp, req, halted, restarts>>

\* ... or another driver held the slot all that time.
ExecuteSlotTimeout(w) ==
    /\ worker[w].pc = "slot"
    /\ HeldTooLong(worker[w].run)
    /\ Goto(w, "requeue")
    /\ UNCHANGED <<run, sem, exec, disp, req, halted, restarts>>

Requeue(w) ==
    LET r == worker[w].run IN
    /\ worker[w].pc = "requeue"
    /\ run' = IF Status(r) = "running"
              THEN [run EXCEPT ![r].status = "queued", ![r].adm = worker[w].node]
              ELSE run
    /\ Goto(w, "release")
    /\ UNCHANGED <<sem, exec, disp, req, halted, restarts>>

\* Mutant: the early return of an ended run precedes the deferred endExecute.
LoadLeaks(w) ==
    /\ worker[w].pc = "load"
    /\ Goto(w, IF Status(worker[w].run) \in Ended THEN "release" ELSE "enter")
    /\ UNCHANGED <<run, sem, exec, disp, req, halted, restarts>>

Load(w) ==
    /\ worker[w].pc = "load"
    /\ Goto(w, IF Status(worker[w].run) \in Ended THEN "end" ELSE "enter")
    /\ UNCHANGED <<run, sem, exec, disp, req, halted, restarts>>

\* The head of the loop: isExecOwner, c.iter[node.ID]++ and startNodeRun.
EnterNode(w) ==
    LET r == worker[w].run
        n == worker[w].node
        i == run[r].iter[n] + 1 IN
    /\ worker[w].pc = "enter"
    /\ IF Owner(w)
       THEN /\ run' = [run EXCEPT ![r].iter[n] = i,
                                  ![r].visit = [node |-> n, iter |-> i, st |-> "running"]]
            /\ worker' = [worker EXCEPT ![w].pc = "node", ![w].iter = i]
       ELSE Goto(w, "end") /\ UNCHANGED run
    /\ UNCHANGED <<sem, exec, disp, req, halted, restarts>>

\* executeNode.  execGate opens the Gate row of this iteration and pauses.
ExecuteNode(w) ==
    LET r == worker[w].run
        n == worker[w].node
        gate == [node |-> n, iter |-> worker[w].iter, resolved |-> FALSE] IN
    /\ worker[w].pc = "node"
    /\ \E out \in Outcomes \ {"none"} :
        /\ (out = "paused") = (n \in GateNodes)
        /\ out = "setup" => n \in ClarifyNodes
        /\ worker' = [worker EXCEPT ![w].pc = "check", ![w].out = out]
        /\ run' = IF out = "paused"
                  THEN [run EXCEPT ![r].gates = @ \cup {gate}]
                  ELSE run
    /\ UNCHANGED <<sem, exec, disp, req, halted, restarts>>

\* A late outcome is dropped when the driver lost its slot or the run ended.
CheckOwner(w) ==
    /\ worker[w].pc = "check"
    /\ Goto(w, IF Owner(w) /\ Status(worker[w].run) \notin {"failed", "cancelled"}
               THEN "act" ELSE "end")
    /\ UNCHANGED <<run, sem, exec, disp, req, halted, restarts>>

\* The driver saves its visit with status st.
Save(w, st) ==
    LET me == worker[w] IN
    run' = [run EXCEPT ![me.run] = SaveState(@, me.node, me.iter, st)]

\* routeSuccess
ActSuccess(w) ==
    /\ worker[w].pc = "act" /\ worker[w].out = "ok"
    /\ ~halted
    /\ Save(w, "completed")
    /\ \E m \in Success[worker[w].node] :
          worker' = [worker EXCEPT ![w].pc = IF m = 0 THEN "drained" ELSE "enter",
                                   ![w].node = m]
    /\ UNCHANGED <<sem, exec, disp, req, halted, restarts>>

\* routeSuccess during shutdown: finish(cancelled)
ActHalted(w) ==
    LET me == worker[w] IN
    /\ me.pc = "act" /\ me.out = "ok"
    /\ halted
    /\ run' = [run EXCEPT ![me.run] =
                  [SaveState(@, me.node, me.iter, "completed") EXCEPT !.status = "cancelled"]]
    /\ Goto(w, "cleanup")
    /\ UNCHANGED <<sem, exec, disp, req, halted, restarts>>

\* saveState and pauseStillPending, which reads the latest Gate row.
ActPaused(w) ==
    /\ worker[w].pc = "act" /\ worker[w].out = "paused"
    /\ Save(w, "waiting_human")
    /\ Goto(w, IF GateOpen(worker[w].run, worker[w].node) THEN "park" ELSE "end")
    /\ UNCHANGED <<sem, exec, disp, req, halted, restarts>>

\* finish(waiting_human): count the pending gates, then the guarded UPDATE.
Park(w) ==
    /\ worker[w].pc = "park"
    /\ Goto(w, IF GatePending(worker[w].run) THEN "wait" ELSE "end")
    /\ UNCHANGED <<run, sem, exec, disp, req, halted, restarts>>

\* Mutant: the pause is written whatever the run's status is by now.
ParkWriteClobbers(w) ==
    /\ worker[w].pc = "wait"
    /\ SetStatus(worker[w].run, "waiting_human")
    /\ Goto(w, "end")
    /\ UNCHANGED <<sem, exec, disp, req, halted, restarts>>

ParkWrite(w) ==
    LET r == worker[w].run IN
    /\ worker[w].pc = "wait"
    /\ run' = IF Status(r) = "running"
              THEN [run EXCEPT ![r].status = "waiting_human"] ELSE run
    /\ Goto(w, "end")
    /\ UNCHANGED <<sem, exec, disp, req, halted, restarts>>

\* routeFailure, tryAutoRetry, finish(failed).  A clarify node whose sandbox
\* could not be set up ends the driver and leaves the run running.
ActFailed(w) ==
    LET me == worker[w] IN
    /\ me.pc = "act" /\ me.out \in {"failed", "retryable", "setup"}
    /\ \/ /\ me.out = "setup"
          /\ Save(w, "failed") /\ Goto(w, "end")
       \/ /\ me.out # "setup"
          /\ \E m \in Failure[me.node] \ {0} :
                worker' = [worker EXCEPT ![w].pc = "enter", ![w].node = m]
          /\ Save(w, "failed")
       \/ /\ me.out = "retryable" /\ 0 \in Failure[me.node]
          /\ me.tries[me.node] < AutoRetryMax
          /\ worker' = [worker EXCEPT ![w].pc = "enter", ![w].tries[me.node] = @ + 1]
          /\ Save(w, "failed")
       \/ /\ me.out # "setup" /\ 0 \in Failure[me.node]
          /\ me.out = "retryable" => me.tries[me.node] >= AutoRetryMax
          /\ run' = [run EXCEPT ![me.run] =
                        [SaveState(@, me.node, me.iter, "failed") EXCEPT !.status = "failed"]]
          /\ Goto(w, "cleanup")
    /\ UNCHANGED <<sem, exec, disp, req, halted, restarts>>

\* The rest of finish.  After ActHalted the loop ends with cur = "".
FinishCleanup(w) ==
    LET me == worker[w]
        st == IF me.out = "ok" THEN "cancelled" ELSE "failed" IN
    /\ me.pc = "cleanup"
    /\ run' = [run EXCEPT ![me.run] = Superseded(Finalized(@, st))]
    /\ Goto(w, IF me.out = "ok" THEN "drained" ELSE "end")
    /\ UNCHANGED <<sem, exec, disp, req, halted, restarts>>

\* The FSM drained: read the status, then finish(completed) without a guard.
Drained(w) ==
    /\ worker[w].pc = "drained"
    /\ Goto(w, IF Status(worker[w].run) \in {"running", "waiting_human", "queued"}
               THEN "complete" ELSE "end")
    /\ UNCHANGED <<run, sem, exec, disp, req, halted, restarts>>

Complete(w) ==
    /\ worker[w].pc = "complete"
    /\ SetStatus(worker[w].run, "completed")
    /\ Goto(w, "end")
    /\ UNCHANGED <<sem, exec, disp, req, halted, restarts>>

\* Mutant: endExecute without the generation check.
EndExecuteAnyone(w) ==
    /\ worker[w].pc = "end"
    /\ exec' = [exec EXCEPT ![worker[w].run] = None]
    /\ Goto(w, "release")
    /\ UNCHANGED <<run, sem, disp, req, halted, restarts>>

EndExecute(w) ==
    /\ worker[w].pc = "end"
    /\ exec' = [exec EXCEPT ![worker[w].run] = IF @ = w THEN None ELSE @]
    /\ Goto(w, "release")
    /\ UNCHANGED <<run, sem, disp, req, halted, restarts>>

\* runAdmitted's deferred sem.Release
ReleaseSlot(w) ==
    /\ worker[w].pc = "release"
    /\ Release
    /\ worker' = [worker EXCEPT ![w] = NoWorker]
    /\ UNCHANGED <<run, exec, disp, req, halted, restarts>>

Drive(w) ==
    \/ TakeExecuteSlot(w) \/ ExecuteSlotTimeout(w) \/ Requeue(w) \/ Load(w)
    \/ EnterNode(w) \/ ExecuteNode(w) \/ CheckOwner(w)
    \/ ActSuccess(w) \/ ActHalted(w) \/ ActPaused(w) \/ ActFailed(w)
    \/ Park(w) \/ ParkWrite(w) \/ FinishCleanup(w)
    \/ Drained(w) \/ Complete(w) \/ EndExecute(w) \/ ReleaseSlot(w)

-----------------------------------------------------------------------------
(* Client requests                                                         *)

Step(q, l) == req' = [req EXCEPT ![q].pc = l]

(* Cancel *)
CancelRead(q, r) ==
    /\ "Cancel" \in Calls /\ req[q].pc = "new"
    /\ Status(r) \notin {"new", "completed"}
    /\ IF Status(r) \in {"failed", "cancelled"}
       THEN /\ run' = [run EXCEPT ![r] = Finalized(@, Status(r))]
            /\ req' = [req EXCEPT ![q].pc = "force", ![q].run = r]
       ELSE /\ UNCHANGED run
            /\ req' = [req EXCEPT ![q].pc = "finish", ![q].run = r]
    /\ UNCHANGED <<sem, exec, disp, worker, halted, restarts>>

\* finish(cancelled) writes the status without a guard.
CancelFinish(q) ==
    /\ req[q].pc = "finish"
    /\ SetStatus(req[q].run, "cancelled")
    /\ Step(q, "cleanup")
    /\ UNCHANGED <<sem, exec, disp, worker, halted, restarts>>

CancelCleanup(q) ==
    /\ req[q].pc = "cleanup"
    /\ run' = [run EXCEPT ![req[q].run] = Superseded(Finalized(@, "cancelled"))]
    /\ Step(q, "force")
    /\ UNCHANGED <<sem, exec, disp, worker, halted, restarts>>

\* forceEndExecute
CancelForce(q) ==
    /\ req[q].pc = "force"
    /\ exec' = [exec EXCEPT ![req[q].run] = None]
    /\ Step(q, "done")
    /\ UNCHANGED <<run, sem, disp, worker, halted, restarts>>

(* ResumeGate, under lockResume(run:node) *)
GateLocked(r, n) ==
    \E q \in Requests : /\ req[q].run = r /\ req[q].node = n
                       /\ req[q].pc \in {"resolve", "advance", "halt", "complete"}

GateRead(q, r, n) ==
    /\ "ResumeGate" \in Calls /\ req[q].pc = "new" /\ ~halted
    /\ ~GateLocked(r, n)
    /\ Status(r) \notin Ended
    /\ \E g \in LatestGate(r, n) :
        /\ ~g.resolved
        /\ req' = [req EXCEPT ![q] = [@ EXCEPT !.pc = "resolve", !.run = r,
                                              !.node = n, !.iter = g.iter]]
    /\ UNCHANGED <<run, sem, exec, disp, worker, halted, restarts>>

\* Save of the row that was read.
GateResolve(q) ==
    LET me == req[q] IN
    /\ me.pc = "resolve"
    /\ run' = [run EXCEPT ![me.run].gates =
                  {IF g.node = me.node /\ g.iter = me.iter
                   THEN [g EXCEPT !.resolved = TRUE] ELSE g : g \in @}]
    /\ Step(q, "advance")
    /\ UNCHANGED <<sem, exec, disp, worker, halted, restarts>>

\* saveState, then routeSuccess.
GateAdvance(q) ==
    LET me == req[q] IN
    /\ me.pc = "advance"
    /\ IF halted
       THEN /\ run' = [run EXCEPT ![me.run] =
                  [SaveState(@, me.node, me.iter, "completed") EXCEPT !.status = "cancelled"]]
            /\ Step(q, "halt") /\ UNCHANGED worker
       ELSE /\ run' = [run EXCEPT ![me.run] = SaveState(@, me.node, me.iter, "completed")]
            /\ \E m \in Success[me.node] :
                IF m = 0 THEN Step(q, "complete") /\ UNCHANGED worker
                         ELSE Step(q, "done") /\ Spawn("admit", me.run, m)
    /\ UNCHANGED <<sem, exec, disp, halted, restarts>>

\* The rest of finish(cancelled), after which routeSuccess returns "".
GateHalted(q) ==
    /\ req[q].pc = "halt"
    /\ run' = [run EXCEPT ![req[q].run] = Superseded(Finalized(@, "cancelled"))]
    /\ Step(q, "complete")
    /\ UNCHANGED <<sem, exec, disp, worker, halted, restarts>>

GateComplete(q) ==
    /\ req[q].pc = "complete"
    /\ SetStatus(req[q].run, "completed")
    /\ Step(q, "done")
    /\ UNCHANGED <<sem, exec, disp, worker, halted, restarts>>

(* ResumeFrom, under lockResume(run:resume) *)
ResumeLocked(r) ==
    \E q \in Requests : req[q].run = r /\ req[q].pc \in {"idle", "launch"}

ResumeRead(q, r, n) ==
    /\ "ResumeFrom" \in Calls /\ req[q].pc = "new" /\ ~halted
    /\ ~ResumeLocked(r)
    /\ \/ Status(r) \in {"failed", "cancelled"}
       \/ Status(r) = "running" /\ n \in run[r].failures
    /\ req' = [req EXCEPT ![q] = [@ EXCEPT !.pc = "idle", !.run = r, !.node = n,
                                          !.seen = Status(r)]]
    /\ UNCHANGED <<run, sem, exec, disp, worker, halted, restarts>>

\* waitExecIdle: the slot is free within two seconds, or it is not and only a
\* run that was read as ended has it taken away.
ResumeIdle(q) ==
    LET me == req[q] IN
    /\ me.pc = "idle"
    /\ \/ /\ exec[me.run] = None
          /\ Step(q, "launch") /\ UNCHANGED <<run, exec>>
       \/ /\ HeldTooLong(me.run) /\ me.seen \in {"failed", "cancelled"}
          /\ exec' = [exec EXCEPT ![me.run] = None]
          /\ run' = [run EXCEPT ![me.run] = Finalized(@, me.seen)]
          /\ Step(q, "launch")
       \/ /\ HeldTooLong(me.run) /\ me.seen = "running"
          /\ Step(q, "done") /\ UNCHANGED <<run, exec>>
    /\ UNCHANGED <<sem, disp, worker, halted, restarts>>

\* go resumeAdmitted
ResumeLaunch(q) ==
    /\ req[q].pc = "launch"
    /\ Spawn("admit", req[q].run, req[q].node)
    /\ Step(q, "done")
    /\ UNCHANGED <<run, sem, exec, disp, halted, restarts>>

InFlight(q) ==
    \/ CancelFinish(q) \/ CancelCleanup(q) \/ CancelForce(q)
    \/ GateResolve(q) \/ GateAdvance(q) \/ GateHalted(q) \/ GateComplete(q)
    \/ ResumeIdle(q) \/ ResumeLaunch(q)

-----------------------------------------------------------------------------
(* A restart of the server: New and reconcileInterrupted                   *)

Reconciled(row) ==
    LET caught == row.visit.st = "running"
        closed == IF caught
                  THEN VisitBecomes(row, row.visit.node, row.visit.iter, "failed")
                  ELSE row
    IN IF row.status = "running" \/ (caught /\ row.status \notin Ended)
       THEN [closed EXCEPT !.status = "failed"] ELSE closed

Restart ==
    /\ restarts < MaxRestarts
    /\ restarts' = restarts + 1
    /\ run' = [r \in Runs |-> Reconciled(run[r])]
    /\ sem' = [sem EXCEPT !.cur = 0]
    /\ exec' = [r \in Runs |-> None]
    /\ disp' = IdleDisp
    /\ worker' = [w \in Workers |-> NoWorker]
    /\ req' = [q \in Requests |-> IF req[q].pc = "new" THEN req[q]
                                   ELSE [NewRequest EXCEPT !.pc = "done"]]
    /\ halted' = FALSE

-----------------------------------------------------------------------------

Next ==
    \/ \E r \in Runs : StartRun(r) \/ UpdateRunPriority(r)
    \/ SetMaxConcurrent
    \/ Halt
    \/ Dispatch
    \/ \E w \in Workers : Admission(w) \/ Drive(w)
    \/ \E q \in Requests :
        \/ \E r \in Runs : CancelRead(q, r)
        \/ \E r \in Runs, n \in GateNodes : GateRead(q, r, n)
        \/ \E r \in Runs, n \in Nodes : ResumeRead(q, r, n)
        \/ InFlight(q)
    \/ Restart

Spec == Init /\ [][Next]_vars

\* Goroutines are scheduled, node work and SQL statements return, and the
\* dispatcher polls.  Clients and operators need not act.
Fairness ==
    /\ WF_vars(Dispatch)
    /\ \A w \in Workers : WF_vars(Admission(w) \/ Drive(w))
    /\ \A q \in Requests : WF_vars(InFlight(q))

FairSpec == Spec /\ Fairness

-----------------------------------------------------------------------------
(* Properties                                                              *)

\* Every field of the rows and goroutines stays in its range, and a goroutine on
\* its way to execute a node has one to execute.
TypeOK ==
    /\ run \in [Runs -> Row]
    /\ sem \in [cur : Nat, limit : 1..MaxLimit]
    /\ exec \in [Runs -> Workers \cup {None}]
    /\ disp \in [pc : {"idle", "read", "claim", "clear"},
                 run : Runs \cup {None}, node : Nodes \cup {0}]
    /\ worker \in [Workers -> [pc : WorkerPC, run : Runs \cup {None},
                               node : Nodes \cup {0}, iter : Nat,
                               out : Outcomes, tries : [Nodes -> Nat]]]
    /\ req \in [Requests -> [pc : RequestPC, run : Runs \cup {None},
                             node : Nodes \cup {0}, iter : Nat, seen : RunStatus]]
    /\ halted \in BOOLEAN
    /\ restarts \in 0..MaxRestarts
    /\ \A w \in Workers :
        worker[w].pc \in AdmissionPC \cup {"slot", "load", "requeue", "enter", "node"}
            => worker[w].run \in Runs /\ worker[w].node \in Nodes

SlotHolders == {w \in Workers : worker[w].pc \in SlotPC}

\* No slot of the semaphore is leaked or freed twice: its counter is the number
\* of goroutines that hold one, the dispatcher's tentative slot included.
SlotAccounting ==
    sem.cur = Cardinality(SlotHolders) + (IF disp.pc = "idle" THEN 0 ELSE 1)

\* The execute slot of a run belongs to a goroutine that drives that run; one
\* left behind by a goroutine that is gone would block the run for ever.
ExecSlotHeld ==
    \A r \in Runs : exec[r] # None =>
        worker[exec[r]].run = r /\ worker[exec[r]].pc \in DriverPC

\* A claim of the execute slot is given up by its owner, taken by a client
\* request or lost in a restart: no other driver's end can drop it.
ClaimIsPrivate ==
    [][\A r \in Runs :
        exec[r] # None /\ exec'[r] # exec[r] /\ req' = req /\ restarts' = restarts
            => worker'[exec[r]] # worker[exec[r]]]_vars

\* Some goroutine or request in flight will still act on run r.
Attended(r) ==
    \/ disp.run = r
    \/ \E q \in Requests : req[q].run = r /\ req[q].pc \notin {"new", "done"}
    \/ \E w \in Workers :
        /\ worker[w].run = r
        /\ worker[w].pc \notin {"end", "release"}
        /\ worker[w].pc \in DriverPC => Owner(w)

\* The clarify node of run r could not set its sandbox up: execute returns with
\* the run's status as it is, and leaves the run to ResumeFrom.
SetupFailed(r) == run[r].visit.node \in ClarifyNodes /\ run[r].visit.st = "failed"

\* A run never stays "running" with nobody on it: it could be neither resumed
\* nor answered.  (Cancel is the exception: OnlyZombiesLoseTheSlot below.)
RunningIsAttended ==
    \A r \in Runs : Status(r) = "running" => Attended(r) \/ SetupFailed(r)

\* A run that waits for a human can be answered: a gate is open, or its answer
\* is being carried out, even when a late pause of the driver before wrote the
\* status over the one of the answer.
WaitingIsAnswerable ==
    \A r \in Runs : Status(r) = "waiting_human" =>
        Attended(r) \/ GatePending(r) \/ SetupFailed(r)

\* The order the dispatcher promises: priority, a human gate ahead, age.
Before(x, y) ==
    LET gate(r) == HasRemainingHumanGate(ContinueFrom(r)) IN
    \/ run[x].prio > run[y].prio
    \/ /\ run[x].prio = run[y].prio
       /\ \/ gate(x) /\ ~gate(y)
          \/ gate(x) = gate(y) /\ x < y

\* The dispatcher never picks a run while another queued one comes first.
PicksInOrder ==
    [][disp.pc = "read" /\ disp'.pc = "claim" =>
        \A x \in Queued : ~Before(x, disp'.run)]_vars

\* Every queued run is admitted, cancelled or otherwise leaves the queue.
QueuedIsAdmitted == \A r \in Runs : Status(r) = "queued" ~> Status(r) # "queued"

\* "A gate on a terminated run is no longer actionable ...; reject rather than
\* reviving it" (resume.go, resumeGateLocked): only ResumeFrom revives a run.
GateNeverRevives ==
    [][\A r \in Runs : Status(r) = "cancelled" /\ run'[r].status \notin Ended =>
        \E q \in Requests : req[q].run = r /\ req[q].seen # "new"]_vars

\* forceEndExecute "drops a zombie exec slot" (execute.go): a request takes the
\* slot only from the driver of a run that has ended.
OnlyZombiesLoseTheSlot ==
    [][\A r \in Runs :
        exec[r] # None /\ exec'[r] # exec[r] /\ worker' = worker
            => Status(r) \in Ended]_vars
=============================================================================
