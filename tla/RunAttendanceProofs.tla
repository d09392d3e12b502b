------------------------- MODULE RunAttendanceProofs -------------------------
(***************************************************************************)
(* No run is forgotten: proofs about RunAdmission for any runs, workers,   *)
(* requests and graphs, of servers whose clients do not cancel.            *)
(***************************************************************************)
EXTENDS RunAdmissionProofs

USE AdmissionAssumption

-----------------------------------------------------------------------------
(* The invariant                                                           *)

\* The goroutines and requests that will bring run r before a driver.
LiveRequest(q, r) ==
    req[q].run = r /\ req[q].pc \in GatePC \cup {"idle", "launch"}
Coming(w, r) ==
    worker[w].run = r /\ worker[w].pc \in AdmissionPC \cup {"slot"}
Awaited(r) ==
    \/ disp.pc = "clear" /\ disp.run = r
    \/ \E q \in Requests : LiveRequest(q, r)
    \/ \E w \in Workers : Coming(w, r)

\* A driver that still decides what becomes of its run; one that cleans up after
\* a failure, or that is on its way out, does not.
Working(w) ==
    \/ worker[w].pc \in DriverPC \ {"cleanup", "end"}
    \/ worker[w].pc = "cleanup" /\ worker[w].out = "ok"
Held(r) == exec[r] # None /\ Working(exec[r])

Active(r) == Status(r) \in {"running", "waiting_human"}

\* Without cancels a driver loses the execute slot only while its node works or
\* once it is on its way out, and it looks for it right after the work.
Undisturbed ==
    /\ \A q \in Requests : req[q].pc \notin {"finish", "cleanup", "force"}
    /\ \A w \in Workers :
        worker[w].pc \in DriverPC \ {"node", "check", "end"} => Owner(w)

\* Gates belong to iterations the run has counted.
GatesCounted ==
    /\ \A r \in Runs : \A g \in run[r].gates : g.iter <= run[r].iter[g.node]
    /\ \A w \in Workers : worker[w].pc = "node" =>
        worker[w].iter <= run[worker[w].run].iter[worker[w].node]

\* The owner works on the run's current visit.
CurrentVisit ==
    \A w \in Workers :
        worker[w].pc \in {"node", "check", "act"} /\ Owner(w) =>
            LET row == run[worker[w].run] IN
            /\ row.visit.node = worker[w].node
            /\ row.visit.iter = worker[w].iter
            /\ row.iter[worker[w].node] = worker[w].iter

OutcomesFit ==
    \A w \in Workers :
        /\ worker[w].pc \in {"check", "act"} /\ worker[w].out = "setup"
              => worker[w].node \in ClarifyNodes
        /\ worker[w].pc \in {"park", "wait"} => worker[w].out = "paused"
        /\ worker[w].pc = "cleanup" => Status(worker[w].run) # "waiting_human"

\* The gate a driver that pauses has opened is open until somebody answers it,
\* and whoever did is seeing to the run.
MyGate(w) ==
    [node |-> worker[w].node, iter |-> worker[w].iter, resolved |-> FALSE]
PausePC == {"check", "act", "park", "wait"}
PauseCovered ==
    \A w \in Workers :
        worker[w].pc \in PausePC /\ worker[w].out = "paused" /\ Owner(w) =>
            LET r == worker[w].run
            IN Active(r) => MyGate(w) \in run[r].gates \/ Awaited(r)

\* A restart forgets the goroutine that carries an answer out, so what is said
\* of waiting runs holds until then.
Covered ==
    \A r \in Runs :
        /\ Status(r) = "running" => Awaited(r) \/ Held(r) \/ SetupFailed(r)
        /\ Status(r) = "waiting_human" /\ restarts = 0
              => Awaited(r) \/ Held(r) \/ SetupFailed(r) \/ GatePending(r)

AttendInv ==
    /\ TypeInv /\ ExecSlotHeld /\ Undisturbed /\ GatesCounted /\ CurrentVisit
    /\ OutcomesFit /\ PauseCovered /\ Covered

LEMMA AttendedFollows ==
    ASSUME AttendInv
    PROVE  RunningIsAttended /\ (restarts = 0 => WaitingIsAnswerable)
  <1>1. ASSUME NEW r \in Runs, Awaited(r) \/ Held(r)
        PROVE  Attended(r)
    <2>1. CASE disp.pc = "clear" /\ disp.run = r
      BY <2>1 DEF Attended
    <2>2. CASE \E q \in Requests : LiveRequest(q, r)
      BY <2>2 DEF Attended, LiveRequest, GatePC
    <2>3. CASE \E w \in Workers : Coming(w, r)
      BY <2>3 DEF Attended, Coming, AdmissionPC, DriverPC, SlotPC
    <2>4. CASE Held(r)
      BY <2>4 DEF Attended, Held, Working, AttendInv, TypeInv, ExecOK, ExecSlotHeld,
                  Owner, DriverPC, SlotPC
    <2> QED  BY <1>1, <2>1, <2>2, <2>3, <2>4 DEF Awaited
  <1> QED
    BY <1>1 DEF AttendInv, Covered, RunningIsAttended, WaitingIsAnswerable

-----------------------------------------------------------------------------
(* What the steps do to the rows                                           *)

\* What identifies a visit stays, a failed one stays failed, and no gate is new.
RowKept(a, b) ==
    /\ b.iter = a.iter
    /\ b.visit.node = a.visit.node
    /\ b.visit.iter = a.visit.iter
    /\ a.visit.st = "failed" => b.visit.st = "failed"
    /\ \A g \in b.gates : \E h \in a.gates : h.node = g.node /\ h.iter = g.iter

LEMMA VisitBecomesKeeps ==
    ASSUME NEW row \in Row, NEW n, NEW i, NEW st,
           row.visit.st = "failed" => st = "failed"
    PROVE  LET b == VisitBecomes(row, n, i, st) IN
           /\ RowKept(row, b) /\ b.status = row.status /\ b.gates = row.gates
           /\ row.visit.node = n /\ row.visit.iter = i => b.visit.st = st
  BY DEF VisitBecomes, Row, RowKept

LEMMA SaveStateKeeps ==
    ASSUME NEW row \in Row, NEW n, NEW i,
           NEW st \in {"failed", "completed", "waiting_human"}
    PROVE  LET b == SaveState(row, n, i, st) IN
           /\ RowKept(row, b) /\ b.status = row.status /\ b.gates = row.gates
           /\ st = "failed" /\ row.visit.node = n /\ row.visit.iter = i
                 => b.visit.st = "failed"
  <1>1. CASE st = "failed"
    BY <1>1, VisitBecomesKeeps DEF SaveState
  <1>2. CASE row.visit.st = "failed" /\ st # "failed"
    BY <1>2 DEF SaveState, Ended, RowKept
  <1>3. CASE row.visit.st # "failed" /\ st # "failed"
    <2>1. SaveState(row, n, i, st) \in {row, VisitBecomes(row, n, i, st)}
      BY DEF SaveState
    <2> QED  BY <1>3, <2>1, VisitBecomesKeeps DEF RowKept
  <1> QED  BY <1>1, <1>2, <1>3

LEMMA FinalizedKeeps ==
    ASSUME NEW row \in Row, NEW st \in VisitStatus
    PROVE  LET b == Finalized(row, st) IN
           RowKept(row, b) /\ b.status = row.status /\ b.gates = row.gates
  BY VisitBecomesKeeps DEF Finalized, RowKept

LEMMA SupersededKeeps ==
    ASSUME NEW row \in Row
    PROVE  RowKept(row, Superseded(row)) /\ Superseded(row).status = row.status
  <1> DEFINE G == {[g EXCEPT !.resolved = TRUE] : g \in row.gates}
             b == [row EXCEPT !.gates = G]
  <1>1. Superseded(row) = b
    BY DEF Superseded
  <1>2. \A h \in row.gates : LET g == [h EXCEPT !.resolved = TRUE]
                             IN h.node = g.node /\ h.iter = g.iter
    BY DEF Row, GateRow
  <1>3. \A g \in G : \E h \in row.gates : h.node = g.node /\ h.iter = g.iter
    BY <1>2
  <1> HIDE DEF G
  <1> QED  BY <1>1, <1>3 DEF RowKept, Row

LEMMA KeptTransitive ==
    ASSUME NEW a, NEW b, NEW c, RowKept(a, b), RowKept(b, c)
    PROVE  RowKept(a, c)
  BY DEF RowKept

\* A step that changes one row, or its status alone.
LEMMA OneRow ==
    ASSUME RowsOK, NEW x \in Runs, NEW b, run' = [run EXCEPT ![x] = b]
    PROVE  run'[x] = b /\ \A r \in Runs \ {x} : run'[r] = run[r]
  BY DEF RowsOK

LEMMA StatusSet ==
    ASSUME RowsOK, NEW x \in Runs, NEW st, SetStatus(x, st)
    PROVE  /\ \A r \in Runs : RowKept(run[r], run'[r]) /\ run'[r].gates = run[r].gates
           /\ run'[x].status = st
           /\ \A r \in Runs \ {x} : run'[r] = run[r]
  BY DEF RowsOK, SetStatus, Row, RowKept

\* The ways a row changes.
StatusKept(r) == run'[r].status = run[r].status
StatusFell(r) == StatusKept(r) \/ run'[r].status \in Ended \cup {"queued"}
GatesKept(r) == run[r].gates \subseteq run'[r].gates
VisitKept(r) == RowKept(run[r], run'[r])

LEMMA SameRow ==
    ASSUME NEW r, run'[r] = run[r]
    PROVE  StatusFell(r) /\ GatesKept(r) /\ VisitKept(r)
  BY DEF StatusFell, StatusKept, GatesKept, VisitKept, RowKept

LEMMA SaveRow ==
    ASSUME RowsOK, NEW x \in Runs, NEW n, NEW i,
           NEW st \in {"failed", "completed", "waiting_human"},
           run' = [run EXCEPT ![x] = SaveState(@, n, i, st)]
    PROVE  \A r \in Runs : StatusFell(r) /\ GatesKept(r) /\ VisitKept(r)
                           /\ StatusKept(r)
  <1> DEFINE b == SaveState(run[x], n, i, st)
  <1>1. RowKept(run[x], b) /\ b.status = run[x].status /\ b.gates = run[x].gates
    BY SaveStateKeeps DEF RowsOK
  <1>2. run' = [run EXCEPT ![x] = b]
    OBVIOUS
  <1> HIDE DEF b
  <1>3. run'[x] = b /\ \A r \in Runs \ {x} : run'[r] = run[r]
    BY <1>2, OneRow
  <1>4. StatusFell(x) /\ GatesKept(x) /\ VisitKept(x)
        /\ StatusKept(x)
    BY <1>1, <1>3 DEF StatusFell, StatusKept, GatesKept, VisitKept
  <1>5. \A r \in Runs \ {x} : StatusKept(r)
    BY <1>3 DEF StatusKept
  <1> QED  BY <1>3, <1>4, <1>5, SameRow

LEMMA SaveEndsRow ==
    ASSUME RowsOK, NEW x \in Runs, NEW n, NEW i, NEW rs \in Ended,
           NEW st \in {"failed", "completed"},
           run' = [run EXCEPT ![x] = [SaveState(@, n, i, st) EXCEPT !.status = rs]]
    PROVE  /\ \A r \in Runs : StatusFell(r) /\ GatesKept(r) /\ VisitKept(r)
           /\ run'[x].status = rs
           /\ \A r \in Runs \ {x} : run'[r] = run[r]
  <1> DEFINE b == SaveState(run[x], n, i, st)
             c == [b EXCEPT !.status = rs]
  <1>1. RowKept(run[x], b) /\ b.gates = run[x].gates /\ b \in Row
    BY SaveStateKeeps, SaveStateType DEF RowsOK, VisitStatus
  <1>2. run' = [run EXCEPT ![x] = c]
    BY DEF RowsOK
  <1> HIDE DEF b
  <1>3. RowKept(b, c) /\ c.gates = b.gates /\ c.status = rs
    BY <1>1 DEF Row, RowKept
  <1> HIDE DEF c
  <1>4. run'[x] = c /\ \A r \in Runs \ {x} : run'[r] = run[r]
    BY <1>2, OneRow
  <1>5. RowKept(run[x], c)
    BY <1>1, <1>3, KeptTransitive
  <1>6. StatusFell(x) /\ GatesKept(x) /\ VisitKept(x) /\ run'[x].status = rs
    BY <1>1, <1>3, <1>4, <1>5 DEF StatusFell, GatesKept, VisitKept
  <1> QED  BY <1>4, <1>6, SameRow

\* The end of finish, and what a resume does to a run whose driver hangs.
LEMMA CleanupRow ==
    ASSUME RowsOK, NEW x \in Runs, NEW st \in VisitStatus,
           \/ run' = [run EXCEPT ![x] = Superseded(Finalized(@, st))]
           \/ run' = [run EXCEPT ![x] = Finalized(@, st)]
    PROVE  /\ \A r \in Runs : StatusFell(r) /\ VisitKept(r) /\ StatusKept(r)
           /\ \A r \in Runs \ {x} : GatesKept(r)
           /\ run' = [run EXCEPT ![x] = Finalized(@, st)] => GatesKept(x)
  <1> DEFINE b == Finalized(run[x], st)
             c == Superseded(b)
  <1>1. RowKept(run[x], b) /\ b.status = run[x].status /\ b.gates = run[x].gates
        /\ b \in Row
    BY FinalizedKeeps, FinalizedType DEF RowsOK
  <1>2. RowKept(b, c) /\ c.status = b.status
    BY <1>1, SupersededKeeps
  <1>3. RowKept(run[x], c)
    BY <1>1, <1>2, KeptTransitive
  <1>4. run' = [run EXCEPT ![x] = c] \/ run' = [run EXCEPT ![x] = b]
    OBVIOUS
  <1>5. run' = [run EXCEPT ![x] = Finalized(@, st)] => run' = [run EXCEPT ![x] = b]
    OBVIOUS
  <1> HIDE DEF b, c
  <1>6. (run'[x] = c \/ run'[x] = b) /\ \A r \in Runs \ {x} : run'[r] = run[r]
    BY <1>4, OneRow
  <1>7. run' = [run EXCEPT ![x] = b] => run'[x] = b
    BY OneRow
  <1>8. StatusFell(x) /\ VisitKept(x) /\ StatusKept(x)
    BY <1>1, <1>2, <1>3, <1>6 DEF StatusFell, StatusKept, VisitKept
  <1>9. run' = [run EXCEPT ![x] = Finalized(@, st)] => GatesKept(x)
    BY <1>1, <1>5, <1>7 DEF GatesKept
  <1>10. \A r \in Runs \ {x} : StatusKept(r)
    BY <1>6 DEF StatusKept
  <1> QED  BY <1>6, <1>8, <1>9, <1>10, SameRow

\* What a driver's steps do to the rows.
LEMMA DrivingRow ==
    ASSUME TypeInv, NEW w \in Workers, Driving(w), NEW r \in Runs
    PROVE  /\ worker[w].run # r => run'[r] = run[r]
           /\ \/ VisitKept(r)
              \/ EnterNode(w) /\ Owner(w)
              \/ ExecuteNode(w) /\ run'[r].iter = run[r].iter
                    /\ run'[r].visit = run[r].visit
           /\ GatesKept(r) \/ FinishCleanup(w)
           /\ \/ StatusFell(r)
              \/ ParkWrite(w) /\ Status(r) = "running" /\ run'[r].status = "waiting_human"
  <1> DEFINE me == worker[w]
  <1>x. PICK x \in Runs : x = me.run
    BY DrivingFrame DEF TypeInv, WorkersOK, PlacedWorker, DriverPC, SlotPC
  <1>0. RowsOK /\ me.run = x
    BY <1>x DEF TypeInv
  <1>1. CASE UNCHANGED run
    BY <1>1, SameRow
  <1>2. CASE EnterNode(w) /\ Owner(w)
    <2> DEFINE i == run[x].iter[me.node] + 1
               v == [node |-> me.node, iter |-> i, st |-> "running"]
    <2>1. run' = [run EXCEPT ![x].iter[me.node] = i, ![x].visit = v]
      BY <1>0, <1>2 DEF EnterNode
    <2>2. run' = [run EXCEPT ![x] = [run[x] EXCEPT !.iter[me.node] = i, !.visit = v]]
      BY <2>1
    <2>3. [run[x] EXCEPT !.iter[me.node] = i, !.visit = v].status = run[x].status
          /\ [run[x] EXCEPT !.iter[me.node] = i, !.visit = v].gates = run[x].gates
      BY <1>0 DEF RowsOK, Row
    <2> HIDE DEF i, v
    <2>4. \A y \in Runs \ {x} : run'[y] = run[y]
      BY <1>0, <2>2, OneRow
    <2>5. StatusFell(x) /\ GatesKept(x)
      BY <1>0, <2>2, <2>3, OneRow DEF StatusFell, StatusKept, GatesKept
    <2> QED  BY <1>0, <1>2, <2>4, <2>5, SameRow
  <1>3. CASE ExecuteNode(w) /\ ~UNCHANGED run
    <2>1. PICK g : run' = [run EXCEPT ![x].gates = @ \cup {g}]
      BY <1>0, <1>3 DEF ExecuteNode
    <2> DEFINE b == [run[x] EXCEPT !.gates = @ \cup {g}]
    <2>2. run' = [run EXCEPT ![x] = b]
      BY <2>1
    <2>3. b.status = run[x].status /\ run[x].gates \subseteq b.gates
          /\ b.iter = run[x].iter /\ b.visit = run[x].visit
      BY <1>0 DEF RowsOK, Row
    <2> HIDE DEF b
    <2>4. run'[x] = b /\ \A y \in Runs \ {x} : run'[y] = run[y]
      BY <1>0, <2>2, OneRow
    <2>5. StatusFell(x) /\ GatesKept(x)
      BY <2>3, <2>4 DEF StatusFell, StatusKept, GatesKept
    <2> QED  BY <1>0, <1>3, <2>3, <2>4, <2>5, SameRow
  <1>4. ASSUME NEW st \in {"failed", "completed", "waiting_human"}, Save(w, st)
        PROVE  /\ x # r => run'[r] = run[r]
               /\ VisitKept(r) /\ GatesKept(r) /\ StatusFell(r)
    <2>1. x # r => run'[r] = run[r]
      BY <1>0, <1>4 DEF Save, RowsOK
    <2> QED  BY <1>0, <1>4, <2>1, SaveRow DEF Save
  <1>5. ASSUME NEW st \in {"failed", "completed"}, NEW rs \in Ended,
               run' = [run EXCEPT ![x] =
                          [SaveState(@, me.node, me.iter, st) EXCEPT !.status = rs]]
        PROVE  /\ x # r => run'[r] = run[r]
               /\ VisitKept(r) /\ GatesKept(r) /\ StatusFell(r)
    <2>1. x # r => run'[r] = run[r]
      BY <1>0, <1>5 DEF RowsOK
    <2> QED  BY <1>0, <1>5, <2>1, SaveEndsRow
  <1>6. CASE FinishCleanup(w)
    <2>1. PICK st \in VisitStatus : run' = [run EXCEPT ![x] = Superseded(Finalized(@, st))]
      BY <1>0, <1>6 DEF FinishCleanup, VisitStatus
    <2>2. x # r => run'[r] = run[r]
      BY <1>0, <2>1 DEF RowsOK
    <2>3. StatusFell(r) /\ VisitKept(r)
      BY <1>0, <2>1, CleanupRow
    <2> QED  BY <1>0, <1>6, <2>2, <2>3
  <1>7. CASE ParkWrite(w) /\ ~UNCHANGED run
    <2>1. SetStatus(x, "waiting_human") /\ Status(x) = "running"
      BY <1>0, <1>7 DEF ParkWrite, SetStatus
    <2>2. VisitKept(r) /\ GatesKept(r)
      BY <1>0, <2>1, StatusSet DEF VisitKept, GatesKept
    <2>3. x # r => run'[r] = run[r]
      BY <1>0, <2>1, StatusSet
    <2>4. x = r => run'[r].status = "waiting_human"
      BY <1>0, <2>1, StatusSet
    <2> QED  BY <1>0, <1>7, <2>1, <2>2, <2>3, <2>4, SameRow
  <1>8. CASE Complete(w)
    <2>1. SetStatus(x, "completed")
      BY <1>0, <1>8 DEF Complete
    <2>2. VisitKept(r) /\ GatesKept(r)
      BY <1>0, <2>1, StatusSet DEF VisitKept, GatesKept
    <2>3. (x # r => run'[r] = run[r]) /\ (x = r => run'[r].status = "completed")
      BY <1>0, <2>1, StatusSet
    <2>4. StatusFell(r)
      BY <2>3, SameRow DEF StatusFell, Ended
    <2> QED  BY <1>0, <2>2, <2>3, <2>4
  <1>9. CASE ActSuccess(w) \/ ActPaused(w)
    BY <1>0, <1>4, <1>9 DEF ActSuccess, ActPaused
  <1>10. CASE ActHalted(w)
    BY <1>0, <1>5, <1>10 DEF ActHalted, Ended
  <1>11. CASE ActFailed(w)
    BY <1>0, <1>4, <1>5, <1>11 DEF ActFailed, Ended
  <1>12. CASE Load(w) \/ (EnterNode(w) /\ ~Owner(w)) \/ CheckOwner(w) \/ Park(w) \/ Drained(w)
    BY <1>1, <1>12 DEF Load, EnterNode, CheckOwner, Park, Drained
  <1> QED
    BY <1>1, <1>2, <1>3, <1>6, <1>7, <1>8, <1>9, <1>10, <1>11, <1>12 DEF Driving

-----------------------------------------------------------------------------
(* The steps, by who takes them                                            *)

SlotStepOf(w) ==
    \/ TakeExecuteSlot(w) \/ ExecuteSlotTimeout(w) \/ Requeue(w)
    \/ EndExecute(w) \/ ReleaseSlot(w)

Answering(q) ==
    \/ GateResolve(q) \/ GateAdvance(q) \/ GateHalted(q) \/ GateComplete(q)
    \/ ResumeIdle(q) \/ ResumeLaunch(q)

\* Steps that neither change a row's status to one a driver works in, nor end
\* or begin what a goroutine or a request under way does.
Quiet ==
    \/ \E r \in Runs : StartRun(r) \/ UpdateRunPriority(r)
    \/ SetMaxConcurrent \/ Halt \/ UNCHANGED vars
    \/ \E q \in Requests :
        \/ \E r \in Runs, n \in GateNodes : GateRead(q, r, n)
        \/ \E r \in Runs, n \in Nodes : ResumeRead(q, r, n)

LEMMA StepCases ==
    ASSUME TypeInv, Undisturbed, "Cancel" \notin Calls, [Next]_vars, restarts' = restarts
    PROVE  \/ Dispatch
           \/ \E w \in Workers : Admission(w) \/ Driving(w) \/ SlotStepOf(w)
           \/ \E q \in Requests : Answering(q)
           \/ Quiet
  <1>1. ~Restart
    BY DEF Restart, TypeInv, RestOK
  <1>2. ASSUME NEW q \in Requests, InFlight(q)
        PROVE  Answering(q)
    BY <1>2 DEF InFlight, Answering, CancelFinish, CancelCleanup, CancelForce, Undisturbed
  <1>3. \A q \in Requests, r \in Runs : ~CancelRead(q, r)
    BY DEF CancelRead
  <1>4. ASSUME NEW w \in Workers, Drive(w)
        PROVE  Driving(w) \/ SlotStepOf(w)
    BY <1>4 DEF Drive, Driving, SlotStepOf
  <1>5. CASE \E w \in Workers : Admission(w) \/ Drive(w)
    BY <1>4, <1>5
  <1>6. CASE ~\E w \in Workers : Admission(w) \/ Drive(w)
    BY <1>1, <1>2, <1>3, <1>6 DEF Next, Quiet
  <1> QED  BY <1>5, <1>6

LEMMA QuietFrame ==
    ASSUME TypeInv, Quiet
    PROVE  /\ UNCHANGED <<exec, disp, worker, restarts>>
           /\ \A q \in Requests : req[q].pc # "new" => req'[q] = req[q]
           /\ \A r \in Runs : StatusFell(r) /\ GatesKept(r) /\ VisitKept(r)
  <1>1. UNCHANGED <<exec, disp, worker, restarts>>
    BY DEF Quiet, StartRun, UpdateRunPriority, SetMaxConcurrent, Halt, GateRead,
           ResumeRead, vars
  <1>2. \A q \in Requests : req[q].pc # "new" => req'[q] = req[q]
    BY DEF Quiet, StartRun, UpdateRunPriority, SetMaxConcurrent, Halt, GateRead,
           ResumeRead, vars, TypeInv, RequestsOK
  <1>3. CASE UNCHANGED run
    BY <1>1, <1>2, <1>3, SameRow
  <1>4. CASE \E x \in Runs : StartRun(x)
    <2>1. PICK x \in Runs : SetStatus(x, "queued")
      BY <1>4 DEF StartRun
    <2>2. \A r \in Runs : VisitKept(r) /\ GatesKept(r)
      BY <2>1, StatusSet DEF VisitKept, GatesKept, TypeInv
    <2>3. run'[x].status = "queued" /\ \A r \in Runs \ {x} : run'[r] = run[r]
      BY <2>1, StatusSet DEF TypeInv
    <2>4. StatusFell(x)
      BY <2>3 DEF StatusFell
    <2> QED  BY <1>1, <1>2, <2>2, <2>3, <2>4, SameRow
  <1>5. CASE \E x \in Runs : UpdateRunPriority(x)
    <2>1. PICK x \in Runs, p \in Priorities : run' = [run EXCEPT ![x].prio = p]
      BY <1>5 DEF UpdateRunPriority
    <2> DEFINE b == [run[x] EXCEPT !.prio = p]
    <2>2. run' = [run EXCEPT ![x] = b]
      BY <2>1
    <2>3. b.status = run[x].status /\ b.gates = run[x].gates /\ RowKept(run[x], b)
      BY DEF TypeInv, RowsOK, Row, RowKept
    <2> HIDE DEF b
    <2>4. run'[x] = b /\ \A r \in Runs \ {x} : run'[r] = run[r]
      BY <2>2, OneRow DEF TypeInv
    <2>5. StatusFell(x) /\ GatesKept(x) /\ VisitKept(x)
      BY <2>3, <2>4 DEF StatusFell, StatusKept, GatesKept, VisitKept
    <2> QED  BY <1>1, <1>2, <2>4, <2>5, SameRow
  <1> QED
    BY <1>3, <1>4, <1>5 DEF Quiet, SetMaxConcurrent, Halt, GateRead, ResumeRead, vars

\* The goroutine just started will bring the run before a driver.
LEMMA SpawnAwaits ==
    ASSUME WorkersOK, NEW r \in Runs, NEW l \in {"admit", "slot"}, NEW n, Spawn(l, r, n)
    PROVE  Awaited(r)'
  <1> DEFINE x == [NoWorker EXCEPT !.pc = l, !.run = r, !.node = n]
  <1>1. PICK w \in Workers : worker' = [worker EXCEPT ![w] = x]
    BY DEF Spawn
  <1>2. x.pc = l /\ x.run = r
    BY DEF NoWorker
  <1> HIDE DEF x
  <1>3. worker'[w].pc = l /\ worker'[w].run = r
    BY <1>1, <1>2 DEF WorkersOK
  <1> QED  BY <1>3 DEF Awaited, Coming, AdmissionPC

\* Clearing the admission node leaves a row as it is otherwise.
LEMMA AdmRow ==
    ASSUME RowsOK, NEW x \in Runs, NEW n, run' = [run EXCEPT ![x].adm = n]
    PROVE  \A r \in Runs : StatusFell(r) /\ GatesKept(r) /\ VisitKept(r)
  <1> DEFINE b == [run[x] EXCEPT !.adm = n]
  <1>1. run' = [run EXCEPT ![x] = b]
    OBVIOUS
  <1>2. b.status = run[x].status /\ b.gates = run[x].gates /\ RowKept(run[x], b)
    BY DEF RowsOK, Row, RowKept
  <1> HIDE DEF b
  <1>3. run'[x] = b /\ \A r \in Runs \ {x} : run'[r] = run[r]
    BY <1>1, OneRow
  <1>4. StatusFell(x) /\ GatesKept(x) /\ VisitKept(x)
    BY <1>2, <1>3 DEF StatusFell, StatusKept, GatesKept, VisitKept
  <1> QED  BY <1>3, <1>4, SameRow

\* So does putting the run back into the queue, but for its status.
LEMMA QueuedRow ==
    ASSUME RowsOK, NEW x \in Runs, NEW n,
           run' = [run EXCEPT ![x].status = "queued", ![x].adm = n]
    PROVE  /\ \A r \in Runs : StatusFell(r) /\ GatesKept(r) /\ VisitKept(r)
           /\ run'[x].status = "queued"
  <1> DEFINE b == [run[x] EXCEPT !.status = "queued", !.adm = n]
  <1>1. run' = [run EXCEPT ![x] = b]
    OBVIOUS
  <1>2. b.status = "queued" /\ b.gates = run[x].gates /\ RowKept(run[x], b)
    BY DEF RowsOK, Row, RowKept
  <1> HIDE DEF b
  <1>3. run'[x] = b /\ \A r \in Runs \ {x} : run'[r] = run[r]
    BY <1>1, OneRow
  <1>4. StatusFell(x) /\ GatesKept(x) /\ VisitKept(x)
    BY <1>2, <1>3 DEF StatusFell, GatesKept, VisitKept
  <1> QED  BY <1>2, <1>3, <1>4, SameRow

-----------------------------------------------------------------------------
(* The others' steps on the rows                                           *)

LEMMA DispatchRow ==
    ASSUME TypeInv, Dispatch, NEW r \in Runs
    PROVE  /\ GatesKept(r) /\ VisitKept(r)
           /\ StatusFell(r) \/ (Awaited(r)' /\ run'[r].status = "running")
           /\ disp.pc = "clear" /\ disp.run = r => Awaited(r)'
           /\ \A w \in Workers : worker[w].pc # "none" => worker'[w] = worker[w]
           /\ UNCHANGED <<exec, req, restarts>>
  <1> USE DEF TypeInv
  <1>1. UNCHANGED <<exec, req, restarts>>
    BY DEF Dispatch, DispAcquire, DispGiveUp, DispRead, DispClaim, DispClear
  <1>2. \A w \in Workers : worker[w].pc # "none" => worker'[w] = worker[w]
    <2>1. CASE UNCHANGED worker
      BY <2>1
    <2>2. CASE \E x, n : Spawn("slot", x, n)
      BY <2>2, SpawnFrame
    <2> QED
      BY <2>1, <2>2 DEF Dispatch, DispAcquire, DispGiveUp, DispRead, DispClaim, DispClear
  <1>3. CASE DispAcquire \/ DispGiveUp \/ DispRead
    <2>1. run' = run /\ disp.pc # "clear"
      BY <1>3 DEF DispAcquire, DispGiveUp, DispRead
    <2> QED  BY <1>1, <1>2, <2>1, SameRow
  <1>4. CASE DispClaim
    <2>1. PICK x \in Runs : x = disp.run
      BY <1>4 DEF DispClaim, DispOK, PlacedDisp
    <2>2. SetStatus(x, "running") /\ disp.pc # "clear"
      BY <1>4, <2>1 DEF DispClaim, SetStatus
    <2>3. Awaited(x)'
      <3>1. CASE disp.node = 0
        <4>1. Spawn("slot", x, Start)
          BY <1>4, <2>1, <3>1 DEF DispClaim, Spawn
        <4> QED  BY <4>1, SpawnAwaits
      <3>2. CASE disp.node # 0
        <4>1. disp' = [disp EXCEPT !.pc = "clear"]
          BY <1>4, <3>2 DEF DispClaim
        <4>2. disp'.pc = "clear" /\ disp'.run = x
          BY <2>1, <4>1 DEF DispOK, PlacedDisp, DispType
        <4> QED  BY <4>2 DEF Awaited
      <3> QED  BY <3>1, <3>2
    <2>4. /\ GatesKept(r) /\ VisitKept(r) /\ (x # r => StatusFell(r))
          /\ run'[x].status = "running"
      <3>1. (x # r => StatusFell(r)) /\ run'[x].status = "running"
        BY <2>2, StatusSet, SameRow
      <3> QED  BY <2>2, <3>1, StatusSet DEF GatesKept, VisitKept
    <2> QED  BY <1>1, <1>2, <2>2, <2>3, <2>4
  <1>5. CASE DispClear
    <2>1. PICK x \in Runs : x = disp.run
      BY <1>5 DEF DispClear, DispOK, PlacedDisp
    <2>2. run' = [run EXCEPT ![x].adm = 0] /\ Spawn("slot", x, disp.node)
      BY <1>5, <2>1 DEF DispClear, Spawn
    <2>3. PICK n : n = disp.node
      OBVIOUS
    <2>4. Awaited(x)'
      BY <2>2, <2>3, SpawnAwaits DEF Spawn
    <2>5. StatusFell(r) /\ GatesKept(r) /\ VisitKept(r)
      BY <2>2, AdmRow
    <2> QED  BY <1>1, <1>2, <2>1, <2>4, <2>5
  <1> QED  BY <1>3, <1>4, <1>5 DEF Dispatch

LEMMA AdmissionRow ==
    ASSUME TypeInv, NEW w \in Workers, Admission(w), NEW r \in Runs
    PROVE  /\ GatesKept(r) /\ VisitKept(r)
           /\ StatusFell(r) \/ (Awaited(r)' /\ run'[r].status = "running")
           /\ Coming(w, r) => Awaited(r)' \/ run'[r].status = "queued"
           /\ worker[w].pc \in AdmissionPC
           /\ \A v \in Workers \ {w} : worker'[v] = worker[v]
           /\ UNCHANGED <<exec, disp, req, restarts>>
  <1> USE DEF TypeInv
  <1>1. /\ UNCHANGED <<exec, disp, req, restarts>> /\ worker[w].pc \in AdmissionPC
        /\ \A v \in Workers \ {w} : worker'[v] = worker[v]
    BY DEF Admission, Admit, AdmitDirect, AdmitClear, QueueForAdmission, Goto,
           WorkersOK, AdmissionPC
  <1>2. PICK x \in Runs : x = worker[w].run
    BY <1>1 DEF WorkersOK, PlacedWorker, AdmissionPC
  <1>3. ASSUME NEW l \in AdmissionPC \cup {"slot"}, Goto(w, l)
        PROVE  Awaited(x)'
    <2>1. worker'[w].pc = l /\ worker'[w].run = x
      BY <1>2, <1>3 DEF Goto, WorkersOK, PlacedWorker, WorkerType
    <2> QED  BY <2>1 DEF Awaited, Coming
  <1>4. Coming(w, r) => r = x
    BY <1>2 DEF Coming
  <1>5. CASE Admit(w)
    <2>1. run' = run /\ Awaited(x)'
      BY <1>3, <1>5 DEF Admit, AdmissionPC
    <2> QED  BY <1>1, <1>4, <2>1, SameRow
  <1>6. CASE AdmitDirect(w)
    <2>1. Awaited(x)'
      BY <1>3, <1>6 DEF AdmitDirect, AdmissionPC
    <2>2. CASE UNCHANGED run
      BY <1>1, <1>4, <2>1, <2>2, SameRow
    <2>3. CASE SetStatus(x, "running")
      <3>1. (x # r => StatusFell(r)) /\ run'[x].status = "running"
        BY <2>3, StatusSet, SameRow
      <3>2. GatesKept(r) /\ VisitKept(r)
        BY <2>3, StatusSet DEF GatesKept, VisitKept
      <3> QED  BY <1>1, <1>4, <2>1, <3>1, <3>2
    <2> QED  BY <1>2, <1>6, <2>2, <2>3 DEF AdmitDirect, SetStatus
  <1>7. CASE AdmitClear(w)
    <2>1. Awaited(x)'
      BY <1>3, <1>7 DEF AdmitClear
    <2>2. run' = [run EXCEPT ![x].adm = 0]
      BY <1>2, <1>7 DEF AdmitClear
    <2> QED  BY <1>1, <1>4, <2>1, <2>2, AdmRow
  <1>8. CASE QueueForAdmission(w)
    <2>1. PICK n : run' = [run EXCEPT ![x].status = "queued", ![x].adm = n]
      BY <1>2, <1>8 DEF QueueForAdmission
    <2> QED  BY <1>1, <1>4, <2>1, QueuedRow
  <1> QED  BY <1>5, <1>6, <1>7, <1>8 DEF Admission

LEMMA SlotRow ==
    ASSUME TypeInv, NEW w \in Workers, SlotStepOf(w), NEW r \in Runs
    PROVE  /\ GatesKept(r) /\ VisitKept(r) /\ StatusFell(r)
           /\ \A v \in Workers \ {w} : worker'[v] = worker[v]
           /\ UNCHANGED <<disp, req, restarts>>
           /\ TakeExecuteSlot(w) \/ ExecuteSlotTimeout(w) \/ EndExecute(w)
                 \/ (worker[w].pc \in {"requeue", "release"} /\ UNCHANGED exec)
  <1> USE DEF TypeInv
  <1>1. /\ UNCHANGED <<disp, req, restarts>>
        /\ \A v \in Workers \ {w} : worker'[v] = worker[v]
        /\ TakeExecuteSlot(w) \/ ExecuteSlotTimeout(w) \/ EndExecute(w)
                 \/ (worker[w].pc \in {"requeue", "release"} /\ UNCHANGED exec)
    BY DEF SlotStepOf, TakeExecuteSlot, ExecuteSlotTimeout, Requeue, EndExecute,
           ReleaseSlot, Goto, WorkersOK
  <1>2. CASE UNCHANGED run
    BY <1>1, <1>2, SameRow
  <1>3. CASE Requeue(w) /\ ~UNCHANGED run
    <2>1. PICK x \in Runs : x = worker[w].run
      BY <1>3 DEF Requeue, WorkersOK, PlacedWorker
    <2>2. PICK n : run' = [run EXCEPT ![x].status = "queued", ![x].adm = n]
      BY <1>3, <2>1 DEF Requeue
    <2> QED  BY <1>1, <2>2, QueuedRow
  <1> QED
    BY <1>2, <1>3 DEF SlotStepOf, TakeExecuteSlot, ExecuteSlotTimeout, EndExecute, ReleaseSlot

\* A request goes on, hands its run over, ends it, or finds its driver at work.
LEMMA AnsweringRow ==
    ASSUME TypeInv, NEW q \in Requests, Answering(q), NEW r \in Runs
    PROVE  /\ VisitKept(r) /\ StatusFell(r)
           /\ GatesKept(r) \/ Awaited(r)'
           /\ \A p \in Requests \ {q} : req'[p] = req[p]
           /\ \A w \in Workers : worker[w].pc # "none" => worker'[w] = worker[w]
           /\ UNCHANGED <<disp, restarts>>
           /\ \/ exec'[r] = exec[r]
              \/ exec'[r] = None /\ HeldTooLong(r) /\ Awaited(r)'
           /\ LiveRequest(q, r) =>
                \/ Awaited(r)'
                \/ run'[r].status \in Ended
                \/ exec' = exec /\ exec[r] # None /\ worker[exec[r]].pc = "node"
  <1> USE DEF TypeInv
  <1> DEFINE me == req[q]
             Frame == /\ UNCHANGED <<disp, restarts>>
                      /\ \A p \in Requests \ {q} : req'[p] = req[p]
                      /\ \A w \in Workers : worker[w].pc # "none" => worker'[w] = worker[w]
  <1>1. UNCHANGED <<disp, restarts>>
    BY DEF Answering, GateResolve, GateAdvance, GateHalted, GateComplete, ResumeIdle,
           ResumeLaunch
  <1>2. me.pc \in GatePC \cup {"idle", "launch"}
    BY DEF Answering, GateResolve, GateAdvance, GateHalted, GateComplete, ResumeIdle,
           ResumeLaunch, GatePC
  <1>3. PICK x \in Runs : x = me.run
    BY <1>2 DEF RequestsOK, PlacedRequest, GatePC
  <1>4. \A p \in Requests \ {q} : req'[p] = req[p]
    BY DEF Answering, GateResolve, GateAdvance, GateHalted, GateComplete, ResumeIdle,
           ResumeLaunch, Step, RequestsOK
  <1>5. \A w \in Workers : worker[w].pc # "none" => worker'[w] = worker[w]
    <2>1. CASE UNCHANGED worker
      BY <2>1
    <2>2. CASE \E y, n : Spawn("admit", y, n)
      BY <2>2, SpawnFrame
    <2> QED
      BY <2>1, <2>2 DEF Answering, GateResolve, GateAdvance, GateHalted, GateComplete,
         ResumeIdle, ResumeLaunch
  <1>6. Frame
    BY <1>1, <1>4, <1>5
  <1> HIDE DEF Frame
  <1>7. LiveRequest(q, r) => r = x
    BY <1>3 DEF LiveRequest
  <1>8. ASSUME NEW l \in GatePC \cup {"idle", "launch"}, Step(q, l)
        PROVE  Awaited(x)'
    <2>1. req'[q].pc = l /\ req'[q].run = x
      BY <1>3, <1>8 DEF Step, RequestsOK, PlacedRequest, RequestType
    <2> QED  BY <2>1 DEF Awaited, LiveRequest
  <1>9. ASSUME NEW n, Spawn("admit", x, n)
        PROVE  Awaited(x)'
    BY <1>9, SpawnAwaits
  <1>10. CASE GateResolve(q)
    <2> DEFINE F == {IF g.node = me.node /\ g.iter = me.iter
                     THEN [g EXCEPT !.resolved = TRUE] ELSE g : g \in run[x].gates}
               b == [run[x] EXCEPT !.gates = F]
    <2>1. run' = [run EXCEPT ![x] = b]
      BY <1>3, <1>10 DEF GateResolve
    <2>2. b.status = run[x].status /\ b.iter = run[x].iter /\ b.visit = run[x].visit
          /\ b.gates = F
      BY DEF RowsOK, Row
    <2>f. \A h \in GateRow : [h EXCEPT !.resolved = TRUE].node = h.node
                           /\ [h EXCEPT !.resolved = TRUE].iter = h.iter
      BY DEF GateRow
    <2>g. \A g \in F : \E h \in run[x].gates : h.node = g.node /\ h.iter = g.iter
      <3> TAKE g \in F
      <3>1. PICK h \in run[x].gates :
               g = IF h.node = me.node /\ h.iter = me.iter
                   THEN [h EXCEPT !.resolved = TRUE] ELSE h
        OBVIOUS
      <3>2. h \in GateRow
        BY DEF RowsOK, Row
      <3>3. h.node = g.node /\ h.iter = g.iter
        BY <2>f, <3>1, <3>2
      <3> QED  BY <3>3
    <2> HIDE DEF b, F
    <2>h. RowKept(run[x], b)
      BY <2>2, <2>g DEF RowKept
    <2>3. run'[x] = b /\ \A y \in Runs \ {x} : run'[y] = run[y]
      BY <2>1, OneRow
    <2>4. StatusFell(x) /\ VisitKept(x)
      BY <2>2, <2>3, <2>h DEF StatusFell, StatusKept, VisitKept
    <2>5. Awaited(x)' /\ exec' = exec
      BY <1>8, <1>10 DEF GateResolve, GatePC
    <2> QED  BY <1>6, <1>7, <2>3, <2>4, <2>5, SameRow DEF Frame
  <1>11. CASE GateAdvance(q)
    <2>1. exec' = exec
      BY <1>11 DEF GateAdvance
    <2>2. Awaited(x)'
      <3>1. CASE \E l \in GatePC : Step(q, l)
        BY <1>8, <3>1
      <3>2. CASE \E n : Spawn("admit", x, n)
        BY <1>9, <3>2
      <3>3. (\E l \in GatePC : Step(q, l)) \/ (\E n : Spawn("admit", me.run, n))
        BY <1>11 DEF GateAdvance, GatePC
      <3> QED  BY <1>3, <3>1, <3>2, <3>3
    <2>3. StatusFell(r) /\ VisitKept(r) /\ GatesKept(r)
      <3>1. CASE halted
        <4>1. run' = [run EXCEPT ![x] =
                  [SaveState(@, me.node, me.iter, "completed") EXCEPT !.status = "cancelled"]]
          BY <1>3, <1>11, <3>1 DEF GateAdvance
        <4> QED  BY <4>1, SaveEndsRow DEF Ended
      <3>2. CASE ~halted
        <4>1. run' = [run EXCEPT ![x] = SaveState(@, me.node, me.iter, "completed")]
          BY <1>3, <1>11, <3>2 DEF GateAdvance
        <4> QED  BY <4>1, SaveRow
      <3> QED  BY <3>1, <3>2
    <2> QED  BY <1>6, <1>7, <2>1, <2>2, <2>3 DEF Frame
  <1>12. CASE GateHalted(q)
    <2>1. run' = [run EXCEPT ![x] = Superseded(Finalized(@, "cancelled"))]
      BY <1>3, <1>12 DEF GateHalted
    <2>2. StatusFell(r) /\ VisitKept(r) /\ (r # x => GatesKept(r))
      BY <2>1, CleanupRow DEF VisitStatus
    <2>3. Awaited(x)' /\ exec' = exec
      BY <1>8, <1>12 DEF GateHalted, GatePC
    <2> QED  BY <1>6, <1>7, <2>2, <2>3 DEF Frame
  <1>13. CASE GateComplete(q)
    <2>1. SetStatus(x, "completed") /\ exec' = exec
      BY <1>3, <1>13 DEF GateComplete, SetStatus
    <2>2. VisitKept(r) /\ GatesKept(r)
      BY <2>1, StatusSet DEF VisitKept, GatesKept
    <2>3. (r # x => run'[r] = run[r]) /\ (r = x => run'[r].status \in Ended)
      BY <2>1, StatusSet DEF Ended
    <2>4. StatusFell(r)
      BY <2>3, SameRow DEF StatusFell
    <2> QED  BY <1>6, <1>7, <2>1, <2>2, <2>3, <2>4 DEF Frame
  <1>14. CASE ResumeIdle(q)
    <2>1. CASE UNCHANGED <<run, exec>> /\ Step(q, "launch")
      <3>1. Awaited(x)'
        BY <1>8, <2>1
      <3> QED  BY <1>6, <1>7, <2>1, <3>1, SameRow DEF Frame
    <2>2. CASE HeldTooLong(me.run) /\ Step(q, "launch")
               /\ exec' = [exec EXCEPT ![me.run] = None]
               /\ me.seen \in {"failed", "cancelled"}
               /\ run' = [run EXCEPT ![me.run] = Finalized(@, me.seen)]
      <3>1. PICK st \in VisitStatus : run' = [run EXCEPT ![x] = Finalized(@, st)]
        BY <1>3, <2>2 DEF VisitStatus
      <3>2. StatusFell(r) /\ VisitKept(r) /\ GatesKept(r)
        BY <3>1, CleanupRow
      <3>3. Awaited(x)'
        BY <1>8, <2>2
      <3>4. HeldTooLong(x) /\ exec' = [exec EXCEPT ![x] = None]
        BY <1>3, <2>2 DEF HeldTooLong, Status
      <3>5. exec'[x] = None /\ (r # x => exec'[r] = exec[r])
        BY <3>4 DEF ExecOK
      <3> QED  BY <1>6, <1>7, <3>2, <3>3, <3>4, <3>5 DEF Frame
    <2>3. CASE HeldTooLong(me.run) /\ UNCHANGED <<run, exec>>
      <3>1. HeldTooLong(x)
        BY <1>3, <2>3 DEF HeldTooLong, Status
      <3>2. exec[x] # None /\ (worker[exec[x]].pc = "node" \/ run'[x].status \in Ended)
        BY <2>3, <3>1 DEF HeldTooLong, Status
      <3> QED  BY <1>6, <1>7, <2>3, <3>2, SameRow DEF Frame
    <2> QED  BY <1>14, <2>1, <2>2, <2>3 DEF ResumeIdle
  <1>15. CASE ResumeLaunch(q)
    <2>1. UNCHANGED <<run, exec>>
      BY <1>15 DEF ResumeLaunch
    <2>2. \E n : Spawn("admit", x, n)
      BY <1>3, <1>15 DEF ResumeLaunch
    <2>3. Awaited(x)'
      BY <1>9, <2>2
    <2> QED  BY <1>6, <1>7, <2>1, <2>3, SameRow DEF Frame
  <1> QED  BY <1>10, <1>11, <1>12, <1>13, <1>14, <1>15 DEF Answering

-----------------------------------------------------------------------------
(* Who waits is not forgotten                                              *)

\* A run that is waited on still is after a step, unless its status leaves the
\* two of AttendInv or a driver has begun, or is busy, with it.
LEMMA AwaitStep ==
    ASSUME TypeInv, Undisturbed, "Cancel" \notin Calls, [Next]_vars, restarts' = restarts,
           NEW r \in Runs, Awaited(r), run'[r].status \in {"running", "waiting_human"}
    PROVE  \/ Awaited(r)'
           \/ exec'[r] # None /\ worker'[exec'[r]].pc \in {"load", "node"}
  <1> USE DEF TypeInv
  <1>0. {"admit", "direct", "clear", "queue", "slot"} = AdmissionPC \cup {"slot"}
        /\ "none" \notin AdmissionPC
    BY DEF AdmissionPC
  \* The three ways to be waited on, undisturbed.
  <1>1. UNCHANGED disp /\ disp.pc = "clear" /\ disp.run = r => Awaited(r)'
    BY DEF Awaited
  <1>2. ASSUME NEW q \in Requests, LiveRequest(q, r), req'[q] = req[q]
        PROVE  Awaited(r)'
    BY <1>2 DEF Awaited, LiveRequest
  <1>3. ASSUME NEW w \in Workers, Coming(w, r), worker'[w] = worker[w]
        PROVE  Awaited(r)'
    BY <1>3 DEF Awaited, Coming
  <1>4. \A q \in Requests : LiveRequest(q, r) => req[q].pc # "new"
    BY DEF LiveRequest, GatePC
  <1>5. \A w \in Workers : Coming(w, r) => worker[w].pc # "none"
    BY DEF Coming, AdmissionPC
  <1>6. CASE Dispatch
    BY <1>2, <1>3, <1>5, <1>6, DispatchRow DEF Awaited
  <1>7. CASE \E w \in Workers : Admission(w)
    <2>1. PICK w \in Workers : Admission(w)
      BY <1>7
    <2>2. run'[r].status # "queued"
      OBVIOUS
    <2> QED  BY <1>1, <1>2, <1>3, <2>1, <2>2, AdmissionRow DEF Awaited
  <1>8. CASE \E w \in Workers : Driving(w)
    <2>1. PICK w \in Workers : Driving(w)
      BY <1>8
    <2>2. ~Coming(w, r)
      BY <2>1, DrivingFrame DEF Coming, AdmissionPC, DriverPC, SlotPC
    <2> QED  BY <1>1, <1>2, <1>3, <2>1, <2>2, DrivingFrame DEF Awaited
  <1>9. CASE \E w \in Workers : SlotStepOf(w)
    <2>1. PICK w \in Workers : SlotStepOf(w)
      BY <1>9
    <2>2. CASE ~Coming(w, r)
      BY <1>1, <1>2, <1>3, <2>1, <2>2, SlotRow DEF Awaited
    <2>3. CASE Coming(w, r) /\ TakeExecuteSlot(w)
      <3>1. exec' = [exec EXCEPT ![r] = w] /\ Goto(w, "load")
        BY <2>3 DEF TakeExecuteSlot, Coming
      <3>2. exec'[r] = w /\ w # None
        BY <3>1 DEF ExecOK
      <3>3. worker'[w].pc = "load"
        BY <3>1, GotoFrame
      <3> QED  BY <3>2, <3>3
    <2>4. CASE Coming(w, r) /\ ExecuteSlotTimeout(w)
      <3>1. HeldTooLong(worker[w].run) /\ UNCHANGED <<run, exec>> /\ worker[w].run = r
        BY <2>4 DEF ExecuteSlotTimeout, Coming
      <3>2. Status(r) \notin Ended
        BY <3>1 DEF Status, Ended
      <3>3. exec[r] # None /\ worker[exec[r]].pc = "node"
        BY <3>1, <3>2 DEF HeldTooLong, Status
      <3>4. exec[r] # w /\ exec[r] \in Workers
        BY <2>4, <3>3 DEF ExecuteSlotTimeout, ExecOK
      <3>5. worker'[exec[r]] = worker[exec[r]]
        BY <2>1, <3>4, SlotRow
      <3> QED  BY <3>1, <3>3, <3>5
    <2>5. CASE Coming(w, r) /\ worker[w].pc \in {"requeue", "release", "end"}
      BY <2>5 DEF Coming, AdmissionPC
    <2>6. EndExecute(w) => worker[w].pc = "end"
      BY DEF EndExecute
    <2> QED  BY <2>1, <2>2, <2>3, <2>4, <2>5, <2>6, SlotRow
  <1>10. CASE \E q \in Requests : Answering(q)
    <2>1. PICK q \in Requests : Answering(q)
      BY <1>10
    <2>2. CASE LiveRequest(q, r)
      <3>1. run'[r].status \notin Ended
        BY DEF Ended
      <3>2. CASE exec' = exec /\ exec[r] # None /\ worker[exec[r]].pc = "node"
        <4>1. exec[r] \in Workers
          BY <3>2 DEF ExecOK
        <4> QED  BY <2>1, <3>2, <4>1, AnsweringRow
      <3> QED  BY <2>1, <2>2, <3>1, <3>2, AnsweringRow
    <2>3. CASE ~LiveRequest(q, r)
      BY <1>1, <1>2, <1>3, <1>5, <2>1, <2>3, AnsweringRow DEF Awaited
    <2> QED  BY <2>2, <2>3
  <1>11. CASE Quiet
    BY <1>1, <1>2, <1>3, <1>4, <1>11, QuietFrame DEF Awaited
  <1> QED  BY <1>6, <1>7, <1>8, <1>9, <1>10, <1>11, StepCases

-----------------------------------------------------------------------------
(* The drivers                                                             *)

\* How a driver's step moves it along, with what it carries.
Carries(w) ==
    /\ worker'[w].node = worker[w].node
    /\ worker'[w].iter = worker[w].iter
    /\ worker'[w].out = worker[w].out

LEMMA DriverMoves ==
    ASSUME TypeInv, NEW w \in Workers, Driving(w), NEW r \in Runs, worker[w].run = r
    PROVE  /\ worker[w].pc = "node" => worker'[w].pc = "check"
           /\ worker[w].pc = "check" => worker'[w].pc \in {"act", "end"}
           /\ worker'[w].pc = "node" =>
                /\ Owner(w) /\ worker[w].pc = "enter"
                /\ run'[r].iter[worker'[w].node] = worker'[w].iter
                /\ run'[r].visit.node = worker'[w].node
                /\ run'[r].visit.iter = worker'[w].iter
           /\ worker'[w].pc = "check" =>
                /\ worker[w].pc = "node"
                /\ worker'[w].node = worker[w].node /\ worker'[w].iter = worker[w].iter
                /\ worker'[w].out = "setup" => worker'[w].node \in ClarifyNodes
                /\ worker'[w].out = "paused" =>
                      [node |-> worker'[w].node, iter |-> worker'[w].iter,
                       resolved |-> FALSE] \in run'[r].gates
           /\ worker'[w].pc = "act" => /\ worker[w].pc = "check" /\ Owner(w)
                                      /\ Carries(w) /\ run' = run
           /\ worker'[w].pc = "park" => /\ worker[w].pc = "act" /\ worker[w].out = "paused"
                                       /\ Carries(w)
                                       /\ StatusKept(r) /\ run'[r].gates = run[r].gates
           /\ worker'[w].pc = "wait" => /\ worker[w].pc = "park" /\ Carries(w) /\ run' = run
           /\ worker'[w].pc = "cleanup" => run'[r].status # "waiting_human"
  <1> USE DEF TypeInv
  <1>1. worker[w] \in WorkerType /\ RowsOK /\ worker[w].pc # "none"
    BY DrivingFrame DEF WorkersOK, PlacedWorker, DriverPC, SlotPC
  <1>2. ASSUME NEW l, Goto(w, l)
        PROVE  worker'[w].pc = l /\ Carries(w)
    BY <1>1, <1>2 DEF Goto, WorkersOK, WorkerType, Carries
  <1>3. CASE Load(w)
    BY <1>2, <1>3 DEF Load
  <1>4. CASE EnterNode(w) /\ ~Owner(w)
    BY <1>2, <1>4 DEF EnterNode
  <1>5. CASE EnterNode(w) /\ Owner(w)
    <2> DEFINE n == worker[w].node
               i == run[r].iter[n] + 1
               v == [node |-> n, iter |-> i, st |-> "running"]
               b == [run[r] EXCEPT !.iter[n] = i, !.visit = v]
    <2>1. worker' = [worker EXCEPT ![w].pc = "node", ![w].iter = i] /\ worker[w].pc = "enter"
      BY <1>5 DEF EnterNode
    <2>2. worker'[w].pc = "node" /\ worker'[w].iter = i /\ worker'[w].node = n
      BY <1>1, <2>1 DEF WorkersOK, WorkerType
    <2>3. run' = [run EXCEPT ![r] = b]
      BY <1>5 DEF EnterNode
    <2>4. n \in Nodes
      BY <2>1 DEF WorkersOK, PlacedWorker, NodePC, WorkerPC, SlotPC
    <2>5. b.iter[n] = i /\ b.visit = v
      BY <1>1, <2>4 DEF RowsOK, Row
    <2>6. v.node = n /\ v.iter = i
      OBVIOUS
    <2> HIDE DEF b, v, i, n
    <2>7. run'[r] = b
      BY <1>1, <2>3, OneRow
    <2> QED  BY <1>5, <2>1, <2>2, <2>5, <2>6, <2>7
  <1>6. CASE ExecuteNode(w)
    <2> DEFINE gate == [node |-> worker[w].node, iter |-> worker[w].iter,
                        resolved |-> FALSE]
    <2>1. PICK out \in Outcomes \ {"none"} :
             /\ out = "setup" => worker[w].node \in ClarifyNodes
             /\ worker' = [worker EXCEPT ![w].pc = "check", ![w].out = out]
             /\ run' = IF out = "paused" THEN [run EXCEPT ![r].gates = @ \cup {gate}]
                                         ELSE run
      BY <1>6 DEF ExecuteNode
    <2>2. /\ worker'[w].pc = "check" /\ worker'[w].out = out
          /\ worker'[w].node = worker[w].node /\ worker'[w].iter = worker[w].iter
      BY <1>1, <2>1 DEF WorkersOK, WorkerType
    <2>3. out = "paused" => gate \in run'[r].gates
      BY <1>1, <2>1 DEF RowsOK, Row
    <2>4. worker[w].pc = "node"
      BY <1>6 DEF ExecuteNode
    <2> QED  BY <2>1, <2>2, <2>3, <2>4
  <1>7. CASE CheckOwner(w)
    BY <1>2, <1>7 DEF CheckOwner
  <1>8. CASE ActSuccess(w)
    <2>1. PICK m \in Success[worker[w].node] :
             worker' = [worker EXCEPT ![w].pc = IF m = 0 THEN "drained" ELSE "enter",
                                      ![w].node = m]
      BY <1>8 DEF ActSuccess
    <2>2. worker'[w].pc \in {"drained", "enter"} /\ worker[w].pc = "act"
      BY <1>1, <1>8, <2>1 DEF ActSuccess, WorkersOK, WorkerType
    <2> QED  BY <2>2
  <1>9. CASE ActHalted(w)
    <2>1. worker'[w].pc = "cleanup" /\ worker[w].pc = "act"
      BY <1>2, <1>9 DEF ActHalted
    <2>2. run' = [run EXCEPT ![r] = [SaveState(@, worker[w].node, worker[w].iter,
                     "completed") EXCEPT !.status = "cancelled"]]
      BY <1>9 DEF ActHalted
    <2>3. run'[r].status = "cancelled"
      BY <1>1, <2>2, SaveEndsRow DEF Ended
    <2> QED  BY <2>1, <2>3
  <1>10. CASE ActPaused(w)
    <2>1. /\ worker'[w].pc \in {"park", "end"} /\ Carries(w)
          /\ worker[w].pc = "act" /\ worker[w].out = "paused"
      BY <1>2, <1>10 DEF ActPaused
    <2> DEFINE b == SaveState(run[r], worker[w].node, worker[w].iter, "waiting_human")
    <2>2. run' = [run EXCEPT ![r] = b]
      BY <1>10 DEF ActPaused, Save
    <2>3. b.status = run[r].status /\ b.gates = run[r].gates
      BY <1>1, SaveStateKeeps DEF RowsOK
    <2> HIDE DEF b
    <2>4. StatusKept(r) /\ run'[r].gates = run[r].gates
      BY <1>1, <2>2, <2>3, OneRow DEF StatusKept
    <2> QED  BY <2>1, <2>4
  <1>11. CASE ActFailed(w)
    <2>1. worker[w].pc = "act"
      BY <1>11 DEF ActFailed
    <2>2. CASE Goto(w, "end")
      BY <1>2, <2>1, <2>2
    <2>3. CASE \/ \E m : worker' = [worker EXCEPT ![w].pc = "enter", ![w].node = m]
               \/ worker' = [worker EXCEPT ![w].pc = "enter",
                                           ![w].tries[worker[w].node] = @ + 1]
      <3>1. worker'[w].pc = "enter"
        BY <1>1, <2>3 DEF WorkersOK, WorkerType
      <3> QED  BY <2>1, <3>1
    <2>4. CASE /\ Goto(w, "cleanup")
               /\ run' = [run EXCEPT ![r] = [SaveState(@, worker[w].node,
                             worker[w].iter, "failed") EXCEPT !.status = "failed"]]
      <3>1. run'[r].status = "failed"
        BY <1>1, <2>4, SaveEndsRow DEF Ended
      <3> QED  BY <1>2, <2>1, <2>4, <3>1
    <2> QED  BY <1>11, <2>2, <2>3, <2>4 DEF ActFailed
  <1>12. CASE Park(w)
    BY <1>2, <1>12 DEF Park
  <1>13. CASE ParkWrite(w) \/ FinishCleanup(w) \/ Drained(w) \/ Complete(w)
    <2>1. worker[w].pc \in {"wait", "cleanup", "drained", "complete"}
          /\ worker'[w].pc \in {"end", "drained", "complete"}
      BY <1>2, <1>13 DEF ParkWrite, FinishCleanup, Drained, Complete
    <2> QED  BY <2>1
  <1> QED
    BY <1>3, <1>4, <1>5, <1>6, <1>7, <1>8, <1>9, <1>10, <1>11, <1>12, <1>13 DEF Driving

LEMMA WorkKeepsVisit ==
    ASSUME TypeInv, NEW w \in Workers, Driving(w), worker[w].pc = "node",
           NEW r \in Runs, worker[w].run = r
    PROVE  run'[r].iter = run[r].iter /\ run'[r].visit = run[r].visit
  <1>1. ExecuteNode(w)
    BY DEF Driving, Load, EnterNode, CheckOwner, ActSuccess, ActHalted, ActPaused,
           ActFailed, Park, ParkWrite, FinishCleanup, Drained, Complete
  <1>2. run' = run \/ \E g : run' = [run EXCEPT ![r].gates = @ \cup {g}]
    BY <1>1 DEF ExecuteNode
  <1> QED  BY <1>2 DEF TypeInv, RowsOK, Row

\* Other steps leave a worker alone, or move it at points where it drives nothing,
\* or start it driving.
LEMMA OthersMove ==
    ASSUME TypeInv, Undisturbed, "Cancel" \notin Calls, [Next]_vars, restarts' = restarts,
           NEW w \in Workers, ~Driving(w)
    PROVE  \/ worker'[w] = worker[w]
           \/ worker'[w].pc \notin DriverPC
           \/ TakeExecuteSlot(w) /\ worker'[w].pc = "load"
  <1> USE DEF TypeInv
  <1>1. CASE Dispatch \/ \E q \in Requests : Answering(q)
    <2>1. UNCHANGED worker \/ \E l \in {"admit", "slot"} : \E x, n : Spawn(l, x, n)
      BY <1>1 DEF Dispatch, DispAcquire, DispGiveUp, DispRead, DispClaim, DispClear,
         Answering, GateResolve, GateAdvance, GateHalted, GateComplete, ResumeIdle,
         ResumeLaunch
    <2>2. CASE \E l \in {"admit", "slot"} : \E x, n : Spawn(l, x, n)
      BY <2>2, SpawnFrame DEF DriverPC, SlotPC
    <2> QED  BY <2>1, <2>2
  <1>2. CASE \E v \in Workers : Admission(v)
    <2>1. PICK v \in Workers : Admission(v)
      BY <1>2
    <2>2. worker'[v].pc \in {"direct", "queue", "clear", "slot", "none"}
      BY <2>1, GotoFrame DEF Admission, Admit, AdmitDirect, AdmitClear,
         QueueForAdmission, NoWorker, WorkersOK
    <2>3. worker'[v].pc \notin DriverPC
      BY <2>2 DEF DriverPC, SlotPC
    <2>4. \A u \in Workers \ {v} : worker'[u] = worker[u]
      BY <2>1 DEF Admission, Admit, AdmitDirect, AdmitClear, QueueForAdmission, Goto,
         WorkersOK
    <2> QED  BY <2>3, <2>4
  <1>3. CASE \E v \in Workers : Driving(v)
    BY <1>3, DrivingFrame
  <1>4. CASE \E v \in Workers : SlotStepOf(v)
    <2>1. PICK v \in Workers : SlotStepOf(v)
      BY <1>4
    <2>2. CASE v # w
      <3>1. worker'[w] = worker[w]
        BY <2>1, <2>2 DEF SlotStepOf, TakeExecuteSlot, ExecuteSlotTimeout, Requeue,
           EndExecute, ReleaseSlot, Goto, WorkersOK
      <3> QED  BY <3>1
    <2>3. CASE TakeExecuteSlot(w)
      BY <2>3, GotoFrame DEF TakeExecuteSlot
    <2>4. CASE ExecuteSlotTimeout(w) \/ Requeue(w) \/ EndExecute(w)
      <3>1. worker'[w].pc \in {"requeue", "release"}
        BY <2>4, GotoFrame DEF ExecuteSlotTimeout, Requeue, EndExecute
      <3> QED  BY <3>1 DEF DriverPC
    <2>5. CASE ReleaseSlot(w)
      <3>1. worker'[w] = NoWorker
        BY <2>5 DEF ReleaseSlot, WorkersOK
      <3> QED  BY <3>1 DEF DriverPC, SlotPC, NoWorker
    <2> QED  BY <2>1, <2>2, <2>3, <2>4, <2>5 DEF SlotStepOf
  <1>5. CASE Quiet
    BY <1>5, QuietFrame
  <1> QED  BY <1>1, <1>2, <1>3, <1>4, <1>5, StepCases

\* The execute slot of a run changes hands in three ways.
LEMMA ExecMoves ==
    ASSUME TypeInv, Undisturbed, "Cancel" \notin Calls, [Next]_vars, restarts' = restarts,
           NEW r \in Runs, exec'[r] # exec[r]
    PROVE  \/ exec'[r] = None /\ HeldTooLong(r) /\ Awaited(r)'
           \/ exec[r] \in Workers /\ EndExecute(exec[r])
           \/ \E v \in Workers : /\ TakeExecuteSlot(v) /\ worker[v].run = r
                                 /\ exec[r] = None /\ exec'[r] = v
  <1> USE DEF TypeInv
  <1>1. CASE \E q \in Requests : Answering(q)
    BY <1>1, AnsweringRow
  <1>2. CASE \E v \in Workers : SlotStepOf(v)
    <2>1. PICK v \in Workers : SlotStepOf(v)
      BY <1>2
    <2>2. CASE TakeExecuteSlot(v)
      BY <2>2 DEF TakeExecuteSlot, ExecOK
    <2>3. CASE EndExecute(v)
      <3>1. exec[r] = v
        BY <2>3 DEF EndExecute, ExecOK
      <3> QED  BY <2>3, <3>1
    <2>4. ExecuteSlotTimeout(v) => UNCHANGED exec
      BY DEF ExecuteSlotTimeout
    <2> QED  BY <2>1, <2>2, <2>3, <2>4, SlotRow
  <1>3. CASE \E v \in Workers : Admission(v)
    BY <1>3, AdmissionRow
  <1>4. CASE \E v \in Workers : Driving(v)
    BY <1>4, DrivingFrame
  <1>5. CASE Dispatch
    BY <1>5, DispatchRow
  <1>6. CASE Quiet
    BY <1>6, QuietFrame
  <1> QED  BY <1>1, <1>2, <1>3, <1>4, <1>5, <1>6, StepCases

-----------------------------------------------------------------------------
(* The invariant is inductive                                              *)

(* What any step makes of a row.                                           *)

LEMMA StatusStep ==
    ASSUME TypeInv, Undisturbed, "Cancel" \notin Calls, [Next]_vars, restarts' = restarts,
           NEW r \in Runs
    PROVE  \/ StatusFell(r)
           \/ Awaited(r)' /\ run'[r].status = "running"
           \/ \E v \in Workers : /\ ParkWrite(v) /\ worker[v].run = r
                                 /\ Status(r) = "running"
                                 /\ run'[r].status = "waiting_human"
  <1>1. CASE \E v \in Workers : Driving(v)
    <2>1. PICK v \in Workers : Driving(v)
      BY <1>1
    <2>2. CASE worker[v].run = r
      BY <2>1, <2>2, DrivingRow
    <2>3. CASE worker[v].run # r
      BY <2>1, <2>3, DrivingRow, SameRow
    <2> QED  BY <2>2, <2>3
  <1> QED  BY <1>1, StepCases, DispatchRow, AdmissionRow, SlotRow, AnsweringRow, QuietFrame

LEMMA GatesStep ==
    ASSUME TypeInv, Undisturbed, "Cancel" \notin Calls, [Next]_vars, restarts' = restarts,
           NEW r \in Runs
    PROVE  \/ GatesKept(r)
           \/ Awaited(r)'
           \/ \E v \in Workers : FinishCleanup(v) /\ worker[v].run = r
  <1>1. CASE \E v \in Workers : Driving(v)
    <2>1. PICK v \in Workers : Driving(v)
      BY <1>1
    <2>2. CASE worker[v].run = r
      BY <2>1, <2>2, DrivingRow
    <2>3. CASE worker[v].run # r
      BY <2>1, <2>3, DrivingRow, SameRow
    <2> QED  BY <2>2, <2>3
  <1> QED  BY <1>1, StepCases, DispatchRow, AdmissionRow, SlotRow, AnsweringRow, QuietFrame

LEMMA VisitStep ==
    ASSUME TypeInv, Undisturbed, "Cancel" \notin Calls, [Next]_vars, restarts' = restarts,
           NEW r \in Runs
    PROVE  \/ VisitKept(r)
           \/ \E v \in Workers : /\ ExecuteNode(v) /\ worker[v].run = r
                                 /\ run'[r].iter = run[r].iter
                                 /\ run'[r].visit = run[r].visit
           \/ \E v \in Workers : EnterNode(v) /\ Owner(v) /\ worker[v].run = r
  <1>1. CASE \E v \in Workers : Driving(v)
    <2>1. PICK v \in Workers : Driving(v)
      BY <1>1
    <2>2. CASE worker[v].run = r
      BY <2>1, <2>2, DrivingRow
    <2>3. CASE worker[v].run # r
      BY <2>1, <2>3, DrivingRow, SameRow
    <2> QED  BY <2>2, <2>3
  <1> QED  BY <1>1, StepCases, DispatchRow, AdmissionRow, SlotRow, AnsweringRow, QuietFrame

(* Who keeps the execute slot.                                             *)

LEMMA KeepsSlot ==
    ASSUME TypeInv, Undisturbed, "Cancel" \notin Calls, [Next]_vars, restarts' = restarts,
           NEW w \in Workers, worker[w].pc \in DriverPC, Owner(w),
           worker'[w] = worker[w], NEW r \in Runs, worker[w].run = r
    PROVE  exec'[r] = w \/ (worker[w].pc \in {"node", "end"} /\ Awaited(r)')
  <1>1. exec[r] = w /\ w # None
    BY DEF Owner
  <1>2. ASSUME EndExecute(w)
        PROVE  FALSE
    <2>1. worker[w].pc = "end" /\ worker'[w].pc = "release"
      BY <1>2, GotoFrame DEF EndExecute, TypeInv
    <2> QED  BY <2>1
  <1>3. HeldTooLong(r) => worker[w].pc \in {"node", "end"}
    BY <1>1 DEF HeldTooLong
  <1> QED  BY <1>1, <1>2, <1>3, ExecMoves

LEMMA HadSlot ==
    ASSUME TypeInv, Undisturbed, "Cancel" \notin Calls, [Next]_vars, restarts' = restarts,
           NEW w \in Workers, worker[w].pc \in DriverPC, worker'[w] = worker[w],
           NEW r \in Runs, worker[w].run = r, exec'[r] = w
    PROVE  exec[r] = w
  <1>1. w # None /\ worker[w].pc # "slot"
    BY DEF DriverPC
  <1>2. TakeExecuteSlot(w) => worker[w].pc = "slot"
    BY DEF TakeExecuteSlot
  <1>3. CASE exec'[r] # exec[r]
    <2>1. CASE EndExecute(exec[r]) /\ exec[r] \in Workers
      <3>1. PICK v \in Workers : v = exec[r] /\ EndExecute(v)
        BY <2>1
      <3>2. exec'[r] \in {None, exec[r]}
        BY <3>1 DEF EndExecute, TypeInv, ExecOK
      <3> QED  BY <1>1, <1>3, <3>2
    <2> QED  BY <1>1, <1>2, <1>3, <2>1, ExecMoves
  <1> QED  BY <1>3

LEMMA DriverRun ==
    ASSUME TypeInv, NEW w \in Workers, worker[w].pc \in DriverPC
    PROVE  worker[w].run \in Runs
  BY DEF TypeInv, WorkersOK, PlacedWorker, DriverPC, SlotPC

LEMMA UndisturbedStep ==
    ASSUME TypeInv, Undisturbed, "Cancel" \notin Calls, [Next]_vars, restarts' = restarts
    PROVE  Undisturbed'
  <1>1. ASSUME NEW q \in Requests
        PROVE  req'[q].pc \notin {"finish", "cleanup", "force"}
    <2>1. CASE req'[q] = req[q]
      BY <2>1 DEF Undisturbed
    <2>2. CASE Answering(q)
      <3>1. CASE \E l \in {"advance", "halt", "complete", "done", "launch"} : Step(q, l)
        BY <3>1 DEF Step, TypeInv, RequestsOK, PlacedRequest, RequestType
      <3> QED
        BY <2>2, <3>1 DEF Answering, GateResolve, GateAdvance, GateHalted, GateComplete,
           ResumeIdle, ResumeLaunch
    <2>3. CASE \E r, n : GateRead(q, r, n) \/ ResumeRead(q, r, n)
      <3>1. req[q] \in RequestType
        BY DEF TypeInv, RequestsOK, PlacedRequest
      <3>2. ASSUME NEW r, NEW n, GateRead(q, r, n)
            PROVE  req'[q].pc = "resolve"
        <4>1. PICK i : req' = [req EXCEPT ![q] = [@ EXCEPT !.pc = "resolve", !.run = r,
                                                          !.node = n, !.iter = i]]
          BY <3>2 DEF GateRead
        <4> QED  BY <3>1, <4>1 DEF TypeInv, RequestsOK, RequestType
      <3>3. ASSUME NEW r, NEW n, ResumeRead(q, r, n)
            PROVE  req'[q].pc = "idle"
        BY <3>1, <3>3 DEF ResumeRead, TypeInv, RequestsOK, RequestType
      <3> QED  BY <2>3, <3>2, <3>3
    <2>4. UNCHANGED req => req'[q] = req[q]
      OBVIOUS
    <2>5. CASE Quiet
      <3>1. ASSUME NEW p \in Requests, p # q,
                   \E r, n : GateRead(p, r, n) \/ ResumeRead(p, r, n)
            PROVE  req'[q] = req[q]
        BY <3>1 DEF GateRead, ResumeRead, TypeInv, RequestsOK
      <3> QED
        BY <2>1, <2>3, <2>4, <2>5, <3>1 DEF Quiet, StartRun, UpdateRunPriority,
           SetMaxConcurrent, Halt, vars
    <2>6. CASE \E p \in Requests : Answering(p)
      <3>1. PICK p \in Requests : Answering(p)
        BY <2>6
      <3>2. p # q => req'[q] = req[q]
        BY <3>1 DEF Answering, GateResolve, GateAdvance, GateHalted, GateComplete,
           ResumeIdle, ResumeLaunch, Step, TypeInv, RequestsOK
      <3> QED  BY <2>1, <2>2, <3>1, <3>2
    <2>7. CASE Dispatch \/ \E w \in Workers : Admission(w) \/ Driving(w) \/ SlotStepOf(w)
      <3>1. UNCHANGED req
        BY <2>7, DrivingFrame DEF Dispatch, DispAcquire, DispGiveUp, DispRead, DispClaim,
           DispClear, Admission, Admit, AdmitDirect, AdmitClear, QueueForAdmission,
           SlotStepOf, TakeExecuteSlot, ExecuteSlotTimeout, Requeue, EndExecute,
           ReleaseSlot, TypeInv
      <3> QED  BY <2>1, <2>4, <3>1
    <2> QED  BY <2>5, <2>6, <2>7, StepCases
  <1>2. ASSUME NEW w \in Workers, worker'[w].pc \in DriverPC \ {"node", "check", "end"}
        PROVE  Owner(w)'
    <2>1. CASE Driving(w)
      <3>1. worker[w].pc \in DriverPC \ {"end"} /\ worker'[w].run = worker[w].run
            /\ exec' = exec
        BY <2>1, DrivingFrame DEF TypeInv
      <3>2. PICK r \in Runs : worker[w].run = r
        BY <3>1, DriverRun
      <3>3. Owner(w)
        BY <1>2, <2>1, <3>1, <3>2, DriverMoves DEF Undisturbed
      <3> QED  BY <3>1, <3>3 DEF Owner
    <2>2. CASE TakeExecuteSlot(w)
      <3>1. PICK r \in Runs : worker[w].run = r
        BY <2>2 DEF TakeExecuteSlot, TypeInv, WorkersOK, PlacedWorker
      <3>2. exec'[r] = w
        BY <2>2, <3>1 DEF TakeExecuteSlot, TypeInv, ExecOK
      <3>3. worker'[w].run = r
        BY <2>2, <3>1 DEF TakeExecuteSlot, Goto, TypeInv, WorkersOK, PlacedWorker,
                          WorkerType
      <3> QED  BY <3>2, <3>3 DEF Owner
    <2>3. CASE worker'[w] = worker[w]
      <3>1. worker[w].pc \in DriverPC /\ Owner(w)
        BY <1>2, <2>3 DEF Undisturbed
      <3>2. PICK r \in Runs : worker[w].run = r
        BY <3>1, DriverRun
      <3>3. exec'[r] = w
        BY <1>2, <2>3, <3>1, <3>2, KeepsSlot
      <3> QED  BY <2>3, <3>2, <3>3 DEF Owner
    <2> QED  BY <1>2, <2>1, <2>2, <2>3, OthersMove
  <1> QED  BY <1>1, <1>2 DEF Undisturbed

LEMMA IterationsGrow ==
    ASSUME TypeInv, Undisturbed, "Cancel" \notin Calls, [Next]_vars, restarts' = restarts,
           NEW r \in Runs, NEW n \in Nodes
    PROVE  run[r].iter[n] <= run'[r].iter[n]
  <1>0. run[r] \in Row /\ run[r].iter[n] \in Nat
    BY DEF TypeInv, RowsOK, Row
  <1>1. CASE VisitKept(r) \/ run'[r].iter = run[r].iter
    BY <1>0, <1>1 DEF VisitKept, RowKept
  <1>2. CASE \E v \in Workers : EnterNode(v) /\ Owner(v) /\ worker[v].run = r
    <2>1. PICK v \in Workers : EnterNode(v) /\ Owner(v) /\ worker[v].run = r
      BY <1>2
    <2> DEFINE m == worker[v].node
               i == run[r].iter[m] + 1
               b == [run[r] EXCEPT !.iter[m] = i,
                                   !.visit = [node |-> m, iter |-> i, st |-> "running"]]
    <2>2. run' = [run EXCEPT ![r] = b]
      BY <2>1 DEF EnterNode
    <2>3. b.iter[n] = IF n = m THEN i ELSE run[r].iter[n]
      BY <1>0 DEF Row
    <2>4. run'[r] = b
      BY <2>2 DEF TypeInv, RowsOK
    <2> HIDE DEF b
    <2> QED  BY <1>0, <2>3, <2>4
  <1> QED  BY <1>1, <1>2, VisitStep

LEMMA GatesCountedStep ==
    ASSUME TypeInv, Undisturbed, GatesCounted, "Cancel" \notin Calls, [Next]_vars,
           restarts' = restarts
    PROVE  GatesCounted'
  <1>0. TypeInv'
    BY TypeStep
  <1>1. ASSUME NEW r \in Runs, NEW g \in run'[r].gates
        PROVE  g.iter <= run'[r].iter[g.node]
    <2>0. g \in GateRow /\ run'[r].iter[g.node] \in Nat /\ run[r].iter[g.node] \in Nat
      <3>1. run[r] \in Row /\ run'[r] \in Row
        BY <1>0 DEF TypeInv, RowsOK
      <3>2. g \in GateRow
        BY <3>1 DEF Row
      <3>3. g.node \in Nodes
        BY <3>2 DEF GateRow
      <3> QED  BY <3>1, <3>2, <3>3 DEF Row
    <2>1. CASE \E h \in run[r].gates : h.node = g.node /\ h.iter = g.iter
      <3>1. g.iter <= run[r].iter[g.node]
        BY <2>1 DEF GatesCounted
      <3>2. run[r].iter[g.node] <= run'[r].iter[g.node]
        BY <2>0, IterationsGrow DEF GateRow
      <3> QED  BY <2>0, <3>1, <3>2 DEF GateRow
    <2>2. CASE \E v \in Workers : ExecuteNode(v) /\ worker[v].run = r
      <3>1. PICK v \in Workers : ExecuteNode(v) /\ worker[v].run = r
        BY <2>2
      <3> DEFINE gate == [node |-> worker[v].node, iter |-> worker[v].iter,
                          resolved |-> FALSE]
      <3>2. run' = run \/ run' = [run EXCEPT ![r].gates = @ \cup {gate}]
        BY <3>1 DEF ExecuteNode
      <3>3. g \in run[r].gates \/ g = gate
        BY <3>2 DEF TypeInv, RowsOK, Row
      <3>4. run'[r].iter = run[r].iter
        BY <3>2 DEF TypeInv, RowsOK, Row
      <3>5. worker[v].iter <= run[r].iter[worker[v].node]
        BY <3>1 DEF GatesCounted, ExecuteNode
      <3> QED  BY <2>1, <3>3, <3>4, <3>5
    <2>3. CASE \E v \in Workers : EnterNode(v) /\ Owner(v) /\ worker[v].run = r
      <3>1. PICK v \in Workers : EnterNode(v) /\ Owner(v) /\ worker[v].run = r
        BY <2>3
      <3> DEFINE m == worker[v].node
                 i == run[r].iter[m] + 1
                 b == [run[r] EXCEPT !.iter[m] = i,
                                     !.visit = [node |-> m, iter |-> i, st |-> "running"]]
      <3>2. run' = [run EXCEPT ![r] = b]
        BY <3>1 DEF EnterNode
      <3>3. b.gates = run[r].gates
        BY DEF TypeInv, RowsOK, Row
      <3>4. run'[r] = b
        BY <3>2 DEF TypeInv, RowsOK
      <3> HIDE DEF b
      <3> QED  BY <2>1, <3>3, <3>4
    <2>4. CASE VisitKept(r)
      BY <2>1, <2>4 DEF VisitKept, RowKept
    <2> QED  BY <2>2, <2>3, <2>4, VisitStep
  <1>2. ASSUME NEW w \in Workers, worker'[w].pc = "node"
        PROVE  worker'[w].iter <= run'[worker'[w].run].iter[worker'[w].node]
    <2>0. "node" \in DriverPC /\ "node" \in NodePC
      BY DEF DriverPC, SlotPC, NodePC, WorkerPC
    <2>1. CASE Driving(w)
      <3>1. PICK r \in Runs : worker[w].run = r
        BY <2>1, DrivingFrame, DriverRun DEF TypeInv
      <3>2. worker'[w].run = r /\ run'[r].iter[worker'[w].node] = worker'[w].iter
        BY <1>2, <2>1, <3>1, DriverMoves, DrivingFrame DEF TypeInv
      <3>3. worker'[w].iter \in Nat
        BY <1>0 DEF TypeInv, WorkersOK, PlacedWorker, WorkerType
      <3> QED  BY <3>2, <3>3
    <2>2. CASE worker'[w] = worker[w]
      <3>1. PICK r \in Runs : worker[w].run = r
        BY <1>2, <2>0, <2>2, DriverRun
      <3>2. PICK n \in Nodes : worker[w].node = n
        BY <1>2, <2>0, <2>2 DEF TypeInv, WorkersOK, PlacedWorker
      <3>3. worker[w].iter <= run[r].iter[n]
        BY <1>2, <2>2, <3>1, <3>2 DEF GatesCounted
      <3>4. run[r].iter[n] <= run'[r].iter[n]
        BY IterationsGrow
      <3>5. worker[w].iter \in Nat /\ run[r].iter[n] \in Nat /\ run'[r].iter[n] \in Nat
        BY <1>0 DEF TypeInv, WorkersOK, PlacedWorker, WorkerType, RowsOK, Row
      <3> QED  BY <2>2, <3>1, <3>2, <3>3, <3>4, <3>5
    <2> QED  BY <1>2, <2>0, <2>1, <2>2, OthersMove
  <1> QED  BY <1>1, <1>2 DEF GatesCounted

LEMMA CurrentVisitStep ==
    ASSUME TypeInv, Undisturbed, CurrentVisit, "Cancel" \notin Calls, [Next]_vars,
           restarts' = restarts
    PROVE  CurrentVisit'
  <1> SUFFICES ASSUME NEW w \in Workers, worker'[w].pc \in {"node", "check", "act"},
                      NEW r, r = worker'[w].run, exec'[r] = w
               PROVE  /\ run'[r].visit.node = worker'[w].node
                      /\ run'[r].visit.iter = worker'[w].iter
                      /\ run'[r].iter[worker'[w].node] = worker'[w].iter
    BY DEF CurrentVisit, Owner
  <1>0. {"node", "check", "act"} \subseteq DriverPC
    BY DEF DriverPC, SlotPC
  <1>1. CASE Driving(w)
    <2>1. r \in Runs /\ worker[w].run = r /\ exec' = exec
      BY <1>1, DrivingFrame, DriverRun DEF TypeInv
    <2>2. CASE worker'[w].pc = "node"
      BY <1>1, <2>1, <2>2, DriverMoves
    <2>3. CASE worker'[w].pc = "check"
      <3>1. worker[w].pc = "node" /\ Owner(w)
        BY <1>1, <2>1, <2>3, DriverMoves DEF Owner
      <3>2. worker'[w].node = worker[w].node /\ worker'[w].iter = worker[w].iter
        BY <1>1, <2>1, <2>3, DriverMoves
      <3>3. run'[r].iter = run[r].iter /\ run'[r].visit = run[r].visit
        BY <1>1, <2>1, <3>1, WorkKeepsVisit
      <3> QED  BY <2>1, <3>1, <3>2, <3>3 DEF CurrentVisit
    <2>4. CASE worker'[w].pc = "act"
      <3>1. worker[w].pc = "check" /\ Owner(w) /\ Carries(w) /\ run' = run
        BY <1>1, <2>1, <2>4, DriverMoves
      <3> QED  BY <2>1, <3>1 DEF CurrentVisit, Carries
    <2> QED  BY <2>2, <2>3, <2>4
  <1>2. CASE worker'[w] = worker[w] /\ ~Driving(w)
    <2>1. r \in Runs /\ worker[w].run = r /\ worker[w].pc \in {"node", "check", "act"}
      BY <1>0, <1>2, DriverRun
    <2>2. exec[r] = w
      BY <1>0, <1>2, <2>1, HadSlot
    <2>3. /\ run[r].visit.node = worker[w].node
          /\ run[r].visit.iter = worker[w].iter
          /\ run[r].iter[worker[w].node] = worker[w].iter
      BY <2>1, <2>2 DEF CurrentVisit, Owner
    <2>4. ASSUME NEW v \in Workers, EnterNode(v), Owner(v), worker[v].run = r
          PROVE  FALSE
      <3>1. v = w
        BY <2>2, <2>4 DEF Owner
      <3> QED  BY <2>1, <2>4, <3>1 DEF EnterNode
    <2> QED  BY <1>2, <2>1, <2>3, <2>4, VisitStep DEF VisitKept, RowKept
  <1> QED  BY <1>0, <1>1, <1>2, OthersMove

LEMMA OutcomesFitStep ==
    ASSUME TypeInv, Undisturbed, OutcomesFit, "Cancel" \notin Calls, [Next]_vars,
           restarts' = restarts
    PROVE  OutcomesFit'
  <1> SUFFICES ASSUME NEW w \in Workers
               PROVE  /\ worker'[w].pc \in {"check", "act"} /\ worker'[w].out = "setup"
                            => worker'[w].node \in ClarifyNodes
                      /\ worker'[w].pc \in {"park", "wait"} => worker'[w].out = "paused"
                      /\ worker'[w].pc = "cleanup"
                            => run'[worker'[w].run].status # "waiting_human"
    BY DEF OutcomesFit, Status
  <1>0. {"check", "act", "park", "wait", "cleanup"} \subseteq DriverPC
    BY DEF DriverPC, SlotPC
  <1>1. CASE Driving(w)
    <2>1. PICK r \in Runs : worker[w].run = r /\ worker'[w].run = r
      BY <1>1, DrivingFrame, DriverRun DEF TypeInv
    <2>2. worker'[w].pc = "act" /\ worker'[w].out = "setup"
             => worker'[w].node \in ClarifyNodes
      BY <1>1, <2>1, DriverMoves DEF OutcomesFit, Carries
    <2>3. worker'[w].pc \in {"park", "wait"} => worker'[w].out = "paused"
      BY <1>1, <2>1, DriverMoves DEF OutcomesFit, Carries
    <2>4. /\ worker'[w].pc = "check" /\ worker'[w].out = "setup"
                => worker'[w].node \in ClarifyNodes
          /\ worker'[w].pc = "cleanup" => run'[r].status # "waiting_human"
      BY <1>1, <2>1, DriverMoves
    <2> QED  BY <2>1, <2>2, <2>3, <2>4
  <1>2. CASE worker'[w] = worker[w] /\ ~Driving(w)
    <2>1. CASE worker[w].pc = "cleanup"
      <3>1. PICK r \in Runs : worker[w].run = r
        BY <1>0, <2>1, DriverRun
      <3>2. run[r].status # "waiting_human" /\ exec[r] = w
        BY <1>0, <2>1, <3>1 DEF OutcomesFit, Status, Undisturbed, Owner
      <3>3. ASSUME NEW v \in Workers, ParkWrite(v), worker[v].run = r
            PROVE  FALSE
        <4>1. worker[v].pc = "wait" /\ "wait" \in DriverPC
          BY <1>0, <3>3 DEF ParkWrite
        <4>2. v = w
          BY <3>2, <3>3, <4>1 DEF Undisturbed, Owner
        <4> QED  BY <2>1, <4>1, <4>2
      <3>4. run'[r].status # "waiting_human"
        BY <3>2, <3>3, StatusStep DEF StatusFell, StatusKept, Ended
      <3> QED  BY <1>2, <2>1, <3>1, <3>4
    <2> QED  BY <1>2, <2>1 DEF OutcomesFit
  <1> QED  BY <1>0, <1>1, <1>2, OthersMove

LEMMA PauseCoveredStep ==
    ASSUME TypeInv, Undisturbed, OutcomesFit, PauseCovered, "Cancel" \notin Calls,
           [Next]_vars, restarts' = restarts
    PROVE  PauseCovered'
  <1> DEFINE gate(x) == [node |-> x.node, iter |-> x.iter, resolved |-> FALSE]
  <1> SUFFICES ASSUME NEW w \in Workers, worker'[w].pc \in PausePC,
                      worker'[w].out = "paused",
                      NEW r, r = worker'[w].run, exec'[r] = w,
                      run'[r].status \in {"running", "waiting_human"}
               PROVE  gate(worker'[w]) \in run'[r].gates \/ Awaited(r)'
    BY DEF PauseCovered, Owner, Active, Status, MyGate
  <1>0. PausePC \subseteq DriverPC /\ "load" \notin PausePC
    BY DEF DriverPC, SlotPC, PausePC
  \* The gate that was open, or whoever saw to it, before the step.
  <1>1. ASSUME worker[w].pc \in PausePC, worker[w].out = "paused", r \in Runs,
               worker[w].run = r, exec[r] = w, gate(worker'[w]) = gate(worker[w])
        PROVE  gate(worker'[w]) \in run'[r].gates \/ Awaited(r)'
    <2> HIDE DEF gate
    <2>1. Active(r) => gate(worker[w]) \in run[r].gates \/ Awaited(r)
      BY <1>1 DEF PauseCovered, Owner, MyGate, gate
    <2>2. CASE Awaited(r)
      <3>1. ~(exec'[r] # None /\ worker'[exec'[r]].pc \in {"load", "node"})
        BY DEF PausePC
      <3> QED  BY <1>1, <2>2, <3>1, AwaitStep
    <2>3. CASE gate(worker[w]) \in run[r].gates
      <3>1. ASSUME NEW v \in Workers, FinishCleanup(v), worker[v].run = r
            PROVE  FALSE
        <4>1. worker[v].pc = "cleanup" /\ "cleanup" \in DriverPC
          BY <3>1 DEF FinishCleanup, DriverPC, SlotPC
        <4>2. v = w
          BY <1>1, <3>1, <4>1 DEF Undisturbed, Owner
        <4> QED  BY <1>1, <4>1, <4>2 DEF PausePC
      <3> QED  BY <1>1, <2>3, <3>1, GatesStep DEF GatesKept
    <2>4. CASE ~Active(r)
      <3>1. ~StatusFell(r)
        BY <2>4 DEF StatusFell, StatusKept, Ended, Active, Status
      <3> QED  BY <1>1, <2>4, <3>1, StatusStep DEF Active
    <2> QED  BY <2>1, <2>2, <2>3, <2>4
  <1>2. CASE Driving(w)
    <2>1. r \in Runs /\ worker[w].run = r /\ exec' = exec
      BY <1>2, DrivingFrame, DriverRun DEF TypeInv
    <2>2. CASE worker'[w].pc = "check"
      BY <1>2, <2>1, <2>2, DriverMoves
    <2>3. CASE worker'[w].pc = "act"
      <3>1. worker[w].pc = "check" /\ Carries(w)
        BY <1>2, <2>1, <2>3, DriverMoves
      <3> QED  BY <1>1, <2>1, <3>1 DEF Carries, PausePC
    <2>4. CASE worker'[w].pc = "park"
      <3>1. worker[w].pc = "act" /\ Carries(w)
        BY <1>2, <2>1, <2>4, DriverMoves
      <3> QED  BY <1>1, <2>1, <3>1 DEF Carries, PausePC
    <2>5. CASE worker'[w].pc = "wait"
      <3>1. worker[w].pc = "park" /\ Carries(w)
        BY <1>2, <2>1, <2>5, DriverMoves
      <3> QED  BY <1>1, <2>1, <3>1 DEF Carries, PausePC
    <2> QED  BY <2>2, <2>3, <2>4, <2>5 DEF PausePC
  <1>3. CASE worker'[w] = worker[w] /\ ~Driving(w)
    <2>1. r \in Runs /\ worker[w].run = r
      BY <1>0, <1>3, DriverRun
    <2>2. exec[r] = w
      BY <1>0, <1>3, <2>1, HadSlot
    <2> QED  BY <1>1, <1>3, <2>1, <2>2
  <1> QED  BY <1>0, <1>2, <1>3, OthersMove

-----------------------------------------------------------------------------
(* Runs are covered                                                        *)

\* The gate of the pausing driver is the latest of its node.
LEMMA MyGateIsLatest ==
    ASSUME TypeInv, GatesCounted, CurrentVisit, NEW w \in Workers, NEW r \in Runs,
           worker[w].run = r, exec[r] = w, worker[w].pc = "act",
           MyGate(w) \in run[r].gates
    PROVE  GateOpen(r, worker[w].node)
  <1>1. run[r].iter[worker[w].node] = worker[w].iter
    BY DEF CurrentVisit, Owner
  <1>2. MyGate(w).node = worker[w].node /\ MyGate(w).iter = worker[w].iter
        /\ ~MyGate(w).resolved
    BY DEF MyGate
  <1>3. \A h \in run[r].gates : h.node = worker[w].node => h.iter <= worker[w].iter
    BY <1>1 DEF GatesCounted
  <1>4. MyGate(w) \in LatestGate(r, worker[w].node)
    BY <1>2, <1>3 DEF LatestGate
  <1> QED  BY <1>2, <1>4 DEF GateOpen

\* A failed set-up stays one until a driver enters a node.
LEMMA SetupStep ==
    ASSUME TypeInv, ExecSlotHeld, Undisturbed, "Cancel" \notin Calls, [Next]_vars,
           restarts' = restarts, NEW r \in Runs, SetupFailed(r)
    PROVE  SetupFailed(r)' \/ Held(r)'
  <1>1. CASE VisitKept(r) \/ run'[r].visit = run[r].visit
    BY <1>1 DEF SetupFailed, VisitKept, RowKept
  <1>2. CASE \E v \in Workers : EnterNode(v) /\ Owner(v) /\ worker[v].run = r
    <2>1. PICK v \in Workers : EnterNode(v) /\ Owner(v) /\ worker[v].run = r
      BY <1>2
    <2>2. exec'[r] = v /\ v # None
      BY <2>1 DEF EnterNode, Owner
    <2>3. worker' = [worker EXCEPT ![v].pc = "node", ![v].iter = run[r].iter[worker[v].node] + 1]
      BY <2>1 DEF EnterNode
    <2>4. worker'[v].pc = "node"
      BY <2>3 DEF TypeInv, WorkersOK, PlacedWorker, WorkerType
    <2> QED  BY <2>2, <2>4 DEF Held, Working, DriverPC, SlotPC
  <1> QED  BY <1>1, <1>2, VisitStep

\* A working driver that holds its run's slot either goes on working, ends or
\* parks the run, or leaves it with a failed set-up or to whoever answered.
LEMMA HeldDriving ==
    ASSUME AttendInv, "Cancel" \notin Calls, [Next]_vars, restarts' = restarts,
           NEW r \in Runs, NEW w \in Workers, exec[r] = w, worker[w].run = r,
           Driving(w), Working(w), Active(r), ~Awaited(r)
    PROVE  \/ Working(w)'
           \/ run'[r].status \in Ended
           \/ SetupFailed(r)'
           \/ run'[r].status = "waiting_human" /\ GatePending(r)'
  <1> USE DEF AttendInv
  <1>0. /\ worker[w] \in WorkerType /\ Owner(w)
        /\ Status(r) \in {"running", "waiting_human"}
    BY DEF TypeInv, WorkersOK, PlacedWorker, Owner, Active
  <1>1. ASSUME NEW l \in DriverPC \ {"cleanup", "end"}, worker'[w].pc = l
        PROVE  Working(w)'
    BY <1>1 DEF Working
  <1>2. ASSUME NEW l, Goto(w, l)
        PROVE  worker'[w].pc = l /\ worker'[w].out = worker[w].out
    BY <1>0, <1>2 DEF Goto, TypeInv, WorkersOK
  <1>3. {"load", "enter", "node", "check", "act", "park", "wait", "drained", "complete"}
          \subseteq DriverPC \ {"cleanup", "end"}
    BY DEF DriverPC, SlotPC
  \* Of a pausing driver the gate is open, for nobody has answered it.
  <1>4. ASSUME worker[w].pc \in PausePC, worker[w].out = "paused"
        PROVE  MyGate(w) \in run[r].gates
    BY <1>0, <1>4 DEF PauseCovered
  <1>5. CASE Load(w)
    BY <1>0, <1>1, <1>2, <1>3, <1>5 DEF Load, Ended
  <1>6. CASE EnterNode(w)
    <2>1. worker'[w].pc = "node"
      BY <1>0, <1>6 DEF EnterNode, TypeInv, WorkersOK, WorkerType
    <2> QED  BY <1>1, <1>3, <2>1
  <1>7. CASE ExecuteNode(w)
    <2>1. worker'[w].pc = "check"
      BY <1>0, <1>7 DEF ExecuteNode, TypeInv, WorkersOK, WorkerType
    <2> QED  BY <1>1, <1>3, <2>1
  <1>8. CASE CheckOwner(w)
    BY <1>0, <1>1, <1>2, <1>3, <1>8 DEF CheckOwner
  <1>9. CASE ActSuccess(w)
    <2>1. worker'[w].pc \in {"drained", "enter"}
      BY <1>0, <1>9 DEF ActSuccess, TypeInv, WorkersOK, WorkerType
    <2> QED  BY <1>1, <1>3, <2>1
  <1>10. CASE ActHalted(w)
    <2>1. worker'[w].pc = "cleanup" /\ worker'[w].out = "ok"
      BY <1>2, <1>10 DEF ActHalted
    <2> QED  BY <2>1 DEF Working
  <1>11. CASE ActPaused(w)
    <2>1. GateOpen(r, worker[w].node)
      BY <1>4, <1>11, MyGateIsLatest DEF ActPaused, PausePC
    <2>2. Goto(w, "park")
      BY <1>11, <2>1 DEF ActPaused, GateOpen, LatestGate
    <2> QED  BY <1>1, <1>2, <1>3, <2>2
  <1>12. CASE ActFailed(w)
    <2>1. CASE worker[w].out = "setup" /\ Save(w, "failed")
      <3>1. worker[w].node \in ClarifyNodes
        BY <1>12, <2>1 DEF ActFailed, OutcomesFit
      <3>2. run[r].visit.node = worker[w].node /\ run[r].visit.iter = worker[w].iter
        BY <1>0, <1>12 DEF ActFailed, CurrentVisit
      <3> DEFINE b == SaveState(run[r], worker[w].node, worker[w].iter, "failed")
      <3>r. run[r] \in Row
        BY DEF TypeInv, RowsOK
      <3>3. b.visit.st = "failed" /\ RowKept(run[r], b)
        <4> HIDE DEF AttendInv
        <4> QED  BY <3>2, <3>r, SaveStateKeeps
      <3>4. run' = [run EXCEPT ![r] = b]
        BY <2>1 DEF Save
      <3> HIDE DEF b
      <3>5. run'[r] = b
        BY <3>4, OneRow DEF TypeInv
      <3>6. SetupFailed(r)'
        BY <3>1, <3>2, <3>3, <3>5 DEF SetupFailed, RowKept
      <3> QED  BY <3>6
    <2>2. CASE \/ \E m : worker' = [worker EXCEPT ![w].pc = "enter", ![w].node = m]
               \/ worker' = [worker EXCEPT ![w].pc = "enter",
                                           ![w].tries[worker[w].node] = @ + 1]
      <3>1. worker'[w].pc = "enter"
        BY <1>0, <2>2 DEF TypeInv, WorkersOK, WorkerType
      <3> QED  BY <1>1, <1>3, <3>1
    <2>3. CASE run' = [run EXCEPT ![r] = [SaveState(@, worker[w].node,
                          worker[w].iter, "failed") EXCEPT !.status = "failed"]]
      <3>1. run'[r].status = "failed"
        BY <2>3, SaveEndsRow DEF Ended, TypeInv
      <3> QED  BY <3>1 DEF Ended
    <2> QED  BY <1>12, <2>1, <2>2, <2>3 DEF ActFailed
  <1>13. CASE Park(w)
    <2>1. GatePending(r)
      BY <1>4, <1>13 DEF Park, PausePC, OutcomesFit, GatePending, MyGate
    <2>2. Goto(w, "wait")
      BY <1>13, <2>1 DEF Park, GatePending
    <2> QED  BY <1>1, <1>2, <1>3, <2>2
  <1>14. CASE ParkWrite(w)
    <2>1. MyGate(w) \in run[r].gates /\ ~MyGate(w).resolved
      BY <1>4, <1>14 DEF ParkWrite, PausePC, OutcomesFit, MyGate
    <2>2. CASE Status(r) = "running"
      <3>1. SetStatus(r, "waiting_human")
        BY <1>14, <2>2 DEF ParkWrite, SetStatus
      <3>2. run'[r].status = "waiting_human" /\ run'[r].gates = run[r].gates
        BY <3>1, StatusSet DEF TypeInv
      <3> QED  BY <2>1, <3>2 DEF GatePending
    <2>3. CASE Status(r) # "running"
      <3>1. run' = run
        BY <1>14, <2>3 DEF ParkWrite
      <3>2. run[r].status = "waiting_human"
        BY <1>0, <2>3 DEF Status
      <3>3. GatePending(r)'
        BY <2>1, <3>1 DEF GatePending
      <3> QED  BY <3>1, <3>2, <3>3
    <2> QED  BY <2>2, <2>3
  <1>15. CASE FinishCleanup(w)
    <2>1. worker[w].out = "ok"
      BY <1>15 DEF FinishCleanup, Working
    <2> QED  BY <1>1, <1>2, <1>3, <1>15, <2>1 DEF FinishCleanup
  <1>16. CASE Drained(w)
    BY <1>0, <1>1, <1>2, <1>3, <1>16 DEF Drained
  <1>17. CASE Complete(w)
    <2>1. SetStatus(r, "completed")
      BY <1>17 DEF Complete, SetStatus
    <2>2. run'[r].status = "completed"
      BY <2>1, StatusSet DEF TypeInv
    <2> QED  BY <2>2 DEF Ended
  <1> QED
    BY <1>5, <1>6, <1>7, <1>8, <1>9, <1>10, <1>11, <1>12, <1>13, <1>14, <1>15, <1>16,
       <1>17 DEF Driving

\* A driver that works at its run moves by its own steps alone.
LEMMA WorkingStays ==
    ASSUME TypeInv, Undisturbed, "Cancel" \notin Calls, [Next]_vars, restarts' = restarts,
           NEW w \in Workers, worker[w].pc \in DriverPC \ {"end"}, ~Driving(w)
    PROVE  worker'[w] = worker[w]
  <1> USE DEF TypeInv
  <1>0. worker[w].pc \notin AdmissionPC \cup {"slot", "requeue", "release", "end", "none"}
    BY DEF DriverPC, SlotPC, AdmissionPC
  <1>1. CASE \E v \in Workers : SlotStepOf(v)
    <2>1. PICK v \in Workers : SlotStepOf(v)
      BY <1>1
    <2>2. v # w
      BY <1>0, <2>1 DEF SlotStepOf, TakeExecuteSlot, ExecuteSlotTimeout, Requeue,
         EndExecute, ReleaseSlot
    <2>3. PICK r \in Runs : r = worker[w].run
      BY DriverRun
    <2> QED  BY <2>1, <2>2, <2>3, SlotRow
  <1>2. CASE \E v \in Workers : Admission(v)
    <2>1. PICK v \in Workers : Admission(v)
      BY <1>2
    <2>2. v # w
      BY <1>0, <2>1 DEF Admission, Admit, AdmitDirect, AdmitClear, QueueForAdmission,
         AdmissionPC
    <2>3. worker'[w] = worker[w]
      BY <2>1, <2>2 DEF Admission, Admit, AdmitDirect, AdmitClear, QueueForAdmission,
         Goto, WorkersOK
    <2> QED  BY <2>3
  <1>3. CASE \E v \in Workers : Driving(v)
    BY <1>3, DrivingFrame
  <1>4. CASE Dispatch \/ \E q \in Requests : Answering(q)
    <2>1. UNCHANGED worker \/ \E l \in {"admit", "slot"} : \E x, n : Spawn(l, x, n)
      BY <1>4 DEF Dispatch, DispAcquire, DispGiveUp, DispRead, DispClaim, DispClear,
         Answering, GateResolve, GateAdvance, GateHalted, GateComplete, ResumeIdle,
         ResumeLaunch
    <2> QED  BY <1>0, <2>1, SpawnFrame
  <1>5. CASE Quiet
    BY <1>5, QuietFrame
  <1> QED  BY <1>1, <1>2, <1>3, <1>4, <1>5, StepCases

\* What a held run may become.
LEMMA HeldStep ==
    ASSUME AttendInv, "Cancel" \notin Calls, [Next]_vars, restarts' = restarts,
           NEW r \in Runs, Held(r), Active(r), ~Awaited(r)
    PROVE  \/ Held(r)' \/ Awaited(r)' \/ SetupFailed(r)'
           \/ run'[r].status \in Ended
           \/ run'[r].status = "waiting_human" /\ GatePending(r)'
  <1>0. TypeInv /\ ExecSlotHeld /\ Undisturbed
    BY DEF AttendInv
  <1>1. PICK w \in Workers : w = exec[r] /\ w # None
    BY <1>0 DEF Held, TypeInv, ExecOK
  <1>2. worker[w].run = r /\ Working(w) /\ Owner(w) /\ worker[w].pc \in DriverPC \ {"end"}
    BY <1>0, <1>1 DEF Held, ExecSlotHeld, Working, Owner, DriverPC, SlotPC
  <1>3. CASE Driving(w)
    <2>1. exec'[r] = w
      BY <1>0, <1>1, <1>3, DrivingFrame DEF TypeInv
    <2>2. Working(w)' => Held(r)'
      BY <1>1, <2>1 DEF Held, Working
    <2> QED  BY <1>1, <1>2, <1>3, <2>2, HeldDriving
  <1>4. CASE ~Driving(w)
    <2>1. worker'[w] = worker[w]
      BY <1>0, <1>2, <1>4, WorkingStays
    <2>2. CASE exec'[r] = w
      BY <1>1, <1>2, <2>1, <2>2 DEF Held, Working
    <2>3. CASE exec'[r] # w
      BY <1>0, <1>2, <2>1, <2>3, KeepsSlot
    <2> QED  BY <2>2, <2>3
  <1> QED  BY <1>3, <1>4

LEMMA CoveredStep ==
    ASSUME AttendInv, "Cancel" \notin Calls, [Next]_vars, restarts' = restarts
    PROVE  Covered'
  <1>0. TypeInv /\ ExecSlotHeld /\ Undisturbed
    BY DEF AttendInv
  <1> SUFFICES ASSUME NEW r \in Runs
               PROVE  /\ run'[r].status = "running"
                           => Awaited(r)' \/ Held(r)' \/ SetupFailed(r)'
                      /\ run'[r].status = "waiting_human" /\ restarts = 0
                           => Awaited(r)' \/ Held(r)' \/ SetupFailed(r)' \/ GatePending(r)'
    BY DEF Covered, Status
  <1>1. CASE run'[r].status \notin {"running", "waiting_human"}
    BY <1>1
  <1>2. CASE Awaited(r) /\ run'[r].status \in {"running", "waiting_human"}
    <2>1. CASE exec'[r] # None /\ worker'[exec'[r]].pc \in {"load", "node"}
      <3>1. Held(r)'
        BY <2>1 DEF Held, Working, DriverPC, SlotPC
      <3> QED  BY <3>1
    <2> QED  BY <1>0, <1>2, <2>1, AwaitStep
  <1>3. CASE ~Active(r) /\ run'[r].status \in {"running", "waiting_human"}
    <2>1. ~StatusFell(r) /\ Status(r) # "running"
      BY <1>3 DEF StatusFell, StatusKept, Active, Status, Ended
    <2> QED  BY <1>0, <2>1, StatusStep
  <1>4. CASE Active(r) /\ ~Awaited(r) /\ SetupFailed(r)
    BY <1>0, <1>4, SetupStep
  <1>5. CASE Active(r) /\ ~Awaited(r) /\ Held(r)
    BY <1>5, HeldStep DEF Ended
  <1>6. CASE Status(r) = "waiting_human" /\ restarts = 0 /\ GatePending(r)
    <2>1. ASSUME NEW v \in Workers, FinishCleanup(v), worker[v].run = r
          PROVE  FALSE
      BY <1>6, <2>1 DEF FinishCleanup, AttendInv, OutcomesFit
    <2>2. GatesKept(r) \/ Awaited(r)'
      BY <1>0, <2>1, GatesStep
    <2>3. GatesKept(r) => GatePending(r)'
      BY <1>6 DEF GatePending, GatesKept
    <2>4. run'[r].status = "running" => Awaited(r)'
      BY <1>0, <1>6, StatusStep DEF StatusFell, StatusKept, Status, Ended
    <2> QED  BY <2>2, <2>3, <2>4
  <1>7. CASE Status(r) = "waiting_human" /\ restarts # 0 /\ ~Awaited(r)
    <2>1. run'[r].status = "running" => Awaited(r)'
      BY <1>0, <1>7, StatusStep DEF StatusFell, StatusKept, Status, Ended
    <2> QED  BY <1>7, <2>1
  <1> QED
    BY <1>1, <1>2, <1>3, <1>4, <1>5, <1>6, <1>7 DEF AttendInv, Covered, Active, Status

(* The whole invariant                                                     *)

LEMMA AttendInit == Init => AttendInv
  <1> SUFFICES ASSUME Init PROVE AttendInv
    OBVIOUS
  <1>1. TypeInv
    BY TypeInit
  <1>2. \A w \in Workers : worker[w].pc = "none"
    BY DEF Init, NoWorker
  <1>3. \A q \in Requests : req[q].pc = "new"
    BY DEF Init, NewRequest
  <1>4. \A r \in Runs : exec[r] = None /\ Status(r) = "new" /\ run[r].gates = {}
    BY DEF Init, Status
  <1>5. "none" \notin DriverPC
    BY DEF DriverPC, SlotPC
  <1>6. ExecSlotHeld /\ Undisturbed /\ GatesCounted /\ CurrentVisit
    BY <1>2, <1>3, <1>4, <1>5 DEF ExecSlotHeld, Undisturbed, GatesCounted, CurrentVisit
  <1>7. OutcomesFit /\ PauseCovered /\ Covered
    BY <1>2, <1>4 DEF OutcomesFit, PauseCovered, PausePC, Covered
  <1> QED  BY <1>1, <1>6, <1>7 DEF AttendInv

LEMMA ReconciledKeeps ==
    ASSUME NEW row \in Row
    PROVE  LET b == Reconciled(row) IN
           b.iter = row.iter /\ b.gates = row.gates /\ b.status # "running"
  BY DEF Reconciled, VisitBecomes, Row

LEMMA AttendRestart ==
    ASSUME AttendInv, Restart
    PROVE  AttendInv'
  <1>0. TypeInv /\ ExecSlotHeld /\ GatesCounted /\ restarts \in Nat
    BY DEF AttendInv, TypeInv, RestOK
  <1>1. [Next]_vars
    BY DEF Next
  <1>2. TypeInv' /\ ExecSlotHeld'
    BY <1>0, <1>1, TypeStep, ExecHeldStep
  <1>3. \A w \in Workers : worker'[w].pc = "none"
    BY DEF Restart, NoWorker
  <1>4. \A q \in Requests : req'[q].pc \in {"new", "done"}
    BY DEF Restart, NewRequest
  <1>5. \A r \in Runs : /\ run'[r].iter = run[r].iter /\ run'[r].gates = run[r].gates
                        /\ run'[r].status # "running"
    <2> TAKE r \in Runs
    <2>1. run[r] \in Row /\ run'[r] = Reconciled(run[r])
      BY <1>0 DEF Restart, TypeInv, RowsOK
    <2> QED  BY <2>1, ReconciledKeeps
  <1>6. restarts' # 0
    BY <1>0 DEF Restart
  <1>7. "none" \notin DriverPC
    BY DEF DriverPC, SlotPC
  <1>8. Undisturbed' /\ CurrentVisit' /\ OutcomesFit' /\ PauseCovered'
    BY <1>3, <1>4, <1>7 DEF Undisturbed, CurrentVisit, OutcomesFit, PauseCovered, PausePC
  <1>9. GatesCounted'
    BY <1>0, <1>3, <1>5 DEF GatesCounted
  <1>10. Covered'
    BY <1>5, <1>6 DEF Covered, Status
  <1> QED  BY <1>2, <1>8, <1>9, <1>10 DEF AttendInv

LEMMA AttendStep ==
    ASSUME AttendInv, "Cancel" \notin Calls, [Next]_vars
    PROVE  AttendInv'
  <1>0. /\ TypeInv /\ ExecSlotHeld /\ Undisturbed /\ GatesCounted /\ CurrentVisit
        /\ OutcomesFit /\ PauseCovered
    BY DEF AttendInv
  <1>1. CASE Restart
    BY <1>1, AttendRestart
  <1>2. CASE ~Restart
    <2>1. restarts' = restarts
      BY <1>2 DEF Next, StartRun, UpdateRunPriority, SetMaxConcurrent, Halt, Dispatch,
         DispAcquire, DispGiveUp, DispRead, DispClaim, DispClear, Admission, Admit,
         AdmitDirect, AdmitClear, QueueForAdmission, Drive, TakeExecuteSlot,
         ExecuteSlotTimeout, Requeue, Load, EnterNode, ExecuteNode, CheckOwner,
         ActSuccess, ActHalted, ActPaused, ActFailed, Park, ParkWrite, FinishCleanup,
         Drained, Complete, EndExecute, ReleaseSlot, CancelRead, GateRead, ResumeRead,
         InFlight, CancelFinish, CancelCleanup, CancelForce, GateResolve, GateAdvance,
         GateHalted, GateComplete, ResumeIdle, ResumeLaunch, vars
    <2>2. TypeInv' /\ ExecSlotHeld'
      BY <1>0, TypeStep, ExecHeldStep
    <2>3. Undisturbed'
      BY <1>0, <2>1, UndisturbedStep
    <2>4. GatesCounted'
      BY <1>0, <2>1, GatesCountedStep
    <2>5. CurrentVisit'
      BY <1>0, <2>1, CurrentVisitStep
    <2>6. OutcomesFit'
      BY <1>0, <2>1, OutcomesFitStep
    <2>7. PauseCovered'
      BY <1>0, <2>1, PauseCoveredStep
    <2>8. Covered'
      BY <2>1, CoveredStep
    <2> QED  BY <2>2, <2>3, <2>4, <2>5, <2>6, <2>7, <2>8 DEF AttendInv
  <1> QED  BY <1>1, <1>2

LEMMA AttendAlways ==
    ASSUME "Cancel" \notin Calls
    PROVE  Spec => []AttendInv
  <1>1. AttendInv /\ [Next]_vars => AttendInv'
    BY AttendStep
  <1> QED  BY AttendInit, <1>1, PTL DEF Spec

-----------------------------------------------------------------------------

\* On a server whose clients do not cancel, a run that says it is running has a
\* goroutine or a request that will act on it, or is left to ResumeFrom by a failed
\* set-up: for any number of runs, workers, requests and restarts and any graph.
\* A run that nobody acts on would keep its status until the server restarts.
THEOREM RunsAreAttended ==
    ASSUME "Cancel" \notin Calls
    PROVE  Spec => []RunningIsAttended
  <1>1. AttendInv => RunningIsAttended
    BY AttendedFollows
  <1> QED  BY <1>1, AttendAlways, PTL

\* There, and until the server is restarted for the first time, a run that waits
\* for a human has an open gate, or its answer is being carried out: a restart
\* forgets the goroutine that carries an answer out.
THEOREM AnswersAreAwaited ==
    ASSUME "Cancel" \notin Calls
    PROVE  Spec => [](restarts = 0 => WaitingIsAnswerable)
  <1>1. AttendInv => (restarts = 0 => WaitingIsAnswerable)
    BY AttendedFollows
  <1> QED  BY <1>1, AttendAlways, PTL
=============================================================================
