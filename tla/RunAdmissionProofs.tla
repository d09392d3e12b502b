-------------------------- MODULE RunAdmissionProofs --------------------------
(***************************************************************************)
(* Proofs about RunAdmission for any runs, workers, requests and graphs.   *)
(***************************************************************************)
EXTENDS RunAdmission, TLAPS, FiniteSetTheorems, WellFoundedInduction

-----------------------------------------------------------------------------
(* Rows of the database                                                    *)

USE AdmissionAssumption

VisitType == [node : Nodes, iter : Nat, st : VisitStatus]

\* The updates the code makes to one row keep it a row.
LEMMA RowFields ==
    ASSUME NEW row \in Row
    PROVE  /\ \A st \in RunStatus : [row EXCEPT !.status = st] \in Row
           /\ \A p \in Priorities : [row EXCEPT !.prio = p] \in Row
           /\ \A n \in Nodes \cup {0} : [row EXCEPT !.adm = n] \in Row
           /\ \A v \in VisitType : [row EXCEPT !.visit = v] \in Row
           /\ \A F \in SUBSET Nodes : [row EXCEPT !.failures = F] \in Row
           /\ \A G \in SUBSET GateRow : [row EXCEPT !.gates = G] \in Row
           /\ \A f \in [Nodes -> Nat] : [row EXCEPT !.iter = f] \in Row
  BY DEF Row, VisitType

LEMMA VisitBecomesType ==
    ASSUME NEW row \in Row, NEW n, NEW i, NEW st \in VisitStatus
    PROVE  VisitBecomes(row, n, i, st) \in Row
  <1> DEFINE v == [row.visit EXCEPT !.st = st]
             F == IF st = "failed" THEN row.failures \cup {n} ELSE row.failures
             a == [row EXCEPT !.visit = v]
  <1>1. CASE row.visit.node = n /\ row.visit.iter = i
    <2>1. v \in VisitType
      BY DEF Row, VisitType
    <2>2. n \in Nodes /\ F \in SUBSET Nodes
      BY <1>1 DEF Row
    <2>3. a \in Row
      BY <2>1, RowFields
    <2>4. [a EXCEPT !.failures = F] \in Row
      BY <2>2, <2>3, RowFields
    <2>5. VisitBecomes(row, n, i, st) = [a EXCEPT !.failures = F]
      BY <1>1 DEF VisitBecomes, Row
    <2> QED  BY <2>4, <2>5
  <1>2. CASE ~(row.visit.node = n /\ row.visit.iter = i)
    BY <1>2 DEF VisitBecomes
  <1> QED  BY <1>1, <1>2

LEMMA SaveStateType ==
    ASSUME NEW row \in Row, NEW n, NEW i, NEW st \in VisitStatus
    PROVE  SaveState(row, n, i, st) \in Row
  BY VisitBecomesType DEF SaveState

LEMMA FinalizedType ==
    ASSUME NEW row \in Row, NEW st \in VisitStatus
    PROVE  Finalized(row, st) \in Row
  BY VisitBecomesType DEF Finalized

LEMMA SupersededType ==
    ASSUME NEW row \in Row
    PROVE  Superseded(row) \in Row
  <1> DEFINE G == {[g EXCEPT !.resolved = TRUE] : g \in row.gates}
  <1>1. \A g \in GateRow : [g EXCEPT !.resolved = TRUE] \in GateRow
    BY DEF GateRow
  <1>2. G \in SUBSET GateRow
    BY <1>1 DEF Row
  <1>3. Superseded(row) = [row EXCEPT !.gates = G]
    BY DEF Superseded
  <1> HIDE DEF G
  <1> QED  BY <1>2, <1>3, RowFields

LEMMA ReconciledType ==
    ASSUME NEW row \in Row
    PROVE  Reconciled(row) \in Row
  <1> DEFINE closed == IF row.visit.st = "running"
                       THEN VisitBecomes(row, row.visit.node, row.visit.iter, "failed")
                       ELSE row
  <1>1. closed \in Row
    BY VisitBecomesType DEF VisitStatus
  <1>2. Reconciled(row) \in {closed, [closed EXCEPT !.status = "failed"]}
    BY DEF Reconciled
  <1> HIDE DEF closed
  <1> QED  BY <1>1, <1>2, RowFields DEF RunStatus

-----------------------------------------------------------------------------
(* The dispatcher's choice exists                                          *)

LEMMA LeastExists ==
    ASSUME NEW S \in SUBSET Nat, S # {}
    PROVE  \E x \in S : \A y \in S : x <= y
  <1>1. PICK x \in S : \A y \in S : ~(<<y, x>> \in OpToRel(<, Nat))
    BY NatLessThanWellFounded, WFMin
  <1>2. \A y \in S : ~(y < x)
    BY <1>1 DEF OpToRel
  <1> QED  BY <1>2

LEMMA OldestType ==
    ASSUME NEW S \in SUBSET Runs, S # {}
    PROVE  Oldest(S) \in S
  BY LeastExists DEF Oldest

\* Among numbers with an upper bound one is the greatest.
LEMMA GreatestExists ==
    ASSUME NEW S \in SUBSET Nat, S # {}, NEW p \in Nat, \A x \in S : x <= p
    PROVE  \E x \in S : \A y \in S : y <= x
  <1> DEFINE Below == {n \in Nat : p - n \in S}
  <1>1. \A x \in S : p - x \in Below
    <2> TAKE x \in S
    <2>1. x \in Nat /\ x <= p /\ p - (p - x) = x
      OBVIOUS
    <2> QED  BY <2>1
  <1>2. Below \in SUBSET Nat /\ Below # {}
    BY <1>1
  <1>3. PICK d \in Below : \A e \in Below : d <= e
    <2> HIDE DEF Below
    <2> QED  BY <1>2, LeastExists
  <1>4. p - d \in S
    BY <1>3
  <1>5. \A y \in S : y <= p - d
    <2> TAKE y \in S
    <2>1. d <= p - y /\ y \in Nat /\ d \in Nat
      BY <1>1, <1>3
    <2> QED  BY <2>1
  <1> QED  BY <1>4, <1>5

\* Some queued run is of the highest queued priority.
LEMMA BandInhabited ==
    ASSUME run \in [Runs -> Row], Queued # {}
    PROVE  \E r \in Queued : \A x \in Queued : run[x].prio <= run[r].prio
  <1> DEFINE prios == {run[r].prio : r \in Queued}
  <1>1. Queued \subseteq Runs /\ \A r \in Runs : run[r].prio \in Priorities
    BY DEF Row, Queued
  <1>2. prios \in SUBSET Priorities /\ prios # {}
    <2>1. \A y \in prios : y \in Priorities
      BY <1>1
    <2>2. PICK r \in Queued : TRUE
      OBVIOUS
    <2>3. run[r].prio \in prios
      OBVIOUS
    <2> HIDE DEF prios
    <2> QED  BY <2>1, <2>3
  <1>3. PICK m \in prios : \A y \in prios : y <= m
    <2> HIDE DEF prios
    <2>1. PICK p \in Priorities : \A x \in Priorities : x <= p
      OBVIOUS
    <2> QED  BY <1>2, <2>1, GreatestExists
  <1>4. PICK r \in Queued : m = run[r].prio
    BY <1>3
  <1>5. \A z \in Queued : run[z].prio <= run[r].prio
    BY <1>3, <1>4
  <1> QED  BY <1>4, <1>5

LEMMA PickQueuedType ==
    ASSUME run \in [Runs -> Row], Queued # {}
    PROVE  PickQueued \in Queued
  <1> DEFINE band == {r \in Queued : \A x \in Queued : run[x].prio <= run[r].prio}
             gated == {r \in band : HasRemainingHumanGate(ContinueFrom(r))}
  <1>1. band # {} /\ band \subseteq Queued /\ gated \subseteq band
    BY BandInhabited
  <1>2. PickQueued = Oldest(IF gated # {} THEN gated ELSE band)
    BY DEF PickQueued
  <1> HIDE DEF band, gated
  <1> QED  BY <1>1, <1>2, OldestType DEF Queued

-----------------------------------------------------------------------------
(* Type correctness                                                        *)
(*                                                                         *)
(* A goroutine or request that is under way names the run, and as long as  *)
(* it needs it the node, it works on: the records of TypeOK so restricted. *)

WorkerType == [pc : WorkerPC, run : Runs \cup {None}, node : Nodes \cup {0},
               iter : Nat, out : Outcomes, tries : [Nodes -> Nat]]
NodePC == WorkerPC \ {"none", "drained", "complete", "end", "release"}
PlacedWorker == {x \in WorkerType : /\ x.pc # "none" => x.run \in Runs
                                    /\ x.pc \in NodePC => x.node \in Nodes}

DispType == [pc : {"idle", "read", "claim", "clear"}, run : Runs \cup {None},
             node : Nodes \cup {0}]
PlacedDisp == {d \in DispType : /\ d.pc \in {"claim", "clear"} => d.run \in Runs
                                /\ d.pc = "clear" => d.node \in Nodes}

RequestType == [pc : RequestPC, run : Runs \cup {None}, node : Nodes \cup {0},
                iter : Nat, seen : RunStatus]
GatePC == {"resolve", "advance", "halt", "complete"}
PlacedRequest == {x \in RequestType :
                    /\ x.pc \notin {"new", "done"} => x.run \in Runs
                    /\ x.pc \in GatePC => x.node \in GateNodes
                    /\ x.pc \in {"idle", "launch"} => x.node \in Nodes}

RowsOK == run \in [Runs -> Row]
WorkersOK == worker \in [Workers -> PlacedWorker]
DispOK == disp \in PlacedDisp
RequestsOK == req \in [Requests -> PlacedRequest]
SemOK == sem \in [cur : Nat, limit : 1..MaxLimit]
ExecOK == exec \in [Runs -> Workers \cup {None}]
RestOK == halted \in BOOLEAN /\ restarts \in 0..MaxRestarts

TypeInv == RowsOK /\ WorkersOK /\ DispOK /\ RequestsOK /\ SemOK /\ ExecOK /\ RestOK

LEMMA TypeInvImpliesTypeOK == TypeInv => TypeOK
  <1> SUFFICES ASSUME TypeInv PROVE TypeOK
    OBVIOUS
  <1>1. worker \in [Workers -> WorkerType] /\ disp \in DispType
        /\ req \in [Requests -> RequestType]
    BY DEF TypeInv, WorkersOK, DispOK, RequestsOK, PlacedWorker, PlacedDisp,
           PlacedRequest
  <1>2. AdmissionPC \cup {"slot", "load", "requeue", "enter", "node"} \subseteq NodePC
    BY DEF AdmissionPC, NodePC, WorkerPC, SlotPC
  <1>3. \A w \in Workers : worker[w].pc \in NodePC
                              => worker[w].run \in Runs /\ worker[w].node \in Nodes
    BY DEF TypeInv, WorkersOK, PlacedWorker, NodePC
  <1>4. \A w \in Workers :
           worker[w].pc \in AdmissionPC \cup {"slot", "load", "requeue", "enter", "node"}
             => worker[w].run \in Runs /\ worker[w].node \in Nodes
    BY <1>2, <1>3
  <1> QED
    BY <1>1, <1>4 DEF TypeInv, TypeOK, RowsOK, SemOK, ExecOK, RestOK,
                      WorkerType, DispType, RequestType

LEMMA TypeInit == Init => TypeInv
  <1> SUFFICES ASSUME Init PROVE TypeInv
    OBVIOUS
  <1>1. RowsOK
    <2>1. {[n \in Nodes |-> 0]} \subseteq [Nodes -> Nat]
      OBVIOUS
    <2>2. {[node |-> Start, iter |-> 0, st |-> "none"]} \subseteq VisitType
      BY DEF VisitType, VisitStatus
    <2>3. [status : {"new"}, prio : Priorities, adm : {0},
           iter : {[n \in Nodes |-> 0]},
           visit : {[node |-> Start, iter |-> 0, st |-> "none"]},
           failures : {{}}, gates : {{}}] \subseteq Row
      BY <2>1, <2>2 DEF Row, RunStatus, VisitType
    <2> QED  BY <2>3 DEF Init, RowsOK
  <1>2. NoWorker \in PlacedWorker
    BY DEF NoWorker, PlacedWorker, WorkerType, WorkerPC, NodePC, Outcomes
  <1>3. IdleDisp \in PlacedDisp
    BY DEF IdleDisp, PlacedDisp, DispType
  <1>4. NewRequest \in PlacedRequest
    BY DEF NewRequest, PlacedRequest, RequestType, RequestPC, RunStatus, GatePC
  <1>5. WorkersOK /\ DispOK /\ RequestsOK
    BY <1>2, <1>3, <1>4 DEF Init, WorkersOK, DispOK, RequestsOK
  <1>6. SemOK
    BY DEF Init, SemOK
  <1>7. ExecOK
    BY DEF Init, ExecOK
  <1>8. RestOK
    <2>1. halted = FALSE /\ restarts = 0
      BY DEF Init
    <2>2. restarts \in 0..MaxRestarts
      BY <2>1
    <2> QED  BY <2>1, <2>2 DEF RestOK
  <1> QED  BY <1>1, <1>5, <1>6, <1>7, <1>8 DEF TypeInv

(* How the state is updated.                                               *)

LEMMA RowUpdate ==
    ASSUME RowsOK, NEW r \in Runs, NEW row \in Row, run' = [run EXCEPT ![r] = row]
    PROVE  RowsOK'
  BY DEF RowsOK

LEMMA StatusType ==
    ASSUME RowsOK, NEW r \in Runs, NEW st \in RunStatus, SetStatus(r, st)
    PROVE  RowsOK'
  <1>1. run' = [run EXCEPT ![r] = [run[r] EXCEPT !.status = st]]
    BY DEF SetStatus
  <1>2. [run[r] EXCEPT !.status = st] \in Row
    BY RowFields DEF RowsOK
  <1> QED  BY <1>1, <1>2, RowUpdate

LEMMA SemType ==
    ASSUME SemOK, TryAcquire \/ Release
    PROVE  SemOK'
  <1>1. CASE TryAcquire
    BY <1>1 DEF SemOK, TryAcquire
  <1>2. CASE Release
    <2> DEFINE c == IF sem.cur > 0 THEN sem.cur - 1 ELSE sem.cur
    <2>1. c \in Nat
      BY DEF SemOK
    <2>2. sem' = [sem EXCEPT !.cur = c]
      BY <1>2 DEF Release
    <2> HIDE DEF c
    <2> QED  BY <2>1, <2>2 DEF SemOK
  <1> QED  BY <1>1, <1>2

LEMMA WorkerUpdate ==
    ASSUME WorkersOK, NEW w \in Workers, NEW x \in PlacedWorker,
           worker' = [worker EXCEPT ![w] = x]
    PROVE  WorkersOK'
  BY DEF WorkersOK

LEMMA GotoType ==
    ASSUME WorkersOK, NEW w \in Workers, NEW l \in WorkerPC, Goto(w, l),
           worker[w].pc # "none", worker[w].pc \in NodePC \/ l \notin NodePC
    PROVE  WorkersOK'
  <1>1. worker' = [worker EXCEPT ![w] = [worker[w] EXCEPT !.pc = l]]
    BY DEF Goto
  <1>2. [worker[w] EXCEPT !.pc = l] \in PlacedWorker
    BY DEF WorkersOK, PlacedWorker, WorkerType
  <1> QED  BY <1>1, <1>2, WorkerUpdate

LEMMA NoWorkerPlaced == NoWorker \in PlacedWorker
  BY DEF NoWorker, PlacedWorker, WorkerType, WorkerPC, NodePC, Outcomes

LEMMA SpawnType ==
    ASSUME WorkersOK, NEW r \in Runs, NEW n \in Nodes, NEW l \in {"admit", "slot"},
           Spawn(l, r, n)
    PROVE  WorkersOK'
  <1> DEFINE x == [NoWorker EXCEPT !.pc = l, !.run = r, !.node = n]
  <1>1. PICK w \in Workers : worker' = [worker EXCEPT ![w] = x]
    BY DEF Spawn
  <1>2. l \in WorkerPC
    BY DEF WorkerPC, SlotPC
  <1>3. \A y \in WorkerType :
           [y EXCEPT !.pc = l, !.run = r, !.node = n] \in PlacedWorker
    BY <1>2 DEF PlacedWorker, WorkerType
  <1>4. x \in PlacedWorker
    BY <1>3, NoWorkerPlaced DEF PlacedWorker
  <1> HIDE DEF x
  <1> QED  BY <1>1, <1>4, WorkerUpdate

LEMMA StepType ==
    ASSUME RequestsOK, NEW q \in Requests, NEW l \in RequestPC, Step(q, l),
           req[q].pc \notin {"new", "done"},
           l \in GatePC => req[q].pc \in GatePC,
           l \in {"idle", "launch"} => req[q].pc \in {"idle", "launch"}
    PROVE  RequestsOK'
  <1>1. [req[q] EXCEPT !.pc = l] \in PlacedRequest
    BY DEF RequestsOK, PlacedRequest, RequestType
  <1>2. req' = [req EXCEPT ![q] = [req[q] EXCEPT !.pc = l]]
    BY DEF Step
  <1> QED  BY <1>1, <1>2 DEF RequestsOK

(* The dispatcher.                                                         *)

LEMMA DispatchType ==
    ASSUME TypeInv, Dispatch
    PROVE  TypeInv'
  <1> USE DEF TypeInv
  <1>1. CASE DispAcquire
    <2>1. disp' \in PlacedDisp
      BY <1>1 DEF DispAcquire, DispOK, PlacedDisp, DispType
    <2>2. SemOK'
      BY <1>1, SemType DEF DispAcquire
    <2> QED
      BY <1>1, <2>1, <2>2 DEF DispAcquire, RowsOK, WorkersOK, DispOK, RequestsOK,
                              ExecOK, RestOK
  <1>2. CASE DispGiveUp
    <2>1. disp' \in PlacedDisp
      BY <1>2 DEF DispGiveUp, IdleDisp, PlacedDisp, DispType
    <2>2. SemOK'
      BY <1>2, SemType DEF DispGiveUp
    <2> QED
      BY <1>2, <2>1, <2>2 DEF DispGiveUp, RowsOK, WorkersOK, DispOK, RequestsOK,
                              ExecOK, RestOK
  <1>3. CASE DispRead
    <2>1. PickQueued \in Runs
      BY <1>3, PickQueuedType DEF DispRead, Queued, RowsOK
    <2>2. run[PickQueued].adm \in Nodes \cup {0}
      BY <2>1 DEF RowsOK, Row
    <2>3. disp' \in PlacedDisp
      BY <1>3, <2>1, <2>2 DEF DispRead, PlacedDisp, DispType
    <2> QED
      BY <1>3, <2>3 DEF DispRead, RowsOK, WorkersOK, DispOK, RequestsOK, SemOK,
                        ExecOK, RestOK
  <1>4. CASE DispClaim
    <2>1. disp.run \in Runs /\ disp.node \in Nodes \cup {0}
      BY <1>4 DEF DispClaim, DispOK, PlacedDisp, DispType
    <2>2. RowsOK'
      BY <1>4, <2>1, StatusType DEF DispClaim, RunStatus
    <2>3. WorkersOK' /\ DispOK'
      <3>1. CASE disp.node = 0
        <4>1. Spawn("slot", disp.run, Start) /\ disp' = IdleDisp
          BY <1>4, <3>1 DEF DispClaim
        <4>2. WorkersOK'
          BY <2>1, <4>1, SpawnType
        <4>3. DispOK'
          BY <4>1 DEF IdleDisp, DispOK, PlacedDisp, DispType
        <4> QED  BY <4>2, <4>3
      <3>2. CASE disp.node # 0
        <4>1. disp' = [disp EXCEPT !.pc = "clear"] /\ worker' = worker
          BY <1>4, <3>2 DEF DispClaim
        <4>2. DispOK'
          BY <2>1, <3>2, <4>1 DEF DispOK, PlacedDisp, DispType
        <4> QED  BY <4>1, <4>2 DEF WorkersOK
      <3> QED  BY <3>1, <3>2
    <2> QED
      BY <1>4, <2>2, <2>3 DEF DispClaim, RequestsOK, SemOK, ExecOK, RestOK
  <1>5. CASE DispClear
    <2>1. disp.run \in Runs /\ disp.node \in Nodes
      BY <1>5 DEF DispClear, DispOK, PlacedDisp
    <2>2. RowsOK'
      <3>1. run' = [run EXCEPT ![disp.run] = [run[disp.run] EXCEPT !.adm = 0]]
        BY <1>5 DEF DispClear
      <3>2. [run[disp.run] EXCEPT !.adm = 0] \in Row
        BY <2>1, RowFields DEF RowsOK
      <3> QED  BY <2>1, <3>1, <3>2, RowUpdate
    <2>3. WorkersOK'
      BY <1>5, <2>1, SpawnType DEF DispClear
    <2>4. DispOK'
      BY <1>5 DEF DispClear, IdleDisp, DispOK, PlacedDisp, DispType
    <2> QED
      BY <1>5, <2>2, <2>3, <2>4 DEF DispClear, RequestsOK, SemOK, ExecOK, RestOK
  <1> QED  BY <1>1, <1>2, <1>3, <1>4, <1>5 DEF Dispatch

(* Admission by a worker.                                                  *)

LEMMA AdmissionType ==
    ASSUME TypeInv, NEW w \in Workers, Admission(w)
    PROVE  TypeInv'
  <1> USE DEF TypeInv
  <1> DEFINE r == worker[w].run
  <1>0. worker[w].pc \in AdmissionPC
    BY DEF Admission, Admit, AdmitDirect, AdmitClear, QueueForAdmission, AdmissionPC
  <1>1. r \in Runs /\ worker[w].node \in Nodes /\ worker[w].pc \in NodePC
    BY <1>0 DEF AdmissionPC, WorkersOK, PlacedWorker, NodePC, WorkerPC, SlotPC
  <1>2. AdmissionPC \cup {"slot"} \subseteq WorkerPC /\ worker[w].pc # "none"
    BY <1>0 DEF AdmissionPC, WorkerPC, SlotPC
  <1>3. UNCHANGED <<exec, disp, req, halted, restarts>>
    BY DEF Admission, Admit, AdmitDirect, AdmitClear, QueueForAdmission
  <1>4. DispOK' /\ RequestsOK' /\ ExecOK' /\ RestOK'
    BY <1>3 DEF DispOK, RequestsOK, ExecOK, RestOK
  <1>5. CASE Admit(w)
    <2>1. SemOK'
      BY <1>5, SemType DEF Admit, SemOK
    <2>2. WorkersOK'
      BY <1>1, <1>2, <1>5, GotoType DEF Admit, AdmissionPC
    <2> QED  BY <1>4, <1>5, <2>1, <2>2 DEF Admit, RowsOK
  <1>6. CASE AdmitDirect(w)
    <2>1. SemOK'
      BY <1>6, SemType DEF AdmitDirect, SemOK
    <2>2. WorkersOK'
      BY <1>1, <1>2, <1>6, GotoType DEF AdmitDirect, AdmissionPC
    <2>3. RowsOK'
      BY <1>1, <1>6, StatusType DEF AdmitDirect, RunStatus, RowsOK
    <2> QED  BY <1>4, <2>1, <2>2, <2>3
  <1>7. CASE AdmitClear(w)
    <2>1. WorkersOK'
      BY <1>1, <1>2, <1>7, GotoType DEF AdmitClear, AdmissionPC
    <2>2. [run[r] EXCEPT !.adm = 0] \in Row
      BY <1>1, RowFields DEF RowsOK
    <2>3. run' = [run EXCEPT ![r] = [run[r] EXCEPT !.adm = 0]]
      BY <1>7 DEF AdmitClear
    <2>4. RowsOK'
      BY <1>1, <2>2, <2>3, RowUpdate
    <2> QED  BY <1>4, <1>7, <2>1, <2>4 DEF AdmitClear, SemOK
  <1>8. CASE QueueForAdmission(w)
    <2> DEFINE a == [run[r] EXCEPT !.status = "queued"]
               b == [a EXCEPT !.adm = worker[w].node]
    <2>1. a \in Row
      BY <1>1, RowFields DEF RowsOK, RunStatus
    <2>2. b \in Row
      BY <1>1, <2>1, RowFields
    <2>3. run' = [run EXCEPT ![r] = b]
      BY <1>8 DEF QueueForAdmission
    <2>4. RowsOK'
      BY <1>1, <2>2, <2>3, RowUpdate
    <2>5. WorkersOK'
      BY <1>8, NoWorkerPlaced, WorkerUpdate DEF QueueForAdmission
    <2> QED  BY <1>4, <1>8, <2>4, <2>5 DEF QueueForAdmission, SemOK
  <1> QED  BY <1>5, <1>6, <1>7, <1>8 DEF Admission

(* A driver.                                                               *)

\* The steps of a worker between taking the execute slot and giving it up.
Driving(w) ==
    \/ Load(w) \/ EnterNode(w) \/ ExecuteNode(w) \/ CheckOwner(w)
    \/ ActSuccess(w) \/ ActHalted(w) \/ ActPaused(w) \/ ActFailed(w)
    \/ Park(w) \/ ParkWrite(w) \/ FinishCleanup(w) \/ Drained(w) \/ Complete(w)

\* What they leave alone, and the points they run from and to.
LEMMA DrivingFrame ==
    ASSUME WorkersOK, NEW w \in Workers, Driving(w)
    PROVE  /\ UNCHANGED <<sem, exec, disp, req, halted, restarts>>
           /\ worker[w].pc \in DriverPC \ {"end"}
           /\ worker'[w].pc \in DriverPC
           /\ worker'[w].run = worker[w].run
           /\ \A v \in Workers \ {w} : worker'[v] = worker[v]
  <1> USE DEF WorkersOK, PlacedWorker, WorkerType
  <1>1. UNCHANGED <<sem, exec, disp, req, halted, restarts>>
    BY DEF Driving, Load, EnterNode, ExecuteNode, CheckOwner, ActSuccess,
           ActHalted, ActPaused, ActFailed, Park, ParkWrite, FinishCleanup,
           Drained, Complete
  <1>2. worker[w].pc \in DriverPC \ {"end"}
    BY DEF Driving, Load, EnterNode, ExecuteNode, CheckOwner, ActSuccess,
           ActHalted, ActPaused, ActFailed, Park, ParkWrite, FinishCleanup,
           Drained, Complete, DriverPC, SlotPC
  <1>3. ASSUME NEW l \in DriverPC, Goto(w, l)
        PROVE  /\ worker'[w].pc \in DriverPC /\ worker'[w].run = worker[w].run
               /\ \A v \in Workers \ {w} : worker'[v] = worker[v]
    BY <1>3 DEF Goto
  <1>4. {"enter", "node", "check", "act", "park", "wait", "cleanup", "drained",
         "complete", "end"} \subseteq DriverPC
    BY DEF DriverPC, SlotPC
  <1>5. CASE Load(w) \/ CheckOwner(w) \/ ActHalted(w) \/ ActPaused(w) \/ Park(w)
                \/ ParkWrite(w) \/ FinishCleanup(w) \/ Drained(w) \/ Complete(w)
    <2>1. \E l \in DriverPC : Goto(w, l)
      BY <1>4, <1>5 DEF Load, CheckOwner, ActHalted, ActPaused, Park, ParkWrite,
                        FinishCleanup, Drained, Complete
    <2> QED  BY <1>1, <1>2, <1>3, <2>1
  <1>6. CASE EnterNode(w)
    BY <1>1, <1>2, <1>3, <1>4, <1>6 DEF EnterNode
  <1>7. CASE ExecuteNode(w)
    BY <1>1, <1>2, <1>4, <1>7 DEF ExecuteNode
  <1>8. CASE ActSuccess(w)
    <2>1. PICK m \in Success[worker[w].node] :
             worker' = [worker EXCEPT ![w].pc = IF m = 0 THEN "drained" ELSE "enter",
                                      ![w].node = m]
      BY <1>8 DEF ActSuccess
    <2> QED  BY <1>1, <1>2, <1>4, <2>1
  <1>9. CASE ActFailed(w)
    BY <1>1, <1>2, <1>3, <1>4, <1>9 DEF ActFailed
  <1> QED  BY <1>5, <1>6, <1>7, <1>8, <1>9 DEF Driving

\* A driver's save keeps the rows rows.
LEMMA SaveType ==
    ASSUME RowsOK, NEW w \in Workers, worker[w].run \in Runs,
           NEW st \in VisitStatus, Save(w, st)
    PROVE  RowsOK'
  <1> DEFINE me == worker[w]
             row == SaveState(run[me.run], me.node, me.iter, st)
  <1>1. row \in Row
    BY SaveStateType DEF RowsOK
  <1>2. run' = [run EXCEPT ![me.run] = row]
    BY DEF Save
  <1> HIDE DEF row
  <1> QED  BY <1>1, <1>2, RowUpdate

\* So does a save that ends the run.
LEMMA SaveEndsType ==
    ASSUME RowsOK, NEW r \in Runs, NEW n, NEW i, NEW st \in VisitStatus,
           NEW rs \in RunStatus,
           run' = [run EXCEPT ![r] = [SaveState(@, n, i, st) EXCEPT !.status = rs]]
    PROVE  RowsOK'
  <1> DEFINE row == SaveState(run[r], n, i, st)
  <1>1. row \in Row
    BY SaveStateType DEF RowsOK
  <1>2. run' = [run EXCEPT ![r] = [row EXCEPT !.status = rs]]
    BY DEF RowsOK
  <1> HIDE DEF row
  <1>3. [row EXCEPT !.status = rs] \in Row
    BY <1>1, RowFields
  <1> QED  BY <1>2, <1>3, RowUpdate

\* So does the end of finish, or of a cancel.
LEMMA CleanupType ==
    ASSUME RowsOK, NEW r \in Runs, NEW st \in VisitStatus,
           \/ run' = [run EXCEPT ![r] = Superseded(Finalized(@, st))]
           \/ run' = [run EXCEPT ![r] = Finalized(@, st)]
    PROVE  RowsOK'
  <1> DEFINE row == Finalized(run[r], st)
  <1>1. row \in Row
    BY FinalizedType DEF RowsOK
  <1> HIDE DEF row
  <1>2. Superseded(row) \in Row
    BY <1>1, SupersededType
  <1>3. run' = [run EXCEPT ![r] = Superseded(row)] \/ run' = [run EXCEPT ![r] = row]
    BY DEF row
  <1> QED  BY <1>1, <1>2, <1>3, RowUpdate

\* A worker that takes a node to execute, or has none left.
LEMMA NextNodeType ==
    ASSUME NEW x \in PlacedWorker, x.pc # "none", NEW m \in Nodes \cup {0},
           NEW l \in {"enter", "drained"}, l = "enter" => m \in Nodes
    PROVE  [x EXCEPT !.pc = l, !.node = m] \in PlacedWorker
  <1>1. l \in WorkerPC /\ ("drained" \in NodePC <=> FALSE)
    BY DEF WorkerPC, SlotPC, NodePC
  <1>2. m \in Nodes \/ l \notin NodePC
    BY <1>1
  <1> QED  BY <1>1, <1>2 DEF PlacedWorker, WorkerType

LEMMA DrivingType ==
    ASSUME TypeInv, NEW w \in Workers, Driving(w)
    PROVE  TypeInv'
  <1> USE DEF TypeInv
  <1> DEFINE me == worker[w]
             r == me.run
  <1>1. me \in PlacedWorker /\ me.pc \in DriverPC \ {"end"}
    BY DrivingFrame DEF WorkersOK
  <1>2. r \in Runs /\ me.pc # "none"
        /\ (me.pc \notin {"drained", "complete"} => me.node \in Nodes /\ me.pc \in NodePC)
    BY <1>1 DEF PlacedWorker, NodePC, WorkerPC, DriverPC, SlotPC
  <1>3. SemOK' /\ ExecOK' /\ DispOK' /\ RequestsOK' /\ RestOK'
    BY DrivingFrame DEF SemOK, ExecOK, DispOK, RequestsOK, RestOK
  <1>4. {"enter", "node", "check", "act", "park", "wait", "cleanup", "drained",
         "complete", "end"} \subseteq WorkerPC
        /\ "end" \notin NodePC /\ "drained" \notin NodePC /\ "complete" \notin NodePC
    BY DEF NodePC, WorkerPC, SlotPC
  <1>5. {"running", "waiting_human", "completed", "failed", "cancelled"}
           \subseteq VisitStatus \cap RunStatus
    BY DEF VisitStatus, RunStatus
  <1>6. ASSUME NEW l \in WorkerPC, Goto(w, l),
               me.pc \notin {"drained", "complete"} \/ l \notin NodePC
        PROVE  WorkersOK'
    BY <1>2, <1>6, GotoType
  <1>7. ASSUME UNCHANGED run PROVE RowsOK'
    BY <1>7 DEF RowsOK
  <1>8. CASE Load(w) \/ CheckOwner(w) \/ Park(w) \/ Drained(w)
    <2>1. WorkersOK'
      BY <1>4, <1>6, <1>8 DEF Load, CheckOwner, Park, Drained
    <2> QED  BY <1>3, <1>7, <1>8, <2>1 DEF Load, CheckOwner, Park, Drained
  <1>9. CASE EnterNode(w)
    <2> DEFINE n == me.node
               i == run[r].iter[n] + 1
               f == [run[r].iter EXCEPT ![n] = i]
               row1 == [run[r] EXCEPT !.iter = f]
               row2 == [row1 EXCEPT !.visit = [node |-> n, iter |-> i, st |-> "running"]]
    <2>1. CASE Owner(w)
      <3>1. n \in Nodes /\ i \in Nat
        BY <1>2, <1>9 DEF EnterNode, RowsOK, Row
      <3>2. row1 \in Row
        <4>1. run[r] \in Row /\ f \in [Nodes -> Nat]
          BY <1>2, <3>1 DEF RowsOK, Row
        <4> HIDE DEF f
        <4> QED  BY <4>1, RowFields
      <3>3. row2 \in Row
        BY <1>5, <3>1, <3>2, RowFields DEF VisitType
      <3>4. run' = [run EXCEPT ![r] = row2]
        BY <1>9, <2>1 DEF EnterNode
      <3>5. RowsOK'
        <4> HIDE DEF row2
        <4> QED  BY <1>2, <3>3, <3>4, RowUpdate
      <3>6. worker' = [worker EXCEPT ![w] = [me EXCEPT !.pc = "node", !.iter = i]]
        BY <1>9, <2>1 DEF EnterNode
      <3>7. [me EXCEPT !.pc = "node", !.iter = i] \in PlacedWorker
        BY <1>1, <1>2, <1>4, <3>1 DEF PlacedWorker, WorkerType
      <3>8. WorkersOK'
        BY <3>6, <3>7, WorkerUpdate
      <3> QED  BY <1>3, <3>5, <3>8
    <2>2. CASE ~Owner(w)
      <3>1. Goto(w, "end") /\ UNCHANGED run
        BY <1>9, <2>2 DEF EnterNode
      <3> QED  BY <1>3, <1>4, <1>6, <1>7, <3>1
    <2> QED  BY <2>1, <2>2
  <1>10. CASE ExecuteNode(w)
    <2> DEFINE gate == [node |-> me.node, iter |-> me.iter, resolved |-> FALSE]
               G == run[r].gates \cup {gate}
    <2>1. PICK out \in Outcomes \ {"none"} :
             /\ (out = "paused") = (me.node \in GateNodes)
             /\ worker' = [worker EXCEPT ![w].pc = "check", ![w].out = out]
             /\ run' = IF out = "paused"
                       THEN [run EXCEPT ![r].gates = @ \cup {gate}] ELSE run
      BY <1>10 DEF ExecuteNode
    <2>6. worker' = [worker EXCEPT ![w] = [me EXCEPT !.pc = "check", !.out = out]]
      BY <2>1
    <2>2. [me EXCEPT !.pc = "check", !.out = out] \in PlacedWorker
      BY <1>1, <1>2, <1>4, <1>10 DEF PlacedWorker, WorkerType, ExecuteNode
    <2>3. WorkersOK'
      BY <2>2, <2>6, WorkerUpdate
    <2>4. CASE out = "paused"
      <3>1. G \in SUBSET GateRow
        <4>1. me.node \in GateNodes /\ me.iter \in Nat
          BY <1>1, <2>1, <2>4 DEF PlacedWorker, WorkerType
        <4>2. gate \in GateRow
          BY <4>1 DEF GateRow
        <4> QED  BY <1>2, <4>2 DEF RowsOK, Row
      <3>2. [run[r] EXCEPT !.gates = G] \in Row
        <4> HIDE DEF G
        <4> QED  BY <1>2, <3>1, RowFields DEF RowsOK
      <3>3. run' = [run EXCEPT ![r] = [run[r] EXCEPT !.gates = G]]
        BY <2>1, <2>4
      <3>4. RowsOK'
        BY <1>2, <3>2, <3>3, RowUpdate
      <3> QED  BY <1>3, <2>3, <3>4
    <2>5. CASE out # "paused"
      BY <1>3, <1>7, <2>1, <2>3, <2>5
    <2> QED  BY <2>4, <2>5
  <1>11. CASE ActSuccess(w)
    <2>1. me.node \in Nodes
      BY <1>2, <1>11 DEF ActSuccess
    <2>2. RowsOK'
      BY <1>2, <1>5, <1>11, SaveType DEF ActSuccess
    <2>3. PICK m \in Success[me.node] :
             worker' = [worker EXCEPT ![w].pc = IF m = 0 THEN "drained" ELSE "enter",
                                      ![w].node = m]
      BY <1>11 DEF ActSuccess
    <2>4. m \in Nodes \cup {0}
      BY <2>1, <2>3
    <2> DEFINE l == IF m = 0 THEN "drained" ELSE "enter"
    <2>5. worker' = [worker EXCEPT ![w] = [me EXCEPT !.pc = l, !.node = m]]
      BY <2>3
    <2>6. [me EXCEPT !.pc = l, !.node = m] \in PlacedWorker
      BY <1>1, <1>2, <2>4, NextNodeType
    <2>7. WorkersOK'
      BY <2>5, <2>6, WorkerUpdate
    <2> QED  BY <1>3, <2>2, <2>7
  <1>12. CASE ActHalted(w)
    <2>1. WorkersOK'
      BY <1>4, <1>6, <1>12 DEF ActHalted
    <2>2. RowsOK'
      BY <1>2, <1>5, <1>12, SaveEndsType DEF ActHalted
    <2> QED  BY <1>3, <2>1, <2>2
  <1>13. CASE ActPaused(w)
    <2>1. WorkersOK'
      BY <1>4, <1>6, <1>13 DEF ActPaused
    <2>2. RowsOK'
      BY <1>2, <1>5, <1>13, SaveType DEF ActPaused
    <2> QED  BY <1>3, <2>1, <2>2
  <1>14. CASE ActFailed(w)
    <2>1. me.node \in Nodes /\ me.pc = "act"
      BY <1>2, <1>14 DEF ActFailed
    <2>2. CASE Save(w, "failed") /\ Goto(w, "end")
      BY <1>2, <1>3, <1>4, <1>5, <1>6, <2>2, SaveType
    <2>3. CASE /\ Save(w, "failed")
               /\ \E m \in Failure[me.node] \ {0} :
                    worker' = [worker EXCEPT ![w].pc = "enter", ![w].node = m]
      <3>1. PICK m \in Failure[me.node] \ {0} :
               worker' = [worker EXCEPT ![w].pc = "enter", ![w].node = m]
        BY <2>3
      <3>2. m \in Nodes
        BY <2>1, <3>1
      <3>4. worker' = [worker EXCEPT ![w] = [me EXCEPT !.pc = "enter", !.node = m]]
        BY <3>1
      <3>3. WorkersOK'
        BY <1>1, <1>2, <3>2, <3>4, NextNodeType, WorkerUpdate
      <3> QED  BY <1>2, <1>3, <1>5, <2>3, <3>3, SaveType
    <2>4. CASE /\ Save(w, "failed")
               /\ worker' = [worker EXCEPT ![w].pc = "enter",
                                           ![w].tries[me.node] = @ + 1]
      <3> DEFINE f == [me.tries EXCEPT ![me.node] = @ + 1]
      <3>1. f \in [Nodes -> Nat]
        <4>1. me.tries \in [Nodes -> Nat]
          BY <1>1 DEF PlacedWorker, WorkerType
        <4>2. ASSUME NEW t \in [Nodes -> Nat], NEW n \in Nodes
              PROVE  [t EXCEPT ![n] = @ + 1] \in [Nodes -> Nat]
          OBVIOUS
        <4> HIDE DEF me
        <4> QED  BY <2>1, <4>1, <4>2
      <3>2. worker' = [worker EXCEPT ![w] = [me EXCEPT !.pc = "enter", !.tries = f]]
        BY <2>4
      <3> HIDE DEF f
      <3>3. [me EXCEPT !.pc = "enter", !.tries = f] \in PlacedWorker
        BY <1>1, <1>2, <1>4, <2>1, <3>1 DEF PlacedWorker, WorkerType
      <3>4. WorkersOK'
        BY <3>2, <3>3, WorkerUpdate
      <3> QED  BY <1>2, <1>3, <1>5, <2>4, <3>4, SaveType
    <2>5. CASE /\ run' = [run EXCEPT ![r] =
                    [SaveState(@, me.node, me.iter, "failed") EXCEPT !.status = "failed"]]
               /\ Goto(w, "cleanup")
      <3>1. RowsOK'
        BY <1>2, <1>5, <2>5, SaveEndsType
      <3>2. WorkersOK'
        BY <1>4, <1>6, <2>1, <2>5
      <3> QED  BY <1>3, <3>1, <3>2
    <2> QED  BY <1>14, <2>2, <2>3, <2>4, <2>5 DEF ActFailed
  <1>15. CASE ParkWrite(w)
    <2>1. WorkersOK'
      BY <1>4, <1>6, <1>15 DEF ParkWrite
    <2>2. SetStatus(r, "waiting_human") \/ UNCHANGED run
      BY <1>15 DEF ParkWrite, SetStatus
    <2>3. RowsOK'
      BY <1>2, <1>5, <1>7, <2>2, StatusType
    <2> QED  BY <1>3, <2>1, <2>3
  <1>16. CASE FinishCleanup(w)
    <2>1. WorkersOK'
      BY <1>4, <1>6, <1>16 DEF FinishCleanup
    <2>2. RowsOK'
      BY <1>2, <1>5, <1>16, CleanupType DEF FinishCleanup
    <2> QED  BY <1>3, <2>1, <2>2
  <1>17. CASE Complete(w)
    <2>1. WorkersOK'
      BY <1>4, <1>6, <1>17 DEF Complete
    <2>2. RowsOK'
      BY <1>2, <1>5, <1>17, StatusType DEF Complete
    <2> QED  BY <1>3, <2>1, <2>2
  <1> QED
    BY <1>8, <1>9, <1>10, <1>11, <1>12, <1>13, <1>14, <1>15, <1>16, <1>17
       DEF Driving

\* The other steps of a driver: the execute slot, requeue and release.
LEMMA SlotStepsType ==
    ASSUME TypeInv, NEW w \in Workers,
           \/ TakeExecuteSlot(w) \/ ExecuteSlotTimeout(w) \/ Requeue(w)
           \/ EndExecute(w) \/ ReleaseSlot(w)
    PROVE  TypeInv'
  <1> USE DEF TypeInv
  <1> DEFINE r == worker[w].run
  <1>1. worker[w] \in PlacedWorker
        /\ worker[w].pc \in {"slot", "requeue", "end", "release"}
    BY DEF TakeExecuteSlot, ExecuteSlotTimeout, Requeue, EndExecute, ReleaseSlot,
           WorkersOK
  <1>2. r \in Runs /\ worker[w].pc # "none"
        /\ (worker[w].pc \in {"slot", "requeue"} =>
              worker[w].pc \in NodePC /\ worker[w].node \in Nodes)
    BY <1>1 DEF PlacedWorker, NodePC, WorkerPC, SlotPC
  <1>3. {"load", "requeue", "release"} \subseteq WorkerPC /\ "release" \notin NodePC
    BY DEF NodePC, WorkerPC, SlotPC
  <1>4. UNCHANGED <<disp, req, halted, restarts>>
    BY DEF TakeExecuteSlot, ExecuteSlotTimeout, Requeue, EndExecute, ReleaseSlot
  <1>5. DispOK' /\ RequestsOK' /\ RestOK'
    BY <1>4 DEF DispOK, RequestsOK, RestOK
  <1>6. CASE TakeExecuteSlot(w)
    <2>1. WorkersOK'
      BY <1>2, <1>3, <1>6, GotoType DEF TakeExecuteSlot
    <2>2. ExecOK'
      BY <1>2, <1>6 DEF TakeExecuteSlot, ExecOK
    <2> QED  BY <1>5, <1>6, <2>1, <2>2 DEF TakeExecuteSlot, RowsOK, SemOK
  <1>7. CASE ExecuteSlotTimeout(w)
    <2>1. WorkersOK'
      BY <1>2, <1>3, <1>7, GotoType DEF ExecuteSlotTimeout
    <2> QED  BY <1>5, <1>7, <2>1 DEF ExecuteSlotTimeout, RowsOK, SemOK, ExecOK
  <1>8. CASE Requeue(w)
    <2> DEFINE a == [run[r] EXCEPT !.status = "queued"]
               b == [a EXCEPT !.adm = worker[w].node]
    <2>1. a \in Row
      BY <1>2, RowFields DEF RowsOK, RunStatus
    <2>2. b \in Row
      BY <1>2, <1>8, <2>1, RowFields DEF Requeue
    <2>3. run' = [run EXCEPT ![r] = b] \/ run' = run
      BY <1>8 DEF Requeue
    <2>4. RowsOK'
      <3> HIDE DEF b
      <3> QED  BY <1>2, <2>2, <2>3, RowUpdate DEF RowsOK
    <2>5. WorkersOK'
      BY <1>2, <1>3, <1>8, GotoType DEF Requeue
    <2> QED  BY <1>5, <1>8, <2>4, <2>5 DEF Requeue, SemOK, ExecOK
  <1>9. CASE EndExecute(w)
    <2>1. WorkersOK'
      BY <1>2, <1>3, <1>9, GotoType DEF EndExecute
    <2>2. ExecOK'
      BY <1>2, <1>9 DEF EndExecute, ExecOK
    <2> QED  BY <1>5, <1>9, <2>1, <2>2 DEF EndExecute, RowsOK, SemOK
  <1>10. CASE ReleaseSlot(w)
    <2>1. WorkersOK'
      BY <1>10, NoWorkerPlaced, WorkerUpdate DEF ReleaseSlot
    <2>2. SemOK'
      BY <1>10, SemType DEF ReleaseSlot
    <2> QED  BY <1>5, <1>10, <2>1, <2>2 DEF ReleaseSlot, RowsOK, ExecOK
  <1> QED  BY <1>6, <1>7, <1>8, <1>9, <1>10

(* Requests.                                                               *)

LEMMA InFlightType ==
    ASSUME TypeInv, NEW q \in Requests, InFlight(q)
    PROVE  TypeInv'
  <1> USE DEF TypeInv
  <1> DEFINE me == req[q]
             r == me.run
  <1>1. me \in PlacedRequest /\ me.pc \notin {"new", "done"}
    BY DEF InFlight, CancelFinish, CancelCleanup, CancelForce, GateResolve,
           GateAdvance, GateHalted, GateComplete, ResumeIdle, ResumeLaunch,
           RequestsOK
  <1>2. r \in Runs /\ run[r] \in Row
    BY <1>1 DEF PlacedRequest, RowsOK
  <1>3. UNCHANGED <<sem, disp, halted, restarts>>
    BY DEF InFlight, CancelFinish, CancelCleanup, CancelForce, GateResolve,
           GateAdvance, GateHalted, GateComplete, ResumeIdle, ResumeLaunch
  <1>4. SemOK' /\ DispOK' /\ RestOK'
    BY <1>3 DEF SemOK, DispOK, RestOK
  <1>5. UNCHANGED exec => ExecOK'
    BY DEF ExecOK
  <1>6. exec' = [exec EXCEPT ![r] = None] => ExecOK'
    BY DEF ExecOK
  <1>7. UNCHANGED worker => WorkersOK'
    BY DEF WorkersOK
  <1>8. UNCHANGED run => RowsOK'
    BY DEF RowsOK
  <1>9. {"cancelled", "completed", "failed"} \subseteq VisitStatus \cap RunStatus
    BY DEF VisitStatus, RunStatus
  <1>10. ASSUME NEW l \in {"done", "cleanup", "force"}, Step(q, l)
         PROVE  RequestsOK'
    BY <1>1, <1>10, StepType DEF RequestPC, GatePC
  <1>11. CASE CancelFinish(q)
    <2>1. RowsOK'
      BY <1>2, <1>9, <1>11, StatusType DEF CancelFinish
    <2> QED  BY <1>4, <1>5, <1>7, <1>10, <1>11, <2>1 DEF CancelFinish
  <1>12. CASE CancelCleanup(q)
    <2>1. RowsOK'
      BY <1>2, <1>9, <1>12, CleanupType DEF CancelCleanup
    <2> QED  BY <1>4, <1>5, <1>7, <1>10, <1>12, <2>1 DEF CancelCleanup
  <1>13. CASE CancelForce(q)
    BY <1>4, <1>6, <1>7, <1>8, <1>10, <1>13 DEF CancelForce
  <1>14. CASE GateResolve(q)
    <2> DEFINE Seen(g) == g.node = me.node /\ g.iter = me.iter
               G == {IF Seen(g) THEN [g EXCEPT !.resolved = TRUE] ELSE g :
                       g \in run[r].gates}
    <2>1. \A g \in GateRow : [g EXCEPT !.resolved = TRUE] \in GateRow
      BY DEF GateRow
    <2>2. G \in SUBSET GateRow
      BY <1>2, <2>1 DEF Row
    <2>3. run' = [run EXCEPT ![r] = [run[r] EXCEPT !.gates = G]]
      BY <1>14 DEF GateResolve
    <2>4. RowsOK'
      <3> HIDE DEF G
      <3> QED  BY <1>2, <2>2, <2>3, RowFields, RowUpdate
    <2>5. RequestsOK'
      BY <1>1, <1>14, StepType DEF GateResolve, RequestPC, GatePC
    <2> QED  BY <1>4, <1>5, <1>7, <1>14, <2>4, <2>5 DEF GateResolve
  <1>15. CASE GateAdvance(q)
    <2>1. me.node \in GateNodes /\ me.node \in Nodes /\ me.pc = "advance"
      BY <1>1, <1>15 DEF PlacedRequest, GatePC, GateAdvance
    <2>2. CASE halted
      <3>1. RowsOK'
        BY <1>2, <1>9, <1>15, <2>2, SaveEndsType DEF GateAdvance
      <3>2. RequestsOK'
        BY <1>1, <1>15, <2>1, <2>2, StepType DEF GateAdvance, RequestPC, GatePC
      <3> QED  BY <1>4, <1>5, <1>7, <1>15, <2>2, <3>1, <3>2 DEF GateAdvance
    <2>3. CASE ~halted
      <3> DEFINE row == SaveState(run[r], me.node, me.iter, "completed")
      <3>1. row \in Row
        BY <1>2, <1>9, SaveStateType
      <3>2. run' = [run EXCEPT ![r] = row]
        BY <1>15, <2>3 DEF GateAdvance
      <3>3. RowsOK'
        <4> HIDE DEF row
        <4> QED  BY <1>2, <3>1, <3>2, RowUpdate
      <3>4. PICK m \in Success[me.node] :
               IF m = 0 THEN Step(q, "complete") /\ UNCHANGED worker
                        ELSE Step(q, "done") /\ Spawn("admit", r, m)
        BY <1>15, <2>3 DEF GateAdvance
      <3>5. m \in Nodes \cup {0}
        BY <2>1, <3>4
      <3>6. CASE m = 0
        <4>1. RequestsOK'
          BY <1>1, <2>1, <3>4, <3>6, StepType DEF RequestPC, GatePC
        <4> QED  BY <1>4, <1>5, <1>7, <1>15, <3>3, <3>4, <3>6, <4>1 DEF GateAdvance
      <3>7. CASE m # 0
        <4>1. WorkersOK'
          BY <1>2, <3>4, <3>5, <3>7, SpawnType
        <4> QED  BY <1>4, <1>5, <1>10, <1>15, <3>3, <3>4, <3>7, <4>1 DEF GateAdvance
      <3> QED  BY <3>6, <3>7
    <2> QED  BY <2>2, <2>3
  <1>16. CASE GateHalted(q)
    <2>1. RowsOK'
      BY <1>2, <1>9, <1>16, CleanupType DEF GateHalted
    <2>2. RequestsOK'
      BY <1>1, <1>16, StepType DEF GateHalted, RequestPC, GatePC
    <2> QED  BY <1>4, <1>5, <1>7, <1>16, <2>1, <2>2 DEF GateHalted
  <1>17. CASE GateComplete(q)
    <2>1. RowsOK'
      BY <1>2, <1>9, <1>17, StatusType DEF GateComplete
    <2> QED  BY <1>4, <1>5, <1>7, <1>10, <1>17, <2>1 DEF GateComplete
  <1>18. CASE ResumeIdle(q)
    <2>1. RequestsOK'
      <3>1. Step(q, "launch") \/ Step(q, "done")
        BY <1>18 DEF ResumeIdle
      <3>2. me.pc = "idle"
        BY <1>18 DEF ResumeIdle
      <3>3. CASE Step(q, "launch")
        BY <1>1, <3>2, <3>3, StepType DEF RequestPC, GatePC
      <3> QED  BY <1>10, <3>1, <3>3
    <2>2. ExecOK'
      BY <1>5, <1>6, <1>18 DEF ResumeIdle
    <2>3. RowsOK'
      <3>1. CASE UNCHANGED run
        BY <1>8, <3>1
      <3>2. CASE /\ run' = [run EXCEPT ![r] = Finalized(@, me.seen)]
                 /\ me.seen \in {"failed", "cancelled"}
        BY <1>2, <1>9, <3>2, CleanupType
      <3> QED  BY <1>18, <3>1, <3>2 DEF ResumeIdle
    <2> QED  BY <1>4, <1>7, <1>18, <2>1, <2>2, <2>3 DEF ResumeIdle
  <1>19. CASE ResumeLaunch(q)
    <2>1. me.node \in Nodes
      BY <1>1, <1>19 DEF ResumeLaunch, PlacedRequest
    <2>2. WorkersOK'
      BY <1>2, <1>19, <2>1, SpawnType DEF ResumeLaunch
    <2> QED  BY <1>4, <1>5, <1>8, <1>10, <1>19, <2>2 DEF ResumeLaunch
  <1> QED
    BY <1>11, <1>12, <1>13, <1>14, <1>15, <1>16, <1>17, <1>18, <1>19 DEF InFlight

\* A request that starts, on a run and node it names.
LEMMA RequestStarts ==
    ASSUME TypeInv, NEW q \in Requests, NEW r \in Runs,
           \/ CancelRead(q, r)
           \/ \E n \in GateNodes : GateRead(q, r, n)
           \/ \E n \in Nodes : ResumeRead(q, r, n)
    PROVE  TypeInv'
  <1> USE DEF TypeInv
  <1>1. UNCHANGED <<sem, exec, disp, worker, halted, restarts>>
    BY DEF CancelRead, GateRead, ResumeRead
  <1>2. SemOK' /\ ExecOK' /\ DispOK' /\ WorkersOK' /\ RestOK'
    BY <1>1 DEF SemOK, ExecOK, DispOK, WorkersOK, RestOK
  <1>3. req[q] \in RequestType /\ run[r] \in Row
    BY DEF RequestsOK, PlacedRequest, RowsOK
  <1>4. CASE CancelRead(q, r)
    <2>1. RowsOK'
      <3>1. CASE Status(r) \in {"failed", "cancelled"}
        <4>1. Status(r) \in VisitStatus
          BY <3>1 DEF VisitStatus
        <4> QED  BY <1>4, <3>1, <4>1, CleanupType DEF CancelRead
      <3>2. CASE Status(r) \notin {"failed", "cancelled"}
        BY <1>4, <3>2 DEF CancelRead, RowsOK
      <3> QED  BY <3>1, <3>2
    <2>2. \A l \in {"force", "finish"} :
             [req[q] EXCEPT !.pc = l, !.run = r] \in PlacedRequest
      BY <1>3 DEF RequestType, PlacedRequest, RequestPC, GatePC
    <2>3. \E l \in {"force", "finish"} :
             req' = [req EXCEPT ![q].pc = l, ![q].run = r]
      BY <1>4 DEF CancelRead
    <2>4. PICK l \in {"force", "finish"} :
             req' = [req EXCEPT ![q].pc = l, ![q].run = r]
      BY <2>3
    <2>5. req' = [req EXCEPT ![q] = [req[q] EXCEPT !.pc = l, !.run = r]]
      BY <2>4
    <2>6. RequestsOK'
      BY <2>2, <2>5 DEF RequestsOK
    <2> QED  BY <1>2, <2>1, <2>6
  <1>5. CASE \E n \in GateNodes : GateRead(q, r, n)
    <2>1. PICK n \in GateNodes : GateRead(q, r, n)
      BY <1>5
    <2>2. PICK g \in LatestGate(r, n) :
             req' = [req EXCEPT ![q] = [@ EXCEPT !.pc = "resolve", !.run = r,
                                                 !.node = n, !.iter = g.iter]]
      BY <2>1 DEF GateRead
    <2>3. g.iter \in Nat
      BY <1>3 DEF LatestGate, Row, GateRow
    <2>4. \A i \in Nat : [req[q] EXCEPT !.pc = "resolve", !.run = r, !.node = n,
                                        !.iter = i] \in PlacedRequest
      BY <1>3 DEF RequestType, PlacedRequest, RequestPC, GatePC
    <2>5. RequestsOK'
      BY <2>2, <2>3, <2>4 DEF RequestsOK
    <2>6. RowsOK'
      BY <2>1 DEF GateRead, RowsOK
    <2> QED  BY <1>2, <2>5, <2>6
  <1>6. CASE \E n \in Nodes : ResumeRead(q, r, n)
    <2>1. PICK n \in Nodes : ResumeRead(q, r, n)
      BY <1>6
    <2>2. Status(r) \in RunStatus
      BY <1>3 DEF Status, Row
    <2>3. \A st \in RunStatus : [req[q] EXCEPT !.pc = "idle", !.run = r, !.node = n,
                                               !.seen = st] \in PlacedRequest
      BY <1>3 DEF RequestType, PlacedRequest, RequestPC, GatePC
    <2>4. RequestsOK'
      BY <2>1, <2>2, <2>3 DEF RequestsOK, ResumeRead
    <2>5. RowsOK'
      BY <2>1 DEF ResumeRead, RowsOK
    <2> QED  BY <1>2, <2>4, <2>5
  <1> QED  BY <1>4, <1>5, <1>6

(* Operators, shutdown and restart.                                        *)

LEMMA OperatorType ==
    ASSUME TypeInv,
           \/ \E r \in Runs : StartRun(r) \/ UpdateRunPriority(r)
           \/ SetMaxConcurrent \/ Halt
    PROVE  TypeInv'
  <1> USE DEF TypeInv
  <1>1. UNCHANGED <<exec, disp, worker, req, restarts>>
    BY DEF StartRun, UpdateRunPriority, SetMaxConcurrent, Halt
  <1>2. ExecOK' /\ DispOK' /\ WorkersOK' /\ RequestsOK'
    BY <1>1 DEF ExecOK, DispOK, WorkersOK, RequestsOK
  <1>3. CASE \E r \in Runs : StartRun(r)
    <2>1. RowsOK'
      BY <1>3, StatusType DEF StartRun, RunStatus
    <2> QED  BY <1>2, <1>3, <2>1 DEF StartRun, SemOK, RestOK
  <1>4. CASE \E r \in Runs : UpdateRunPriority(r)
    <2>1. PICK r \in Runs : UpdateRunPriority(r)
      BY <1>4
    <2>2. PICK p \in Priorities : run' = [run EXCEPT ![r] = [run[r] EXCEPT !.prio = p]]
      BY <2>1 DEF UpdateRunPriority
    <2>3. RowsOK'
      BY <2>2, RowFields, RowUpdate DEF RowsOK
    <2> QED  BY <1>2, <2>1, <2>3 DEF UpdateRunPriority, SemOK, RestOK
  <1>5. CASE SetMaxConcurrent
    BY <1>2, <1>5 DEF SetMaxConcurrent, SemOK, RestOK, RowsOK
  <1>6. CASE Halt
    BY <1>2, <1>6 DEF Halt, SemOK, RestOK, RowsOK
  <1> QED  BY <1>3, <1>4, <1>5, <1>6

LEMMA RestartType ==
    ASSUME TypeInv, Restart
    PROVE  TypeInv'
  <1> USE DEF TypeInv, Restart
  <1>1. RowsOK'
    BY ReconciledType DEF RowsOK
  <1>2. WorkersOK'
    BY NoWorkerPlaced DEF WorkersOK
  <1>3. DispOK'
    BY DEF DispOK, IdleDisp, PlacedDisp, DispType
  <1>4. RequestsOK'
    <2>1. NewRequest \in RequestType
      BY DEF NewRequest, RequestType, RequestPC, RunStatus
    <2>2. \A x \in RequestType : [x EXCEPT !.pc = "done"] \in PlacedRequest
      BY DEF RequestType, PlacedRequest, RequestPC, GatePC
    <2> QED  BY <2>1, <2>2 DEF RequestsOK
  <1>5. SemOK'
    BY DEF SemOK
  <1>6. ExecOK'
    BY DEF ExecOK
  <1>7. RestOK'
    <2>1. restarts' \in 0..MaxRestarts
      BY DEF RestOK
    <2>2. halted' \in BOOLEAN
      OBVIOUS
    <2> QED  BY <2>1, <2>2 DEF RestOK
  <1> QED  BY <1>1, <1>2, <1>3, <1>4, <1>5, <1>6, <1>7

LEMMA TypeStep ==
    ASSUME TypeInv, [Next]_vars
    PROVE  TypeInv'
  <1>1. CASE UNCHANGED vars
    BY <1>1 DEF vars, TypeInv, RowsOK, WorkersOK, DispOK, RequestsOK, SemOK,
                ExecOK, RestOK
  <1>2. CASE Dispatch
    BY <1>2, DispatchType
  <1>3. CASE \E w \in Workers : Admission(w)
    BY <1>3, AdmissionType
  <1>4. CASE \E w \in Workers : Drive(w)
    BY <1>4, DrivingType, SlotStepsType DEF Drive, Driving
  <1>5. CASE \E q \in Requests : InFlight(q)
    BY <1>5, InFlightType
  <1>6. CASE \E q \in Requests : \/ \E r \in Runs : CancelRead(q, r)
                                 \/ \E r \in Runs, n \in GateNodes : GateRead(q, r, n)
                                 \/ \E r \in Runs, n \in Nodes : ResumeRead(q, r, n)
    BY <1>6, RequestStarts
  <1>7. CASE \/ \E r \in Runs : StartRun(r) \/ UpdateRunPriority(r)
             \/ SetMaxConcurrent \/ Halt
    BY <1>7, OperatorType
  <1>8. CASE Restart
    BY <1>8, RestartType
  <1> QED
    BY <1>1, <1>2, <1>3, <1>4, <1>5, <1>6, <1>7, <1>8 DEF Next

LEMMA AlwaysTyped == Spec => []TypeInv
  <1>1. TypeInv /\ [Next]_vars => TypeInv'
    BY TypeStep
  <1> QED  BY TypeInit, <1>1, PTL DEF Spec

\* Every row, goroutine and request stays in its range, and whoever is about to
\* execute a node has a run and a node: the dispatcher's choice from the queue
\* exists, and no route, resume or requeue loses the node.
THEOREM AdmissionTypes == Spec => []TypeOK
  BY AlwaysTyped, TypeInvImpliesTypeOK, PTL

-----------------------------------------------------------------------------
(* The execute slot                                                        *)

\* A goroutine is started where there was none; the others go on.
LEMMA SpawnFrame ==
    ASSUME WorkersOK, NEW l \in {"admit", "slot"}, NEW r, NEW n, Spawn(l, r, n)
    PROVE  \E w \in Workers : /\ worker[w].pc = "none" /\ worker'[w].pc = l
                              /\ \A v \in Workers \ {w} : worker'[v] = worker[v]
  <1>1. PICK w \in Workers :
           /\ worker[w].pc = "none"
           /\ worker' = [worker EXCEPT ![w] =
                            [NoWorker EXCEPT !.pc = l, !.run = r, !.node = n]]
    BY DEF Spawn
  <1>2. [NoWorker EXCEPT !.pc = l, !.run = r, !.node = n].pc = l
    BY DEF NoWorker
  <1> QED  BY <1>1, <1>2 DEF WorkersOK

\* Which points hold what.
LEMMA Points ==
    /\ DriverPC \subseteq SlotPC
    /\ {"none", "admit", "queue"} \cap SlotPC = {}
    /\ {"direct", "clear", "slot", "requeue", "release"} \subseteq SlotPC \ DriverPC
    /\ {"load", "end"} \subseteq DriverPC
  BY DEF DriverPC, SlotPC

\* Steps that start no claim keep the slot with the driver as long as they move
\* drivers along, one that gives its claim up excepted.
LEMMA HeldKept ==
    ASSUME TypeInv, ExecSlotHeld,
           \A r \in Runs : exec'[r] \in {exec[r], None},
           \A r \in Runs : exec'[r] = exec[r] /\ exec[r] # None
               => LET w == exec[r]
                  IN worker[w].pc \in DriverPC
                       => worker'[w].run = worker[w].run /\ worker'[w].pc \in DriverPC
    PROVE  ExecSlotHeld'
  BY DEF ExecSlotHeld

LEMMA ExecHeldStep ==
    ASSUME TypeInv, ExecSlotHeld, [Next]_vars
    PROVE  ExecSlotHeld'
  <1> DEFINE Along(w) == worker[w].pc \in DriverPC
                            => /\ worker'[w].run = worker[w].run
                               /\ worker'[w].pc \in DriverPC
  <1>0. \A r \in Runs : exec[r] # None => exec[r] \in Workers
    BY DEF TypeInv, ExecOK
  <1>1. ASSUME \A w \in Workers : Along(w),
               \A r \in Runs : exec'[r] \in {exec[r], None}
        PROVE  ExecSlotHeld'
    BY <1>0, <1>1, HeldKept
  <1>2. UNCHANGED worker => \A w \in Workers : Along(w)
    OBVIOUS
  <1>3. ASSUME NEW l \in {"admit", "slot"}, NEW r, NEW n, Spawn(l, r, n)
        PROVE  \A w \in Workers : Along(w)
    BY <1>3, SpawnFrame, Points DEF TypeInv
  <1>4. CASE Dispatch
    <2>1. \A w \in Workers : Along(w)
      BY <1>2, <1>3, <1>4 DEF Dispatch, DispAcquire, DispGiveUp, DispRead,
                              DispClaim, DispClear
    <2>2. exec' = exec
      BY <1>4 DEF Dispatch, DispAcquire, DispGiveUp, DispRead, DispClaim, DispClear
    <2> QED  BY <1>1, <2>1, <2>2
  <1>5. CASE \E w \in Workers : Admission(w)
    <2>1. PICK w \in Workers : Admission(w)
      BY <1>5
    <2>2. worker[w].pc \notin DriverPC /\ exec' = exec
      BY <2>1, Points DEF Admission, Admit, AdmitDirect, AdmitClear,
                          QueueForAdmission
    <2>3. \A v \in Workers \ {w} : worker'[v] = worker[v]
      BY <2>1 DEF Admission, Admit, AdmitDirect, AdmitClear, QueueForAdmission,
                  Goto, TypeInv, WorkersOK
    <2> QED  BY <1>1, <2>2, <2>3
  <1>6. CASE \E w \in Workers : Driving(w)
    <2>1. PICK w \in Workers : Driving(w)
      BY <1>6
    <2>2. exec' = exec /\ \A v \in Workers : Along(v)
      BY <2>1, DrivingFrame DEF TypeInv
    <2> QED  BY <1>1, <2>2
  <1>7. CASE \E w \in Workers : TakeExecuteSlot(w)
    <2>1. PICK w \in Workers : TakeExecuteSlot(w)
      BY <1>7
    <2>2. /\ worker[w].pc \notin DriverPC
          /\ worker'[w].pc = "load" /\ worker'[w].run = worker[w].run
          /\ \A v \in Workers \ {w} : worker'[v] = worker[v]
      BY <2>1, Points DEF TakeExecuteSlot, Goto, TypeInv, WorkersOK, PlacedWorker,
                          WorkerType
    <2>3. \A r \in Runs : exec'[r] = IF r = worker[w].run THEN w ELSE exec[r]
      BY <2>1 DEF TakeExecuteSlot, TypeInv, ExecOK
    <2> QED  BY <1>0, <2>2, <2>3, Points DEF ExecSlotHeld
  <1>8. CASE \E w \in Workers : ExecuteSlotTimeout(w) \/ Requeue(w) \/ ReleaseSlot(w)
    <2>1. PICK w \in Workers : ExecuteSlotTimeout(w) \/ Requeue(w) \/ ReleaseSlot(w)
      BY <1>8
    <2>2. worker[w].pc \notin DriverPC /\ exec' = exec
      BY <2>1, Points DEF ExecuteSlotTimeout, Requeue, ReleaseSlot
    <2>3. \A v \in Workers \ {w} : worker'[v] = worker[v]
      BY <2>1 DEF ExecuteSlotTimeout, Requeue, ReleaseSlot, Goto, TypeInv, WorkersOK
    <2> QED  BY <1>1, <2>2, <2>3
  <1>9. CASE \E w \in Workers : EndExecute(w)
    <2>1. PICK w \in Workers : EndExecute(w)
      BY <1>9
    <2>2. \A v \in Workers \ {w} : worker'[v] = worker[v]
      BY <2>1 DEF EndExecute, Goto, TypeInv, WorkersOK
    <2>3. \A r \in Runs : /\ exec'[r] \in {exec[r], None}
                          /\ exec'[r] = w => r # worker[w].run
      BY <2>1 DEF EndExecute, TypeInv, ExecOK
    <2>4. \A r \in Runs : exec'[r] # w
      BY <1>0, <2>3 DEF ExecSlotHeld, TypeInv, ExecOK
    <2> QED  BY <1>0, <2>2, <2>3, <2>4 DEF ExecSlotHeld
  <1>10. CASE \E q \in Requests : InFlight(q)
    <2>1. PICK q \in Requests : InFlight(q)
      BY <1>10
    <2>2. \A w \in Workers : Along(w)
      BY <1>2, <1>3, <2>1
         DEF InFlight, CancelFinish, CancelCleanup, CancelForce, GateResolve,
             GateAdvance, GateHalted, GateComplete, ResumeIdle, ResumeLaunch
    <2>3. exec' = exec \/ exec' = [exec EXCEPT ![req[q].run] = None]
      BY <2>1 DEF InFlight, CancelFinish, CancelCleanup, CancelForce, GateResolve,
             GateAdvance, GateHalted, GateComplete, ResumeIdle, ResumeLaunch
    <2> QED  BY <1>1, <2>2, <2>3 DEF TypeInv, ExecOK
  <1>11. CASE Restart
    BY <1>11 DEF Restart, ExecSlotHeld
  <1>12. CASE UNCHANGED <<exec, worker>>
    BY <1>1, <1>2, <1>12
  <1> QED
    BY <1>4, <1>5, <1>6, <1>7, <1>8, <1>9, <1>10, <1>11, <1>12
       DEF Next, Drive, Driving, StartRun, UpdateRunPriority, SetMaxConcurrent,
           Halt, CancelRead, GateRead, ResumeRead, vars

\* The execute slot of a run never outlives its driver: whatever drivers,
\* cancels, resumes and restarts race, it is either free or held by a goroutine
\* that drives this run and will give it up.
THEOREM SlotIsHeldByADriver == Spec => []ExecSlotHeld
  <1>1. Init => ExecSlotHeld
    BY DEF Init, ExecSlotHeld
  <1>2. TypeInv /\ ExecSlotHeld /\ [Next]_vars => ExecSlotHeld'
    BY ExecHeldStep
  <1> QED  BY AlwaysTyped, <1>1, <1>2, PTL DEF Spec

LEMMA ClaimStep ==
    ASSUME TypeInv, [Next]_vars, NEW r \in Runs,
           exec[r] # None, exec'[r] # exec[r], req' = req, restarts' = restarts
    PROVE  worker'[exec[r]] # worker[exec[r]]
  <1>1. CASE \E w \in Workers : EndExecute(w)
    <2>1. PICK w \in Workers : EndExecute(w)
      BY <1>1
    <2>2. exec[r] = w
      BY <2>1 DEF EndExecute, TypeInv, ExecOK
    <2>3. worker'[w].pc = "release" /\ worker[w].pc = "end"
      BY <2>1 DEF EndExecute, Goto, TypeInv, WorkersOK, PlacedWorker, WorkerType
    <2> QED  BY <2>2, <2>3
  <1>2. CASE \E w \in Workers : TakeExecuteSlot(w)
    BY <1>2 DEF TakeExecuteSlot, TypeInv, ExecOK
  <1>3. CASE \E q \in Requests : CancelForce(q)
    <2>1. PICK q \in Requests : CancelForce(q)
      BY <1>3
    <2>2. req'[q].pc = "done" /\ req[q].pc = "force"
      BY <2>1 DEF CancelForce, Step, TypeInv, RequestsOK, PlacedRequest, RequestType
    <2> QED  BY <2>2
  <1>4. CASE \E q \in Requests : ResumeIdle(q)
    <2>1. PICK q \in Requests : ResumeIdle(q)
      BY <1>4
    <2>2. req'[q].pc \in {"launch", "done"} /\ req[q].pc = "idle"
      BY <2>1 DEF ResumeIdle, Step, TypeInv, RequestsOK, PlacedRequest, RequestType
    <2> QED  BY <2>2
  <1>5. CASE Restart
    BY <1>5 DEF Restart, TypeInv, RestOK
  <1>6. CASE \E w \in Workers : Driving(w)
    BY <1>6, DrivingFrame DEF TypeInv
  <1>7. CASE UNCHANGED exec
    BY <1>7
  <1> QED
    BY <1>1, <1>2, <1>3, <1>4, <1>5, <1>6, <1>7
       DEF Next, Drive, Driving, StartRun, UpdateRunPriority, SetMaxConcurrent,
           Halt, CancelRead, GateRead, ResumeRead, vars, InFlight, CancelFinish,
           CancelCleanup, GateResolve, GateAdvance, GateHalted, GateComplete,
           ResumeLaunch, Dispatch, DispAcquire, DispGiveUp, DispRead, DispClaim,
           DispClear, Admission, Admit, AdmitDirect, AdmitClear,
           QueueForAdmission, ExecuteSlotTimeout, Requeue, ReleaseSlot

\* A claim ends by its owner's own step, by a request or by a restart: no late
\* end of an earlier driver drops the claim of the one that followed it.
THEOREM ClaimsArePrivate == Spec => ClaimIsPrivate
  <1>1. TypeInv /\ [Next]_vars
          => [\A r \in Runs :
                exec[r] # None /\ exec'[r] # exec[r] /\ req' = req /\ restarts' = restarts
                  => worker'[exec[r]] # worker[exec[r]]]_vars
    BY ClaimStep
  <1> QED  BY AlwaysTyped, <1>1, PTL DEF Spec, ClaimIsPrivate

-----------------------------------------------------------------------------
(* The order of the queue                                                  *)

LEMMA OldestIsLeast ==
    ASSUME NEW S \in SUBSET Runs, S # {}
    PROVE  \A x \in S : Oldest(S) <= x
  BY LeastExists DEF Oldest

\* pickQueuedByRemainingHumanGate: no queued run comes before the one picked.
LEMMA PickQueuedIsFirst ==
    ASSUME run \in [Runs -> Row], NEW x \in Queued
    PROVE  ~Before(x, PickQueued)
  <1> DEFINE band == {r \in Queued : \A z \in Queued : run[z].prio <= run[r].prio}
             gate(r) == HasRemainingHumanGate(ContinueFrom(r))
             gated == {r \in band : gate(r)}
             y == PickQueued
  <1>1. y \in Queued /\ \A z \in Runs : run[z].prio \in Nat
    BY PickQueuedType DEF Row
  <1>2. y = Oldest(IF gated # {} THEN gated ELSE band)
    BY DEF PickQueued
  <1>3. gated \subseteq band /\ band \subseteq Queued /\ Queued \subseteq Runs
    BY DEF Queued
  <1>4. band # {}
    BY BandInhabited
  <1>5. y \in band /\ (gated # {} => y \in gated)
    <2> HIDE DEF band, gated, y
    <2> QED  BY <1>2, <1>3, <1>4, OldestType
  <1>6. ASSUME run[x].prio > run[y].prio PROVE FALSE
    BY <1>1, <1>5, <1>6 DEF Queued
  <1>7. ASSUME run[x].prio = run[y].prio, gate(x), ~gate(y) PROVE FALSE
    <2>1. x \in band
      BY <1>5, <1>7
    <2> QED  BY <2>1, <1>5, <1>7
  <1>8. ASSUME run[x].prio = run[y].prio, gate(x) = gate(y), x < y PROVE FALSE
    <2>1. x \in band
      BY <1>5, <1>8
    <2>2. x \in (IF gated # {} THEN gated ELSE band)
      BY <2>1, <1>5, <1>8
    <2>3. y <= x
      <3> HIDE DEF band, gated, y
      <3> QED  BY <2>2, <1>2, <1>3, OldestIsLeast
    <2> QED  BY <2>3, <1>8, <1>1 DEF Queued
  <1> QED  BY <1>6, <1>7, <1>8 DEF Before

\* Only drainQueue's read moves the dispatcher to a claim.
LEMMA OnlyReadClaims ==
    ASSUME TypeInv, [Next]_vars, disp.pc = "read", disp'.pc = "claim"
    PROVE  DispRead
  <1>1. CASE Dispatch
    BY <1>1 DEF Dispatch, DispAcquire, DispGiveUp, DispClaim, DispClear, IdleDisp
  <1>2. CASE Restart
    BY <1>2 DEF Restart, IdleDisp
  <1>3. CASE \E w \in Workers : Driving(w)
    BY <1>3, DrivingFrame DEF TypeInv
  <1>4. CASE UNCHANGED disp
    BY <1>4
  <1> QED
    BY <1>1, <1>2, <1>3, <1>4
       DEF Next, Drive, Driving, StartRun, UpdateRunPriority, SetMaxConcurrent,
           Halt, CancelRead, GateRead, ResumeRead, vars, InFlight, CancelFinish,
           CancelCleanup, CancelForce, GateResolve, GateAdvance, GateHalted,
           GateComplete, ResumeIdle, ResumeLaunch, Admission, Admit, AdmitDirect,
           AdmitClear, QueueForAdmission, TakeExecuteSlot, ExecuteSlotTimeout,
           Requeue, EndExecute, ReleaseSlot

\* The dispatcher picks by priority, then human gates ahead, then age, whatever
\* graph, priorities and runs there are.
THEOREM QueueIsServedInOrder == Spec => PicksInOrder
  <1>1. TypeInv /\ [Next]_vars
          => [disp.pc = "read" /\ disp'.pc = "claim" =>
                \A x \in Queued : ~Before(x, disp'.run)]_vars
    <2> SUFFICES ASSUME TypeInv, [Next]_vars, disp.pc = "read",
                        disp'.pc = "claim", NEW x \in Queued
                 PROVE  ~Before(x, disp'.run)
      OBVIOUS
    <2>1. disp'.run = PickQueued
      BY OnlyReadClaims DEF DispRead
    <2> QED  BY <2>1, PickQueuedIsFirst DEF TypeInv, RowsOK
  <1> QED  BY AlwaysTyped, <1>1, PTL DEF Spec, PicksInOrder

-----------------------------------------------------------------------------
(* The semaphore                                                           *)

\* With the set of holders finite, however many workers there are, each step
\* adds or removes one holder with its slot.
SlotInv == IsFiniteSet(SlotHolders) /\ SlotAccounting

DispHolds == IF disp.pc = "idle" THEN 0 ELSE 1

LEMMA SlotCount ==
    ASSUME SlotInv
    PROVE  /\ Cardinality(SlotHolders) \in Nat
           /\ sem.cur = Cardinality(SlotHolders) + DispHolds
           /\ \A w \in SlotHolders : Cardinality(SlotHolders) > 0
  BY FS_CardinalityType, FS_EmptySet DEF SlotInv, SlotAccounting, DispHolds

\* The three things a step does to the holders, with the slots it must take.
LEMMA HoldersSame ==
    ASSUME SlotInv, SlotHolders' = SlotHolders,
           sem'.cur - DispHolds' = sem.cur - DispHolds, sem'.cur \in Nat
    PROVE  SlotInv'
  BY SlotCount DEF SlotInv, SlotAccounting, DispHolds

LEMMA HolderAdded ==
    ASSUME SlotInv, NEW w, w \notin SlotHolders, SlotHolders' = SlotHolders \cup {w},
           sem'.cur - DispHolds' = sem.cur - DispHolds + 1, sem'.cur \in Nat
    PROVE  SlotInv'
  <1>1. IsFiniteSet(SlotHolders')
        /\ Cardinality(SlotHolders') = Cardinality(SlotHolders) + 1
    BY FS_AddElement DEF SlotInv
  <1> QED  BY <1>1, SlotCount DEF SlotInv, SlotAccounting, DispHolds

LEMMA HolderRemoved ==
    ASSUME SlotInv, NEW w \in SlotHolders, SlotHolders' = SlotHolders \ {w},
           sem'.cur - DispHolds' = sem.cur - DispHolds - 1, sem'.cur \in Nat
    PROVE  SlotInv'
  <1>1. IsFiniteSet(SlotHolders')
        /\ Cardinality(SlotHolders') = Cardinality(SlotHolders) - 1
    BY FS_RemoveElement DEF SlotInv
  <1> QED  BY <1>1, SlotCount DEF SlotInv, SlotAccounting, DispHolds

\* What one worker's step makes of the set of holders.
LEMMA HolderMoves ==
    ASSUME NEW w \in Workers, \A v \in Workers \ {w} : worker'[v] = worker[v]
    PROVE  /\ (worker[w].pc \in SlotPC <=> worker'[w].pc \in SlotPC)
                => SlotHolders' = SlotHolders
           /\ worker[w].pc \notin SlotPC /\ worker'[w].pc \in SlotPC
                => w \notin SlotHolders /\ SlotHolders' = SlotHolders \cup {w}
           /\ worker[w].pc \in SlotPC /\ worker'[w].pc \notin SlotPC
                => w \in SlotHolders /\ SlotHolders' = SlotHolders \ {w}
  BY DEF SlotHolders

LEMMA SemSteps ==
    ASSUME SemOK
    PROVE  /\ TryAcquire => sem'.cur = sem.cur + 1 /\ sem'.cur \in Nat
           /\ Release /\ sem.cur > 0 => sem'.cur = sem.cur - 1 /\ sem'.cur \in Nat
           /\ UNCHANGED sem => sem'.cur = sem.cur /\ sem'.cur \in Nat
  BY DEF SemOK, TryAcquire, Release

LEMMA GotoFrame ==
    ASSUME WorkersOK, NEW w \in Workers, NEW l, Goto(w, l)
    PROVE  /\ worker'[w].pc = l
           /\ \A v \in Workers \ {w} : worker'[v] = worker[v]
  BY DEF WorkersOK, PlacedWorker, WorkerType, Goto

LEMMA SlotDispatch ==
    ASSUME TypeInv, SlotInv, Dispatch
    PROVE  SlotInv'
  <1> USE DEF TypeInv
  <1>1. sem.cur \in Nat /\ DispHolds \in {0, 1} /\ (disp.pc # "idle" => DispHolds = 1)
        /\ (disp.pc = "idle" => DispHolds = 0)
    BY DEF SemOK, DispHolds
  <1>2. UNCHANGED worker => SlotHolders' = SlotHolders
    BY DEF SlotHolders
  <1>3. /\ disp'.pc # "idle" => DispHolds' = 1
        /\ disp'.pc = "idle" => DispHolds' = 0
    BY DEF DispHolds
  <1>4. IdleDisp.pc = "idle"
    BY DEF IdleDisp
  <1>5. \A l : disp' = [disp EXCEPT !.pc = l] => disp'.pc = l
    BY DEF DispOK, PlacedDisp, DispType
  <1>6. ASSUME NEW r, NEW n, Spawn("slot", r, n), UNCHANGED sem,
               disp.pc # "idle", disp' = IdleDisp
        PROVE  SlotInv'
    <2>1. PICK w \in Workers : /\ worker[w].pc = "none" /\ worker'[w].pc = "slot"
                               /\ \A v \in Workers \ {w} : worker'[v] = worker[v]
      BY <1>6, SpawnFrame
    <2>2. w \notin SlotHolders /\ SlotHolders' = SlotHolders \cup {w}
      BY <2>1, HolderMoves, Points
    <2>3. sem'.cur = sem.cur /\ sem'.cur \in Nat
      BY <1>6, SemSteps
    <2>4. sem'.cur - DispHolds' = sem.cur - DispHolds + 1
      BY <1>1, <1>3, <1>4, <1>6, <2>3
    <2> QED  BY <2>2, <2>3, <2>4, HolderAdded
  <1>7. CASE DispAcquire
    <2>1. sem'.cur = sem.cur + 1 /\ sem'.cur \in Nat
      BY <1>7, SemSteps DEF DispAcquire
    <2>2. disp.pc = "idle" /\ disp'.pc # "idle"
      BY <1>5, <1>7 DEF DispAcquire
    <2> QED  BY <1>1, <1>2, <1>3, <1>7, <2>1, <2>2, HoldersSame DEF DispAcquire
  <1>8. CASE DispGiveUp
    <2>1. disp.pc # "idle" /\ disp'.pc = "idle"
      BY <1>4, <1>8 DEF DispGiveUp
    <2>2. sem.cur > 0
      BY <1>1, <2>1, SlotCount
    <2>3. sem'.cur = sem.cur - 1 /\ sem'.cur \in Nat
      BY <1>8, <2>2, SemSteps DEF DispGiveUp
    <2> QED  BY <1>1, <1>2, <1>3, <1>8, <2>1, <2>3, HoldersSame DEF DispGiveUp
  <1>9. CASE DispRead
    <2>1. disp.pc # "idle" /\ disp'.pc # "idle"
      BY <1>9 DEF DispRead
    <2>2. sem'.cur = sem.cur /\ sem'.cur \in Nat
      BY <1>9, SemSteps DEF DispRead
    <2> QED  BY <1>1, <1>2, <1>3, <1>9, <2>1, <2>2, HoldersSame DEF DispRead
  <1>10. CASE DispClaim
    <2>1. CASE disp.node = 0
      BY <1>6, <1>10, <2>1 DEF DispClaim
    <2>2. CASE disp.node # 0
      <3>1. disp.pc # "idle" /\ disp'.pc # "idle" /\ UNCHANGED worker
        BY <1>5, <1>10, <2>2 DEF DispClaim
      <3>2. sem'.cur = sem.cur /\ sem'.cur \in Nat
        BY <1>10, SemSteps DEF DispClaim
      <3> QED  BY <1>1, <1>2, <1>3, <3>1, <3>2, HoldersSame
    <2> QED  BY <2>1, <2>2
  <1>11. CASE DispClear
    BY <1>6, <1>11 DEF DispClear
  <1> QED  BY <1>7, <1>8, <1>9, <1>10, <1>11 DEF Dispatch

LEMMA SlotWorker ==
    ASSUME TypeInv, SlotInv, NEW w \in Workers, Admission(w) \/ Drive(w)
    PROVE  SlotInv'
  <1> USE DEF TypeInv
  <1>1. disp' = disp
    BY DrivingFrame DEF Admission, Admit, AdmitDirect, AdmitClear, QueueForAdmission,
       Drive, Driving, TakeExecuteSlot, ExecuteSlotTimeout, Requeue, EndExecute,
       ReleaseSlot
  <1>2. DispHolds' = DispHolds /\ DispHolds \in {0, 1} /\ sem.cur \in Nat
    BY <1>1 DEF DispHolds, SemOK
  \* Between points with a slot, or points without one, nothing changes hands.
  <1>3. ASSUME UNCHANGED sem, \A v \in Workers \ {w} : worker'[v] = worker[v],
               worker[w].pc \in SlotPC <=> worker'[w].pc \in SlotPC
        PROVE  SlotInv'
    BY <1>2, <1>3, HolderMoves, SemSteps, HoldersSame
  \* A worker that goes back without its slot has released it.
  <1>4. ASSUME Release, \A v \in Workers \ {w} : worker'[v] = worker[v],
               worker[w].pc \in SlotPC, worker'[w].pc \notin SlotPC
        PROVE  SlotInv'
    <2>1. w \in SlotHolders /\ SlotHolders' = SlotHolders \ {w}
      BY <1>4, HolderMoves
    <2>2. sem'.cur = sem.cur - 1 /\ sem'.cur \in Nat
      BY <1>2, <1>4, <2>1, SlotCount, SemSteps
    <2> QED  BY <1>2, <2>1, <2>2, HolderRemoved
  <1>5. NoWorker.pc = "none"
    BY DEF NoWorker
  <1>6. worker' = [worker EXCEPT ![w] = NoWorker]
          => /\ worker'[w].pc = "none"
             /\ \A v \in Workers \ {w} : worker'[v] = worker[v]
    BY <1>5 DEF WorkersOK
  <1>7. CASE Admit(w)
    <2>1. CASE TryAcquire /\ Goto(w, "direct")
      <3>1. w \notin SlotHolders /\ SlotHolders' = SlotHolders \cup {w}
        BY <1>7, <2>1, GotoFrame, HolderMoves, Points DEF Admit
      <3>2. sem'.cur = sem.cur + 1 /\ sem'.cur \in Nat
        BY <2>1, SemSteps
      <3> QED  BY <1>2, <3>1, <3>2, HolderAdded
    <2>2. CASE Goto(w, "queue") /\ UNCHANGED sem
      BY <1>3, <1>7, <2>2, GotoFrame, Points DEF Admit
    <2> QED  BY <1>7, <2>1, <2>2 DEF Admit
  <1>8. CASE AdmitDirect(w)
    <2>1. CASE Goto(w, "clear") /\ UNCHANGED sem
      BY <1>3, <1>8, <2>1, GotoFrame, Points DEF AdmitDirect
    <2>2. CASE Release /\ Goto(w, "queue")
      BY <1>4, <1>8, <2>2, GotoFrame, Points DEF AdmitDirect
    <2> QED  BY <1>8, <2>1, <2>2 DEF AdmitDirect
  <1>9. CASE AdmitClear(w)
    BY <1>3, <1>9, GotoFrame, Points DEF AdmitClear
  <1>10. CASE QueueForAdmission(w)
    BY <1>3, <1>6, <1>10, Points DEF QueueForAdmission
  <1>11. CASE Driving(w)
    BY <1>3, <1>11, DrivingFrame, Points
  <1>12. CASE TakeExecuteSlot(w) \/ ExecuteSlotTimeout(w) \/ Requeue(w) \/ EndExecute(w)
    <2>1. /\ UNCHANGED sem /\ worker[w].pc \in SlotPC
          /\ \E l \in {"load", "requeue", "release"} : Goto(w, l)
      BY <1>12, Points DEF TakeExecuteSlot, ExecuteSlotTimeout, Requeue, EndExecute
    <2> QED  BY <1>3, <2>1, GotoFrame, Points
  <1>13. CASE ReleaseSlot(w)
    BY <1>4, <1>6, <1>13, Points DEF ReleaseSlot
  <1> QED
    BY <1>7, <1>8, <1>9, <1>10, <1>11, <1>12, <1>13
       DEF Admission, Drive, Driving

LEMMA SlotStep ==
    ASSUME TypeInv, SlotInv, [Next]_vars
    PROVE  SlotInv'
  <1> USE DEF TypeInv
  <1>1. ASSUME sem'.cur = sem.cur, disp' = disp, SlotHolders' = SlotHolders
        PROVE  SlotInv'
    BY <1>1, SlotCount DEF SlotInv, SlotAccounting
  <1>2. CASE Dispatch
    BY <1>2, SlotDispatch
  <1>3. CASE \E w \in Workers : Admission(w) \/ Drive(w)
    BY <1>3, SlotWorker
  <1>4. CASE \E q \in Requests : InFlight(q)
    <2>1. PICK q \in Requests : InFlight(q)
      BY <1>4
    <2>2. sem' = sem /\ disp' = disp
      BY <2>1 DEF InFlight, CancelFinish, CancelCleanup, CancelForce, GateResolve,
             GateAdvance, GateHalted, GateComplete, ResumeIdle, ResumeLaunch
    <2>3. UNCHANGED worker \/ \E n : Spawn("admit", req[q].run, n)
      BY <2>1 DEF InFlight, CancelFinish, CancelCleanup, CancelForce, GateResolve,
             GateAdvance, GateHalted, GateComplete, ResumeIdle, ResumeLaunch
    <2>4. SlotHolders' = SlotHolders
      <3>1. CASE UNCHANGED worker
        BY <3>1 DEF SlotHolders
      <3>2. CASE \E n : Spawn("admit", req[q].run, n)
        BY <3>2, SpawnFrame, HolderMoves, Points
      <3> QED  BY <2>3, <3>1, <3>2
    <2> QED  BY <1>1, <2>2, <2>4
  <1>5. CASE SetMaxConcurrent
    <2>1. sem'.cur = sem.cur
      BY <1>5 DEF SetMaxConcurrent, SemOK
    <2> QED  BY <1>1, <1>5, <2>1 DEF SetMaxConcurrent, SlotHolders
  <1>6. CASE Restart
    <2>1. \A w \in Workers : worker'[w].pc = "none"
      BY <1>6 DEF Restart, NoWorker
    <2>2. SlotHolders' = {}
      BY <2>1, Points DEF SlotHolders
    <2>3. sem'.cur = 0 /\ disp'.pc = "idle"
      BY <1>6 DEF Restart, SemOK, IdleDisp
    <2> QED  BY <2>2, <2>3, FS_EmptySet DEF SlotInv, SlotAccounting
  <1>7. CASE UNCHANGED <<sem, disp, worker>>
    BY <1>1, <1>7 DEF SlotHolders
  <1> QED
    BY <1>2, <1>3, <1>4, <1>5, <1>6, <1>7
       DEF Next, StartRun, UpdateRunPriority, Halt, CancelRead, GateRead,
           ResumeRead, vars

\* No concurrency slot is leaked or freed twice, for any number of workers,
\* requests, restarts and changes of the limit.
THEOREM SlotsAreCounted == Spec => []SlotAccounting
  <1>1. ASSUME Init PROVE SlotInv
    <2>1. \A w \in Workers : worker[w].pc = "none"
      BY <1>1 DEF Init, NoWorker
    <2>2. SlotHolders = {}
      BY <2>1, Points DEF SlotHolders
    <2>3. sem.cur = 0 /\ disp.pc = "idle"
      BY <1>1 DEF Init, IdleDisp
    <2> QED  BY <2>2, <2>3, FS_EmptySet DEF SlotInv, SlotAccounting
  <1>2. TypeInv /\ SlotInv /\ [Next]_vars => SlotInv'
    BY SlotStep
  <1>3. SlotInv => SlotAccounting
    BY DEF SlotInv
  <1> QED  BY AlwaysTyped, <1>1, <1>2, <1>3, PTL DEF Spec
=============================================================================
