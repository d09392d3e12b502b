-------------------------- MODULE RunTimelineProofs --------------------------
(***************************************************************************)
(* What RunTimeline promises for any runs and any bounds: every property   *)
(* of its run but the liveness one.                                        *)
(*                                                                         *)
(* The handlers that ask for events end in one of five ways: they stop the *)
(* attempt, start one, refresh, send a plain request or do nothing.  The   *)
(* lemmas about them are stated once, for each invariant, and every action *)
(* that asks uses them.                                                    *)
(***************************************************************************)
EXTENDS RunTimeline, TLAPS

(* A handler asks for events, or decides not to.                           *)
Asks ==
  \/ orchStop
  \/ orchAttempt
  \/ orch.status = "ready" /\ orchRefresh
  \/ SendPlain /\ UNCHANGED <<orch, tracked>>
  \/ Nothing

(* rehydrateNodeEvents is one of these ways.                               *)
LEMMA RehydrateAsks ==
  ASSUME NEW isRunning \in BOOLEAN, NEW force \in BOOLEAN,
         rehydrateNodeEvents(isRunning, force)
  PROVE  Asks
BY DEF rehydrateNodeEvents, Asks

(* Which steps ask, and what they leave alone besides.                     *)
Asking ==
  /\ Asks
  /\ UNCHANGED <<server, route, navs, reader>>

LEMMA AskingSteps ==
  ASSUME TypeOK,
         runSelectionSideEffects \/ retryRehydrate \/ PollTick
           \/ seedDialogueNodeOnce \/ LoadLands
  PROVE  Asking
<1>1. CASE runSelectionSideEffects
  BY <1>1, RehydrateAsks DEF runSelectionSideEffects, Asking, TypeOK
<1>2. CASE retryRehydrate
  BY <1>2, RehydrateAsks DEF retryRehydrate, Asking, TypeOK
<1>3. CASE PollTick
  BY <1>3, RehydrateAsks DEF PollTick, Asking, Asks, TypeOK
<1>4. CASE seedDialogueNodeOnce
  BY <1>4 DEF seedDialogueNodeOnce, Asking, Asks
<1>5. CASE LoadLands
  BY <1>5, RehydrateAsks DEF LoadLands, Asking
<1> QED  BY <1>1, <1>2, <1>3, <1>4, <1>5

-----------------------------------------------------------------------------
(* Type correctness                                                        *)

USE RunsAssumption, BoundsAssumption

(* An attempt takes a generation that stays within the requests sent.      *)
TypeInv == TypeOK /\ orch.gen <= sent

(* The records that steps change one field of.                             *)
OrchType == [status : Statuses, gen : 0..MaxFetch, timer : BOOLEAN]
SocketType == [on : BOOLEAN, liveNode : BOOLEAN, hi : 0..MaxLog]

(* Setting the status or disarming the timer keeps the generation.         *)
LEMMA OrchFields ==
  ASSUME NEW o \in OrchType, NEW s \in Statuses
  PROVE  /\ [o EXCEPT !.status = s, !.timer = FALSE] \in OrchType
         /\ [o EXCEPT !.status = s, !.timer = FALSE].gen = o.gen
         /\ [o EXCEPT !.timer = FALSE, !.status = s] \in OrchType
         /\ [o EXCEPT !.timer = FALSE, !.status = s].gen = o.gen
         /\ [o EXCEPT !.timer = FALSE] \in OrchType
         /\ [o EXCEPT !.timer = FALSE].gen = o.gen
  BY DEF OrchType

(* The socket as a load leaves it, down or just opened.                    *)
LEMMA SocketTypes ==
  /\ SocketDown \in SocketType
  /\ [SocketDown EXCEPT !.on = TRUE] \in SocketType
<1>1. 0 \in 0..MaxLog
  OBVIOUS
<1>2. SocketDown \in SocketType
  BY <1>1 DEF SocketDown, SocketType
<1>3. ASSUME NEW d \in SocketType
      PROVE  [d EXCEPT !.on = TRUE] \in SocketType
  BY DEF SocketType
<1> QED  BY <1>2, <1>3

LEMMA NewFetchType ==
  ASSUME TypeInv, sent < MaxFetch, NEW a \in 0..MaxFetch
  PROVE  NewFetch(a) \in Fetch
  BY DEF NewFetch, Fetch, Reading, TypeInv, TypeOK

(* Requests, orchestrator and counters keep their types when asked.        *)
LEMMA AskTypes ==
  ASSUME TypeInv, Asks
  PROVE  /\ fetchGen' \in 0..sent' /\ sent' \in 0..MaxFetch
         /\ orch' \in [status : Statuses, gen : 0..MaxFetch, timer : BOOLEAN]
         /\ tracked' \in Fetch \cup {NoFetch} /\ plain' \subseteq Fetch
         /\ orch'.gen <= sent'
  <1> USE DEF TypeInv, TypeOK, Statuses
  <1>1. CASE orchStop
    <2>1. sent < MaxFetch /\ NewFetch(0) \in Fetch
      BY <1>1, NewFetchType DEF orchStop, SendPlain, Send
    <2>2. orch \in OrchType /\ "idle" \in Statuses
      BY DEF OrchType
    <2>3. orch' \in OrchType /\ orch'.gen = orch.gen
      BY <1>1, <2>2, OrchFields DEF orchStop
    <2>4. orch'.gen <= sent' /\ tracked' = NoFetch
          /\ plain' = plain \cup {NewFetch(0)}
          /\ sent' = sent + 1 /\ fetchGen' = fetchGen + 1
      BY <1>1, <2>2, <2>3 DEF orchStop, SendPlain, Send, OrchType
    <2> QED
      BY <2>1, <2>3, <2>4 DEF OrchType
  <1>2. CASE orchAttempt
    <2>1. sent < MaxFetch /\ orch.gen + 1 \in 0..MaxFetch
      BY <1>2 DEF orchAttempt, Send
    <2>2. NewFetch(orch.gen + 1) \in Fetch
      BY <2>1, NewFetchType
    <2> QED
      BY <1>2, <2>1, <2>2 DEF orchAttempt, Send
  <1>3. CASE orch.status = "ready" /\ orchRefresh
    <2>1. sent < MaxFetch /\ NewFetch(0) \in Fetch
      BY <1>3, NewFetchType DEF orchRefresh, Send
    <2> QED
      BY <1>3, <2>1 DEF orchRefresh, Send
  <1>4. CASE SendPlain /\ UNCHANGED <<orch, tracked>>
    <2>1. sent < MaxFetch /\ NewFetch(0) \in Fetch
      BY <1>4, NewFetchType DEF SendPlain, Send
    <2> QED
      BY <1>4, <2>1 DEF SendPlain, Send
  <1>5. CASE Nothing
    BY <1>5 DEF Nothing
  <1> QED
    BY <1>1, <1>2, <1>3, <1>4, <1>5 DEF Asks

(* An answer, or none, keeps page and cache within their types.            *)
LEMMA LandTypes ==
  ASSUME TypeInv, NEW f \in Fetch, LandsOk(f) \/ LandsNotOk(f)
  PROVE  /\ page' \in Page /\ cache' \in [Runs -> Page]
         /\ visit' \in [entered : 0..MaxFetch, read : BOOLEAN]
  <1> USE DEF TypeInv, TypeOK
  <1>1. CASE LandsNotOk(f)
    BY <1>1 DEF LandsNotOk, reader
  <1>2. CASE LandsOk(f)
    <2>1. PICK a \in {f.snap, Reading(f.run)} : WriteAnswer(f, a)
      BY <1>2 DEF LandsOk
    <2>2. a.hi \in 0..MaxLog /\ a.live \in BOOLEAN /\ f.run \in Runs
          /\ f.id \in 0..MaxFetch
      <3>1. f.snap \in [hi : 0..MaxLog, live : BOOLEAN]
        BY DEF Fetch
      <3>2. f.run \in Runs /\ f.id \in 0..MaxFetch
        BY DEF Fetch
      <3>3. Reading(f.run) \in [hi : 0..MaxLog, live : BOOLEAN]
        BY <3>2 DEF Reading
      <3> QED
        BY <3>1, <3>2, <3>3
    <2>3. mergeAcpEvents(page.hi, a) \in 0..MaxLog
      BY <2>2 DEF mergeAcpEvents, Page
    <2> DEFINE p == [run |-> f.run, hi |-> mergeAcpEvents(page.hi, a),
                     live |-> a.live, from |-> f.id]
    <2>4. p \in Page
      BY <2>2, <2>3 DEF Page
    <2>5. page' = p /\ cache' = putLiveLogEventPage(route, p)
          /\ visit' = [visit EXCEPT !.read = TRUE]
      BY <2>1 DEF WriteAnswer
    <2> HIDE DEF p
    <2> QED
      BY <2>4, <2>5 DEF putLiveLogEventPage
  <1> QED
    BY <1>1, <1>2

LEMMA TypeInit ==
  ASSUME Init
  PROVE  TypeInv
  <1>1. NoPage \in Page
    BY DEF NoPage, Page
  <1>2. OrchInit \in OrchType /\ OrchInit.gen = 0
    BY DEF OrchInit, OrchType, Statuses
  <1>3. log \in [Runs -> 0..MaxLog] /\ phase \in [Runs -> Phases]
    BY DEF Init, Phases
  <1>4. cache \in [Runs -> Page] /\ page \in Page
    BY <1>1 DEF Init
  <1>5. socket \in SocketType
    BY SocketTypes DEF Init
  <1>6. orch \in OrchType /\ orch.gen <= sent
    BY <1>2 DEF Init
  <1>7. visit \in [entered : 0..MaxFetch, read : BOOLEAN]
    BY DEF Init
  <1>8. /\ route \in Runs /\ navs \in 0..MaxNav
        /\ fetchGen \in 0..sent /\ sent \in 0..MaxFetch
    BY DEF Init
  <1>10. loaded \in BOOLEAN /\ running \in BOOLEAN
    BY DEF Init
  <1>9. tracked \in Fetch \cup {NoFetch} /\ plain \subseteq Fetch
    BY DEF Init
  <1> QED
    BY <1>3, <1>4, <1>5, <1>6, <1>7, <1>8, <1>9, <1>10
       DEF TypeInv, TypeOK, OrchType, SocketType

LEMMA TypeStep ==
  ASSUME TypeInv, [Next]_vars
  PROVE  TypeInv'
  <1> USE DEF TypeInv, TypeOK
  <1>1. CASE Asking /\ UNCHANGED <<loaded, running, socket>>
    BY <1>1, AskTypes DEF Asking, server, reader
  <1>2. CASE LoadLands
    <2>1. Asking
      BY <1>2, AskingSteps
    <2>2. loaded' \in BOOLEAN /\ running' \in BOOLEAN
      BY <1>2 DEF LoadLands
    <2>3. socket' \in [on : BOOLEAN, liveNode : BOOLEAN, hi : 0..MaxLog]
      BY <1>2, SocketTypes DEF LoadLands, SocketType
    <2> QED
      BY <2>1, <2>2, <2>3, AskTypes DEF Asking, server, reader
  <1>3. CASE TrackedLands
    <2>1. tracked \in Fetch
      BY <1>3 DEF TrackedLands
    <2>2. LandsOk(tracked) \/ LandsNotOk(tracked)
      BY <1>3 DEF TrackedLands
    <2>3. PICK ok \in BOOLEAN : orch' = resolveRehydrateAfterFetch(tracked, ok)
      BY <1>3 DEF TrackedLands
    <2>4. orch \in OrchType /\ "ready" \in Statuses /\ "error" \in Statuses
      BY DEF OrchType, Statuses
    <2>5. orch' \in OrchType /\ orch'.gen = orch.gen
      BY <2>3, <2>4, OrchFields DEF resolveRehydrateAfterFetch
    <2> QED
      BY <1>3, <2>1, <2>2, <2>5, LandTypes DEF TrackedLands, server, OrchType
  <1>4. CASE \E f \in plain : PlainLands(f)
    <2>1. PICK f \in plain : PlainLands(f)
      BY <1>4
    <2> QED
      BY <2>1, LandTypes DEF PlainLands, server
  <1>5. CASE TimerFires
    <2>1. orch \in OrchType /\ "error" \in Statuses
      BY DEF OrchType, Statuses
    <2>2. \/ orch' = [orch EXCEPT !.status = "error", !.timer = FALSE]
          \/ orch' = [orch EXCEPT !.timer = FALSE]
      BY <1>5 DEF TimerFires
    <2>4. orch' \in OrchType /\ orch'.gen = orch.gen
      <3> HIDE DEF TypeInv, TypeOK
      <3> QED
        BY <2>1, <2>2, OrchFields
    <2>3. tracked' \in Fetch \cup {NoFetch}
      BY <1>5 DEF TimerFires
    <2> QED
      BY <1>5, <2>4, <2>3 DEF TimerFires, server, reader, OrchType
  <1>6. CASE SocketChanges
    BY <1>6 DEF SocketChanges, server, reader
  <1>7. CASE \E k \in 0..MaxLog : mergeLiveWsAcpPage(k)
    <2>1. PICK k \in 0..MaxLog : mergeLiveWsAcpPage(k)
      BY <1>7
    <2> DEFINE p == applyLiveWsAcpPage(k)
    <2>2. p \in Page
      BY DEF applyLiveWsAcpPage, Page
    <2>3. page' = p /\ cache' \in {cache, putLiveLogEventPage(route, p)}
      BY <2>1 DEF mergeLiveWsAcpPage
    <2>4. socket' \in [on : BOOLEAN, liveNode : BOOLEAN, hi : 0..MaxLog]
      BY <2>1 DEF mergeLiveWsAcpPage
    <2> HIDE DEF p
    <2>5. cache' \in [Runs -> Page]
      BY <2>2, <2>3 DEF putLiveLogEventPage
    <2> QED
      BY <2>1, <2>2, <2>3, <2>4, <2>5 DEF mergeLiveWsAcpPage, server
  <1>8. CASE SoftLoad
    BY <1>8 DEF SoftLoad, server, reader
  <1>9. CASE \E r \in Runs : HardLoad(r)
    <2>1. PICK r \in Runs : HardLoad(r)
      BY <1>9
    <2>2. NoPage \in Page
      BY DEF NoPage, Page
    <2>3. page' \in Page /\ cache' \in [Runs -> Page]
      BY <2>1, <2>2 DEF HardLoad, resetLiveLogState
    <2>4. /\ orch' \in OrchType /\ orch'.gen = 0 /\ fetchGen' = 0
          /\ tracked' = NoFetch
          /\ visit' \in [entered : 0..MaxFetch, read : BOOLEAN]
      BY <2>1 DEF HardLoad, resetLiveLogState, OrchInit, OrchType, Statuses
    <2>5. socket' \in [on : BOOLEAN, liveNode : BOOLEAN, hi : 0..MaxLog]
      BY <2>1, SocketTypes DEF HardLoad, SocketType
    <2>6. /\ route' \in Runs /\ navs' \in 0..MaxNav
          /\ UNCHANGED <<log, phase, plain, sent>>
      BY <2>1 DEF HardLoad, server
    <2>7. loaded' \in BOOLEAN /\ running' \in BOOLEAN
      BY <2>1 DEF HardLoad
    <2> QED
      BY <2>3, <2>4, <2>5, <2>6, <2>7 DEF OrchType
  <1>10. CASE \E r \in Runs : Emit(r)
    BY <1>10 DEF Emit, reader
  <1>11. CASE \E r \in Runs : Advance(r)
    BY <1>11 DEF Advance, reader, Phases
  <1>12. CASE UNCHANGED vars
    BY <1>12 DEF vars
  <1>13. CASE runSelectionSideEffects \/ retryRehydrate \/ PollTick
                \/ seedDialogueNodeOnce
    BY <1>1, <1>13, AskingSteps
       DEF runSelectionSideEffects, retryRehydrate, PollTick,
           seedDialogueNodeOnce
  <1> QED
    BY <1>2, <1>3, <1>4, <1>5, <1>6, <1>7, <1>8, <1>9, <1>10, <1>11, <1>12,
       <1>13 DEF Next

(* TypeOK holds in every state, for any runs and bounds: no request, event *)
(* or generation counter leaves its range.                                 *)
THEOREM TypeCorrect == Spec => []TypeOK
  <1>1. TypeInv => TypeOK
    BY DEF TypeInv
  <1> QED
    BY TypeInit, TypeStep, <1>1, PTL DEF Spec

-----------------------------------------------------------------------------
(* The orchestrator and its request                                        *)

Attended == LoadingAttended /\ TrackedIsRouted /\ ReadyHasBeenRead

(* A request of an attempt is never the absent one.                        *)
LEMMA NewFetchFields ==
  ASSUME TypeInv, sent < MaxFetch, NEW a \in 0..MaxFetch
  PROVE  /\ NewFetch(a) # NoFetch /\ NewFetch(a).run = route
         /\ NewFetch(a).attempt = a
         /\ NewFetch(a).id = sent + 1 /\ NewFetch(a).gen = fetchGen + 1
<1>1. NewFetch(a).id # NoFetch.id
  BY DEF NewFetch, NoFetch, TypeInv, TypeOK
<1> QED  BY <1>1 DEF NewFetch

LEMMA AskAttended ==
  ASSUME TypeInv, Attended, Asks, UNCHANGED <<route, visit>>
  PROVE  Attended'
  <1> USE DEF Attended, LoadingAttended, TrackedIsRouted, ReadyHasBeenRead
  <1>1. CASE orchStop
    <2>1. orch'.status = "idle" /\ tracked' = NoFetch
      BY <1>1 DEF orchStop, TypeInv, TypeOK
    <2> QED  BY <2>1
  <1>2. CASE orchAttempt
    <2>1. sent < MaxFetch /\ orch.gen + 1 \in 0..MaxFetch
      BY <1>2 DEF orchAttempt, Send, TypeInv, TypeOK
    <2>2. /\ orch'.status = "loading" /\ orch'.timer
          /\ orch'.gen = orch.gen + 1
          /\ tracked' = NewFetch(orch.gen + 1)
      BY <1>2 DEF orchAttempt
    <2> QED  BY <2>1, <2>2, NewFetchFields
  <1>3. CASE orch.status = "ready" /\ orchRefresh
    <2>1. sent < MaxFetch /\ 0 \in 0..MaxFetch
      BY <1>3 DEF orchRefresh, Send, TypeInv, TypeOK
    <2>2. tracked' = NewFetch(0) /\ orch' = orch
      BY <1>3 DEF orchRefresh
    <2> QED  BY <1>3, <2>1, <2>2, NewFetchFields
  <1>4. CASE UNCHANGED <<orch, tracked>>
    BY <1>4
  <1> QED
    BY <1>1, <1>2, <1>3, <1>4 DEF Asks, Nothing

LEMMA AttendedInit == Init => Attended
  BY DEF Init, OrchInit, Attended, LoadingAttended, TrackedIsRouted,
         ReadyHasBeenRead

(* An answer that lands leaves no attempt without its request: the one it  *)
(* served is settled, and an older one had been replaced.                  *)
LEMMA TrackedLandsAttended ==
  ASSUME TypeInv, Attended, TrackedLands
  PROVE  Attended'
  <1> USE DEF Attended, LoadingAttended, TrackedIsRouted, ReadyHasBeenRead
  <1>1. PICK ok \in BOOLEAN :
          /\ orch' = resolveRehydrateAfterFetch(tracked, ok)
          /\ IF ok THEN LandsOk(tracked) ELSE LandsNotOk(tracked)
    BY DEF TrackedLands
  <1>2. tracked' = NoFetch /\ route' = route
    BY DEF TrackedLands
  <1>3. CASE tracked.attempt # orch.gen \/ orch.status # "loading"
    <2>1. orch' = orch /\ orch.status # "loading"
      BY <1>1, <1>3 DEF resolveRehydrateAfterFetch, TrackedLands
    <2>2. visit'.read = visit.read \/ visit'.read
      BY <1>1 DEF LandsOk, LandsNotOk, WriteAnswer, reader, TypeInv, TypeOK
    <2> QED  BY <1>2, <2>1, <2>2
  <1>4. CASE tracked.attempt = orch.gen /\ orch.status = "loading"
    <2>1. orch'.status = IF ok THEN "ready" ELSE "error"
      BY <1>1, <1>4 DEF resolveRehydrateAfterFetch, TypeInv, TypeOK
    <2>2. CASE ok
      <3>1. visit' = [visit EXCEPT !.read = TRUE]
        BY <1>1, <2>2 DEF LandsOk, WriteAnswer
      <3>2. visit'.read
        BY <3>1 DEF TypeInv, TypeOK
      <3> QED  BY <1>2, <2>1, <2>2, <3>2
    <2>3. CASE ~ok
      BY <1>2, <2>1, <2>3
    <2> QED  BY <2>2, <2>3
  <1> QED  BY <1>3, <1>4

LEMMA AttendedStep ==
  ASSUME TypeInv, Attended, [Next]_vars
  PROVE  Attended'
  <1> DEFINE Same == UNCHANGED <<route, visit, orch, tracked>>
  <1>1. ASSUME Same PROVE Attended'
    BY <1>1 DEF Attended, LoadingAttended, TrackedIsRouted, ReadyHasBeenRead
  <1>2. CASE runSelectionSideEffects \/ retryRehydrate \/ PollTick
               \/ seedDialogueNodeOnce \/ LoadLands
    BY <1>2, AskingSteps, AskAttended DEF Asking, reader, TypeInv
  <1>3. CASE TrackedLands
    BY <1>3, TrackedLandsAttended
  <1>4. CASE \E f \in plain : PlainLands(f)
    <2>1. PICK f \in plain : PlainLands(f)
      BY <1>4
    <2>2. visit' = visit \/ visit' = [visit EXCEPT !.read = TRUE]
      BY <2>1 DEF PlainLands, LandsOk, LandsNotOk, WriteAnswer, reader
    <2>3. visit.read => visit'.read
      BY <2>2 DEF TypeInv, TypeOK
    <2> QED
      BY <2>1, <2>3 DEF PlainLands, Attended, LoadingAttended,
                        TrackedIsRouted, ReadyHasBeenRead
  <1>5. CASE TimerFires
    <2>1. route' = route /\ visit' = visit
      BY <1>5 DEF TimerFires, reader
    <2>2. CASE orch.status = "loading"
      <3>1. orch'.status = "error" /\ tracked' = NoFetch
        BY <1>5, <2>2 DEF TimerFires, TypeInv, TypeOK
      <3> QED
        BY <2>1, <3>1 DEF Attended, LoadingAttended, TrackedIsRouted,
                          ReadyHasBeenRead
    <2>3. CASE orch.status # "loading"
      <3>1. orch'.status = orch.status /\ tracked' = tracked
        BY <1>5, <2>3 DEF TimerFires, TypeInv, TypeOK
      <3> QED
        BY <2>1, <2>3, <3>1 DEF Attended, LoadingAttended, TrackedIsRouted,
                                ReadyHasBeenRead
    <2> QED  BY <2>2, <2>3
  <1>6. CASE \E r \in Runs : HardLoad(r)
    <2>1. orch' = OrchInit /\ tracked' = NoFetch
      BY <1>6 DEF HardLoad, resetLiveLogState
    <2> QED
      BY <2>1 DEF OrchInit, Attended, LoadingAttended, TrackedIsRouted,
                  ReadyHasBeenRead
  <1>7. CASE SocketChanges
    BY <1>1, <1>7 DEF SocketChanges, reader
  <1>8. CASE \E k \in 0..MaxLog : mergeLiveWsAcpPage(k)
    BY <1>1, <1>8 DEF mergeLiveWsAcpPage
  <1>9. CASE SoftLoad
    BY <1>1, <1>9 DEF SoftLoad, reader
  <1>10. CASE \E r \in Runs : Emit(r) \/ Advance(r)
    BY <1>1, <1>10 DEF Emit, Advance, reader
  <1>11. CASE UNCHANGED vars
    BY <1>1, <1>11 DEF vars
  <1> QED
    BY <1>2, <1>3, <1>4, <1>5, <1>6, <1>7, <1>8, <1>9, <1>10, <1>11 DEF Next

LEMMA AlwaysAttended == Spec => [](TypeInv /\ Attended)
<1>1. TypeInv /\ Attended /\ [Next]_vars => (TypeInv /\ Attended)'
  BY TypeStep, AttendedStep
<1> QED  BY TypeInit, AttendedInit, <1>1, PTL DEF Spec

(* A node that shows "loading" always has its request in flight and its    *)
(* time limit armed: nothing leaves it loading for ever.                   *)
THEOREM LoadingIsAttended == Spec => []LoadingAttended
<1>1. TypeInv /\ Attended => LoadingAttended
  BY DEF Attended
<1> QED  BY AlwaysAttended, <1>1, PTL

(* The request the orchestrator waits for never belongs to a run the user  *)
(* has left.                                                               *)
THEOREM TrackedRequestIsRouted == Spec => []TrackedIsRouted
<1>1. TypeInv /\ Attended => TrackedIsRouted
  BY DEF Attended
<1> QED  BY AlwaysAttended, <1>1, PTL

(* "ready" is never shown before an answer of this visit was written.      *)
THEOREM ReadyMeansRead == Spec => []ReadyHasBeenRead
<1>1. TypeInv /\ Attended => ReadyHasBeenRead
  BY DEF Attended
<1> QED  BY AlwaysAttended, <1>1, PTL

-----------------------------------------------------------------------------
(* The order answers are written in                                        *)

(* A request of this visit, once its generation is known, is the n-th of   *)
(* the visit; one sent before it has a number at most visit.entered.       *)
Numbered(f) ==
  f.id <= sent /\ (f.id > visit.entered => f.id - f.gen = visit.entered)

(* The generation counts the requests of the visit, so the only request    *)
(* whose answer is accepted is the last one sent, and nothing shown came   *)
(* from a later one.                                                       *)
GenInv ==
  /\ fetchGen = sent - visit.entered
  /\ \A f \in plain \cup {tracked} : Numbered(f)
  /\ page.from <= sent /\ \A r \in Runs : cache[r].from <= sent

LEMMA GenInit == Init => GenInv
<1> SUFFICES ASSUME Init PROVE GenInv
  OBVIOUS
<1>1. NoFetch.id = 0 /\ NoPage.from = 0
  BY DEF NoFetch, NoPage
<1> QED  BY <1>1 DEF Init, GenInv, Numbered

(* The numbers of requests are naturals.                                   *)
LEMMA Numbers ==
  ASSUME TypeInv
  PROVE  /\ sent \in Nat /\ fetchGen \in Nat /\ visit.entered \in Nat
         /\ page.from \in Nat /\ \A r \in Runs : cache[r].from \in Nat
         /\ \A f \in plain \cup {tracked} : f.id \in Nat /\ f.gen \in Nat
<1>1. \A f \in Fetch \cup {NoFetch} : f.id \in Nat /\ f.gen \in Nat
  BY DEF Fetch, NoFetch
<1>2. sent \in Nat /\ fetchGen \in Nat
  BY DEF TypeInv, TypeOK
<1>3. visit.entered \in Nat
  BY DEF TypeInv, TypeOK
<1>4. page.from \in Nat /\ \A r \in Runs : cache[r].from \in Nat
  BY DEF TypeInv, TypeOK, Page
<1> QED  BY <1>1, <1>2, <1>3, <1>4 DEF TypeInv, TypeOK

(* However a handler asks, at most one request is sent, numbered next.     *)
LEMMA AskSends ==
  ASSUME TypeInv, Asks
  PROVE  \/ /\ sent < MaxFetch /\ sent' = sent + 1 /\ fetchGen' = fetchGen + 1
            /\ \A f \in plain' \cup {tracked'} :
                 \/ f \in plain \cup {tracked, NoFetch}
                 \/ \E a \in 0..MaxFetch : f = NewFetch(a)
         \/ UNCHANGED <<sent, fetchGen, plain, tracked>>
<1>1. CASE orchStop
  BY <1>1 DEF orchStop, SendPlain, Send
<1>2. CASE orchAttempt
  <2>1. orch.gen + 1 \in 0..MaxFetch
    BY <1>2 DEF orchAttempt, Send, TypeInv, TypeOK
  <2> QED  BY <1>2, <2>1 DEF orchAttempt, Send
<1>3. CASE orchRefresh
  BY <1>3 DEF orchRefresh, Send
<1>4. CASE SendPlain /\ UNCHANGED <<orch, tracked>>
  BY <1>4 DEF SendPlain, Send
<1>5. CASE Nothing
  BY <1>5 DEF Nothing
<1> QED  BY <1>1, <1>2, <1>3, <1>4, <1>5 DEF Asks

LEMMA AskGen ==
  ASSUME TypeInv, GenInv, Asks, UNCHANGED reader
  PROVE  GenInv'
  <1>1. page' = page /\ cache' = cache /\ visit' = visit
    BY DEF reader
  <1>2. CASE UNCHANGED <<sent, fetchGen, plain, tracked>>
    BY <1>1, <1>2 DEF GenInv, Numbered
  <1>3. CASE /\ sent < MaxFetch /\ sent' = sent + 1 /\ fetchGen' = fetchGen + 1
             /\ \A f \in plain' \cup {tracked'} :
                  \/ f \in plain \cup {tracked, NoFetch}
                  \/ \E a \in 0..MaxFetch : f = NewFetch(a)
    <2>1. ASSUME NEW f \in plain' \cup {tracked'} PROVE Numbered(f)'
      <3>1. CASE f \in plain \cup {tracked}
        BY <1>1, <1>3, <3>1, Numbers DEF GenInv, Numbered
      <3>2. CASE f = NoFetch
        BY <1>1, <1>3, <3>2, Numbers DEF NoFetch, Numbered
      <3>3. CASE \E a \in 0..MaxFetch : f = NewFetch(a)
        <4>1. f.id = sent + 1 /\ f.gen = fetchGen + 1
          BY <1>3, <3>3, NewFetchFields
        <4> QED
          BY <1>1, <1>3, <4>1, Numbers DEF GenInv, Numbered
      <3> QED  BY <1>3, <3>1, <3>2, <3>3
    <2>2. fetchGen' = sent' - visit'.entered
      BY <1>1, <1>3, Numbers DEF GenInv
    <2>3. page'.from <= sent' /\ \A r \in Runs : cache'[r].from <= sent'
      BY <1>1, <1>3, Numbers DEF GenInv
    <2> QED  BY <2>1, <2>2, <2>3 DEF GenInv
  <1> QED  BY <1>2, <1>3, AskSends

(* An answer writes the number of the last request, or nothing.            *)
LEMMA LandGen ==
  ASSUME TypeInv, GenInv, NEW f \in plain \cup {tracked}, f # NoFetch,
         LandsOk(f) \/ LandsNotOk(f)
  PROVE  /\ visit'.entered = visit.entered
         /\ page'.from <= sent /\ \A r \in Runs : cache'[r].from <= sent
         /\ page'.from > visit.entered => page'.from >= page.from
  <1>1. CASE LandsNotOk(f)
    BY <1>1, Numbers DEF LandsNotOk, reader, GenInv
  <1>2. CASE LandsOk(f)
    <2>1. PICK a \in {f.snap, Reading(f.run)} : WriteAnswer(f, a)
      BY <1>2 DEF LandsOk
    <2> DEFINE p == [run |-> f.run, hi |-> mergeAcpEvents(page.hi, a),
                     live |-> a.live, from |-> f.id]
    <2>2. /\ page' = p /\ cache' = putLiveLogEventPage(route, p)
          /\ visit' = [visit EXCEPT !.read = TRUE]
      BY <2>1 DEF WriteAnswer
    <2>3. p.from = f.id /\ f.id <= sent
      BY DEF GenInv, Numbered
    <2>4. visit'.entered = visit.entered
      BY <2>2 DEF TypeInv, TypeOK
    <2>5. f.id > visit.entered => f.id = sent
      BY <1>2, Numbers DEF LandsOk, Accepted, GenInv, Numbered
    <2> HIDE DEF p
    <2>6. \A r \in Runs : cache'[r] \in {cache[r], p}
      BY <2>2 DEF putLiveLogEventPage, TypeInv, TypeOK
    <2> QED
      BY <2>2, <2>3, <2>4, <2>5, <2>6, Numbers DEF GenInv
  <1> QED  BY <1>1, <1>2

LEMMA GenStep ==
  ASSUME TypeInv, GenInv, [Next]_vars
  PROVE  /\ GenInv'
         /\ page'.from > visit.entered /\ navs' = navs
              => page'.from >= page.from
  <1> DEFINE Goal == /\ GenInv'
                     /\ page'.from > visit.entered /\ navs' = navs
                          => page'.from >= page.from
             Reads == <<sent, fetchGen, page, cache>>
  <1>1. ASSUME UNCHANGED Reads, visit'.entered = visit.entered,
               plain' \cup {tracked'} \subseteq plain \cup {tracked, NoFetch}
        PROVE  Goal
    <2>1. Numbered(NoFetch)
      BY Numbers DEF NoFetch, Numbered
    <2> QED  BY <1>1, <2>1, Numbers DEF GenInv, Numbered
  <1>2. CASE runSelectionSideEffects \/ retryRehydrate \/ PollTick
               \/ seedDialogueNodeOnce \/ LoadLands
    BY <1>2, AskingSteps, AskGen, Numbers DEF Asking, reader, TypeInv
  <1>3. CASE TrackedLands
    <2>1. LandsOk(tracked) \/ LandsNotOk(tracked)
      BY <1>3 DEF TrackedLands
    <2>2. /\ tracked # NoFetch /\ tracked' = NoFetch
          /\ UNCHANGED <<sent, fetchGen, plain>>
      BY <1>3 DEF TrackedLands
    <2>3. Numbered(NoFetch)
      BY Numbers DEF NoFetch, Numbered
    <2> QED
      BY <2>1, <2>2, <2>3, LandGen DEF GenInv, Numbered
  <1>4. CASE \E f \in plain : PlainLands(f)
    <2>1. PICK f \in plain : PlainLands(f)
      BY <1>4
    <2>2. f # NoFetch
      BY DEF NoFetch, Fetch, TypeInv, TypeOK
    <2>3. LandsOk(f) \/ LandsNotOk(f)
      BY <2>1 DEF PlainLands
    <2>4. plain' \subseteq plain /\ UNCHANGED <<sent, fetchGen, tracked>>
      BY <2>1 DEF PlainLands
    <2> QED
      BY <2>2, <2>3, <2>4, LandGen DEF GenInv, Numbered
  <1>5. CASE TimerFires
    BY <1>1, <1>5 DEF TimerFires, reader
  <1>6. CASE \E r \in Runs : HardLoad(r)
    <2>1. PICK r \in Runs : HardLoad(r)
      BY <1>6
    <2>2. /\ sent' = sent /\ plain' = plain /\ tracked' = NoFetch
          /\ fetchGen' = 0 /\ visit'.entered = sent /\ navs' # navs
      BY <2>1 DEF HardLoad, resetLiveLogState, TypeInv, TypeOK
    <2>3. NoPage.from = 0 /\ NoFetch.id = 0
      BY DEF NoPage, NoFetch
    <2>4. page' \in {cache[r], NoPage}
          /\ \A q \in Runs : cache'[q] \in {cache[q], NoPage}
      BY <2>1 DEF HardLoad, resetLiveLogState
    <2>5. \A f \in plain \cup {NoFetch} : Numbered(f)'
      BY <2>2, <2>3, Numbers DEF GenInv, Numbered
    <2> QED
      BY <2>2, <2>3, <2>4, <2>5, Numbers DEF GenInv
  <1>7. CASE \E k \in 0..MaxLog : mergeLiveWsAcpPage(k)
    <2>1. PICK k \in 0..MaxLog : mergeLiveWsAcpPage(k)
      BY <1>7
    <2> DEFINE p == applyLiveWsAcpPage(k)
    <2>2. p.from = page.from
      BY DEF applyLiveWsAcpPage, TypeInv, TypeOK, Page
    <2>3. /\ page' = p /\ cache' \in {cache, putLiveLogEventPage(route, p)}
          /\ UNCHANGED <<sent, fetchGen, plain, tracked, visit>>
      BY <2>1 DEF mergeLiveWsAcpPage
    <2> HIDE DEF p
    <2>4. \A r \in Runs : cache'[r] \in {cache[r], p}
      BY <2>3 DEF putLiveLogEventPage, TypeInv, TypeOK
    <2> QED
      BY <2>2, <2>3, <2>4, Numbers DEF GenInv, Numbered
  <1>8. CASE SocketChanges
    BY <1>1, <1>8 DEF SocketChanges, reader
  <1>9. CASE SoftLoad
    BY <1>1, <1>9 DEF SoftLoad, reader
  <1>10. CASE \E r \in Runs : Emit(r) \/ Advance(r)
    BY <1>1, <1>10 DEF Emit, Advance, reader
  <1>11. CASE UNCHANGED vars
    BY <1>1, <1>11 DEF vars
  <1> QED
    BY <1>2, <1>3, <1>4, <1>5, <1>6, <1>7, <1>8, <1>9, <1>10, <1>11 DEF Next

(* Within a visit answers are written in the order their requests were     *)
(* sent, whatever order polls, refreshes and seeds are answered in.        *)
THEOREM AnswersInOrder == Spec => NewestAnswerShown
<1>1. TypeInv /\ GenInv /\ [Next]_vars => (TypeInv /\ GenInv)'
  BY TypeStep, GenStep
<1>2. TypeInv /\ GenInv /\ [Next]_vars
        => [page'.from > visit.entered /\ navs' = navs
              => page'.from >= page.from]_vars
  BY GenStep
<1> QED
  BY TypeInit, GenInit, <1>1, <1>2, PTL DEF Spec, NewestAnswerShown

-----------------------------------------------------------------------------
(* The cache                                                               *)

(* Storing a page never blanks the entry of any run.                       *)
LEMMA PutKeepsContent ==
  ASSUME TypeInv, NEW p \in Page, NEW r \in Runs,
         cache' = putLiveLogEventPage(route, p), cache[r].hi > 0
  PROVE  cache'[r].hi # 0
<1>1. cache[r].hi \in Nat /\ p.hi \in Nat
  BY DEF TypeInv, TypeOK, Page
<1>2. \/ cache' = cache
      \/ cache' = [cache EXCEPT ![route] = p]
         /\ ~(p.hi = 0 /\ cache[route].hi > 0)
  BY DEF putLiveLogEventPage
<1> QED  BY <1>1, <1>2 DEF TypeInv, TypeOK

(* An answer, or none, blanks no entry.                                    *)
LEMMA LandKeepsContent ==
  ASSUME TypeInv, NEW f \in Fetch, LandsOk(f) \/ LandsNotOk(f),
         NEW r \in Runs, cache[r].hi > 0
  PROVE  cache'[r].hi # 0
<1>1. CASE LandsNotOk(f)
  BY <1>1 DEF LandsNotOk, reader, TypeInv, TypeOK
<1>2. CASE LandsOk(f)
  <2>1. page' \in Page /\ cache' = putLiveLogEventPage(route, page')
    BY <1>2, LandTypes DEF LandsOk, WriteAnswer
  <2>2. PICK p \in Page : cache' = putLiveLogEventPage(route, p)
    BY <2>1
  <2> QED  BY <2>2, PutKeepsContent
<1> QED  BY <1>1, <1>2

LEMMA CacheStep ==
  ASSUME TypeInv, [Next]_vars, NEW r \in Runs, cache[r].hi > 0,
         cache'[r].hi = 0
  PROVE  route' # r
  <1>1. CASE cache' = cache
    BY <1>1 DEF TypeInv, TypeOK, Page
  <1>2. CASE runSelectionSideEffects \/ retryRehydrate \/ PollTick
               \/ seedDialogueNodeOnce \/ LoadLands
    BY <1>1, <1>2 DEF runSelectionSideEffects, retryRehydrate, PollTick,
                      seedDialogueNodeOnce, LoadLands, reader
  <1>3. CASE TrackedLands
    BY <1>3, LandKeepsContent DEF TrackedLands, TypeInv, TypeOK
  <1>4. CASE \E f \in plain : PlainLands(f)
    BY <1>4, LandKeepsContent DEF PlainLands, TypeInv, TypeOK
  <1>5. CASE \E k \in 0..MaxLog : mergeLiveWsAcpPage(k)
    <2>1. PICK k \in 0..MaxLog : mergeLiveWsAcpPage(k)
      BY <1>5
    <2>2. cache' = cache \/ \E p \in Page : cache' = putLiveLogEventPage(route, p)
      BY <2>1, TypeStep DEF mergeLiveWsAcpPage, TypeInv, TypeOK
    <2> QED  BY <1>1, <2>2, PutKeepsContent
  <1>6. CASE \E q \in Runs : HardLoad(q)
    <2>1. PICK q \in Runs : HardLoad(q)
      BY <1>6
    <2>2. route' = q
          /\ cache' = [s \in Runs |-> IF s = q THEN cache[s] ELSE NoPage]
      BY <2>1 DEF HardLoad, resetLiveLogState
    <2> QED  BY <2>2 DEF TypeInv, TypeOK, Page
  <1>7. CASE TimerFires \/ SocketChanges \/ SoftLoad
               \/ \E q \in Runs : Emit(q) \/ Advance(q)
    BY <1>1, <1>7 DEF TimerFires, SocketChanges, SoftLoad, Emit, Advance,
                      reader
  <1>8. CASE UNCHANGED vars
    BY <1>1, <1>8 DEF vars
  <1> QED
    BY <1>2, <1>3, <1>4, <1>5, <1>6, <1>7, <1>8 DEF Next

(* The page a re-entry would show keeps its content until another run is   *)
(* entered.                                                                *)
THEOREM CachedContentStays == Spec => CacheKeepsContent
<1>1. TypeInv /\ [Next]_vars => TypeInv'
  BY TypeStep
<1>2. TypeInv /\ [Next]_vars
        => [\A r \in Runs : cache[r].hi > 0 /\ cache'[r].hi = 0
              => route' # r]_vars
  BY CacheStep
<1> QED
  BY TypeInit, <1>1, <1>2, PTL DEF Spec, CacheKeepsContent
=============================================================================
