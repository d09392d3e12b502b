----------------------------- MODULE RunTimeline -----------------------------
(***************************************************************************)
(* The event timeline of the selected node on the run page of the web      *)
(* client (useRunDetailLiveLog.ts): pages of events read over HTTP, frames *)
(* pushed over the run's socket, the rehydration state machine with its    *)
(* time limit (liveLogRehydrate.ts) and the cache of pages that survives   *)
(* leaving the run (liveLogSnapshotCache.ts).  The user moves between runs *)
(* of one workflow, whose nodes have the same names; one such node is      *)
(* modelled.                                                               *)
(*                                                                         *)
(* A page is abstracted to how much of the node's event log it shows (hi   *)
(* events), to which run they belong and to the request that brought them. *)
(***************************************************************************)
EXTENDS Integers, FiniteSets

CONSTANTS Runs, NoRun,
          MaxLog,      \* events a node may emit, a bound
          MaxFetch,    \* requests the page may send, a bound
          MaxNav       \* moves to another run, a bound

ASSUME RunsAssumption == NoRun \notin Runs
ASSUME BoundsAssumption ==
  MaxLog \in Nat \ {0} /\ MaxFetch \in Nat \ {0} /\ MaxNav \in Nat

VARIABLES
  log,       \* server: events the node has emitted, per run
  phase,     \* server: no sandbox yet, in its sandbox, finished
  route,     \* the run the page is at (runId)
  navs,      \* moves so far
  loaded,    \* the hard load of that run has succeeded
  running,   \* nodeRuns[node].status = 'running', as last loaded
  socket,    \* open or not; whether a frame made this the live node; the
             \* last frame
  page,      \* eventPages[node]
  cache,     \* the snapshot store, per run
  fetchGen,  \* eventFetchGen[node]
  orch,      \* RehydrateOrchestrator: status, generation, armed timer
  tracked,   \* its request, the one whose signal it may abort
  plain,     \* requests that nothing can abort
  sent,      \* requests sent so far
  visit      \* history: requests sent before the run was entered, and
             \* whether an answer has been written since

vars == <<log, phase, route, navs, loaded, running, socket, page, cache,
          fetchGen, orch, tracked, plain, sent, visit>>
server == <<log, phase>>
reader == <<page, cache, visit>>

NoPage == [run |-> NoRun, hi |-> 0, live |-> FALSE, from |-> 0]
Page == [run : Runs \cup {NoRun}, hi : 0..MaxLog, live : BOOLEAN,
         from : 0..MaxFetch]
Statuses == {"idle", "loading", "ready", "error"}
Phases == {"starting", "live", "done"}

(* A request: when it was sent, the generation it took, what it asks for,  *)
(* the orchestrator's generation it serves (0 for a refresh or a plain     *)
(* one), and what the server would have answered at once.                  *)
Reading(r) == [hi |-> log[r], live |-> phase[r] = "live"]
Fetch == [id : 1..MaxFetch, gen : 1..MaxFetch, run : Runs, attempt : 0..MaxFetch,
          snap : [hi : 0..MaxLog, live : BOOLEAN]]
NoFetch == [id |-> 0, gen |-> 0, run |-> NoRun, attempt |-> 0,
            snap |-> [hi |-> 0, live |-> FALSE]]

OrchInit == [status |-> "idle", gen |-> 0, timer |-> FALSE]
SocketDown == [on |-> FALSE, liveNode |-> FALSE, hi |-> 0]

-----------------------------------------------------------------------------
(* Pages and the cache.                                                    *)

(* Live empty answers keep what is shown; any other answer replaces it.    *)
(* The mutant appends.                                                     *)
MergeAppends(prevHi, a) == IF a.live THEN prevHi + a.hi ELSE a.hi
mergeAcpEvents(prevHi, a) == IF a.live /\ a.hi = 0 THEN prevHi ELSE a.hi

(* A page with content is never replaced by an empty one.  The mutant      *)
(* stores every page.                                                      *)
PutAnyPage(r, p) == [cache EXCEPT ![r] = p]
putLiveLogEventPage(r, p) ==
  IF p.hi = 0 /\ cache[r].hi > 0 THEN cache ELSE [cache EXCEPT ![r] = p]

(* A frame of k events from the socket: an empty one says only busy.  The  *)
(* page keeps the answer it came from.                                     *)
applyLiveWsAcpPage(k) ==
  IF k = 0 THEN page
  ELSE [page EXCEPT !.run = route, !.hi = k, !.live = TRUE]

-----------------------------------------------------------------------------
(* fetchNodeEvents: a newer request for the node makes the answer of an    *)
(* older one void.                                                         *)

NewFetch(attempt) ==
  [id |-> sent + 1, gen |-> fetchGen + 1, run |-> route, attempt |-> attempt,
   snap |-> Reading(route)]

Send == sent < MaxFetch /\ sent' = sent + 1 /\ fetchGen' = fetchGen + 1

(* The mutant accepts every answer.                                        *)
AcceptAny(f) == TRUE
Accepted(f) == f.gen = fetchGen

(* The page is the current run's, whatever run was asked.                  *)
WriteAnswer(f, a) ==
  LET p == [run |-> f.run, hi |-> mergeAcpEvents(page.hi, a), live |-> a.live,
            from |-> f.id]
  IN /\ page' = p /\ cache' = putLiveLogEventPage(route, p)
     /\ visit' = [visit EXCEPT !.read = TRUE]

(* The ways a request can settle: ok with what the server had when it was  *)
(* sent or has now, or not ok (network, unavailable, void generation).     *)
LandsOk(f) ==
  Accepted(f) /\ \E a \in {f.snap, Reading(f.run)} : WriteAnswer(f, a)
LandsNotOk(f) == UNCHANGED reader

-----------------------------------------------------------------------------
(* RehydrateOrchestrator.                                                  *)

SendPlain ==
  Send /\ plain' = plain \cup {NewFetch(0)}

(* run({running: false}), then a plain request.  The mutant leaves the     *)
(* status.                                                                 *)
StopKeepsStatus ==
  /\ orch' = [orch EXCEPT !.timer = FALSE]
  /\ tracked' = NoFetch
  /\ SendPlain
orchStop ==
  /\ orch' = [orch EXCEPT !.status = "idle", !.timer = FALSE]
  /\ tracked' = NoFetch
  /\ SendPlain

(* A new attempt: a generation of its own, the older request aborted, the  *)
(* time limit armed.                                                       *)
orchAttempt ==
  /\ orch' = [status |-> "loading", gen |-> orch.gen + 1, timer |-> TRUE]
  /\ tracked' = NewFetch(orch.gen + 1)
  /\ Send
  /\ UNCHANGED plain

orchRefresh ==
  /\ tracked' = NewFetch(0)
  /\ Send
  /\ UNCHANGED <<orch, plain>>

Nothing == UNCHANGED <<orch, tracked, plain, fetchGen, sent>>

(* rehydrateNodeEvents.  An error stays until it is retried by hand, an    *)
(* attempt is not interrupted.                                             *)
rehydrateNodeEvents(isRunning, force) ==
  IF ~isRunning THEN orchStop
  ELSE IF force \/ orch.status = "idle" THEN orchAttempt
  ELSE IF orch.status = "ready" THEN orchRefresh
  ELSE Nothing

(* What an attempt that settles may write: nothing unless it is the        *)
(* current one and still loading.  Mutants: a failure is forgotten; a      *)
(* failure counts as an answer.                                            *)
ResolveForgetsError(f, ok) ==
  IF f.attempt # orch.gen \/ orch.status # "loading"
    THEN orch
    ELSE [orch EXCEPT !.timer = FALSE, !.status = IF ok THEN "ready" ELSE @]
ResolveIgnoresFailure(f, ok) ==
  IF f.attempt # orch.gen \/ orch.status # "loading"
    THEN orch ELSE [orch EXCEPT !.timer = FALSE, !.status = "ready"]
resolveRehydrateAfterFetch(f, ok) ==
  IF f.attempt # orch.gen \/ orch.status # "loading"
    THEN orch
    ELSE [orch EXCEPT !.timer = FALSE,
                      !.status = IF ok THEN "ready" ELSE "error"]

TrackedLands ==
  /\ tracked # NoFetch
  /\ \/ LandsOk(tracked) /\ orch' = resolveRehydrateAfterFetch(tracked, TRUE)
     \/ LandsNotOk(tracked)
        /\ orch' = resolveRehydrateAfterFetch(tracked, FALSE)
  /\ tracked' = NoFetch
  /\ UNCHANGED <<server, route, navs, loaded, running, socket, fetchGen, plain,
                 sent>>

PlainLands(f) ==
  /\ LandsOk(f) \/ LandsNotOk(f)
  /\ plain' = plain \ {f}
  /\ UNCHANGED <<server, route, navs, loaded, running, socket, fetchGen, orch,
                 tracked, sent>>

(* REHYDRATE_TIMEOUT_MS passes: the attempt is given up and its request    *)
(* aborted.                                                                *)
TimerFires ==
  /\ orch.timer
  /\ IF orch.status = "loading"
       THEN /\ orch' = [orch EXCEPT !.status = "error", !.timer = FALSE]
            /\ tracked' = NoFetch
       ELSE orch' = [orch EXCEPT !.timer = FALSE] /\ UNCHANGED tracked
  /\ UNCHANGED <<server, route, navs, loaded, running, socket, reader,
                 fetchGen, plain, sent>>

-----------------------------------------------------------------------------
(* What asks for events.                                                   *)

(* Selecting the node (after a paint), or the selection of a fresh load.   *)
runSelectionSideEffects ==
  /\ loaded
  /\ rehydrateNodeEvents(running, FALSE)
  /\ UNCHANGED <<server, route, navs, loaded, running, socket, reader>>

retryRehydrate ==
  /\ loaded /\ orch.status = "error"
  /\ rehydrateNodeEvents(running, TRUE)
  /\ UNCHANGED <<server, route, navs, loaded, running, socket, reader>>

(* The 2 s tick, skipped while live frames of this node are on display; an *)
(* error stays put.                                                        *)
PollTick ==
  LET skip == socket.on /\ socket.liveNode /\ page.live /\ page.hi > 0
  IN /\ loaded /\ ~skip
     /\ \/ orch.status = "ready" /\ SendPlain /\ UNCHANGED <<orch, tracked>>
        \/ orch.status = "idle" /\ rehydrateNodeEvents(running, FALSE)
     /\ UNCHANGED <<server, route, navs, loaded, running, socket, reader>>

(* The dialogue of the node seeds its bubble from an empty page.           *)
seedDialogueNodeOnce ==
  /\ loaded /\ page.hi = 0
  /\ SendPlain
  /\ UNCHANGED <<server, route, navs, loaded, running, socket, reader, orch,
                 tracked>>

-----------------------------------------------------------------------------
(* The run's socket.                                                       *)

SocketChanges ==
  /\ loaded
  /\ socket' = [socket EXCEPT !.on = ~@]
  /\ UNCHANGED <<server, route, navs, loaded, running, reader, fetchGen, orch,
                 tracked, plain, sent>>

(* A frame with all the events so far, or a busy-only one.                 *)
mergeLiveWsAcpPage(k) ==
  LET p == applyLiveWsAcpPage(k)
  IN /\ socket.on
     /\ k \in {0} \cup (socket.hi + 1)..log[route]
     /\ page' = p
     /\ cache' = IF k = 0 THEN cache ELSE putLiveLogEventPage(route, p)
     /\ socket' = [socket EXCEPT !.liveNode = TRUE,
                                 !.hi = IF k = 0 THEN @ ELSE k]
     /\ UNCHANGED <<server, route, navs, loaded, running, visit, fetchGen, orch,
                    tracked, plain, sent>>

-----------------------------------------------------------------------------
(* Loading the run, and moving to another one.                             *)

(* resetLiveLogState: the attempts are disposed of, the maps emptied, the  *)
(* page restored from the cache when it has content, other runs dropped    *)
(* from the cache.  The mutant disposes of nothing.                        *)
ResetWithoutDispose(id) ==
  /\ cache' = [r \in Runs |-> IF r = id THEN cache[r] ELSE NoPage]
  /\ page' = IF cache[id].hi > 0 THEN cache[id] ELSE NoPage
  /\ orch' = OrchInit /\ fetchGen' = 0
  /\ visit' = [entered |-> sent, read |-> FALSE]
  /\ UNCHANGED tracked
resetLiveLogState(id) ==
  /\ cache' = [r \in Runs |-> IF r = id THEN cache[r] ELSE NoPage]
  /\ page' = IF cache[id].hi > 0 THEN cache[id] ELSE NoPage
  /\ orch' = OrchInit /\ fetchGen' = 0
  /\ visit' = [entered |-> sent, read |-> FALSE]
  /\ tracked' = NoFetch

(* A hard load: of another run, or of the same one after an error.         *)
HardLoad(id) ==
  /\ navs < MaxNav
  /\ id # route \/ ~loaded
  /\ navs' = navs + 1 /\ route' = id
  /\ loaded' = FALSE /\ running' = FALSE /\ socket' = SocketDown
  /\ resetLiveLogState(id)
  /\ UNCHANGED <<server, plain, sent>>

(* It succeeds: initAfterLoadSuccess asks for the events and opens the     *)
(* socket.                                                                 *)
LoadLands ==
  LET isRunning == phase[route] # "done"
  IN /\ ~loaded
     /\ loaded' = TRUE /\ running' = isRunning
     /\ socket' = [SocketDown EXCEPT !.on = TRUE]
     /\ rehydrateNodeEvents(isRunning, FALSE)
     /\ UNCHANGED <<server, route, navs, reader>>

(* A soft load shows the node as it is now.                                *)
SoftLoad ==
  /\ loaded /\ running' = (phase[route] # "done") /\ running' # running
  /\ UNCHANGED <<server, route, navs, loaded, socket, reader, fetchGen, orch,
                 tracked, plain, sent>>

-----------------------------------------------------------------------------
(* The server.                                                             *)

Emit(r) ==
  /\ phase[r] = "live" /\ log[r] < MaxLog
  /\ log' = [log EXCEPT ![r] = @ + 1]
  /\ UNCHANGED <<phase, route, navs, loaded, running, socket, reader, fetchGen,
                 orch, tracked, plain, sent>>

Advance(r) ==
  /\ phase' = [phase EXCEPT ![r] = IF @ = "starting" THEN "live" ELSE "done"]
  /\ phase[r] # "done"
  /\ UNCHANGED <<log, route, navs, loaded, running, socket, reader, fetchGen,
                 orch, tracked, plain, sent>>

-----------------------------------------------------------------------------
Init ==
  /\ log = [r \in Runs |-> 0] /\ phase = [r \in Runs |-> "starting"]
  /\ route \in Runs /\ navs = 0
  /\ loaded = FALSE /\ running = FALSE
  /\ socket = SocketDown
  /\ page = NoPage /\ cache = [r \in Runs |-> NoPage]
  /\ fetchGen = 0 /\ orch = OrchInit /\ tracked = NoFetch /\ plain = {}
  /\ sent = 0 /\ visit = [entered |-> 0, read |-> FALSE]

Next ==
  \/ TrackedLands \/ TimerFires \/ \E f \in plain : PlainLands(f)
  \/ runSelectionSideEffects \/ retryRehydrate \/ PollTick
  \/ seedDialogueNodeOnce
  \/ SocketChanges \/ \E k \in 0..MaxLog : mergeLiveWsAcpPage(k)
  \/ LoadLands \/ SoftLoad
  \/ \E r \in Runs : HardLoad(r) \/ Emit(r) \/ Advance(r)

Spec == Init /\ [][Next]_vars

(* Timers fire.  Nothing else is promised: the network may hang for ever.  *)
FairSpec == Spec /\ WF_vars(TimerFires)

-----------------------------------------------------------------------------
(* Types of every variable.                                                *)
TypeOK ==
  /\ log \in [Runs -> 0..MaxLog] /\ phase \in [Runs -> Phases]
  /\ route \in Runs /\ navs \in 0..MaxNav
  /\ loaded \in BOOLEAN /\ running \in BOOLEAN
  /\ socket \in [on : BOOLEAN, liveNode : BOOLEAN, hi : 0..MaxLog]
  /\ page \in Page /\ cache \in [Runs -> Page]
  /\ fetchGen \in 0..sent /\ sent \in 0..MaxFetch
  /\ orch \in [status : Statuses, gen : 0..MaxFetch, timer : BOOLEAN]
  /\ tracked \in Fetch \cup {NoFetch} /\ plain \subseteq Fetch
  /\ visit \in [entered : 0..MaxFetch, read : BOOLEAN]

(* A node that shows "loading" has a request of the current attempt in     *)
(* flight and a time limit running, so it cannot stay there: no abort,     *)
(* retry, stop or navigation drops the one without the other               *)
(* (RehydrateOrchestrator.run, armTimeout, dispose).                       *)
LoadingAttended ==
  orch.status = "loading" =>
    orch.timer /\ tracked # NoFetch /\ tracked.attempt = orch.gen

(* The request the orchestrator waits for is about the run on display:     *)
(* leaving the run disposes of it before the other run's can start.        *)
TrackedIsRouted == tracked # NoFetch => tracked.run = route

(* "ready" (and with it the boot empty state, "waiting for the first       *)
(* event") is shown only after an answer about this visit has been         *)
(* written.                                                                *)
ReadyHasBeenRead == orch.status = "ready" => visit.read

(* The answers to the requests of one visit are written in the order the   *)
(* requests were sent, whatever order they arrive in: a poll, a refresh    *)
(* and a seed overtake each other.  Those sent before the visit are the    *)
(* exception: the generation is forgotten on leaving (resetLiveLogState),  *)
(* so the first of them to land is written, whatever run it is about.      *)
NewestAnswerShown ==
  [][page'.from > visit.entered /\ navs' = navs => page'.from >= page.from]_vars

(* The cached page of a run keeps its content until another run is         *)
(* entered: no busy-only frame, empty answer or retry blanks what a        *)
(* re-entry would show.                                                    *)
CacheKeepsContent ==
  [][\A r \in Runs : cache[r].hi > 0 /\ cache'[r].hi = 0 => route' # r]_vars

(* The loading state ends, even when no answer ever arrives.               *)
LoadingSettles == orch.status = "loading" ~> orch.status # "loading"
=============================================================================
