# approving: a TLA+ model of the run engine and of the pages that follow it

`approving` runs workflows whose nodes are worked on by agents in sandboxes and
which stop at human gates and dialogues. The Go server (`server/internal`) keeps
runs in a SQL database and drives each with a goroutine; the sandbox gateway
(`sandbox-gateway`) provisions containers; the Vue client (`web`) talks to the
server over HTTP and websockets.

Two places in this program are hard. One is the engine (`server/internal/engine`): run
rows that the dispatcher, the drivers and client requests read and write without a
common lock, and in-memory dialogue queues drained by goroutines that stop and
start. The other is the client's copy of that state (`web/src/lib/inbox`,
`web/src/lib/run`): lists, timelines and transcripts that are read by polls, pushed over
sockets and changed optimistically by the user, all at the same time and in any order.
The modules here are about these two. In sections on the engine, paths without a
directory are in `server/internal/engine`; in those on the client, in
`web/src/lib/inbox` or `web/src/lib/run`.

## 1. Inventory

| Component | State | Operations | Hard behaviour | What makes it correct |
|---|---|---|---|---|
| Turn controller (`review_session.go`, `reactReply` in `resume.go`) | `reviewSess` map, per session queue, waiting counter, active item, pumping and cancel flags; the persisted conversation; `lockResume` mutexes | enqueue, pump, remove, reorder, cancel, force confirm | pump that stops while a message arrives, two session objects of one key, checks made before the lock | no message lost or doubled, one provider call at a time, one hand-over |
| Admission and dispatcher (`dispatcher.go`, `sema.go`, `human_gate_reachability.go`, `start_run.go`) | run status, priority, admission mark in `Checkpoints`; semaphore | start, poll, claim, admit directly, queue, re-queue, change priority and limit | claim races, slots held across statements, marks cleared late | slots accounted for, promised order, no starvation, a queued run keeps its place |
| Driver (`execute.go`, `finish.go`, `node_*.go`) | `execRuns`/`execGen`, state-run rows, gates | acquire slot, loop over nodes, pause, finish | zombie drivers, two-second wait, late pause or outcome | one owner per run, a running run is attended, a waiting one answerable |
| Run requests (`resume.go`, `halt.go`) | gate rows, run status | `Cancel`, `ResumeGate`, `ResumeFrom`, `Halt` | status read long before it is used | a terminated run stays terminated, except by `ResumeFrom` |
| Routing, retry, reconciliation (`route.go`, `auto_retry.go`) | variables, checkpoints, retry counters | route, roll back, retry, reconcile at start | whole-map checkpoint writes, crash windows | restart leaves no run running, no gate orphaned |
| Gate share (`../gateshare`, `resume_external.go`) | one-shot links | create, regenerate, revoke, look up, consume, roll back | compare-and-set against the gate's own resolution | at most one decision per gate, a burnt link means a decision |
| First message (`approve_first_message.go`) | delivery latch on the run | claim, deliver, release | release while a delivery is in flight | delivered at most once per visit |
| Node outcome (`outcome.go`) | outcomes keyed by run and node | record, consume | outcome of an old visit consumed by a new one | every visit consumes its own outcome |
| Cron (`../services/cron_scheduler.go`) | job rows with claim, slots | tick, claim, execute, finish | stale claims taken over while the first execution runs | one execution per due time, slots returned |
| Channels (`../channels`) | per-target push queue | enqueue with eviction, take | bounded queue with protected items | no important result dropped for a lesser one |
| Sandbox gateway (`sandbox-gateway/gateway/internal/service`) | sandbox rows, shared image pulls | create, start, stop, destroy, reinstall, sweep, reconcile | read-modify-write of rows against destroy, sweep against create | no row without workload or the reverse, statuses follow operations |
| Shutdown (`../shutdown`, `halt.go`) | draining flag, deadline | drain, halt, wait, force | queued runs cancelled while claimed | nothing admitted after the halt |
| Handlers, services, MCP hosts, runtime, sandbox pool | database rows, sessions | CRUD, tool calls, provider calls | mostly I/O | appear as requests and as node or provider results |
| Inbox page (`useGatesInbox.ts`, `inboxActiveSelection.ts`) | list, selection, context of the selected row, its socket, processed marks, confirms in flight | load, confirm with roll-back, select, apply update, refresh by hand | list answers that overtake each other and local changes, confirms of neighbours, refusals after the row has left | a confirmed approval stays gone, a refused one comes back, lock and socket follow |
| Sidebar (`usePendingGates.ts`) | displayed and remote rows, count, banner, request slots | peek, force, apply, remove, restore | a force must not join a peek; shared by every page | the banner tells the truth, nobody waits for nothing |
| Run page timeline (`useRunDetailLiveLog.ts`, `liveLogRehydrate.ts`, `liveLogSnapshotCache.ts`) | event pages, fetch generation, rehydration state machine, cache | rehydrate, poll, refresh, retry, socket frames, navigate | late answers, time limit against answer, leaving a run with requests in flight | newest answer shown, no endless loading |
| Run page dialogue (`useClarifyChat.ts`, `mergeClarifyLiveTurns.ts`, `useRunDetail.ts`, `useRunDetailWs.ts`, `mergeRunChrome.ts`) | pending panel, live bubbles, spinners, last loaded run | send, cancel, remove, finish, retry, frames, loads, reconnect, refresh | three sources that tell of one turn in different orders | panel, bubble and transcript agree with the server |
| Rest of the client (gate panel, public gate page, PM chat, agent studio, audit panel, editor, API client) | forms, tables | rendering, CRUD | little | not modelled |

Interactions. Handlers call the engine. `StartRun` inserts a queued row and wakes
the dispatcher; the dispatcher claims it and spawns a driver; a driver that
reaches a gate or dialogue writes `waiting_human` and ends. A human's answer comes
back through `ResumeGate` or the turn controller, each of which ends with
`go resumeAdmitted(run, next)`, which takes a slot directly or queues the run.
`finish` is shared by drivers and requests and revokes share links, aborts the
provider, and unregisters the run's MCP token. The client reads runs, approvals and
events with GET requests, subscribes to one run's frames over a websocket
(`handlers/ws.go`), and sends answers, messages and cancels with POST requests; what it
shows between a request and its answer is its own guess.

## 2. Modules

| Module | Is about |
|---|---|
| `TurnLedger` | the abstract promise of a dialogue: status of each message, phase of the dialogue |
| `ReviewSession` | the turn controller of one key `runID:producerID`; refines `TurnLedger` |
| `MCReviewSession` | its TLC instances |
| `ReviewSessionProofs` | type correctness, the lock discipline, the queue with its counter and its pump, for all constants |
| `ReviewLedgerProofs` | every message is in one place; `ReviewSession` implements `TurnLedger`, for all constants |
| `RunAdmission` | semaphore, dispatcher, drivers, cancel, gate answer, resume, restart |
| `MCRunAdmission` | its TLC instances |
| `RunAdmissionProofs` | types, the semaphore, the execute slot and the order of the queue, for all constants |
| `RunAttendanceProofs` | no running or waiting run is left with nobody to act on it, for all constants, where clients do not cancel |
| `PendingGates` | the sidebar's copy of the pending approvals, as operators on one record |
| `GatesInbox` | the inbox page; extends and composes `PendingGates` with the page's own list and a server that answers, refuses and is answered by others |
| `ListFilter` | JavaScript's `filter` on a list, by positions; used by the two modules of the inbox and the dialogue |
| `ListFilterProofs` | what the filter keeps, and in which order |
| `GatesInboxProofs` | every safety property of it, for all constants |
| `MCGatesInbox` | its TLC instance, and a check of the list filter |
| `RunTimeline` | the event timeline of a node on the run page, and moves between runs; its one run needs no MC module |
| `RunTimelineProofs` | every safety property of it, for all constants |
| `ClarifyChat` | a dialogue on the run page, with the turn controller of the server seen through its frames and its transcript |
| `MCClarifyChat` | its TLC instances |
| `ClarifyChatProofs` | types, settling, the pending panel, the streaming bubble and the transcript, for all constants |

### ReviewSession

A mutex-protected section is one action; what a handler does between two sections
is a step of its own. `reg` is the entry of `Engine.reviewSess`, `sess` the session
objects ever created for the key (a dropped one can still be used by a goroutine
that holds the pointer), `item` the progress of each enqueue request and the
session it found, `pump` the `pumpReviewSession` goroutines, `lock` the holder of
`lockResume(runID:producerID)`, `conv` the conversation row, `confirm` and `cancel`
the other requests.

* enqueue: `Submit` (peek at `conv.Done`, find or create the session),
  `CheckTranscript` (choice answers only, no lock held), `Enqueue` or
  `EnqueueRefused` (the `s.mu` section and the `go pump`).
* pump: `Dequeue`, `TurnBegin`/`TurnRefused` (under `lockResume`), `TurnReturns`
  (provider answers, agent row saved, lock released), `EndTurn`, and the deferred
  function in `Exit`, `Drop`, `Restart`.
* `RemoveQueuedItem`, `ReorderQueuedItems`, `CancelLookup`/`CancelMark`/`CancelAbort`.
* force confirm: `ConfirmReady` (gate before the lock), `ConfirmBegin`, `ConfirmEnd`.

Abstracted: texts, images and annotations (an item is its identity and whether it
answers a choice card); websocket frames; retry-last messages and automatic
answers (`autoAdvanceReact`), which add no new step; gate-sourced revisions, which
go through the same queue. `TurnRefused` is possible whenever the lock is free: it
stands for a closed conversation and for each load error. `CancelAbort` changes
nothing: what it does is let the provider call return, which `TurnReturns` may do at
any time. A review confirm's wrap-up can leave no agent row or two; the model adds
one. The lookup and the `s.mu` section of remove and reorder are one action.

### RunAdmission

`run` holds the rows of a run: status, priority, admission mark, the iteration
per node and the latest state-run row, and the gates. `worker` are the goroutines
behind `go resumeAdmitted` and `go runAdmitted`: a worker asks for admission
(`Admit`, `AdmitDirect`, `AdmitClear`, `QueueForAdmission`), and with a slot drives the
run (`TakeExecuteSlot` ... `ReleaseSlot`). Each SQL statement or mutex section is a
step, so `finish` is a status write and a clean-up, `Cancel` is a read, a write, a
clean-up and a forced release, and so on. `Restart` is a crash and `New`.

Abstracted: a graph is its nodes with the successors that edges and actions can
select, a node's work has any result its type allows; SQL statements succeed; the
dispatcher polls and its wake channel only makes it faster. The ownership check at the
head of the loop and `startNodeRun` are one step, as are `finalizeActiveStateRuns` and
`supersedePendingGates`. Only the latest state-run row is kept, with the set of nodes
that have a failed one. One assumption is about time: `HeldTooLong` says that of all
steps of a driver only node work and `AbortRun` outlast the two seconds of
`acquireExecuteSlot` and `waitExecIdle` (the comment at `execute.go:221-224`).
Not modelled: rollback edges, react pauses (ReviewSession has the dialogue),
`proposal_select`, `CancelQueuedRuns`, `WaitAgentReact`, SQL errors.

### PendingGates and GatesInbox

A JavaScript task runs to its next `await` without interruption, so an action is what a
handler does between two awaits, the watchers that run at the end of it included
(`watchActive` is `watch(active)`). The page is the record `pg` and a handler is an
operator from page to page; the sidebar singleton is the record `side`.

* A request in flight keeps what it would answer (`snap`, `found`). The server reads its
  table at some moment between sending and landing: the action `LoadReads`
  (`FlightReads`, `CtxReads`) replaces the reading until the answer lands. Only the
  request of the current generation is kept, since the code ignores the others.
* `flow[r]` is where the confirm of row `r` is: sent, seen by the server (`left`), answered
  (`ok`, `err`), waiting for the forced refresh (`refresh`), for the list (`load`).
  `onResolve`, `resumeFailed`, `resumeOk`, `confirmConverges` are the four parts of
  `onResolve`; the force-finish of a dialogue has the same shape.
* The server is two numbers per node: the visit that waits (`pend`) and the last opened
  (`last`). It may refuse an answer, in which case the same visit waits again.

Abstracted: the list is one page and every approval fits the first 20; filters are a reload
without a changed answer; a list answer is the server's at one moment. Not modelled: boot
cards (`starting`), the incoming-link ghost, share panel, labels ("replying"), unfinished
drafts except that they keep the selection, socket reconnects.

### RunTimeline

A page of events is abstracted to how many events of the log it shows, from which run and
which request. `fetchGen` is `eventFetchGen`, `orch` the `RehydrateOrchestrator` with its
status, generation and timer, `tracked` the one request it may abort, `plain` the ones that
nothing aborts. `TrackedLands` settles the request and decides the status in one step: in
the code both happen in one task. `log` and `phase` are the server. Not modelled:
`loadEarlierEvents`, sandbox logs and look-ups, boot sessions, MCP calls.

### ClarifyChat

`srv` is the turn controller from outside (queue, active item, transcript, done); its inside
is `ReviewSession`. `frames` is the event socket, in order; `answers` are loads on their way
back, in any order; `reqs` the requests of the page. `chat` is the component: `queued`
(with a flag for rows that have the server's id), `live` (pairs of bubbles),
`liveAgentIdx`, two spinners. A load lands in two steps (`LandLoad`, `RestoreLanded`) because
the code awaits the workflow between writing `run.value` and restoring the sessions.
`DropLoad` is `runSnapshotUnchanged`, which compares to the second. An item of the queue is its
message and, for a retry, the number of the retry: each retry is enqueued under an id of its
own, and the server takes the row to answer from its transcript (`RetryServed`).

Abstracted: tokens of an answer come with its end; ACP rails are left out, and with them
`liveBusy` from ACP frames; loads do not fail; frames are published in the step that
changes the queue, although handlers publish after unlocking (`review_session.go:363`, 479,
577) and can be overtaken by the pump; wrap-up rows of a forced finish; messages have
distinct texts in the instances (section 4 says which theorem needs it, 5 what equal texts do).

`upset` is a history variable: the page was told that a request failed, lost frames with its
socket, or restored sessions that were not the server's of that moment. It is FALSE again
after a refresh. The code has no repair for most of these (section 5), so the agreement
properties are about pages that are not upset.

## 3. Runs

`tlc -workers 2 -config <cfg> <MC module>` for each; run times are on two cores.

| Run | Instance | Shows |
|---|---|---|
| `review` | 3 messages, queue of 2, 3 pumps, 2 sessions, 1 cancel, 1 confirm, review | `TypeOK`, `QueueAccounting`, `SinglePump`, `NoLostWakeup`, `ItemsAccountedFor` (903,242 states, about 2 min) |
| `clarify` | 2 choice answers, 2 pumps, 2 sessions, 1 cancel, 1 confirm, clarify, fair | `OneTurnAtATime`, `RoutedOnce`, `TranscriptFinal`, `ImplementsLedger`, `EveryTurnSettles` (281,318 states) |
| `queue` | 2 runs, 2 priorities, 2 workers, 1 request, limit 1..2, gate before an agent node, fair | `TypeOK`, `SlotAccounting`, `PicksInOrder`, `QueuedIsAdmitted` (93,168 states) |
| `driver` | 1 run, 2 workers, 2 requests of any kind, shutdown, 1 restart | `ExecSlotHeld`, `ClaimIsPrivate` (750,188 states) |
| `answer` | 1 run, 3 nodes, 2 workers, 2 requests, 1 automatic retry, set-up failures | `WaitingIsAnswerable`, `RunningIsAttended` (412,172 states) |
| `inbox` | 2 approvals, the first visited twice, 3 events of user and timers, 2 of others | `TypeOK`, `ListSound`, `ConfirmedStaysGone`, `BannerTruthful`, `SocketIsActive`, `LockHeldExactly`, `HiddenOnlyInFlight`, `WaitersHaveFlight` (1.23 million states, about 75 s) |
| `timeline` | 2 runs, 2 events, 3 requests, 1 move, fair timer | `TypeOK`, `LoadingAttended`, `TrackedIsRouted`, `ReadyHasBeenRead`, `NewestAnswerShown`, `CacheKeepsContent`, `LoadingSettles` (845,016 states, about 75 s) |
| `dialogue` | 2 messages, 1 of them sent elsewhere, 3 frames, 1 load on its way at a time, 1 trouble | `TypeOK`, `Settled`, `PanelAgrees`, `BubbleAgrees`, `TranscriptAgrees` (4.09 million states, about 3 min) |
| `choice`, `revive`, `force`, `retry` | smallest that fail | section 5 |

Why the bounds are enough to be interesting: three pumps are what one key can have at
once in these instances (an old pump that is stopping, its restart, and the pump of a
second session object); a queue of two is full with three messages; two drivers of one
run are what a zombie and its successor need; two requests are what a cancel and a
resume, or an answer and a resume, need; a limit of one makes direct admission fail and
two makes it succeed. `MaxSessions`, `MaxRestarts` and `AutoRetryMax` bound counters,
and `Workers` and `Pumps` bound the goroutines alive at one time. A run's iteration
counter is bounded by the requests, since each loop back needs an answer.
`CHECK_DEADLOCK FALSE` is set everywhere: when every request was made and every
goroutine has ended, the system is at rest. Symmetry is used only in runs without
liveness properties, over messages that answer no card, pumps, workers and requests.

In the client runs the bounds are on what starts things: `MaxUser`, `MaxServer` and
`MaxTrouble` count events of people, timers and failures, `MaxFetch`, `MaxGets` and
`MaxFrames` requests and frames. Three user events are two overlapping confirms and a third
action (a refresh, another selection) between them; two server events open a second visit
and answer an approval elsewhere. Three requests are an old one, a newer one that
overtakes it and one more of the other kind. One load at a time still overtakes the
frames and is overtaken by them; two loads that overtake each other need `MaxGets = 2`,
which is beyond five minutes. One trouble is one cancel, retry, finish, lost request, lost
socket or refresh at any moment of two turns.

Fairness. Goroutines run and provider calls end (the chat timeout), so each pump,
confirm and worker has weak fairness; a Go mutex goes to a waiter, so weak fairness per
goroutine is enough. The dispatcher polls every five seconds. Clients, operators and
restarts have no fairness: nothing forces them to act. In `RunTimeline` only the timer is fair
(`WF_vars(TimerFires)`): the browser runs an armed `setTimeout`, while the network may hang
for ever, and `LoadingSettles` is about exactly that. The other client modules have safety
properties only, stated for the moments when nothing is under way.

`RunningIsAttended` is checked without `Cancel`, because of the `force` finding, and
excepts a clarify node whose sandbox could not be set up (section 5).
`WaitingIsAnswerable` is checked without restarts for the reason given there.

## 4. Proofs

`tlapm` on each of `ReviewSessionProofs`, `ReviewLedgerProofs`, `RunAdmissionProofs`,
`RunAttendanceProofs`, `ListFilterProofs`, `GatesInboxProofs`, `RunTimelineProofs` and
`ClarifyChatProofs`. The theorems are about `Spec`, without fairness.

### The turn controller

Assumed is only `SessionAssumption`: choice answers are messages, the bounds are naturals,
`None` is no id, pump and confirm ids differ. The sets may be infinite.

* `TypeCorrect`: `Spec => []TypeOK`. `TypeOK` is inductive; its last conjuncts (a handler on
  its way to a session holds one) are what makes the record updates well-typed.
* `OneTurn`, `HandedOverOnce`, `TranscriptStays`: from the inductive invariant
  `LockDiscipline`: a pump in a turn and a confirm in its wrap-up hold `lock`; a turn
  implies an open dialogue that was not handed on; a wrap-up implies a closed one that
  was not handed on; a hand-over implies a closed one. `RoutedOnce` alone is not
  inductive: a second confirm in its wrap-up would break it, and the lock is why there
  is none. `TranscriptStays` is an action property of the same invariant.
* `AccountingAlways`: `QueueAccounting` is inductive with types.
* `OnePump`, `WakeupKept`: from `Wake`, the conjunction of `SinglePump` and `NoLostWakeup`.
  They need each other and the accounting: the restart decides on the counter, so only
  with `waiting = Len(queue)` does "no restart" mean "no message", and only a session whose
  flag is right gets no second pump.
* `LedgerImplemented`: `Spec => ImplementsLedger`, under `AnyOrder = FALSE` (a reorder list with
  a repetition loses a message, section 5). Besides `LockDiscipline` and `Wake` it rests on
  `Placement`: a message is `queued` exactly while it stands in a queue, once, in the queue of
  one session object; a goroutine that works on a message works on an `active` one that no
  other has. `Wake` is what keeps this apart: two goroutines of one session would overwrite
  each other's active message. The queue operators come first (`AppendPlaces`, `TailPlaces`,
  `WithoutPlaces`, and `ReorderPlaces`, a pigeonhole argument). Then each action is mapped:
  `Enqueue` to `Accept`, `TurnBegin` to `Run`, `TurnReturns` to `Settle`, a refused turn, a removal
  and a cancel to `Discard`, the two ends of a confirm to `Confirm` and `Concluded`; the rest
  leaves the ledger alone. That no turn runs when one begins or a confirm closes the dialogue
  is the lock: it was free.
* `NothingLost`: `ItemsAccountedFor`, from `Placement`, the accounting and `RowsPlaced` (a message
  has one human row at most, and none before its turn begins), under the same assumption.

### Admission and drivers

Assumed is `AdmissionAssumption`: a graph over numbered nodes, gate and clarify nodes
apart, and a highest priority (`models/priority.go` has three). Runs, workers and requests
may be infinitely many.

* `AdmissionTypes`: `Spec => []TypeOK`, from `TypeInv`: every goroutine under way names its
  run, and its node as long as it still needs one (`PlacedWorker`, `PlacedDisp`,
  `PlacedRequest`). The one step that is not bookkeeping is the dispatcher's: the run that
  `PickQueued` chooses exists, because among numbers with an upper bound one is the
  greatest and among run ids one is the least (`GreatestExists`, `LeastExists`, from the
  well-foundedness of the naturals).
* `SlotIsHeldByADriver` and `ClaimsArePrivate`: `ExecSlotHeld` is inductive with types. The
  steps of a driver between taking and ending its claim are stated once (`Driving`,
  `DrivingFrame`): they stay at driver points of the same run. What remains are the two
  steps that touch `exec`, the two requests that take it away, and the restart.
* `SlotsAreCounted`: `SlotAccounting` together with "the set of holders is finite", which
  makes its cardinality move by one with each worker that joins or leaves
  (`HolderAdded`, `HolderRemoved`). It needs no bound on the workers. A slot released has
  a holder, so `Release` never meets a counter at zero.
* `QueueIsServedInOrder`: `PicksInOrder`, an action property of types alone. The run that
  `PickQueued` returns has the greatest priority among the queued, is ahead of the agent runs
  of that priority if it is at a human gate, and is the oldest of those left; for that its
  successive choices must exist, which the same two lemmas give.
* `RunsAreAttended` and `AnswersAreAwaited` (`RunAttendanceProofs`), under `"Cancel" \notin Calls`,
  because `forceEndExecute` takes the slot from drivers it should not (the `force` finding), and
  the second until the first restart, which forgets the goroutine that carries an answer out.
  Both follow from `AttendInv`, whose core is `Covered`: a running run is awaited by somebody on
  the way to a driver (`Awaited`), held by a driver that still decides about it (`Held`), or
  its set-up failed; a waiting one may have an open gate instead. Its step needs to know why a
  driver that stops leaves the run to someone. `Undisturbed`: without cancels the slot is
  taken from a driver only while its node works or when it is on its way out, and the driver
  looks for it right after the work. `CurrentVisit` and `GatesCounted`: the owner works on the
  latest iteration, so the gate it opened is the one `pauseStillPending` reads. `PauseCovered`:
  that gate is open until it is answered, and then the answer has the run; so a driver that
  finds the gate closed may end, and one that writes `waiting_human` late does no harm. The
  lemmas are per actor (`DispatchRow`, `AdmissionRow`, `SlotRow`, `AnsweringRow`, `DrivingRow`): what
  it does to a row, and to whom it hands the run.

### The inbox

Assumed are `ItemAssumption` and `BoundsAssumption` (approvals are numbered in list order, bounds
are naturals). The eight theorems are the run's eight properties; each follows from one
invariant, `IInv == TypeInv /\ PageInv /\ SideInv /\ WaitersHaveFlight`.

* `TypeInv` adds to the types that whatever visit stands anywhere on the page (list, answer under
  way, marks, lists kept for a roll-back) was `Opened` by the server. Without it a visit
  that is yet to come could be marked processed, and then hidden when it comes.
* `PageInv` says what a page may be, given the server's table, the confirms and what is done.
  `Sound` is what the page keeps by itself: no listed row is marked, none is listed twice, the
  socket is the selected row's or closed. `Final` is the server's part: an answered visit
  does not wait. The rest relates the two: a confirm that may not be rolled back has its mark
  (`Marked`), a confirmed visit is in no answer under way (`NotAwaited`), a marked row that was
  seen absent is gone (`Gone`), a context answer that says "gone" is right (`CtxTrue`), a
  hidden row that waits is in flight or follows a confirmed visit (`Hidden`), the lock is the
  confirms in flight (`Locks`).
* The conjunct that was hardest to find is `Complete`: the answer under way contains every waiting
  visit the page knows of, except one that a refusal has just put back. A mark is lifted from
  a row that was first seen absent and then present; with `Complete`, a row seen absent is
  gone (`Gone`), so no later answer lifts the mark of a confirm that succeeded.
* `SideInv`: a node whose visits are all confirmed or wait only for the list (`Over`) is not in the
  sidebar's answer under way; when all are confirmed (`Done`), it is neither displayed nor
  remote. A confirm waits for the list only after a forced refresh has landed, so whatever
  is in flight then was sent after the server's answer. That forced refresh may itself
  have been joined, and read too early; `removeItemLocally` at the end repairs what it wrote.
* A page handler is a composition of a dozen operators, so there is one lemma per
  operator about the parts of `Good`, the page's invariant as a predicate of a page
  (`InvalidateKeeps`, `RestoreList`, `ApplyKeeps`, `SelectKeeps` and so on), and an action cites
  those that it is made of.
* `Keep`, the filter of a list, is defined by positions and not with `SelectSeq`, because the
  library's is recursive. Its lemmas (`ListFilterProofs`: what is kept, that order and
  distinctness stay) rest on the least number with a property. `MCGatesInbox` assumes `KeepIsFilter`, which TLC evaluates:
  on lists up to length four the two agree.

### The run timeline

Assumed are `RunsAssumption` and `BoundsAssumption` (`NoRun` is no run; bounds are naturals).

* `TypeCorrect`: with `orch.gen <= sent`, so that an attempt always finds a generation.
* `LoadingIsAttended`, `TrackedRequestIsRouted`, `ReadyMeansRead`: their conjunction `Attended` is
  inductive. The handlers that ask for events do one of five things (`Asks`), and the
  lemma about those covers all of them.
* `AnswersInOrder`, an action property, from `GenInv`: the generation counts the requests of
  the visit, so of a request of this visit `id - gen` is the number sent before it. A
  generation that still matches then means "the last request sent", and nothing on
  display came from a later one. Requests of earlier visits are the reason for the
  `id > visit.entered` in it: their generations may match by accident.
* `CachedContentStays`: an action property of `putLiveLogEventPage` and of leaving a run.

### The run dialogue

Assumed is `ChatAssumption`: messages sent elsewhere are messages, each has a text, the kind is one of
the two, the bounds are naturals. Messages may be infinitely many and may say the same.
`TypeCorrect`, `ChatSettles` and `PanelIsTheQueue` follow from one invariant, `Inv`; `BubbleStreams`
and `TranscriptShownOnce` each add one of their own to it. TLC checked all three on the instance of
`dialogue` for both kinds of session before they were proved, the third without retries.

* `Settled` and `PanelAgrees` speak of the moment when nothing is under way, so `Inv` has to say
  what each thing under way will still do. `LastQ`: the last queue frame in the socket shows
  the server's queue. `LastIdle`: when the server has no work left, the last frame is one that
  ends a turn or says idle; `BusyInv`: so when the socket is empty the page's busy flag is
  down. `SessInv`: sessions restored as busy are, or the end of their turn is in the socket, or
  a load that repairs them is asked for or under way. `RowsInv`: between two queue frames the
  panel has no row with an id that the queue does not have. `IdleInv`: with no work, no frames
  and no send or retry under way the chat is at rest. `PanelInv`: while a turn is active and no
  queue frame, send or cancel is under way, the panel is the queue, or a removal is under way.
* These seven are `Calm` and hold while the page is not `upset`. What holds always: `ServerInv` and
  `FramesInv` (a dropped session has no work, a snapshot is the first frame of its socket),
  `FinishInv` (the "validating" spinner has a finish request, or a load that will say done,
  behind it) and `Unique`.
* `Unique` is why a row leaves the panel when its turn begins, and only it: an item stands in the
  queue once, no turn that began is in it, and a request under way carries an id of its
  own. The first attempt at this proof failed where all retries of a message had the same id:
  a second retry would have been taken for the first. In the code each enqueue makes a new id
  (`review_session.go:313-373`), and the model was corrected: a retry has its number.
* The handlers come first, as operators from chat to chat (`QueueStateOK`, `BeginOK`, `EndOK` and so on:
  what each does to the panel, the bubbles and the spinners). Each part that always holds then
  has its step (`TypeNext`, `ServerNext`, `FramesNext`, `FinishNext`, `UniqueNext`), and `CalmNext`
  goes by groups of actions: the server publishes (`DequeueCalm`, `EndTurnCalm`, `ServedCalm`), the
  user acts (`UserCalm`), a load lands (`LoadCalm`, `RestoreCalm`), a frame arrives
  (`ReceiveCalm`), the socket or the page starts anew (`ReconnectCalm`, `RefreshCalm`).
* `BubbleStreams` (`BubbleAgrees`) needs `TurnInv`, what each thing under way will do to the bubble.
  `OpenTurn`: while a turn runs, the transcript ends with its open row, so that a refresh or a
  restore does not take it for answered. `LoadConv` and `ActOnce`: a load that saw the active turn
  has the transcript with its row, and a turn that any load saw does not begin again. `LastBegin`:
  the last `turn_begin` in the socket is that of the active turn, with nothing but busy queue
  states behind it. `BubbleInv`: with none in the socket,
  no cancel pending and no `Wiper` under way, the bubble streams (`Agreed`). A `Wiper` is a load
  that landed and whose sessions, still to be restored, are not of this turn: its transcript may
  have taken the bubble away (section 5), and the proof shows that this never goes unnoticed:
  restored sessions that are not the server's of then make the page `upset`. Texts may be equal.
* `TranscriptShownOnce` (`TranscriptAgrees`) needs to know which exchange of the transcript each
  bubble stands for. `ShownInv` says it without counting: `ConvOnce` and `ConvSaid` (a message is
  in the transcript once, and no longer waits there), `LivePlaced` (each bubble's message follows
  that of the one before, wherever it is in the transcript: `Follows`), `FramesPlaced` (each frame
  tells of a message that the next `turn_begin` continues, or that ends the transcript:
  `Continues`). A load or a lost bubble may leave any number of bubbles, but what is left is a run
  of the transcript. When the last bubble is the last exchange they are how it ends
  (`LiveEndsTranscript`, by the least place where it fails), and then `mergePersistedAndLiveTurns`
  matches all of them, whichever branch it takes (`SuffixShownOnce`).
* Its two hypotheses. `DistinctTexts`: `turn_begin` reuses a failed bubble by its text, so with
  equal texts a bubble of one message stands for another. `[][~retryLastFailed]_vars`: nobody
  retries. This one cannot be dropped: the attempt to prove the property with retries ended in a
  counterexample, which TLC confirmed step by step and section 5 tells.

### Only model-checked

`TranscriptAgrees` with retries, on the instance of `dialogue` (one trouble); and liveness
(`EveryTurnSettles`, `QueuedIsAdmitted`, `LoadingSettles`), which with `ENABLED` is out of the
prover's reach.

## 5. Where the code does not do what it says

Each of these is a run that TLC ends with a counterexample.

* `choice`: two answers to one card. `enqueueReactTurn` reads the transcript at
  `review_session.go:337` and the queue at 342; an answer that moves from the queue into
  the transcript in between is seen by neither.
* `revive`: a cancel between `resume.go:83` and 226 is undone by the admission.
* `force`: the `forceEndExecute` at `resume.go:804`, after a slow `finish`, takes the slot of a
  driver that resumed the run meanwhile; that driver stops, the run stays `running`.
* `retry` (client): `retryLastFailed` opens a streaming pair of bubbles; the `turn_begin` of that
  retry looks for a failed one to reuse (`useClarifyChat.ts:1203-1215`), finds none and opens
  a second pair. Both are on the screen while the retry runs.

Seen while modelling the engine, not stated as runs:

* `review_session.go:499-516` checks a reorder list for length and membership; one that
  repeats an id drops another message, against 490 ("must match exactly"). All runs set
  `AnyOrder = FALSE`; with `TRUE`, TLC finds it through `ItemsAccountedFor`.
* `clearAdmissionFrom` (`dispatcher.go:271`) is a second, unguarded statement and can delete the
  mark of a newer queueing, against 189-196; the run then starts from the top.
* Two `ResumeFrom` calls can both read `failed` and launch a driver each, against the
  comment at `resume.go:597-598`: the lock is released when the goroutine is spawned.
* A clarify set-up failure (`execute.go:349-356`) leaves the run `running` with its slot
  given back, against `execute.go:241-242`. `SetupFailed` names this exception.
* A driver that passed its status check writes `completed` or `failed` over `cancelled`
  (`execute.go:394-398`), against `resume.go:802-803`.
* After a restart a run can have two open gates (`auto_retry.go:119-127`), which
  `finish.go:73-78` is meant to prevent.
* A crash between `resume.go:108` and the admission leaves `waiting_human` with no open gate;
  `auto_retry.go:78-86` heals only what was running.
* The ready gate of a confirm (`resume.go:416-440`) is read before the lock, so a message can
  be queued behind a dialogue that is being closed; it ends as refused by the turn.
* A session dropped from the map while an enqueue holds it keeps pumping
  (`review_session.go:54-56`, 94); cancel and remove then do not see its messages.
* A cancel that is slow to reach the provider aborts the turn after the one it was
  meant for (`review_session.go:545-546`, 583-594).
* `snapshotCheckpoint` (`route.go:161`) writes the whole `Checkpoints` map it loaded at the start,
  admission mark included; `proposal_select` saves its gate as resolved before it looks the
  proposal up (`resume.go:114`); `CancelQueuedRuns` (`halt.go:39`) cancels runs that may have
  been claimed since it read them; a share link is consumed before its gate is resumed
  (`resume_external.go:98`).

Seen in the client. Each is a window the properties except, in the words given with them:

* Inbox: rows are dropped by `run:node` and marked by `run:node:iteration`, so the confirm of
  one visit that converges late drops the row of the next (`HiddenOnlyInFlight`). A local
  removal or restoration voids a filter load without starting another, so `listLoading`
  stays set (`useGatesInbox.ts:362-376`, 757). `resumeGate` carries no iteration: a late
  answer can resolve the next visit. `ensureValidActive` moves the selection during an
  edit. The badge counts the last remote page, not the displayed rows
  (`usePendingGates.ts:91`, 123).
* Timeline: `resetLiveLogState` forgets the generations while requests that nothing aborts
  survive, and an answer is written and cached under the run that is current when it lands
  (`useRunDetailLiveLog.ts:122`, 153), against `liveLogSnapshotCache.ts:81` ("prevents
  cross-run bleed"); this is the exception in `NewestAnswerShown`. A poll or seed that
  supersedes an attempt's own request ends the attempt in `error` although the newer answer
  is shown, and errors are never retried automatically. `fetchRunData` does not check that the
  answer is about the current run (`useRunDetail.ts:458-463`).
* Dialogue: a `turn_done` lost with the socket is not repeated when the session was dropped
  meanwhile: the chat stays busy until a refresh, and busy stops the poll. A refused retry
  leaves its bubble streaming, against `useClarifyChat.ts:617-619`. A refused send takes back the
  last row, whichever it is (998). The same text sent twice hides the live bubble of the
  second (`mergeClarifyLiveTurns.ts:13-33`). A transcript read between two turns that lands
  after the second one's `turn_begin` can wipe its bubble. A reconnect applies the sessions the
  page had before (`useRunDetailWs.ts:409`). Cancelling a row that has no id yet cancels nothing
  on the server. An answer that was stopped is empty on the screen and "(已中断)" in the
  transcript, so a load can show the exchange twice: hence `AnsweredAsSaved`. A retry can be
  pressed on a transcript that is out of date: X failed; B was answered, and a load read before
  it takes its bubble away; the retry of X opens a bubble for X (1366-1438), the idle queue state
  of a removal stops it as failed; C fails, and the retry, served only now, answers C. The live
  bubbles are X and C, the transcript is X, B, C, nothing of it matches at its end, and X and C are
  shown again below it until the transcript changes. With four messages and two troubles this breaks
  `TranscriptAgrees`; the instance of `dialogue` has one trouble. Loads of the
  same second with the same sessions are dropped with their transcript
  (`mergeRunChrome.ts:81-87`).

## 6. Not modelled, and why

* The share of the client that is covered is small in lines: most of it is components,
  forms, tables and CRUD calls whose behaviour is rendering, and the largest files not
  covered (`useGateApproval.ts`, `useAgentStudio.ts`, `ProjectAuditPanel.vue`,
  `PublicGateApprovalView.vue`, `usePmLeaderChat.ts`) are mostly of that kind.
  `mcp/mermaidvalidate/bundle.mjs` is a generated bundle. `useGateApproval.ts` and
  `usePmLeaderChat.ts` hold chats of their own, close to `ClarifyChat`.
* Gate share links, first-message delivery, cron, push queue, sandbox gateway, shutdown:
  within reach, see the plan. Drivers of containers, MCP hosts and HTTP handlers are I/O
  around the parts modelled.

## 7. Plan

In this order:

1. `GateShare`: links over the gate rows, composed with the gate answer; `FirstMessage`:
   the delivery latch against cancel, resume and failure.
2. `SandboxService`: the gateway's rows, workloads, image pulls, sweep and reconciliation,
   with an abstract sandbox life-cycle it should implement.
3. `PushQueue` and `CronScheduler`: bounded queue with protected items; claims, stale
   take-over and back-off.
4. `Routing`: edge choice, rollback with checkpoints and attempt limits, as functions
   against a reference definition.
5. `PmLeaderChat`: the second chat, with the frames it shares with `ClarifyChat`.

The properties that the interleavings of section 5 break will be stated in a form that
admits exactly the window the code leaves open.
