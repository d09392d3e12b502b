----------------------------- MODULE GatesInbox -----------------------------
(***************************************************************************)
(* The inbox page of the web client (useGatesInbox.ts): a list of pending  *)
(* approvals read from the server, one of them selected, its context and   *)
(* its event socket, and the approvals the user has just confirmed, which  *)
(* leave the list before the server has answered and come back if it       *)
(* refuses.  List requests overtake each other, confirms of neighbours     *)
(* overlap, other people answer the same approvals meanwhile.  The sidebar *)
(* copy of the list (PendingGates) is changed by the same handlers.        *)
(*                                                                         *)
(* The page is one record: a handler is an operator from page to page and  *)
(* an action applies the handlers of one JavaScript task, with the         *)
(* watch(active) that Vue runs at the end of it.                           *)
(***************************************************************************)
EXTENDS PendingGates, ListFilter, Sequences, SequencesExt

CONSTANTS NItems,      \* approvals the server may ever have, in list order
          Visits,      \* visits of each node (its iteration), a bound
          MaxUser,     \* what the user and the timers do, in all, a bound
          MaxServer    \* what runs and other people do, in all, a bound

ASSUME ItemAssumption == Item = 1..NItems /\ NItems \in Nat \ {0}
ASSUME BoundsAssumption ==
  Visits \in [Item -> Nat \ {0}] /\ MaxUser \in Nat /\ MaxServer \in Nat

Row == UNION {[key : {k}, it : 1..Visits[k]] : k \in Item}  \* inboxTripleKey
NoRow == [key |-> 0, it |-> 0]

(* Who waits for the list request whose answer is the current one: the     *)
(* confirm of a row, the apply / manual refresh, or nobody (a filter       *)
(* change, a page change, a retry).                                        *)
NoOwner == NoRow
PageOwner == [key |-> 0, it |-> 1]
UpdateOwner == [key |-> 0, it |-> 2]

VARIABLES pend,    \* server: iteration in which an approval waits, 0 if none
          last,    \* server: last iteration opened
          confirmed, \* rows whose confirm has succeeded and converged
          pg,      \* the page (see PageType)
          side,    \* the sidebar singleton
          flow,    \* where the confirm of each row is
          prev,    \* the list as it was when that confirm began
          upd,     \* the apply-update / manual refresh: its step, prevKey
          events   \* what happened so far, on either side

vars == <<pend, last, confirmed, pg, side, flow, prev, upd, events>>

UserEvent == events.user < MaxUser /\ events' = [events EXCEPT !.user = @ + 1]
ServerEvent ==
  events.server < MaxServer /\ events' = [events EXCEPT !.server = @ + 1]

(* The context request in flight: whether it found its row still waiting.  *)
NoCtx == [row |-> NoRow, hard |-> FALSE, found |-> FALSE]
Ctx == [row : Row \cup {NoRow}, hard : BOOLEAN, found : BOOLEAN]
NewCtx(r, hard) == [row |-> r, hard |-> hard, found |-> pend[r.key] = r.it]

FlowSteps == {"idle", "sent", "left", "ok", "err", "refresh", "load"}

Pending == {k \in Item : pend[k] # 0}

Keys(l) == {l[n].key : n \in 1..Len(l)}

(* GET /gates: the waiting rows, newest first (a fixed order of the keys). *)
ServerList == Keep([k \in 1..NItems |-> [key |-> k, it |-> pend[k]]], Row)

Without(l, k) == Keep(l, {r \in Rows(l) : r.key # k})
Position(l, k) == IF k \in Keys(l)
                    THEN CHOOSE n \in 1..Len(l) : l[n].key = k ELSE 0

-----------------------------------------------------------------------------
(* Selection.                                                              *)

pickNextActiveAfterRemove(l, k) ==
  LET n == Position(l, k)
      w == Without(l, k)
  IN IF w = <<>> THEN NoRow
     ELSE IF n = 0 THEN l[1]
     ELSE IF n <= Len(w) THEN w[n] ELSE w[n - 1]

isActiveStillInList(p) == p.active.key \in Keys(p.list)

shouldFetchActiveInboxContext(p) ==
  p.active # NoRow /\ p.active \notin p.processed /\ isActiveStillInList(p)

(* One context request at a time: a request for the row already being      *)
(* fetched is dropped, one for another row aborts the older.               *)
softRefreshActiveRun(p) ==
  IF shouldFetchActiveInboxContext(p) /\ p.ctx.row # p.active
    THEN [p EXCEPT !.ctx = NewCtx(p.active, FALSE)]
    ELSE p

loadActiveRunHard(p) ==
  IF ~shouldFetchActiveInboxContext(p)
    THEN [p EXCEPT !.detail = NoRow]
    ELSE IF p.ctx.row = p.active THEN p
    ELSE [p EXCEPT !.detail = NoRow,
                   !.ctx = NewCtx(p.active, TRUE)]

closeActiveRunWs(p) == [p EXCEPT !.ws = 0]
connectActiveRunWs(p) == [p EXCEPT !.ws = p.active.key]

(* watch(active), run once at the end of a task that changed it.  The      *)
(* mutant leaves the socket open when the new row is not listed.           *)
WatchKeepsSocket(p, before) ==
  IF p.active = before THEN p
  ELSE IF p.active = NoRow
    THEN [closeActiveRunWs(p) EXCEPT !.detail = NoRow]
  ELSE IF p.active \in p.processed \/ ~isActiveStillInList(p)
    THEN p
  ELSE connectActiveRunWs(loadActiveRunHard(p))
watchActive(p, before) ==
  IF p.active = before THEN p
  ELSE IF p.active = NoRow
    THEN [closeActiveRunWs(p) EXCEPT !.detail = NoRow]
  ELSE IF p.active \in p.processed \/ ~isActiveStillInList(p)
    THEN closeActiveRunWs(p)
  ELSE connectActiveRunWs(loadActiveRunHard(p))

select(p, r) == watchActive([p EXCEPT !.active = r], p.active)

ensureValidActive(p) ==
  IF p.intents # {} THEN p
  ELSE IF p.list = <<>> THEN select(p, NoRow)
  ELSE IF isActiveStillInList(p) THEN p
  ELSE select(p, p.list[1])

-----------------------------------------------------------------------------
(* The list.  A new request, and every local change of the rows, bumps the *)
(* generation: the answer of an older request is then ignored.             *)

invalidateListLoads(p) == [p EXCEPT !.owner = NoOwner, !.snap = <<>>]

loadList(p, who, showLoading) ==
  [p EXCEPT !.owner = who, !.snap = ServerList,
            !.listLoading = @ \/ showLoading]

removeListItemLocally(p, k) ==
  [invalidateListLoads(p) EXCEPT !.list = Without(@, k)]

restoreListItemLocally(p, r, before) ==
  LET n == Position(before, r.key)
      at == IF n = 0 THEN 1
            ELSE IF n <= Len(p.list) + 1 THEN n ELSE Len(p.list) + 1
  IN IF r.key \in Keys(p.list)
       THEN invalidateListLoads(p)
       ELSE [invalidateListLoads(p) EXCEPT !.list = InsertAt(@, at, r)]

(* A row marked processed may show again only after a list has been seen   *)
(* without it.                                                             *)
reconcileProcessedWithList(p, rows) ==
  LET here == Rows(rows)
      back == p.processed \cap here \cap p.absent
  IN [p EXCEPT !.processed = @ \ back,
               !.absent = (@ \cup (p.processed \ here)) \ back]

(* The body of loadList once its answer is the current one.  The mutant    *)
(* lists what the server says, processed or not.                           *)
ApplyUnfiltered(p) ==
  LET q == [p EXCEPT !.list = p.snap, !.snapBefore = p.list,
                     !.listLoading = FALSE, !.owner = NoOwner, !.snap = <<>>]
  IN ensureValidActive(reconcileProcessedWithList(q, p.snap))
applyList(p) ==
  LET rows == p.snap
      q == [p EXCEPT !.list = Keep(rows, Row \ p.processed),
                     !.snapBefore = p.list, !.listLoading = FALSE,
                     !.owner = NoOwner, !.snap = <<>>]
  IN ensureValidActive(reconcileProcessedWithList(q, rows))

failList(p) == [invalidateListLoads(p) EXCEPT !.listLoading = FALSE]

(* The context request found that the approval no longer waits (404).      *)
handleLeftInboxContext(p, r) ==
  LET before == IF r.key \in Keys(p.list) THEN p.list ELSE Append(p.list, r)
      q == removeListItemLocally([p EXCEPT !.processed = @ \cup {r}], r.key)
  IN IF p.active.key # r.key THEN q
     ELSE select([closeActiveRunWs(q) EXCEPT !.detail = NoRow],
                 pickNextActiveAfterRemove(before, r.key))

-----------------------------------------------------------------------------
(* Confirming.                                                             *)

beginProcessingIntent(p, r) ==
  closeActiveRunWs(
    [p EXCEPT !.intents = @ \cup {r}, !.processed = @ \cup {r},
              !.ctx = IF @.row = r THEN NoCtx ELSE @])

(* Mutants: the rollback forgets the lock; it forgets the mark.            *)
RollbackKeepsLock(p, r) ==
  LET q == [p EXCEPT !.processed = @ \ {r}, !.absent = @ \ {r}]
  IN IF q.active = r /\ isActiveStillInList(q)
       THEN connectActiveRunWs(q) ELSE q
RollbackKeepsMark(p, r) == [p EXCEPT !.intents = @ \ {r}]

rollbackProcessingIntent(p, r) ==
  LET q == [p EXCEPT !.processed = @ \ {r}, !.absent = @ \ {r},
                     !.intents = @ \ {r}]
  IN IF q.active = r /\ isActiveStillInList(q)
       THEN connectActiveRunWs(q) ELSE q

endProcessingIntent(p, r) == [p EXCEPT !.intents = @ \ {r}]

(* The finally block shared by onResolve and onClarifySend(force).         *)
converge(p, r) ==
  LET q == removeListItemLocally(p, r.key)
      s == IF q.active.key = r.key
             THEN select(q, pickNextActiveAfterRemove(q.list, r.key)) ELSE q
  IN endProcessingIntent(s, r)

(* The user confirms the selected row.  It leaves the list, the sidebar    *)
(* and the selection at once, then the request is sent.                    *)
onResolve ==
  LET r == pg.active
      q == removeListItemLocally(beginProcessingIntent(pg, r), r.key)
  IN /\ r # NoRow
     /\ r \notin pg.processed \cup pg.intents
     /\ flow[r] = "idle"
     /\ pg' = select(q, pickNextActiveAfterRemove(pg.list, r.key))
     /\ side' = removeItemLocally(side, r.key)
     /\ flow' = [flow EXCEPT ![r] = "sent"]
     /\ prev' = [prev EXCEPT ![r] = pg.list]
     /\ UserEvent
     /\ UNCHANGED <<pend, last, confirmed, upd>>

(* The server: an answer names run and node only, so it answers whichever  *)
(* visit waits.  The approval leaves pending at once.                      *)
ServerResume(r) ==
  /\ flow[r] = "sent"
  /\ flow' = [flow EXCEPT ![r] = IF pend[r.key] = 0 THEN "err" ELSE "left"]
  /\ pend' = [pend EXCEPT ![r.key] = 0]
  /\ UNCHANGED <<last, confirmed, pg, side, prev, upd, events>>

(* It advances the run; or its validation refuses the answer and the same  *)
(* visit waits again (only if nothing else has been opened there).         *)
ServerAdvances(r) ==
  /\ flow[r] = "left"
  /\ flow' = [flow EXCEPT ![r] = "ok"]
  /\ UNCHANGED <<pend, last, confirmed, pg, side, prev, upd, events>>

ServerRefuses(r) ==
  /\ flow[r] = "left"
  /\ pend[r.key] = 0 /\ last[r.key] = r.it
  /\ flow' = [flow EXCEPT ![r] = "err"]
  /\ pend' = [pend EXCEPT ![r.key] = r.it]
  /\ UNCHANGED <<last, confirmed, pg, side, prev, upd, events>>

(* The connection fails: before the server saw the request, or after it    *)
(* had advanced the run.                                                   *)
ResumeLost(r) ==
  /\ flow[r] \in {"sent", "ok"}
  /\ flow' = [flow EXCEPT ![r] = "err"]
  /\ UNCHANGED <<pend, last, confirmed, pg, side, prev, upd, events>>

(* catch: put the row back, drop the intent, take the selection back       *)
(* unless a newer confirm owns it.                                         *)
resumeFailed(r) ==
  LET q == rollbackProcessingIntent(restoreListItemLocally(pg, r, prev[r]), r)
  IN /\ flow[r] = "err"
     /\ pg' = IF q.active \in q.intents THEN q ELSE select(q, r)
     /\ side' = restoreItemLocally(side, r.key)
     /\ flow' = [flow EXCEPT ![r] = "idle"]
     /\ prev' = [prev EXCEPT ![r] = <<>>]
     /\ UNCHANGED <<pend, last, confirmed, upd, events>>

resumeOk(r) ==
  /\ flow[r] = "ok"
  /\ side' = refreshForce(side, Pending)
  /\ flow' = [flow EXCEPT ![r] = "refresh"]
  /\ UNCHANGED <<pend, last, confirmed, pg, prev, upd, events>>

-----------------------------------------------------------------------------
(* Requests of the sidebar and of the list.                                *)

FlightReads ==
  /\ side.flight.kind # "none" /\ side.flight.snap # Pending
  /\ side' = [side EXCEPT !.flight.snap = Pending]
  /\ UNCHANGED <<pend, last, confirmed, pg, flow, prev, upd, events>>

(* Everyone who awaited a forced refresh goes on to loadList, the last one *)
(* to do so owning the current generation.                                 *)
FlightSettles(s) ==
  LET force == side.flight.kind = "force"
      rows == {r \in Row : force /\ flow[r] = "refresh"}
      refreshing == force /\ upd.st = "refresh"
      who == rows \cup (IF refreshing THEN {UpdateOwner} ELSE {})
  IN /\ side' = s
     /\ flow' = [r \in Row |-> IF r \in rows THEN "load" ELSE flow[r]]
     /\ upd' = IF refreshing THEN [upd EXCEPT !.st = "load"] ELSE upd
     /\ IF who = {} THEN pg' = pg
        ELSE \E w \in who :
               pg' = loadList(pg, w, refreshing /\ pg.list = <<>>)
     /\ UNCHANGED <<pend, last, confirmed, prev, events>>

FlightLands == side.flight.kind # "none" /\ FlightSettles(flightLands(side))
FlightFails == side.flight.kind # "none" /\ FlightSettles(flightFails(side))

LoadReads ==
  /\ pg.owner # NoOwner /\ pg.snap # ServerList
  /\ pg' = [pg EXCEPT !.snap = ServerList]
  /\ UNCHANGED <<pend, last, confirmed, side, flow, prev, upd, events>>

(* The ways a request that somebody awaits can settle: applied, failed, or *)
(* without effect because a newer generation overtook it.                  *)
LoadResults(who) ==
  IF pg.owner # who THEN {pg} ELSE {failList(pg), applyList(pg)}

PageLoadLands ==
  /\ pg.owner = PageOwner
  /\ pg' \in LoadResults(PageOwner)
  /\ UNCHANGED <<pend, last, confirmed, side, flow, prev, upd, events>>

confirmConverges(r) ==
  /\ flow[r] = "load"
  /\ \E q \in LoadResults(r) : pg' = converge(q, r)
  /\ side' = removeItemLocally(side, r.key)
  /\ flow' = [flow EXCEPT ![r] = "idle"]
  /\ prev' = [prev EXCEPT ![r] = <<>>]
  /\ confirmed' = confirmed \cup {r}
  /\ UNCHANGED <<pend, last, upd, events>>

-----------------------------------------------------------------------------
(* Applying the announced update, and refreshing by hand.                  *)

UpdateIdle == [st |-> "idle", key |-> 0, manual |-> FALSE]

(* The banner's button, and the refresh button while the sidebar knows of  *)
(* a change.  One at a time: both are disabled or gone while it runs.      *)
applyListUpdate ==
  /\ pg.intents = {} /\ upd.st = "idle"
  /\ side' = applyPending(side)
  /\ pg' = loadList(pg, UpdateOwner, FALSE)
  /\ upd' = [st |-> "load", key |-> pg.active.key, manual |-> FALSE]
  /\ UserEvent
  /\ UNCHANGED <<pend, last, confirmed, flow, prev>>

onManualRefresh ==
  /\ pg.intents = {} /\ upd.st = "idle" /\ ~side.hasPending
  /\ side' = refreshForce(side, Pending)
  /\ upd' = [st |-> "refresh", key |-> pg.active.key, manual |-> TRUE]
  /\ UserEvent
  /\ UNCHANGED <<pend, last, confirmed, pg, flow, prev>>

(* Move the selection if the row that was selected when the update began   *)
(* is gone; an unfinished draft keeps it.                                  *)
syncActiveAfterApply(p, prevKey, editing) ==
  LET k == IF prevKey # 0 THEN prevKey ELSE p.active.key
      before == IF k \in Keys(p.snapBefore) THEN p.snapBefore
                ELSE <<p.active>> \o Without(p.list, k)
  IN IF p.intents # {} THEN p
     ELSE IF p.active = NoRow
       THEN IF p.list = <<>> THEN p ELSE [p EXCEPT !.active = p.list[1]]
     ELSE IF k \in Keys(p.list) \/ editing THEN p
     ELSE [p EXCEPT !.active = pickNextActiveAfterRemove(before, k)]

reloadActiveRun(p, hard) ==
  IF p.active = NoRow THEN [closeActiveRunWs(p) EXCEPT !.detail = NoRow]
  ELSE IF hard THEN loadActiveRunHard(p) ELSE softRefreshActiveRun(p)

updateConverges ==
  /\ upd.st = "load"
  /\ \E q \in LoadResults(UpdateOwner), editing \in BOOLEAN :
       LET s == syncActiveAfterApply(q, upd.key, editing)
       IN pg' = watchActive(reloadActiveRun(s, upd.manual /\ ~editing), q.active)
  /\ upd' = UpdateIdle
  /\ UNCHANGED <<pend, last, confirmed, side, flow, prev, events>>

-----------------------------------------------------------------------------
(* The context of the selected row, and what asks for it.                  *)

CtxReads ==
  LET found == pend[pg.ctx.row.key] = pg.ctx.row.it
  IN /\ pg.ctx.row # NoRow /\ pg.ctx.found # found
     /\ pg' = [pg EXCEPT !.ctx.found = found]
     /\ UNCHANGED <<pend, last, confirmed, side, flow, prev, upd, events>>

CtxArrives ==
  LET r == pg.ctx.row
      p == [pg EXCEPT !.ctx = NoCtx]
  IN /\ r # NoRow /\ pg.ctx.found
     /\ pg' = IF pg.active # r \/ r \in pg.processed
                THEN p ELSE [p EXCEPT !.detail = r]
     /\ UNCHANGED <<pend, last, confirmed, side, flow, prev, upd, events>>

CtxFails ==
  LET r == pg.ctx.row
      p == [pg EXCEPT !.ctx = NoCtx]
      left == ~pg.ctx.found \/ r \in pg.processed \/ r.key \notin Keys(pg.list)
  IN /\ r # NoRow
     /\ pg' = IF left THEN handleLeftInboxContext(p, r)
              ELSE IF pg.ctx.hard THEN [p EXCEPT !.detail = NoRow] ELSE p
     /\ side' = IF left THEN removeItemLocally(side, r.key) ELSE side
     /\ UNCHANGED <<pend, last, confirmed, flow, prev, upd, events>>

(* A frame of the selected run's socket that asks for a soft refresh.      *)
WsFrame ==
  /\ pg.ws # 0 /\ pg.ws = pg.active.key
  /\ pg' = softRefreshActiveRun(pg)
  /\ pg' # pg
  /\ UserEvent
  /\ UNCHANGED <<pend, last, confirmed, side, flow, prev, upd>>

selectItem(r) ==
  /\ r \in Rows(pg.list) /\ r # pg.active
  /\ r \notin pg.processed \cup pg.intents
  /\ pg' = select(pg, r)
  /\ UserEvent
  /\ UNCHANGED <<pend, last, confirmed, side, flow, prev, upd>>

FilterChange ==
  /\ pg' = loadList(pg, PageOwner, TRUE)
  /\ UserEvent
  /\ UNCHANGED <<pend, last, confirmed, side, flow, prev, upd>>

Peek ==
  /\ side.flight.kind = "none"
  /\ side' = peek(side, Pending)
  /\ UserEvent
  /\ UNCHANGED <<pend, last, confirmed, pg, flow, prev, upd>>

-----------------------------------------------------------------------------
(* Everyone else: runs open approvals, other people answer them.           *)

OpenItem(k) ==
  /\ pend[k] = 0 /\ last[k] < Visits[k]
  /\ pend' = [pend EXCEPT ![k] = last[k] + 1]
  /\ last' = [last EXCEPT ![k] = @ + 1]
  /\ ServerEvent
  /\ UNCHANGED <<confirmed, pg, side, flow, prev, upd>>

LeaveElsewhere(k) ==
  /\ pend[k] # 0
  /\ pend' = [pend EXCEPT ![k] = 0]
  /\ ServerEvent
  /\ UNCHANGED <<last, confirmed, pg, side, flow, prev, upd>>

-----------------------------------------------------------------------------
Init ==
  /\ pend \in [Item -> {0, 1}]
  /\ last = pend
  /\ confirmed = {}
  /\ pg = [list |-> <<>>, active |-> NoRow, detail |-> NoRow, ctx |-> NoCtx,
           ws |-> 0, processed |-> {}, absent |-> {}, intents |-> {},
           owner |-> PageOwner, snap |-> ServerList,
           snapBefore |-> <<>>, listLoading |-> TRUE]
  /\ side = peek(SideInit, Pending)
  /\ flow = [r \in Row |-> "idle"]
  /\ prev = [r \in Row |-> <<>>]
  /\ upd = UpdateIdle
  /\ events = [user |-> 0, server |-> 0]

Next ==
  \/ onResolve
  \/ \E r \in Row : \/ ServerResume(r) \/ ServerAdvances(r)
                    \/ ServerRefuses(r) \/ ResumeLost(r)
                    \/ resumeFailed(r) \/ resumeOk(r) \/ confirmConverges(r)
                    \/ selectItem(r)
  \/ FlightReads \/ FlightLands \/ FlightFails
  \/ LoadReads \/ PageLoadLands
  \/ applyListUpdate \/ onManualRefresh \/ updateConverges
  \/ CtxReads \/ CtxArrives \/ CtxFails \/ WsFrame \/ FilterChange \/ Peek
  \/ \E k \in Item : OpenItem(k) \/ LeaveElsewhere(k)

Spec == Init /\ [][Next]_vars

-----------------------------------------------------------------------------
PageType ==
  [list : Seq(Row), active : Row \cup {NoRow}, detail : Row \cup {NoRow},
   ctx : Ctx, ws : Item \cup {0}, processed : SUBSET Row, absent : SUBSET Row,
   intents : SUBSET Row, owner : Row \cup {NoOwner, PageOwner, UpdateOwner},
   snap : Seq(Row), snapBefore : Seq(Row), listLoading : BOOLEAN]

(* Types of every variable.                                                *)
TypeOK ==
  /\ pend \in [Item -> Nat] /\ last \in [Item -> Nat]
  /\ \A k \in Item : pend[k] \in {0, last[k]} /\ last[k] <= Visits[k]
  /\ confirmed \subseteq Row
  /\ pg \in PageType /\ side \in SideType
  /\ flow \in [Row -> FlowSteps] /\ prev \in [Row -> Seq(Row)]
  /\ upd \in [st : {"idle", "refresh", "load"}, key : Item \cup {0},
              manual : BOOLEAN]
  /\ events \in [user : 0..MaxUser, server : 0..MaxServer]

(* The list never offers an approval whose confirm is under way or done,   *)
(* nor the same approval twice, whatever order list answers, rollbacks and *)
(* 404s come in (processedTriples, loadList, restoreListItemLocally).      *)
ListSound ==
  /\ Rows(pg.list) \cap pg.processed = {}
  /\ Cardinality(Keys(pg.list)) = Len(pg.list)

(* A confirm that succeeded is final for this page: no list or sidebar     *)
(* answer read before it, however late, no rollback of a neighbour and no  *)
(* reconciliation with a later list shows that visit again                 *)
(* (invalidateListLoads, the refresh generation of usePendingGates).  The  *)
(* sidebar knows only run:node, so there every visit of the node must have *)
(* been confirmed.                                                         *)
ConfirmedStaysGone ==
  \A r \in confirmed :
    /\ r \notin Rows(pg.list)
    /\ (\A c \in Row : c.key = r.key => c \in confirmed)
         => r.key \notin side.displayed \cup side.remote

(* "The list changed" is announced exactly when the displayed rows and the *)
(* last remote page differ (setPending, removeItemLocally,                 *)
(* restoreItemLocally, applyPending).                                      *)
BannerTruthful == side.hasPending = (side.displayed # side.remote)

(* The event socket is the selected run's or closed: no frame of another   *)
(* run reaches the panel (closeActiveRunWs, connectActiveRunWs).           *)
SocketIsActive == pg.ws \in {0, pg.active.key}

(* The list is locked by the confirms in flight and by nothing else, so a  *)
(* failed, refused or overtaken confirm never leaves it locked             *)
(* (processingIntentKeys).                                                 *)
LockHeldExactly == pg.intents = {r \in Row : flow[r] # "idle"}

(* An approval that still waits is hidden from the list only while its own *)
(* confirm is in flight: a refused answer makes it selectable again.  The  *)
(* exception is real: the rows are dropped by run:node, so the confirm of  *)
(* one visit, converging late, drops the row of the next, and a failing    *)
(* context request then marks that visit processed.                        *)
HiddenOnlyInFlight ==
  \A r \in pg.processed : pend[r.key] = r.it =>
     \/ r \in pg.intents
     \/ \E c \in confirmed : c.key = r.key /\ c.it < r.it

(* Nobody waits for a refresh that is not in flight, so joining the forced *)
(* refresh of a neighbour, or forcing over a peek, loses no continuation   *)
(* and every confirm goes on to converge (refresh's forcePromise).         *)
WaitersHaveFlight ==
  (\E r \in Row : flow[r] = "refresh") \/ upd.st = "refresh"
    => side.flight.kind = "force"
=============================================================================
