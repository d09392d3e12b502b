---------------------------- MODULE ClarifyChat ----------------------------
(***************************************************************************)
(* The dialogue of a parked node as one browser shows it: the pending-send *)
(* panel and the live bubbles of the chat (useClarifyChat.ts), the run     *)
(* page that feeds it (useRunDetail.ts, useRunDetailWs.ts), and the turn   *)
(* controller of the server seen from outside: its queue, its transcript   *)
(* and the frames it publishes (engine/review_session.go; ReviewSession    *)
(* models its inside).                                                     *)
(*                                                                         *)
(* The chat hears of a turn three times: by the event socket, in order but *)
(* only while it is open; by loads of the whole run, which overtake each   *)
(* other and the socket; and by the failures of its own requests.          *)
(*                                                                         *)
(* A handler of the chat is an operator from chat to chat.  The tokens of  *)
(* an answer are abstracted: they come with the end of the turn, and a     *)
(* bubble stopped before it is an empty one.  A frame is published in the  *)
(* step that changes the queue.                                            *)
(***************************************************************************)
EXTENDS ListFilter, Naturals, Sequences, FiniteSets, SequencesExt

CONSTANTS Messages,   \* messages that may be sent, one item each
          Elsewhere,  \* those of them sent by another page or person
          Text,       \* their texts: two messages may say the same
          NoMessage,  \* no message
          Kind,       \* sessionKind: "clarify" or "review"
          MaxGets,    \* loads of the run in flight at one time, a bound
          MaxFrames,  \* frames in the event socket at one time, a bound
          MaxTrouble  \* cancels, retries, losses ..., in all, a bound

ASSUME ChatAssumption ==
  /\ Elsewhere \subseteq Messages /\ NoMessage \notin Messages
  /\ DOMAIN Text = Messages
  /\ Kind \in {"clarify", "review"}
  /\ {MaxGets, MaxFrames} \subseteq Nat /\ MaxTrouble \in Nat

VARIABLES unsent,  \* messages nobody has sent yet
          srv,     \* the server: session, transcript
          frames,  \* frames in the event socket, oldest first
          socket,  \* the event socket is open
          reqs,    \* requests of this page the server has not answered
          asked,   \* a load has been asked for and not been read yet
          answers, \* loads on their way back
          run,     \* run.value, as far as the dialogue goes
          liveBusy, \* liveBusy[nodeId]
          chat,    \* the chat component
          trouble, \* how many troubles happened
          upset    \* the page missed something the socket will not repeat

vars == <<unsent, srv, frames, socket, reqs, asked, answers, run, liveBusy,
          chat, trouble, upset>>

(* An item of the queue: a message, or one of its retries (a new id, the   *)
(* same row), which its number tells apart: the trouble that it is.        *)
Item == [m : Messages, retry : 0..MaxTrouble]
NoItem == [m |-> NoMessage, retry |-> 0]
Same(m, n) == Text[m] = Text[n]

(* One exchange of the transcript, or one pair of live bubbles: a human    *)
(* row and its answer.  "open": the human row alone; "fail": an empty or   *)
(* failed answer, which may be retried; "int": the words for an answer     *)
(* that was stopped, "cut": no words at all; "err": the controller's own.  *)
Exchange(Status) == [m : Messages, st : Status]
Saved == {"open", "ok", "fail", "int"}
Shown == {"stream", "ok", "fail", "int", "cut", "err"}

NoSession == [on |-> FALSE, busy |-> FALSE, items |-> <<>>, act |-> NoItem]
Session == [on : BOOLEAN, busy : BOOLEAN, items : Seq(Item),
            act : Item \cup {NoItem}]

-----------------------------------------------------------------------------
(* The server.                                                             *)

(* reactSessions: nothing at all once the idle session is dropped.         *)
ReactSessions ==
  IF srv.alive
    THEN [on |-> TRUE, busy |-> srv.active # NoItem, items |-> srv.queue,
          act |-> srv.active]
    ELSE NoSession

runDetail == [conv |-> srv.conv, at |-> srv.at, done |-> srv.done,
              sess |-> ReactSessions]

QueueState(items, busy, act) ==
  [ev |-> "queue", items |-> items, busy |-> busy, act |-> act, st |-> "open"]
TurnFrame(ev, it, st) ==
  [ev |-> ev, items |-> <<>>, busy |-> TRUE, act |-> it, st |-> st]
SnapshotFrame(s) ==
  [ev |-> "snapshot", items |-> s.items, busy |-> s.busy, act |-> s.act,
   st |-> "open"]

(* publishReview: a page with no socket misses the frames for good.        *)
publishReview(new) ==
  /\ Len(frames) + Len(new) <= MaxFrames
  /\ frames' = IF socket THEN frames \o new ELSE frames
  /\ upset' = (upset \/ ~socket)

(* EnqueueClarifyTurn, EnqueueReviewTurn.                                  *)
enqueueReactTurn(it) ==
  /\ srv' = [srv EXCEPT !.queue = Append(@, it), !.alive = TRUE]
  /\ publishReview(<<QueueState(Append(srv.queue, it), TRUE, NoItem)>>)

(* A retry needs a failed answer, or a lone human row, at the end.         *)
Runnable(it) ==
  /\ ~srv.done
  /\ it.retry > 0 => srv.conv # <<>> /\ Last(srv.conv).st \in {"open", "fail"}

OpenRow(it) ==
  IF it.retry > 0 THEN [srv.conv EXCEPT ![Len(srv.conv)].st = "open"]
              ELSE Append(srv.conv, [m |-> it.m, st |-> "open"])

(* The pump takes an item, announces it and saves its human row.           *)
Dequeue ==
  /\ srv.alive /\ srv.active = NoItem /\ srv.queue # <<>>
  /\ LET it == Head(srv.queue) IN
     /\ srv' = [srv EXCEPT
          !.queue = Tail(@), !.active = it, !.cancelled = FALSE,
          !.turn = IF Runnable(it) THEN "running" ELSE "refused",
          !.conv = IF Runnable(it) THEN OpenRow(it) ELSE @]
     /\ publishReview(<<QueueState(Tail(srv.queue), TRUE, NoItem),
                        TurnFrame("begin", it, "open")>>)
  /\ UNCHANGED <<unsent, socket, reqs, asked, answers, run, liveBusy, chat,
                 trouble>>

(* The provider answers and the answer is saved; the agent may declare the *)
(* dialogue done.                                                          *)
SaveAnswer(st, done) ==
  /\ srv.turn = "running"
  /\ srv.cancelled <=> st = "int"
  /\ done => st = "ok"
  /\ srv' = [srv EXCEPT !.conv[Len(srv.conv)].st = st, !.done = done,
                        !.turn = "answered", !.at = @ + 1]
  /\ UNCHANGED <<unsent, frames, socket, reqs, asked, answers, run, liveBusy,
                 chat, trouble, upset>>

(* The turn ends; a turn that was refused ends in an error.  The bubble    *)
(* has what was streamed: the answer, or nothing if it was cut short.      *)
EndTurn ==
  /\ srv.turn \in {"answered", "refused"}
  /\ LET st == CASE srv.turn = "answered" /\ Last(srv.conv).st # "int"
                      -> Last(srv.conv).st
                 [] srv.cancelled -> "cut"
                 [] OTHER -> "err"
     IN publishReview(<<TurnFrame(IF st = "err" THEN "error" ELSE "done",
                                  srv.active, st)>>)
  /\ srv' = [srv EXCEPT !.active = NoItem, !.turn = "none",
                        !.cancelled = FALSE]
  /\ UNCHANGED <<unsent, socket, reqs, asked, answers, run, liveBusy, chat,
                 trouble>>

(* The pump finds nothing more to do.                                      *)
dropReviewSessionIfIdle ==
  /\ srv.alive /\ srv.active = NoItem /\ srv.queue = <<>>
  /\ srv' = [srv EXCEPT !.alive = FALSE]
  /\ UNCHANGED <<unsent, frames, socket, reqs, asked, answers, run, liveBusy,
                 chat, trouble, upset>>

SendElsewhere(m) ==
  /\ m \in unsent \cap Elsewhere /\ ~srv.done
  /\ unsent' = unsent \ {m}
  /\ enqueueReactTurn([m |-> m, retry |-> 0])
  /\ UNCHANGED <<socket, reqs, asked, answers, run, liveBusy, chat, trouble>>

-----------------------------------------------------------------------------
(* The chat.                                                               *)

(* The exchange of a live human row is complete in the transcript, and no  *)
(* later one is there.                                                     *)
persistedCompletedLiveHuman(conv, m) ==
  conv # <<>> /\ Last(conv).st # "open" /\ Same(Last(conv).m, m)

NewChat == [queued |-> <<>>, live |-> <<>>, liveAgentIdx |-> 0,
            thinking |-> FALSE, validating |-> FALSE]

sessionBusy(c) == c.thinking \/ c.queued # <<>> \/ c.liveAgentIdx > 0

(* The bubble that is streaming stops, in the given state.                 *)
StopKeepsIndex(c, st) ==
  IF c.liveAgentIdx = 0 THEN c
  ELSE [c EXCEPT !.live[c.liveAgentIdx].st = st]
Stop(c, st) ==
  IF c.liveAgentIdx = 0 THEN c
  ELSE [c EXCEPT !.live[c.liveAgentIdx].st = st, !.liveAgentIdx = 0]

Stream(c, m) ==
  [c EXCEPT !.live = <<[m |-> m, st |-> "stream"]>>, !.liveAgentIdx = 1]

forceAuthoritativeIdle(c) ==
  [Stop(c, "fail") EXCEPT !.queued = <<>>, !.thinking = FALSE]

(* The panel is rebuilt from the frame; an optimistic row survives only    *)
(* while no turn runs, and only one.                                       *)
RebuiltKeepsRows(c, items, busy) ==
  [n \in 1..Len(items) |-> [it |-> items[n], id |-> TRUE]]
    \o SubSeq(c.queued, Len(items) + 1, Len(c.queued))
Rebuilt(c, items, busy) ==
  LET rows == [n \in 1..Len(items) |-> [it |-> items[n], id |-> TRUE]]
      most == IF c.liveAgentIdx > 0 \/ busy THEN Len(items) ELSE Len(items) + 1
      kept == IF most < Len(c.queued) THEN most ELSE Len(c.queued)
  IN rows \o SubSeq(c.queued, Len(items) + 1, kept)

(* queue_state, from a frame or from the sessions of a load.               *)
IdleKeepsRows(c, conv, items, busy, act) ==
  IF items = <<>> /\ ~busy /\ act = NoItem
    THEN [Stop(c, "fail") EXCEPT !.thinking = FALSE]
  ELSE LET b == [c EXCEPT !.queued = Rebuilt(c, items, busy)]
           e == IF busy THEN b ELSE Stop(b, "fail")
       IN [e EXCEPT !.thinking = e.liveAgentIdx > 0 \/ e.queued # <<>> \/ busy]
applyQueueState(c, conv, items, busy, act) ==
  IF items = <<>> /\ ~busy /\ act = NoItem THEN forceAuthoritativeIdle(c)
  ELSE LET b == [c EXCEPT !.queued = Rebuilt(c, items, busy)]
           d == IF /\ busy /\ act # NoItem /\ c.liveAgentIdx = 0
                   /\ ~persistedCompletedLiveHuman(conv, act.m)
                  THEN Stream(b, act.m) ELSE b
           e == IF busy THEN d ELSE Stop(d, "fail")
       IN [e EXCEPT !.thinking = e.liveAgentIdx > 0 \/ e.queued # <<>> \/ busy]

(* turn_begin: the row leaves the panel, by id, and its bubbles open; a    *)
(* retry streams into the pair that failed.                                *)
turn_begin(c, it) ==
  LET n == SelectInSeq(c.queued, LAMBDA q : q.id /\ q.it = it)
      cover == c.live # <<>> /\ Last(c.live).st = "fail"
                             /\ Same(Last(c.live).m, it.m)
      live == IF cover THEN [c.live EXCEPT ![Len(c.live)].st = "stream"]
                       ELSE Append(c.live, [m |-> it.m, st |-> "stream"])
  IN [c EXCEPT !.queued = IF n = 0 THEN @ ELSE RemoveAt(@, n),
               !.live = live, !.liveAgentIdx = Len(live), !.thinking = TRUE]

(* turn_done and error: rows the server does not know are dropped.         *)
settleAfterTurnEnd(c) ==
  LET known == Keep(c.queued, {q \in Rows(c.queued) : q.id})
  IN [c EXCEPT !.queued = known, !.thinking = known # <<>>]

EndFrame(c, st) == settleAfterTurnEnd(Stop(c, st))

(* The transcript, the done flag and the sessions of a load reach the      *)
(* chat: first the watchers, then restoreReactSessions.                    *)
WatchPersisted(c, old, new) ==
  LET conv == new.conv IN
  IF (conv = old.conv /\ new.at = old.at) \/ c.live = <<>> THEN c
  ELSE IF \/ persistedCompletedLiveHuman(conv, c.live[1].m)
          \/ conv # <<>> /\ \A n \in 1..Len(c.live) : c.live[n].st # "stream"
    THEN [c EXCEPT !.live = <<>>, !.liveAgentIdx = 0,
                   !.thinking = @ /\ c.queued # <<>>]
  ELSE c

WatchDone(c, old, new) ==
  IF new.done /\ ~old.done
    THEN [c EXCEPT !.thinking = FALSE, !.validating = FALSE] ELSE c

(* A failed request hands back the spinners the server cannot clear.       *)
WatchConfirmError(c) ==
  [c EXCEPT !.validating = FALSE,
            !.thinking = @ /\ (c.queued # <<>> \/ c.liveAgentIdx > 0)]

discardLastQueued(c) ==
  IF c.queued = <<>> THEN c
  ELSE LET rest == Front(c.queued)
       IN [c EXCEPT !.queued = rest,
                    !.thinking = @ /\ (rest # <<>> \/ c.liveAgentIdx > 0)]

(* What is on the screen: the transcript, with the live bubbles that are   *)
(* not in it yet.  A turn is a human row or an answer, by turns: only the  *)
(* last exchange may be open.                                              *)
Turns(s) ==
  LET rows == IF s # <<>> /\ Last(s).st = "open" THEN 2 * Len(s) - 1
                                               ELSE 2 * Len(s)
  IN [i \in 1..rows |->
        LET e == s[(i + 1) \div 2]
        IN IF i % 2 = 1 THEN [role |-> "human", m |-> e.m, st |-> "open"]
                        ELSE [role |-> "agent", m |-> e.m, st |-> e.st]]

MatchTurn(p, l) == p.role = l.role /\ p.st = l.st /\ Same(p.m, l.m)

MergeUnmatched(conv, live) == Turns(conv) \o Turns(live)
mergePersistedAndLiveTurns(conv, live) ==
  LET p == Turns(conv)
      l == Turns(live)
      Match(k) == \A n \in 1..k : MatchTurn(p[Len(p) - k + n], l[n])
      most == IF Len(p) < Len(l) THEN Len(p) ELSE Len(l)
      matched == CHOOSE k \in 0..most :
                   Match(k) /\ \A j \in k + 1 .. most : ~Match(j)
  IN IF live = <<>> \/ conv = <<>> THEN p \o l
     ELSE IF /\ live[1].st = "stream" /\ Last(conv).st = "fail"
             /\ Same(Last(conv).m, live[1].m)
       THEN Front(p) \o Tail(l)
     ELSE IF persistedCompletedLiveHuman(conv, live[1].m) THEN p
     ELSE p \o SubSeq(l, matched + 1, Len(l))

displayTurns == mergePersistedAndLiveTurns(run.conv, chat.live)

-----------------------------------------------------------------------------
(* What the user does in the chat.                                         *)

Trouble == trouble < MaxTrouble /\ trouble' = trouble + 1

Request(k, it) == [k |-> k, it |-> it]
server == <<srv, frames, socket, upset>>
page == <<asked, answers, run, liveBusy>>

sendMessage(m) ==
  LET it == [m |-> m, retry |-> 0] IN
  /\ m \in unsent \ Elsewhere /\ ~run.done
  /\ unsent' = unsent \ {m}
  /\ chat' = [chat EXCEPT !.queued = Append(@, [it |-> it, id |-> FALSE]),
                          !.thinking = TRUE]
  /\ reqs' = reqs \cup {Request("send", it)}
  /\ UNCHANGED <<server, page, trouble>>

(* Only a row with a server id is asked to be removed.                     *)
cancelQueuedItem(n) ==
  LET row == chat.queued[n]
      rest == RemoveAt(chat.queued, n)
  IN /\ n \in 1..Len(chat.queued) /\ Trouble
     /\ chat' = [chat EXCEPT !.queued = rest,
           !.thinking = chat.liveAgentIdx > 0 \/ rest # <<>>]
     /\ reqs' = IF row.id THEN reqs \cup {Request("remove", row.it)} ELSE reqs
     /\ UNCHANGED <<unsent, server, page>>

cancelReview ==
  LET c == Stop(IF Kind = "review" THEN [chat EXCEPT !.queued = <<>>] ELSE chat,
                "int")
  IN /\ ~run.done /\ sessionBusy(chat) /\ Trouble
     /\ chat' = [c EXCEPT !.thinking = c.queued # <<>>]
     /\ reqs' = reqs \cup {Request("cancel", NoItem)}
     /\ UNCHANGED <<unsent, server, page>>

(* confirmDisabled: only an idle dialogue can be finished.                 *)
finishEarly ==
  /\ ~run.done /\ ~sessionBusy(chat) /\ ~chat.validating /\ Trouble
  /\ chat' = IF Kind = "review" THEN [chat EXCEPT !.validating = TRUE]
                                ELSE [chat EXCEPT !.thinking = TRUE]
  /\ reqs' = reqs \cup {Request("finish", NoItem)}
  /\ UNCHANGED <<unsent, server, page>>

(* The trailing failed answer on the screen streams again at once.         *)
retryLastFailed ==
  /\ ~run.done /\ ~sessionBusy(chat) /\ displayTurns # <<>>
  /\ Last(displayTurns).st = "fail" /\ Trouble
  /\ LET m == Last(displayTurns).m IN
     /\ chat' = [Stream(chat, m) EXCEPT !.thinking = TRUE]
     /\ reqs' = reqs \cup {Request("retry", [m |-> m, retry |-> trouble'])}
  /\ UNCHANGED <<unsent, server, page>>

-----------------------------------------------------------------------------
(* The server answers the requests of the page, in any order.              *)

Serve(r, k) == r.k = k /\ r \in reqs /\ reqs' = reqs \ {r}

(* A send is accepted; that answer changes nothing on the page.            *)
SendServed(r) ==
  /\ Serve(r, "send") /\ ~srv.done
  /\ enqueueReactTurn(r.it)
  /\ UNCHANGED <<unsent, socket, page, chat, trouble>>

(* A send is refused, or never arrives: onClarifySend takes the last row   *)
(* back, whichever it is.                                                  *)
SendFails(r) ==
  /\ Serve(r, "send") /\ (IF srv.done THEN UNCHANGED trouble ELSE Trouble)
  /\ chat' = WatchConfirmError(discardLastQueued(chat))
  /\ upset' = TRUE
  /\ UNCHANGED <<unsent, srv, frames, socket, page>>

(* EnqueueClarifyRetryLast: the last human row of the transcript is run    *)
(* again, whatever the page retries.                                       *)
RetryServed(r) ==
  /\ Serve(r, "retry") /\ Runnable(r.it)
  /\ enqueueReactTurn([r.it EXCEPT !.m = Last(srv.conv).m])
  /\ UNCHANGED <<unsent, socket, page, chat, trouble>>

(* A failed retry: no row to take back, and the bubble goes on streaming.  *)
RetryFails(r) ==
  /\ Serve(r, "retry")
  /\ (IF Runnable(r.it) THEN Trouble ELSE UNCHANGED trouble)
  /\ chat' = WatchConfirmError(chat)
  /\ upset' = TRUE
  /\ UNCHANGED <<unsent, srv, frames, socket, page>>

RemoveQueuedItem(r) ==
  /\ Serve(r, "remove")
  /\ LET rest == Keep(srv.queue, Rows(srv.queue) \ {r.it}) IN
     IF rest = srv.queue THEN UNCHANGED server
     ELSE /\ srv' = [srv EXCEPT !.queue = rest]
          /\ publishReview(<<QueueState(rest, srv.active # NoItem, NoItem)>>)
          /\ UNCHANGED socket
  /\ UNCHANGED <<unsent, page, chat, trouble>>

cancelReactSession(r) ==
  /\ Serve(r, "cancel")
  /\ LET rest == IF Kind = "review" THEN <<>> ELSE srv.queue IN
     /\ srv' = IF srv.alive THEN [srv EXCEPT !.queue = rest, !.cancelled = TRUE]
                            ELSE srv
     /\ publishReview(<<QueueState(rest, srv.active # NoItem, NoItem)>>)
  /\ UNCHANGED <<unsent, socket, page, chat, trouble>>

(* A force confirm ends the dialogue when its session is ready; the page   *)
(* loads the run after it, whatever the answer.                            *)
FinishServed(r) ==
  /\ Serve(r, "finish") /\ asked' = TRUE
  /\ IF ~srv.done /\ srv.active = NoItem /\ srv.queue = <<>>
       THEN srv' = [srv EXCEPT !.done = TRUE] /\ UNCHANGED chat
       ELSE chat' = WatchConfirmError(chat) /\ UNCHANGED srv
  /\ UNCHANGED <<unsent, frames, socket, answers, run, liveBusy, trouble,
                 upset>>

-----------------------------------------------------------------------------
(* The run page.                                                           *)

isClarifySessionBusy == liveBusy \/ run.sess.busy \/ sessionBusy(chat)

Restore(c, conv, s) ==
  IF s.on THEN applyQueueState(c, conv, s.items, s.busy, s.act) ELSE c

(* The two-second tick, a status frame, a focus: not while it is busy.     *)
PollTick ==
  /\ ~isClarifySessionBusy /\ ~asked /\ asked' = TRUE
  /\ UNCHANGED <<unsent, server, reqs, answers, run, liveBusy, chat, trouble>>

ReadLoad ==
  /\ asked /\ Len(answers) < MaxGets /\ asked' = FALSE
  /\ answers' = Append(answers, [r |-> runDetail, landed |-> FALSE])
  /\ UNCHANGED <<unsent, server, reqs, run, liveBusy, chat, trouble>>

(* run.value changes and the watchers run; the sessions wait for the       *)
(* workflow to be fetched as well.                                         *)
LandLoad(n) ==
  LET r == answers[n].r IN
  /\ n \in 1..Len(answers) /\ ~answers[n].landed
  /\ answers' = [answers EXCEPT ![n].landed = TRUE]
  /\ run' = r
  /\ chat' = WatchDone(WatchPersisted(chat, run, r), run, r)
  /\ UNCHANGED <<unsent, server, reqs, asked, liveBusy, trouble>>

(* Sessions restored at another point of the stream than their own.        *)
OutOfStep(s) == s # ReactSessions \/ (s.on /\ frames # <<>>)

RestoreLanded(n) ==
  LET s == answers[n].r.sess IN
  /\ n \in 1..Len(answers) /\ answers[n].landed
  /\ answers' = RemoveAt(answers, n)
  /\ chat' = Restore(chat, run.conv, s)
  /\ liveBusy' = IF s.on THEN s.busy ELSE liveBusy
  /\ upset' = (upset \/ OutOfStep(s))
  /\ UNCHANGED <<unsent, srv, frames, socket, reqs, asked, run, trouble>>

(* runSnapshotUnchanged: an answer of the same second with the same status *)
(* and the same sessions is dropped, its transcript with it.               *)
DropLoad(n) ==
  LET r == answers[n].r IN
  /\ n \in 1..Len(answers) /\ ~answers[n].landed
  /\ answers' = RemoveAt(answers, n)
  /\ r.done = run.done /\ Len(r.sess.items) = Len(run.sess.items)
  /\ r.sess.on = run.sess.on /\ r.sess.busy = run.sess.busy
  /\ UNCHANGED <<unsent, server, reqs, asked, run, liveBusy, chat, trouble>>

(* connectWs, socket.onmessage.                                            *)
Receive ==
  LET f == Head(frames)
      s == [on |-> TRUE, busy |-> f.busy, items |-> f.items, act |-> f.act]
  IN /\ frames # <<>> /\ frames' = Tail(frames)
     /\ chat' = CASE f.ev = "begin" -> turn_begin(chat, f.act)
                  [] f.ev \in {"done", "error"} -> EndFrame(chat, f.st)
                  [] OTHER -> applyQueueState(chat, run.conv, f.items, f.busy,
                                              f.act)
     /\ liveBusy' = (f.busy /\ f.ev \notin {"done", "error"})
     /\ run' = IF f.ev = "snapshot" THEN [run EXCEPT !.sess = s] ELSE run
     /\ asked' = (asked \/ f.ev \in {"done", "error"})
     /\ UNCHANGED <<unsent, srv, socket, reqs, answers, trouble, upset>>

SocketDrops ==
  /\ socket /\ Trouble
  /\ socket' = FALSE /\ frames' = <<>>
  /\ upset' = (upset \/ frames # <<>>)
  /\ UNCHANGED <<unsent, srv, reqs, asked, answers, run, liveBusy, chat>>

(* On connect the server sends a snapshot and, for a session that is still *)
(* there, its queue; the page applies the sessions it has.                 *)
ConnectFrames ==
  LET s == ReactSessions
  IN IF s.on THEN <<SnapshotFrame(s), QueueState(s.items, s.busy, s.act)>>
             ELSE <<>>

Reconnect ==
  /\ ~socket /\ socket' = TRUE
  /\ frames' = ConnectFrames
  /\ chat' = Restore(chat, run.conv, run.sess)
  /\ liveBusy' = IF run.sess.on THEN run.sess.busy ELSE liveBusy
  /\ upset' = (upset \/ (run.sess.on /\ run.sess # ReactSessions))
  /\ UNCHANGED <<unsent, srv, reqs, asked, answers, run, trouble>>

(* The user loads the page anew: a load, the chat from nothing, a socket.  *)
Refresh ==
  /\ Trouble
  /\ run' = runDetail /\ answers' = <<>> /\ asked' = FALSE /\ reqs' = {}
  /\ chat' = Restore(NewChat, srv.conv, ReactSessions)
  /\ liveBusy' = (srv.active # NoItem)
  /\ socket' = TRUE /\ frames' = ConnectFrames
  /\ upset' = FALSE
  /\ UNCHANGED <<unsent, srv>>

-----------------------------------------------------------------------------
Init ==
  /\ unsent = Messages
  /\ srv = [queue |-> <<>>, active |-> NoItem, turn |-> "none",
            cancelled |-> FALSE, alive |-> FALSE, conv |-> <<>>, at |-> 0,
            done |-> FALSE]
  /\ frames = <<>> /\ socket = TRUE
  /\ reqs = {} /\ asked = FALSE /\ answers = <<>>
  /\ run = [conv |-> <<>>, at |-> 0, done |-> FALSE, sess |-> NoSession]
  /\ liveBusy = FALSE /\ chat = NewChat
  /\ trouble = 0 /\ upset = FALSE

Next ==
  \/ \E m \in Messages : SendElsewhere(m) \/ sendMessage(m)
  \/ Dequeue \/ EndTurn \/ dropReviewSessionIfIdle
  \/ \E st \in Saved \ {"open"}, done \in BOOLEAN : SaveAnswer(st, done)
  \/ \E n \in 1..Len(chat.queued) : cancelQueuedItem(n)
  \/ cancelReview \/ finishEarly \/ retryLastFailed
  \/ \E r \in reqs : \/ SendServed(r) \/ SendFails(r)
                     \/ RetryServed(r) \/ RetryFails(r)
                     \/ RemoveQueuedItem(r) \/ cancelReactSession(r)
                     \/ FinishServed(r)
  \/ PollTick \/ ReadLoad
  \/ \E n \in 1..Len(answers) : LandLoad(n) \/ RestoreLanded(n) \/ DropLoad(n)
  \/ Receive \/ SocketDrops \/ Reconnect \/ Refresh

Spec == Init /\ [][Next]_vars

-----------------------------------------------------------------------------
(* One type invariant: besides the types, the bubble the index points at,  *)
(* and no other, is where the next token of the socket goes.               *)
TypeOK ==
  /\ unsent \subseteq Messages /\ socket \in BOOLEAN /\ upset \in BOOLEAN
  /\ srv.queue \in Seq(Item) /\ srv.active \in Item \cup {NoItem}
  /\ srv.conv \in Seq(Exchange(Saved)) /\ {srv.alive, srv.done} \subseteq BOOLEAN
  /\ asked \in BOOLEAN /\ Len(answers) <= MaxGets /\ trouble \in 0..MaxTrouble
  /\ chat.live \in Seq(Exchange(Shown))
  /\ chat.queued \in Seq([it : Item, id : BOOLEAN])
  /\ chat.liveAgentIdx > 0 => chat.live[chat.liveAgentIdx].st = "stream"
  /\ {chat.thinking, chat.validating, liveBusy} \subseteq BOOLEAN

(* Nothing is under way between the page and the server.                   *)
Quiet == frames = <<>> /\ reqs = {} /\ ~asked /\ answers = <<>> /\ socket

(* Once the session is dropped and everything sent has arrived, no spinner *)
(* is left: a chat that stays busy disables finish, retry and the poll     *)
(* that would repair it.  Five handlers clear the flags, each a part       *)
(* (useClarifyChat.ts settleAfterTurnEnd, forceAuthoritativeIdle, the      *)
(* watches on done and confirmError; useRunDetailWs.ts restore).           *)
Settled ==
  Quiet /\ ~srv.alive /\ ~upset => ~isClarifySessionBusy /\ ~chat.validating

(* While a turn runs the pending panel is the queue of the server, row by  *)
(* row, whoever sent what and whatever was cancelled: applyQueueState      *)
(* merges by position, and two queue_state frames and a turn_begin may     *)
(* each take the same row.                                                 *)
PanelAgrees ==
  Quiet /\ ~upset /\ srv.turn = "running" =>
    [n \in 1..Len(chat.queued) |-> chat.queued[n].it] = srv.queue

(* While a turn runs its bubble streams, and it is that turn's: a load, a  *)
(* reconnect or a refresh in between restores the active turn without      *)
(* losing it to the end of the one before (applyQueueState, turn_begin,    *)
(* the watch on the persisted transcript).                                 *)
BubbleAgrees ==
  Quiet /\ ~upset /\ ~srv.cancelled /\ srv.turn = "running" =>
    chat.liveAgentIdx > 0 /\ Same(chat.live[chat.liveAgentIdx].m, srv.active.m)

(* The live bubbles are answered, as the transcript says, up to its last.  *)
AnsweredAsSaved ==
  chat.live # <<>> =>
    /\ Last(chat.live) = Last(srv.conv)
    /\ Rows(chat.live) \subseteq Rows(srv.conv)

(* Once the page holds the transcript of the server, the screen shows each *)
(* exchange once and in order, whichever of the end of a turn and the load *)
(* came first (mergePersistedAndLiveTurns, the watch on the transcript).   *)
(* For retries it is a matter of the bounds: two troubles are enough for   *)
(* one that is pressed on a transcript out of date to break it.            *)
TranscriptAgrees ==
  /\ Quiet /\ ~upset /\ ~srv.alive /\ AnsweredAsSaved
  /\ run.conv = srv.conv /\ run.at = srv.at
  => displayTurns = Turns(srv.conv)

(* "Cover retry: reuse trailing live human + failed/empty agent instead of *)
(* duplicating" (useClarifyChat.ts:1203): a human row is on the screen     *)
(* once.                                                                   *)
NoRowTwice ==
  ~upset => \A i, j \in 1..Len(displayTurns) :
    (displayTurns[i].role = "human" /\ displayTurns[j].role = "human"
      /\ displayTurns[i].m = displayTurns[j].m) => i = j
=============================================================================
