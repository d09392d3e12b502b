---------------------------- MODULE ReviewSession ----------------------------
(***************************************************************************)
(* The turn controller of one parked dialogue: every message a human sends *)
(* to a run's producer node goes through a FIFO drained by one goroutine   *)
(* (server/internal/engine/review_session.go), while force confirms,       *)
(* cancels, removals and reorderings come in from other requests.          *)
(*                                                                         *)
(* The module is about one key "runID|producerID" of Engine.reviewSess.    *)
(* Every mutex-protected section of the code is one action; what a handler *)
(* does between two sections (a transcript read, the ready gate, the       *)
(* provider call) is a step of its own, so handlers interleave as          *)
(* goroutines do.  Texts, images and annotations are abstracted to an item *)
(* identity and to whether the item answers a choice card.                 *)
(***************************************************************************)
EXTENDS Naturals, Sequences, FiniteSets, SequencesExt

CONSTANTS
    Items,                \* messages, one enqueue request each
    ChoiceItems,          \* the messages that are choice-card answers
    Pumps,                \* ids for the pump goroutines alive at one time
    Cancels,              \* cancel requests
    Confirms,             \* force-confirm requests
    Kind,                 \* sessionKind: "review" or "clarify"
    MaxReviewQueueItems,  \* cap of the waiting queue
    MaxSessions,          \* bound on session objects created for the key
    AnyOrder,             \* TRUE: reorder requests may name any waiting ids
    None                  \* no item

ASSUME SessionAssumption ==
    /\ ChoiceItems \subseteq Items
    /\ Kind \in {"review", "clarify"}
    /\ MaxReviewQueueItems \in Nat
    /\ MaxSessions \in Nat
    /\ AnyOrder \in BOOLEAN
    /\ None \notin Items
    /\ None \notin Pumps \cup Confirms
    /\ Pumps \cap Confirms = {}

VARIABLES
    reg,      \* the session Engine.reviewSess maps the key to, 0 for none
    created,  \* number of session objects created so far
    sess,     \* the session objects (some may no longer be registered)
    item,     \* the enqueue requests: progress, and the session they hold
    pump,     \* the pump goroutines
    lock,     \* holder of lockResume(runID:producerID)
    conv,     \* the persisted ReactConversation
    routed,   \* times the FSM was advanced out of this dialogue
    cancel,   \* the cancel requests
    confirm,  \* the force-confirm requests
    halted    \* Engine.halted

vars == <<reg, created, sess, item, pump, lock, conv, routed, cancel, confirm,
          halted>>

Sessions == 1..MaxSessions

NewSession == [queue |-> <<>>, waiting |-> 0, active |-> None,
               pumping |-> FALSE, cancelRequested |-> FALSE]

Session == [queue : Seq(Items), waiting : Nat, active : Items \cup {None},
            pumping : BOOLEAN, cancelRequested : BOOLEAN]

\* A row of conv.Messages; item is None for agent rows, and for the human row
\* that a force confirm adds.
Message == [role : {"human", "agent"}, item : Items \cup {None},
            ask : BOOLEAN, interrupted : BOOLEAN]

HumanRow(i) ==
    [role |-> "human", item |-> i, ask |-> FALSE, interrupted |-> FALSE]
AgentRow(asks, cut) ==
    [role |-> "agent", item |-> None, ask |-> asks, interrupted |-> cut]

ItemState == {"new", "choice", "lock", "refused",
              "queued", "active", "ended", "failed", "removed", "cleared"}
PumpState == {"none", "loop", "exec", "turn", "ending", "exit", "drop",
              "restart"}

-----------------------------------------------------------------------------
(* What the handlers compute from a session or a transcript.               *)

\* transcriptHasChoiceAfterLatestAsk
ChoiceAfterLatestAsk ==
    \E j \in 1..Len(conv.msgs) :
        /\ conv.msgs[j].role = "human"
        /\ conv.msgs[j].item \in ChoiceItems
        /\ \E k \in 1..(j-1) : conv.msgs[k].ask
        /\ \A k \in (j+1)..Len(conv.msgs) : ~conv.msgs[k].ask

\* sessionHasChoiceLocked
HasChoice(s) ==
    \/ sess[s].active \in ChoiceItems
    \/ \E j \in 1..Len(sess[s].queue) : sess[s].queue[j] \in ChoiceItems

Idle(s) == sess[s].active = None /\ sess[s].waiting = 0

\* Whether the deferred function starts another pump.  Mutants: it never
\* does; it does not look at the pumping flag.
NeedsPumpNever(s) == FALSE
NeedsPumpAgain(s) == sess[s].waiting > 0
NeedsPump(s) == sess[s].waiting > 0 /\ ~sess[s].pumping

\* ReviewSessionReady: a missing session counts as ready
Ready == reg = 0 \/ Idle(reg)

\* The id lists a client may send to ReorderQueuedItems for queue q and that
\* pass its checks: as long as q, every id one of q's.
ReorderIds(q) ==
    {ids \in [1..Len(q) -> {q[j] : j \in 1..Len(q)}] :
        AnyOrder \/ \A j, k \in 1..Len(q) : j # k => ids[j] # ids[k]}

-----------------------------------------------------------------------------
Init ==
    /\ reg = 0
    /\ created = 0
    /\ sess = [s \in Sessions |-> NewSession]
    /\ item = [i \in Items |-> [st |-> "new", s |-> 0]]
    /\ pump = [p \in Pumps |-> [pc |-> "none", s |-> 0]]
    /\ lock = None
    /\ conv = [done |-> FALSE, msgs |-> <<AgentRow(Kind = "clarify", FALSE)>>]
    /\ routed = 0
    /\ cancel = [k \in Cancels |-> [pc |-> "new", s |-> 0]]
    /\ confirm = [c \in Confirms |-> "new"]
    /\ halted = FALSE

\* lockResume; the mutant does not wait for the mutex.
AcquireBlindly(h) == lock' = h
Acquire(h) == lock = None /\ lock' = h

\* The conv.Done check of every path into the dialogue; the mutant drops it.
ClosedUnchecked == FALSE
Closed == conv.done

\* One waiting message less: if s.waiting > 0 { s.waiting-- }
OneLess(n) == IF n > 0 THEN n - 1 ELSE n

\* The queue without position idx; the mutant drops the last message.
WithoutLast(q, idx) == RemoveAt(q, Len(q))
Without(q, idx) == RemoveAt(q, idx)

\* A session after a cancel that clears the queue; the mutant forgets to reset
\* the counter.
SweptQueueOnly(x) == [x EXCEPT !.queue = <<>>, !.cancelRequested = TRUE]
Swept(x) == [x EXCEPT !.queue = <<>>, !.waiting = 0, !.cancelRequested = TRUE]

\* getOrCreateReviewSession: reg' is the session; the mutant ignores the one
\* that is registered.
CreateAlways ==
    /\ created' = created + 1
    /\ reg' = created'
GetOrCreate ==
    IF reg = 0
    THEN /\ created < MaxSessions
         /\ created' = created + 1
         /\ reg' = created'
    ELSE UNCHANGED <<reg, created>>

Goto(p, l) == pump' = [pump EXCEPT ![p].pc = l]
SetItem(i, st) == item' = [item EXCEPT ![i].st = st]

\* Halt: no new turn or confirm is admitted from here on
Halt ==
    /\ ~halted
    /\ halted' = TRUE
    /\ UNCHANGED <<reg, created, sess, item, pump, lock, conv, routed, cancel,
                   confirm>>

-----------------------------------------------------------------------------
(* ReactReply(force = false) -> enqueueReactTurn                           *)

\* Peek at conv.Done, then find the session; s.mu is not held yet.
Submit(i) ==
    /\ item[i].st = "new"
    /\ ~halted
    /\ ~Closed
    /\ GetOrCreate
    /\ item' = [item EXCEPT ![i] =
                   [st |-> IF i \in ChoiceItems THEN "choice" ELSE "lock",
                    s  |-> reg']]
    /\ UNCHANGED <<sess, pump, lock, conv, routed, cancel, confirm, halted>>

SubmitRefused(i) ==
    /\ item[i].st = "new"
    /\ halted \/ Closed
    /\ SetItem(i, "refused")
    /\ UNCHANGED <<reg, created, sess, pump, lock, conv, routed, cancel,
                   confirm, halted>>

\* A choice answer reads the transcript before it takes s.mu.
CheckTranscript(i) ==
    /\ item[i].st = "choice"
    /\ SetItem(i, IF ChoiceAfterLatestAsk THEN "refused" ELSE "lock")
    /\ UNCHANGED <<reg, created, sess, pump, lock, conv, routed, cancel,
                   confirm, halted>>

EnqueueRefused(i) ==
    /\ item[i].st = "lock"
    /\ LET s == item[i].s IN
        \/ i \in ChoiceItems /\ HasChoice(s)
        \/ sess[s].waiting >= MaxReviewQueueItems
    /\ SetItem(i, "refused")
    /\ UNCHANGED <<reg, created, sess, pump, lock, conv, routed, cancel,
                   confirm, halted>>

\* The s.mu section that appends the item, and the "go pump" it decides on.
Enqueue(i) ==
    LET s == item[i].s IN
    /\ item[i].st = "lock"
    /\ ~(i \in ChoiceItems /\ HasChoice(s))
    /\ sess[s].waiting < MaxReviewQueueItems
    /\ sess' = [sess EXCEPT ![s].queue = Append(@, i),
                            ![s].waiting = @ + 1,
                            ![s].pumping = TRUE]
    /\ SetItem(i, "queued")
    /\ IF sess[s].pumping
       THEN UNCHANGED pump
       ELSE \E p \in Pumps :
                /\ pump[p].pc = "none"
                /\ pump' = [pump EXCEPT ![p] = [pc |-> "loop", s |-> s]]
    /\ UNCHANGED <<reg, created, lock, conv, routed, cancel, confirm, halted>>

-----------------------------------------------------------------------------
(* pumpReviewSession: p's session is pump[p].s                             *)

\* Take the head of the queue as the active turn.
Dequeue(p) ==
    LET s == pump[p].s IN
    /\ pump[p].pc = "loop"
    /\ sess[s].queue # <<>>
    /\ LET i == Head(sess[s].queue) IN
        /\ sess' = [sess EXCEPT
                       ![s].queue = Tail(@),
                       ![s].waiting = OneLess(@),
                       ![s].active = i,
                       ![s].cancelRequested = FALSE]
        /\ SetItem(i, "active")
    /\ Goto(p, "exec")
    /\ UNCHANGED <<reg, created, lock, conv, routed, cancel, confirm, halted>>

Drained(p) ==
    /\ pump[p].pc = "loop"
    /\ sess[pump[p].s].queue = <<>>
    /\ Goto(p, "exit")
    /\ UNCHANGED <<reg, created, sess, item, lock, conv, routed, cancel,
                   confirm, halted>>

\* executeClarifyTurn, executeReviewTurn: with the dialogue's lock held and
\* the conversation open, the human row is saved and the provider called.
TurnBegin(p) ==
    LET i == sess[pump[p].s].active IN
    /\ pump[p].pc = "exec"
    /\ Acquire(p)
    /\ ~Closed
    /\ conv' = [conv EXCEPT !.msgs = Append(@, HumanRow(i))]
    /\ Goto(p, "turn")
    /\ UNCHANGED <<reg, created, sess, item, routed, cancel, confirm, halted>>

\* The early returns under the lock: a closed conversation, or a run, node or
\* conversation that cannot be loaded.
TurnRefused(p) ==
    /\ pump[p].pc = "exec"
    /\ lock = None
    /\ SetItem(sess[pump[p].s].active, "failed")
    /\ Goto(p, "ending")
    /\ UNCHANGED <<reg, created, sess, lock, conv, routed, cancel, confirm,
                   halted>>

\* The provider answers; the agent row is saved and the lock released.  Only
\* a clarify turn can close the dialogue, and then the FSM is advanced.
TurnReturns(p) ==
    LET s == pump[p].s
        cancelled == sess[s].cancelRequested
        Save(asks, cut) == Append(conv.msgs, AgentRow(asks, cut))
    IN
    /\ pump[p].pc = "turn"
    /\ \/ \E asks \in IF Kind = "clarify" THEN BOOLEAN ELSE {FALSE} :
            /\ conv' = [conv EXCEPT !.msgs = Save(asks, cancelled)]
            /\ UNCHANGED routed
       \/ /\ Kind = "review"          \* ReviseInPlace failed
          /\ conv' = [conv EXCEPT !.msgs = Save(FALSE, TRUE)]
          /\ UNCHANGED routed
       \/ /\ Kind = "clarify"         \* the agent is Done
          /\ ~cancelled
          /\ conv' = [done |-> TRUE, msgs |-> Save(FALSE, FALSE)]
          /\ routed' = routed + 1
    /\ lock' = None
    /\ SetItem(sess[s].active, "ended")
    /\ Goto(p, "ending")
    /\ UNCHANGED <<reg, created, sess, cancel, confirm, halted>>

EndTurn(p) ==
    /\ pump[p].pc = "ending"
    /\ sess' = [sess EXCEPT ![pump[p].s].active = None,
                            ![pump[p].s].cancelRequested = FALSE]
    /\ Goto(p, "loop")
    /\ UNCHANGED <<reg, created, item, lock, conv, routed, cancel, confirm,
                   halted>>

\* The deferred function: stop pumping, then drop an idle session or restart
\* for items that arrived meanwhile.
Exit(p) ==
    LET s == pump[p].s IN
    /\ pump[p].pc = "exit"
    /\ sess' = [sess EXCEPT ![s].pumping = FALSE]
    /\ Goto(p, IF Idle(s) THEN "drop" ELSE "restart")
    /\ UNCHANGED <<reg, created, item, lock, conv, routed, cancel, confirm,
                   halted>>

\* dropReviewSessionIfIdle looks the key up again: the session it unregisters
\* is the registered one, whichever that is by now.
Drop(p) ==
    /\ pump[p].pc = "drop"
    /\ reg' = IF reg # 0 /\ Idle(reg) /\ ~sess[reg].pumping THEN 0 ELSE reg
    /\ pump' = [pump EXCEPT ![p] = [pc |-> "none", s |-> 0]]
    /\ UNCHANGED <<created, sess, item, lock, conv, routed, cancel, confirm,
                   halted>>

Restart(p) ==
    LET s == pump[p].s IN
    /\ pump[p].pc = "restart"
    /\ IF NeedsPump(s)
       THEN /\ sess' = [sess EXCEPT ![s].pumping = TRUE]
            /\ Goto(p, "loop")
       ELSE /\ pump' = [pump EXCEPT ![p] = [pc |-> "none", s |-> 0]]
            /\ UNCHANGED sess
    /\ UNCHANGED <<reg, created, item, lock, conv, routed, cancel, confirm,
                   halted>>

-----------------------------------------------------------------------------
(* Requests that edit the queue or stop the turn                           *)

\* RemoveQueuedItem: a waiting item, never the active one
RemoveQueuedItem(i) ==
    /\ reg # 0
    /\ sess[reg].active # i
    /\ \E idx \in 1..Len(sess[reg].queue) :
        /\ sess[reg].queue[idx] = i
        /\ \A j \in 1..(idx-1) : sess[reg].queue[j] # i
        /\ sess' = [sess EXCEPT
                       ![reg].queue = Without(@, idx),
                       ![reg].waiting = OneLess(@)]
    /\ SetItem(i, "removed")
    /\ UNCHANGED <<reg, created, pump, lock, conv, routed, cancel, confirm,
                   halted>>

ReorderQueuedItems ==
    /\ reg # 0
    /\ sess[reg].queue # <<>>
    /\ \E ids \in ReorderIds(sess[reg].queue) :
        sess' = [sess EXCEPT ![reg].queue = ids]
    /\ UNCHANGED <<reg, created, item, pump, lock, conv, routed, cancel,
                   confirm, halted>>

\* cancelReactSession: find the session, ...
CancelLookup(k) ==
    /\ cancel[k].pc = "new"
    /\ cancel' = [cancel EXCEPT ![k] =
                     [pc |-> IF reg = 0 THEN "abort" ELSE "mark", s |-> reg]]
    /\ UNCHANGED <<reg, created, sess, item, pump, lock, conv, routed, confirm,
                   halted>>

\* ... under s.mu drop the waiting items (review only) and flag the turn, ...
CancelMark(k) ==
    LET s == cancel[k].s
        Waiting == {sess[s].queue[j] : j \in 1..Len(sess[s].queue)}
    IN
    /\ cancel[k].pc = "mark"
    /\ IF Kind = "review"
       THEN /\ sess' = [sess EXCEPT ![s] = Swept(@)]
            /\ item' = [i \in Items |-> IF i \in Waiting
                                        THEN [item[i] EXCEPT !.st = "cleared"]
                                        ELSE item[i]]
       ELSE /\ sess' = [sess EXCEPT ![s].cancelRequested = TRUE]
            /\ UNCHANGED item
    /\ cancel' = [cancel EXCEPT ![k].pc = "abort"]
    /\ UNCHANGED <<reg, created, pump, lock, conv, routed, confirm, halted>>

\* ... then, with no lock held, abort whatever turn the provider is running
\* (cancelProviderTurn, cancelFn).  The turn answers in TurnReturns.
CancelAbort(k) ==
    /\ cancel[k].pc = "abort"
    /\ cancel' = [cancel EXCEPT ![k].pc = "done"]
    /\ UNCHANGED <<reg, created, sess, item, pump, lock, conv, routed, confirm,
                   halted>>

-----------------------------------------------------------------------------
(* ReactReply(force = true)                                                *)

\* The ready gate, checked before the lock is taken.
ConfirmReady(c) ==
    /\ confirm[c] = "new"
    /\ confirm' = [confirm EXCEPT ![c] =
                      IF halted \/ ~Ready THEN "refused" ELSE "ready"]
    /\ UNCHANGED <<reg, created, sess, item, pump, lock, conv, routed, cancel,
                   halted>>

\* Under the lock: refuse a closed conversation, or append the human row and
\* close it before the slow wrap-up.
ConfirmBegin(c) ==
    /\ confirm[c] = "ready"
    /\ IF Closed
       THEN /\ lock = None
            /\ confirm' = [confirm EXCEPT ![c] = "refused"]
            /\ UNCHANGED <<conv, lock>>
       ELSE /\ Acquire(c)
            /\ confirm' = [confirm EXCEPT ![c] = "wrapup"]
            /\ conv' = [done |-> TRUE, msgs |-> Append(conv.msgs, HumanRow(None))]
    /\ UNCHANGED <<reg, created, sess, item, pump, routed, cancel, halted>>

\* The wrap-up answers: it validates and the FSM advances, or it reopens the
\* dialogue.
ConfirmEnd(c) ==
    /\ confirm[c] = "wrapup"
    /\ \/ /\ confirm' = [confirm EXCEPT ![c] = "routed"]
          /\ routed' = routed + 1
          /\ conv' = [done |-> TRUE, msgs |-> Append(conv.msgs, AgentRow(FALSE, FALSE))]
       \/ /\ confirm' = [confirm EXCEPT ![c] = "refused"]
          /\ \E asks \in IF Kind = "clarify" THEN BOOLEAN ELSE {FALSE} :
                conv' = [done |-> FALSE,
                         msgs |-> Append(conv.msgs, AgentRow(asks, FALSE))]
          /\ UNCHANGED routed
    /\ lock' = None
    /\ UNCHANGED <<reg, created, sess, item, pump, cancel, halted>>

-----------------------------------------------------------------------------
PumpStep(p) ==
    \/ Dequeue(p) \/ Drained(p) \/ TurnBegin(p) \/ TurnRefused(p)
    \/ TurnReturns(p) \/ EndTurn(p) \/ Exit(p) \/ Drop(p) \/ Restart(p)

Next ==
    \/ \E i \in Items : \/ Submit(i) \/ SubmitRefused(i) \/ CheckTranscript(i)
                        \/ EnqueueRefused(i) \/ Enqueue(i)
                        \/ RemoveQueuedItem(i)
    \/ ReorderQueuedItems
    \/ \E p \in Pumps : PumpStep(p)
    \/ \E k \in Cancels : CancelLookup(k) \/ CancelMark(k) \/ CancelAbort(k)
    \/ \E c \in Confirms : ConfirmReady(c) \/ ConfirmBegin(c) \/ ConfirmEnd(c)
    \/ Halt

Spec == Init /\ [][Next]_vars

\* Goroutines run, provider calls end (the node's chat timeout), and a mutex
\* that keeps being free is eventually granted.  Clients need not do anything.
Fairness ==
    /\ \A p \in Pumps : WF_vars(PumpStep(p))
    /\ \A c \in Confirms : WF_vars(ConfirmBegin(c)) /\ WF_vars(ConfirmEnd(c))

FairSpec == Spec /\ Fairness

-----------------------------------------------------------------------------
(* Correctness                                                             *)

\* Every variable keeps its type, and a handler that goes on to lock a session
\* holds one.
TypeOK ==
    /\ reg \in 0..MaxSessions
    /\ created \in 0..MaxSessions
    /\ sess \in [Sessions -> Session]
    /\ item \in [Items -> [st : ItemState, s : 0..MaxSessions]]
    /\ pump \in [Pumps -> [pc : PumpState, s : 0..MaxSessions]]
    /\ lock \in Pumps \cup Confirms \cup {None}
    /\ conv \in [done : BOOLEAN, msgs : Seq(Message)]
    /\ routed \in Nat
    /\ cancel \in [Cancels -> [pc : {"new", "mark", "abort", "done"},
                               s : 0..MaxSessions]]
    /\ confirm \in [Confirms -> {"new", "ready", "wrapup", "routed", "refused"}]
    /\ halted \in BOOLEAN
    /\ \A i \in Items : item[i].st \in {"choice", "lock"} => item[i].s # 0
    /\ \A p \in Pumps : pump[p].pc # "none" => pump[p].s # 0
    /\ \A k \in Cancels : cancel[k].pc = "mark" => cancel[k].s # 0

\* The goroutines that run between "pumping = true" and the deferred reset.
Draining(p, s) ==
    pump[p].pc \in {"loop", "exec", "turn", "ending", "exit"} /\ pump[p].s = s

\* The counter the ready gate, the capacity check and the UI read is the
\* number of waiting messages, and it never passes the cap, whatever mix of
\* enqueue, dequeue, removal, reordering and cancel led here.
QueueAccounting ==
    \A s \in Sessions :
        /\ sess[s].waiting = Len(sess[s].queue)
        /\ sess[s].waiting <= MaxReviewQueueItems

\* A session is drained by at most one goroutine, and its pumping flag is true
\* exactly while one drains it: neither the deferred restart nor an enqueue
\* that races it starts a second pump.
SinglePump ==
    \A s \in Sessions :
        /\ sess[s].pumping <=> \E p \in Pumps : Draining(p, s)
        /\ \A p, q \in Pumps : Draining(p, s) /\ Draining(q, s) => p = q

\* No lost wake-up: whenever messages wait, a goroutine drains them or is just
\* about to decide to, even if the pump was stopping when they arrived.
NoLostWakeup ==
    \A s \in Sessions :
        sess[s].queue # <<>> =>
            \/ sess[s].pumping
            \/ \E p \in Pumps : pump[p].pc = "restart" /\ pump[p].s = s

Places(i) ==
    {x \in Sessions \X (1..MaxReviewQueueItems) :
        x[2] <= Len(sess[x[1]].queue) /\ sess[x[1]].queue[x[2]] = i}

HumanRows(i) == {j \in 1..Len(conv.msgs) :
                    conv.msgs[j].role = "human" /\ conv.msgs[j].item = i}

\* Every accepted message is in exactly one place of one queue until it is
\* taken, and it reaches the agent at most once; a removed, cleared or refused
\* message is in no queue and never reaches the agent.
ItemsAccountedFor ==
    \A i \in Items :
        /\ Cardinality(Places(i)) = IF item[i].st = "queued" THEN 1 ELSE 0
        /\ Cardinality(HumanRows(i)) <= 1
        /\ HumanRows(i) # {} => item[i].st \in {"active", "ended"}

\* At most one provider call works on the dialogue, whether a pump's (of any
\* session object of the key) or a confirm's wrap-up, and a turn only runs
\* while the dialogue is open.
OneTurnAtATime ==
    /\ \A p, q \in Pumps :
          pump[p].pc = "turn" /\ pump[q].pc = "turn" => p = q
    /\ \A p \in Pumps : pump[p].pc = "turn" =>
          ~conv.done /\ \A c \in Confirms : confirm[c] # "wrapup"

\* A dialogue hands the run on to the next node at most once: a duplicate
\* confirm, or a confirm racing the turn that finishes, does not advance the
\* FSM twice.
RoutedOnce == routed <= 1 /\ (routed = 1 => conv.done)

\* Once the run was handed on, the transcript is final.
TranscriptFinal == [][routed > 0 => conv' = conv]_vars

\* Every accepted message is eventually taken and finished, removed or
\* cleared; no message waits forever behind a pump that stopped.
EveryTurnSettles ==
    \A i \in Items :
        item[i].st \in {"queued", "active"} ~>
            item[i].st \in {"ended", "failed", "removed", "cleared"}

-----------------------------------------------------------------------------
(* The controller implements the ledger of turns.                          *)

TurnStatus(i) ==
    CASE item[i].st \in {"new", "choice", "lock"} -> "new"
      [] item[i].st = "refused" -> "refused"
      [] item[i].st = "queued" -> "waiting"
      [] item[i].st = "active" ->
            IF \E p \in Pumps : pump[p].pc = "turn" /\ sess[pump[p].s].active = i
            THEN "running" ELSE "waiting"
      [] item[i].st = "ended" -> "settled"
      [] OTHER -> "dropped"

Ledger == INSTANCE TurnLedger WITH
    status <- [i \in Items |-> TurnStatus(i)],
    phase  <- IF ~conv.done THEN "open"
              ELSE IF routed > 0 THEN "closed" ELSE "closing"

ImplementsLedger == Ledger!Spec

-----------------------------------------------------------------------------
(* What the comments say and the interleavings do not keep.                *)

\* review_session.go: a choice round takes one answer.  Two choice answers in
\* the transcript have a question between them.
OneChoicePerAsk ==
    \A j, k \in 1..Len(conv.msgs) :
        /\ j < k
        /\ conv.msgs[j].role = "human" /\ conv.msgs[j].item \in ChoiceItems
        /\ conv.msgs[k].role = "human" /\ conv.msgs[k].item \in ChoiceItems
        => \E m \in (j+1)..(k-1) : conv.msgs[m].ask
=============================================================================
