---------------------------- MODULE PendingGates ----------------------------
(***************************************************************************)
(* The sidebar's copy of the pending approvals, a module-level singleton   *)
(* of the web client (usePendingGates.ts): what the sidebar displays, the  *)
(* last remote page, the badge count, the "list changed" flag and the one  *)
(* request that may write them.  The inbox page shares it: GatesInbox.tla  *)
(* composes these operators with the page's own list.                      *)
(*                                                                         *)
(* An approval is named by its membership key (run:node).  Every approval  *)
(* fits the first page of 20 that fetchPeek asks for.                      *)
(***************************************************************************)
EXTENDS Naturals, FiniteSets

CONSTANT Item

(* A request, or none: its kind and the page it will answer with (snap).   *)
(* The server reads its table at some moment between the sending and the   *)
(* landing: snap is what it would have read last, taken when the request   *)
(* is sent and replaced by any later reading until it lands.  A force      *)
(* aborts a peek, and whoever asks while a force is in flight joins it, so *)
(* there is never more than one whose answer can still be written.         *)
Flights == [kind : {"none", "peek", "force"}, snap : SUBSET Item]
NoFlight == [kind |-> "none", snap |-> {}]

SideType == [displayed : SUBSET Item, remote : SUBSET Item,
             totalCount : 0..Cardinality(Item), hasPending : BOOLEAN,
             flight : Flights]
SideInit == [displayed |-> {}, remote |-> {}, totalCount |-> 0,
             hasPending |-> FALSE, flight |-> NoFlight]

-----------------------------------------------------------------------------
(* diffKeys: anything added or removed.                                    *)
diffKeys(s) == s.displayed # s.remote

syncPendingMetaFromDiff(s) == [s EXCEPT !.hasPending = diffKeys(s)]

(* A peek only records what the server has; the displayed rows stay.       *)
setPending(s, r) ==
  syncPendingMetaFromDiff(
    [s EXCEPT !.remote = r, !.totalCount = Cardinality(r)])

applyRemoteToDisplayed(s, r) ==
  [s EXCEPT !.remote = r, !.totalCount = Cardinality(r),
            !.displayed = r, !.hasPending = FALSE]

applyPending(s) ==
  IF s.hasPending
    THEN [s EXCEPT !.displayed = s.remote, !.hasPending = FALSE]
    ELSE s

(* Optimistic removal: the count drops by one if either copy had the row.  *)
(* Mutants: the count may go below zero; the remote copy keeps the row; the *)
(* announcement is not recomputed.                                         *)
RemoveUncapped(s, k) ==
  IF k \notin s.displayed \cup s.remote
    THEN s
    ELSE syncPendingMetaFromDiff(
           [s EXCEPT !.displayed = @ \ {k}, !.remote = @ \ {k},
                     !.totalCount = @ - 1])
RemoveDisplayedOnly(s, k) ==
  syncPendingMetaFromDiff([s EXCEPT !.displayed = @ \ {k}])
RemoveUnannounced(s, k) ==
  IF k \notin s.displayed \cup s.remote
    THEN s
    ELSE [s EXCEPT !.displayed = @ \ {k}, !.remote = @ \ {k},
                   !.totalCount = IF @ = 0 THEN 0 ELSE @ - 1]
removeItemLocally(s, k) ==
  IF k \notin s.displayed \cup s.remote
    THEN s
    ELSE syncPendingMetaFromDiff(
           [s EXCEPT !.displayed = @ \ {k}, !.remote = @ \ {k},
                     !.totalCount = IF @ = 0 THEN 0 ELSE @ - 1])

restoreItemLocally(s, k) ==
  LET d == s.displayed \cup {k}
      n == Cardinality(d)
  IN syncPendingMetaFromDiff(
       [s EXCEPT !.displayed = d, !.remote = @ \cup {k},
                 !.totalCount = IF k \in s.displayed \cap s.remote \/ @ > n
                                  THEN @ ELSE n])

-----------------------------------------------------------------------------
(* peek joins whatever is in flight; pending is the server's table.        *)
peek(s, pending) ==
  IF s.flight.kind = "none"
    THEN [s EXCEPT !.flight = [kind |-> "peek", snap |-> pending]] ELSE s

(* A forced refresh joins a force, never a peek: the generation it bumps   *)
(* discards the peek's answer, and its signal is aborted.  The mutant      *)
(* joins the peek as well.                                                 *)
RefreshJoinsPeek(s, pending) ==
  IF s.flight.kind # "none"
    THEN s ELSE [s EXCEPT !.flight = [kind |-> "force", snap |-> pending]]
refreshForce(s, pending) ==
  IF s.flight.kind = "force"
    THEN s ELSE [s EXCEPT !.flight = [kind |-> "force", snap |-> pending]]

(* The answer arrives: written the way the request's kind says.            *)
flightLands(s) ==
  LET r == s.flight.snap
      t == [s EXCEPT !.flight = NoFlight]
  IN IF s.flight.kind = "peek" THEN setPending(t, r)
                               ELSE applyRemoteToDisplayed(t, r)

(* It fails or times out: the last known rows stay.                        *)
flightFails(s) == [s EXCEPT !.flight = NoFlight]
=============================================================================
