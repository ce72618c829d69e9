----------------------------- MODULE POWorkflow -----------------------------
(***************************************************************************)
(* One purchase order on its way through the workflow: moves on the web    *)
(* and in Telegram, PI uploads, shipments, their receipt, and the Zoho     *)
(* catch-up that closes shipped orders.                                    *)
(*                                                                         *)
(* Every request has a session of its own and judges the status that       *)
(* session loaded; the UPDATE it commits later is unconditional.  A move   *)
(* awaits its form between the two; uploads, shipping, receiving and the   *)
(* catch-up run on threads.  The Telegram webhook is synchronous once its  *)
(* body is read: while it downloads a file nothing else runs on the loop.  *)
(*                                                                         *)
(* There is one user per role.  Quantities, names and events are left out, *)
(* and so are attachments, which the workflow never looks at again, and    *)
(* the Telegram messages that announce a move.                             *)
(***************************************************************************)
EXTENDS Integers, Sequences, FiniteSets

CONSTANTS
    Requests,      \* request handlers and catch-up runs at work at a time
    MaxShipments   \* bound: shipments of the order

ASSUME WorkflowAssumption == MaxShipments \in Nat

VARIABLES
    status,     \* status of the order
    passed,     \* history: stages it has been in that later ones rest on
    shipments,  \* TRUE for a shipment that is settled (received or partial)
    pending,    \* users whose next Telegram file is taken for a PI
    req,        \* the request a handler works on
    overlapped  \* history: a write was judged on what was no longer so

vars == <<status, passed, shipments, pending, req, overlapped>>

Roles    == {"owner", "design", "agent", "receiving"}
Statuses == {"draft", "design_review", "design_rejected", "design_approved",
             "pi_received", "pi_approved", "production", "shipped",
             "received", "cancelled"}
Closed   == {"received", "cancelled"}
Ops      == {"idle", "move", "pi", "file", "ship", "receive", "received", "closing",
             "catchup"}

\* How an order starts: made on the form, copied, or adopted from Zoho.
Created    == {"draft", "design_review"}
Duplicated == {"draft"}
Adopted    == {"shipped"}

\* Stages that later ones rest on; an order adopted from Zoho has passed them.
Gates == {"design_review", "design_approved", "pi_received", "pi_approved", "shipped"}

Idle == [op |-> "idle", by |-> "owner", seen |-> "draft", to |-> "draft", arg |-> 0]

\* A request: its operation, the user whose pending upload it serves, the
\* status it loaded, the status it will write, and the shipment it receives
\* or the number of shipments it adds.
Request == [op : Ops, by : Roles, seen : Statuses, to : Statuses,
            arg : 0 .. MaxShipments + 2]

\* Postgres and the event loop: a shipment's row and the loop have one holder.
OneHolder ==
    \A r, p \in Requests :
        r # p => /\ req[r].op = "file" => req[p].op # "file"
                 /\ {req[r].op, req[p].op} \subseteq {"received", "closing"} =>
                      req[r].arg # req[p].arg

TypeOK ==
    /\ status \in Statuses
    /\ passed \subseteq Gates
    /\ shipments \in Seq(BOOLEAN)
    /\ Len(shipments) <= MaxShipments
    /\ pending \subseteq Roles
    /\ req \in [Requests -> Request]
    /\ overlapped \in BOOLEAN
    /\ OneHolder

Init ==
    /\ status \in Created \cup Duplicated \cup Adopted
    /\ passed = IF status \in Adopted THEN Gates ELSE {status} \cap Gates
    /\ shipments = <<>>
    /\ pending = {}
    /\ req = [r \in Requests |-> Idle]
    /\ overlapped = FALSE

---------------------------------------------------------------------------
(* The transition table.                                                   *)

\* The roles that may take an order from s to t.
Movers(s, t) ==
    CASE <<s, t>> \in {<<"draft", "design_review">>, <<"draft", "cancelled">>,
                       <<"design_review", "draft">>,
                       <<"design_rejected", "design_review">>,
                       <<"pi_received", "pi_approved">>,
                       <<"pi_received", "design_approved">>,
                       <<"production", "pi_approved">>,
                       <<"shipped", "production">>}           -> {"owner"}
      [] <<s, t>> \in {<<"design_review", "design_approved">>,
                       <<"design_review", "design_rejected">>,
                       <<"design_approved", "design_review">>} -> {"design", "owner"}
      [] <<s, t>> \in {<<"design_approved", "pi_received">>,
                       <<"pi_approved", "production">>,
                       <<"pi_approved", "shipped">>,
                       <<"production", "shipped">>}            -> {"agent", "owner"}
      [] OTHER                                                 -> {}

\* Mistaken variant: the owner may cancel what is already closed.
AllowedToCancel(u, s, t) ==
    \/ s = t
    \/ t = "cancelled" /\ u = "owner"
    \/ t \notin Closed /\ u \in Movers(s, t)

\* allowed_move: user u may take an order from s to t.
Allowed(u, s, t) ==
    /\ s \notin Closed
    /\ \/ s = t
       \/ t = "cancelled" /\ u = "owner"
       \/ t \notin Closed /\ u \in Movers(s, t)

---------------------------------------------------------------------------
(* Loading the order, and writing its status.                              *)

Start(r, op, u, t, a) ==
    /\ req[r] = Idle
    /\ req' = [req EXCEPT ![r] = [op |-> op, by |-> u, seen |-> status, to |-> t,
                                  arg |-> a]]

Finish(r) == req' = [req EXCEPT ![r] = Idle]

\* The webhook holds the event loop while it downloads and saves a file.
LoopFree == \A r \in Requests : req[r].op # "file"

\* The session emits an UPDATE only for a status other than the one it loaded.
Write(r, t) ==
    IF t = req[r].seen
    THEN UNCHANGED <<status, passed>>
    ELSE status' = t /\ passed' = passed \cup ({t} \cap Gates)

\* A write judged on a status the order is not in any more.
Overtaken(r) == req[r].seen \notin {status, req[r].to}

---------------------------------------------------------------------------
(* Moves: POST /po/{id}/move (a status or a board column), and the buttons *)
(* and commands of the Telegram bot, all through allowed_move.             *)

\* allowed_move judges the loaded status, so its verdict stands from then on.
StartMove(r, t) ==
    /\ LoopFree
    /\ \E u \in Roles : Allowed(u, status, t)
    /\ Start(r, "move", "owner", t, 0)
    /\ UNCHANGED <<status, passed, shipments, pending, overlapped>>

Move(r) ==
    /\ req[r].op = "move"
    /\ LoopFree
    /\ Write(r, req[r].to)
    /\ overlapped' = (overlapped \/ Overtaken(r))
    /\ Finish(r)
    /\ UNCHANGED <<shipments, pending>>

\* What the bot's buttons ask for.
Buttons == {"design_approved", "design_rejected", "pi_approved"}

\* What user u asks for with /approve and /reject, and with the reason that
\* answers the button rejecting a PI, which does not look at the order again.
Commands(u) ==
    {t \in Buttons :
        \/ t = "design_approved"
        \/ t = "design_rejected" /\ status # "pi_received"
        \/ t = "pi_approved" /\ u = "owner" /\ status = "pi_received"}

\* _do_move loads, judges and commits without giving the loop away.
BotMove(u, t) ==
    /\ LoopFree
    /\ t \in Buttons \cup Commands(u)
    /\ t # status
    /\ Allowed(u, status, t)
    /\ status' = t
    /\ passed' = passed \cup ({t} \cap Gates)
    /\ UNCHANGED <<shipments, pending, req, overlapped>>

---------------------------------------------------------------------------
(* Telegram: the next file of a user is taken for a PI.                    *)

\* Mistaken variant: a PI is asked for at any stage.
AwaitsAnyPI(u) == u \in {"agent", "owner"}

\* The order is ready for a PI of user u (button and /upload-pi).
AwaitsPI(u) == u \in {"agent", "owner"} /\ status = "design_approved"

AskForPI(u) ==
    /\ LoopFree
    /\ AwaitsPI(u)
    /\ pending' = pending \cup {u}
    /\ UNCHANGED <<status, passed, shipments, req, overlapped>>

\* /cancel, another request of the bot, or the 30 minutes running out.
DropPending(u) ==
    /\ LoopFree
    /\ pending' = pending \ {u}
    /\ UNCHANGED <<status, passed, shipments, req, overlapped>>

---------------------------------------------------------------------------
(* PIs: POST /po/{id}/upload-pi, and a file sent to the Telegram bot.      *)

StartUpload(r, u) ==
    /\ u \in {"agent", "owner"}
    /\ status = "design_approved"
    /\ Start(r, "pi", "owner", "pi_received", 0)
    /\ UNCHANGED <<status, passed, shipments, pending, overlapped>>

\* The file is downloaded without another look at the order's status.
StartFile(r, u) ==
    /\ LoopFree
    /\ u \in pending
    /\ Start(r, "file", u, "pi_received", 0)
    /\ UNCHANGED <<status, passed, shipments, pending, overlapped>>

DownloadFails(r) ==
    /\ req[r].op = "file"
    /\ Finish(r)
    /\ UNCHANGED <<status, passed, shipments, pending, overlapped>>

SaveUpload(r) ==
    /\ req[r].op = "pi"
    /\ Write(r, "pi_received")
    /\ overlapped' = (overlapped \/ Overtaken(r))
    /\ Finish(r)
    /\ UNCHANGED <<shipments, pending>>

SaveFile(r) ==
    LET q == req[r] IN
    /\ q.op = "file"
    /\ Write(r, "pi_received")
    /\ pending' = pending \ {q.by}
    /\ overlapped' = (overlapped \/ Overtaken(r) \/ q.seen # "design_approved")
    /\ Finish(r)
    /\ UNCHANGED shipments

---------------------------------------------------------------------------
(* POST /po/{id}/ship adds an express and a sea shipment, or one of them.  *)

StartShip(r, u, n) ==
    /\ u \in {"owner", "agent"}
    /\ status \in {"pi_approved", "production"}
    /\ Start(r, "ship", "owner", "shipped", n)
    /\ UNCHANGED <<status, passed, shipments, pending, overlapped>>

Ship(r) ==
    LET q == req[r] IN
    /\ q.op = "ship"
    /\ Len(shipments) + q.arg <= MaxShipments
    /\ shipments' = shipments \o [i \in 1 .. q.arg |-> FALSE]
    /\ Write(r, "shipped")
    /\ overlapped' = (overlapped \/ Overtaken(r))
    /\ Finish(r)
    /\ UNCHANGED pending

---------------------------------------------------------------------------
(* POST /po/{id}/receive/{shipment}: no look at the order's status.        *)

StartReceive(r, u, s) ==
    /\ u \in {"receiving", "owner"}
    /\ s \in DOMAIN shipments
    /\ Start(r, "receive", "owner", "received", s)
    /\ UNCHANGED <<status, passed, shipments, pending, overlapped>>

\* Requests that have flushed their shipment and hold its row.
Receivers == {r \in Requests : req[r].op \in {"received", "closing"}}

\* Mistaken variant: two receipts of one shipment do not wait for each other.
NoRowLock(r) == TRUE

RowFree(r) == \A p \in Receivers : req[p].arg # req[r].arg

\* Reading the order's shipments flushes the one received here; the others
\* show what is committed.
ReadShipments(r) ==
    LET q == req[r] IN
    /\ q.op = "receive"
    /\ RowFree(r)
    /\ req' = [req EXCEPT ![r].op =
                  IF \A i \in DOMAIN shipments : i = q.arg \/ shipments[i]
                  THEN "closing" ELSE "received"]
    /\ overlapped' = (overlapped \/ Receivers # {})
    /\ UNCHANGED <<status, passed, shipments, pending>>

\* Mistaken variant: the last of several shipments does not count as all.
ClosesAlone(r) == req[r].op = "closing" /\ Len(shipments) = 1

Closes(r) == req[r].op = "closing"

Receive(r) ==
    LET q == req[r] IN
    /\ r \in Receivers
    /\ shipments' = [shipments EXCEPT ![q.arg] = TRUE]
    /\ IF Closes(r)
       THEN Write(r, "received") /\ overlapped' = (overlapped \/ Overtaken(r))
       ELSE UNCHANGED <<status, passed, overlapped>>
    /\ Finish(r)
    /\ UNCHANGED pending

---------------------------------------------------------------------------
(* The Zoho catch-up closes a shipped order whose Zoho receipts are        *)
(* covered by boxes, on the status it loaded.                              *)

StartCatchUp(r) ==
    /\ status = "shipped"
    /\ Start(r, "catchup", "owner", "received", 0)
    /\ UNCHANGED <<status, passed, shipments, pending, overlapped>>

CatchUp(r) ==
    /\ req[r].op = "catchup"
    /\ Write(r, "received")
    /\ overlapped' = (overlapped \/ Overtaken(r))
    /\ Finish(r)
    /\ UNCHANGED <<shipments, pending>>

---------------------------------------------------------------------------

\* The process stops: sessions are rolled back.
Crash ==
    /\ \E r \in Requests : req[r] # Idle
    /\ req' = [r \in Requests |-> Idle]
    /\ UNCHANGED <<status, passed, shipments, pending, overlapped>>

Next ==
    \/ \E r \in Requests, t \in Statuses : StartMove(r, t)
    \/ \E r \in Requests, u \in Roles : StartUpload(r, u) \/ StartFile(r, u)
    \/ \E r \in Requests, u \in Roles, n \in 1 .. 2 : StartShip(r, u, n)
    \/ \E r \in Requests, u \in Roles, s \in 1 .. MaxShipments : StartReceive(r, u, s)
    \/ \E r \in Requests : Move(r) \/ SaveUpload(r) \/ SaveFile(r) \/ DownloadFails(r)
    \/ \E r \in Requests : Ship(r) \/ ReadShipments(r) \/ Receive(r)
    \/ \E r \in Requests : StartCatchUp(r) \/ CatchUp(r)
    \/ \E u \in Roles, t \in Statuses : BotMove(u, t)
    \/ \E u \in Roles : AskForPI(u) \/ DropPending(u)
    \/ Crash

Spec == Init /\ [][Next]_vars

---------------------------------------------------------------------------
(* Properties                                                              *)

Life == INSTANCE OrderLife WITH status <- status, passed <- passed

\* Whatever overlaps, a stage is entered only after the stages it rests on:
\* every unconditional write was judged on a status the order has had, a
\* pending PI upload was asked for when artwork was approved, and shipments
\* exist only for an order that was shipped.
ImplementsOrderLife == Life!Spec

\* Where no requests overlapped and no Telegram file came late, a closed
\* order stays closed, and only a receipt may turn a cancelled order into a
\* received one (_CLOSED in allowed_move, receive_shipment).
ClosedUnlessReceived ==
    [][~overlapped' /\ status \in Closed =>
         status' = status \/ (status' = "received" /\ shipments # <<>>)]_vars

Settled == shipments # <<>> /\ \A i \in DOMAIN shipments : shipments[i]

\* receive_shipment closes the order with its last shipment: an order whose
\* shipments are all settled is received, unless requests overlapped.
SettledOrderIsClosed == ~overlapped /\ Settled => status = "received"

---------------------------------------------------------------------------
(* Inductive strengthening                                                 *)

\* The order itself: the gates of where it is and was.
OrderRests == Life!GatesPassed /\ (status \in Gates => status \in passed)

\* What a request will write, and that the gates of it were passed.
RequestsRest ==
    \A r \in Requests :
        /\ Life!Gate(req[r].to) \subseteq passed
        /\ req[r].op \in {"pi", "file"} => req[r].to = "pi_received"
        /\ req[r].op = "ship" =>
              req[r].to = "shipped" /\ req[r].seen \in {"pi_approved", "production"}
        /\ req[r].op \in {"receive", "received", "closing", "catchup"} =>
              req[r].to = "received"

\* Everything rests on gates passed.
Rests ==
    /\ OrderRests
    /\ RequestsRest
    /\ pending # {} => "design_approved" \in passed
    /\ shipments # <<>> => "shipped" \in passed

\* What requests know when they write: moves, uploads and shippings were judged
\* on an order that was not closed, receipts are of shipments there are.
RequestsKnow ==
    \A r \in Requests :
        /\ req[r].op \in {"move", "pi", "ship"} => req[r].seen \notin Closed
        /\ req[r].op = "catchup" => req[r].seen = "shipped"
        /\ req[r].op \in {"receive", "received", "closing"} => req[r].arg \in DOMAIN shipments

\* As long as nothing overlapped, a received order stays so, one receipt is
\* flushed at a time, and one that leaves the order open has reason to.
ReceiptsInTurn ==
    /\ SettledOrderIsClosed
    /\ ~overlapped =>
         /\ \A r \in Requests : req[r].seen = "received" => status = "received"
         /\ \A r, p \in Receivers : r = p
         /\ \A r \in Requests :
              req[r].op = "received" =>
                \E i \in DOMAIN shipments : i # req[r].arg /\ ~shipments[i]
=============================================================================
