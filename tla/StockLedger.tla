---------------------------- MODULE StockLedger ----------------------------
(***************************************************************************)
(* The packaging stock ledger: every code path that writes                 *)
(* Item.current_stock, run by concurrent requests of one uvicorn process   *)
(* against Postgres at READ COMMITTED.                                     *)
(*                                                                         *)
(*   Adjusters   POST /inventory/{id}/adjust        (threadpool)           *)
(*   Receivers   POST /po/{id}/receive/{shipment}   (threadpool)           *)
(*   Counters    POST /inventory/cycle-count        (event loop)           *)
(*   Deliveries  POST /api/internal/luma-consumption (event loop)          *)
(*                                                                         *)
(* and by scripts/sync_items_via_gateway.py, a process of its own.         *)
(*                                                                         *)
(* A "def" route runs on a worker thread beside everything else.  An       *)
(* "async def" route calls the synchronous session on the event loop, so   *)
(* it keeps the loop from its first statement to its last: no other async  *)
(* route, no new request and no request teardown runs meanwhile.           *)
(*                                                                         *)
(* Each request has a session whose identity map (cache) keeps the         *)
(* attributes of a loaded Item until that session commits: a later SELECT  *)
(* ... FOR UPDATE of the same row locks it and leaves the loaded           *)
(* attributes as they are.                                                 *)
(***************************************************************************)
EXTENDS Integers, Sequences, FiniteSets

CONSTANTS
    Items,       \* inventory items
    Adjusters,   \* owner requests adjusting one item
    Receivers,   \* requests receiving a shipment linked to a Zoho item
    Counters,    \* owner requests submitting a cycle-count batch
    Deliveries,  \* consumption pushes from Luma
    Lots,        \* finished lots
    LotOf,       \* the lot a delivery reports
    Bodies,      \* the request bodies each request may carry
    Opening,     \* per item, stocks it may have been seeded with from Zoho
    Upstream,    \* per item, stocks the gateway may report to the script
    None         \* no request, no loaded value

Threaded == Adjusters \cup Receivers
OnLoop   == Counters \cup Deliveries
Reqs     == Threaded \cup OnLoop

Modes == {"SET_QUANTITY", "INCREASE", "DECREASE"}
Entry == [item: Items, mode: Modes, qty: Int]

\* Parts of a request, in the order a handler goes through them.
PCs == {"idle", "accepted", "loaded", "applying", "read", "locked",
        "committed", "rejected", "failed", "done"}

ASSUME LedgerAssumption ==
    /\ None \notin Int \cup Reqs
    /\ Threaded \cap OnLoop = {}
    /\ Adjusters \cap Receivers = {}
    /\ Counters \cap Deliveries = {}
    /\ LotOf \in [Deliveries -> Lots]
    /\ Bodies \in [Reqs -> SUBSET Seq(Entry)]
    \* Nobody checks the sign of a stock that comes from Zoho or the gateway,
    \* nor that of a received quantity.
    /\ Opening \in [Items -> SUBSET Int]
    /\ Upstream \in [Items -> SUBSET Int]
    \* Routes require their fields.
    /\ \A r \in Reqs : <<>> \notin Bodies[r]

VARIABLES
    stock,     \* committed Item.current_stock
    ledger,    \* committed InventoryAdjustment rows, in commit order
    events,    \* committed MaterialConsumptionEvent keys <<lot, item>>
    lock,      \* the request whose transaction holds an item's row lock
    loop,      \* the async handler occupying the event loop
    pc,        \* how far a request is
    body,      \* the entries a request submitted
    pos,       \* the entry it is at
    cache,     \* current_stock as loaded in a request's identity map
    prepared,  \* stock a cycle count captured when it validated a row
    number,    \* adjustment number a request picked for its row
    staged     \* stock a delivery flushed and has not committed

db   == <<stock, ledger, events>>
work == <<body, pos, cache, prepared, number, staged>>
vars == <<stock, ledger, events, lock, loop, pc, body, pos, cache, prepared,
          number, staged>>

Row == [num: Nat, item: Items, req: Reqs, before: Int, after: Int]

TypeOK ==
    /\ stock \in [Items -> Int]
    /\ ledger \in Seq(Row)
    /\ events \subseteq Lots \X Items
    /\ lock \in [Items -> Reqs \cup {None}]
    /\ loop \in OnLoop \cup {None}
    /\ pc \in [Reqs -> PCs]
    /\ body \in [Reqs -> Seq(Entry)]
    /\ pos \in [Reqs -> Nat \ {0}]
    /\ cache \in [Reqs -> [Items -> Int \cup {None}]]
    /\ prepared \in [Reqs -> [Items -> Int \cup {None}]]
    /\ number \in [Reqs -> Nat]
    /\ staged \in [Reqs -> [Items -> Int \cup {None}]]

Nothing == [i \in Items |-> None]

Init ==
    /\ stock \in {s \in [Items -> UNION {Opening[i] : i \in Items}] :
                    \A i \in Items : s[i] \in Opening[i]}
    /\ ledger = <<>>
    /\ events = {}
    /\ lock = Nothing
    /\ loop = None
    /\ pc = [r \in Reqs |-> "idle"]
    /\ body = [r \in Reqs |-> <<>>]
    /\ pos = [r \in Reqs |-> 1]
    /\ cache = [r \in Reqs |-> Nothing]
    /\ prepared = [r \in Reqs |-> Nothing]
    /\ number = [r \in Reqs |-> 0]
    /\ staged = [r \in Reqs |-> Nothing]

-----------------------------------------------------------------------------
(* Helpers *)

More(r) == pos[r] <= Len(body[r])
Cur(r)  == body[r][pos[r]]
Item(r) == Cur(r).item

LoopFree == loop = None
LeaveLoop(r) == loop' = IF loop = r THEN None ELSE loop

StillLocked(r) == lock  \* mistaken variant: the transaction stays open

\* End of a transaction: the row locks it held are gone.
Unlocked(r) == [i \in Items |-> IF lock[i] = r THEN None ELSE lock[i]]

StillLoaded(r) == cache  \* mistaken variant: expire_on_commit=False

\* A commit expires every object of its session.
Expired(r) == [cache EXCEPT ![r] = Nothing]

\* compute_preview: the stock an adjustment leaves, given the stock it read.
After(e, before) ==
    CASE e.mode = "SET_QUANTITY" -> e.qty
      [] e.mode = "INCREASE"     -> before + e.qty
      [] e.mode = "DECREASE"     -> before - e.qty

\* compute_preview: a negative quantity, a zero delta or a negative result.
RefusedButNegative(e, before) ==  \* mistaken variant: no floor at zero
    e.qty < 0 \/ After(e, before) = before

Refused(e, before) ==
    \/ e.qty < 0
    \/ After(e, before) = before
    \/ After(e, before) < 0

Consumed(before, qty) == IF before - qty > 0 THEN before - qty ELSE 0

\* generate_adjustment_number: one more than the rows already there.
NextNumber == Len(ledger) + 1

\* Mistaken variant: adjustment_number without its UNIQUE constraint.
NeverTaken(n) == FALSE

Taken(n) == \E k \in 1..Len(ledger) : ledger[k].num = n

\* The identity map reads a row only while it holds no attributes for it.
Loads(r, i) == cache' = [cache EXCEPT ![r][i] = stock[i]]

-----------------------------------------------------------------------------
(* Requests entering and leaving the process *)

AcceptOnLoop(r) ==  \* mistaken variant: every route an "async def"
    /\ pc[r] = "idle"
    /\ LoopFree
    /\ \E b \in Bodies[r] : body' = [body EXCEPT ![r] = b]
    /\ pc' = [pc EXCEPT ![r] = "accepted"]
    /\ loop' = r
    /\ UNCHANGED <<db, lock, pos, cache, prepared, number, staged>>

\* A free loop parses the next request; an async handler keeps the loop.
Accept(r) ==
    /\ pc[r] = "idle"
    /\ LoopFree
    /\ \E b \in Bodies[r] : body' = [body EXCEPT ![r] = b]
    /\ pc' = [pc EXCEPT ![r] = "accepted"]
    /\ loop' = IF r \in OnLoop THEN r ELSE None
    /\ UNCHANGED <<db, lock, pos, cache, prepared, number, staged>>

\* The response is rendered and the session closed by the loop; closing
\* rolls back whatever transaction the handler left open.
Close(r) ==
    /\ pc[r] \in {"committed", "rejected", "failed"}
    /\ LoopFree
    /\ pc' = [pc EXCEPT ![r] = "done"]
    /\ lock' = Unlocked(r)
    /\ body' = [body EXCEPT ![r] = <<>>]
    /\ pos' = [pos EXCEPT ![r] = 1]
    /\ cache' = [cache EXCEPT ![r] = Nothing]
    /\ prepared' = [prepared EXCEPT ![r] = Nothing]
    /\ number' = [number EXCEPT ![r] = 0]
    /\ staged' = [staged EXCEPT ![r] = Nothing]
    /\ UNCHANGED <<db, loop>>

\* The process dies and restarts: open transactions roll back.
Crash ==
    /\ \E r \in Reqs : pc[r] \notin {"idle", "done"}
    /\ pc' = [r \in Reqs |-> IF pc[r] = "idle" THEN "idle" ELSE "done"]
    /\ lock' = Nothing
    /\ loop' = None
    /\ body' = [r \in Reqs |-> <<>>]
    /\ pos' = [r \in Reqs |-> 1]
    /\ cache' = [r \in Reqs |-> Nothing]
    /\ prepared' = [r \in Reqs |-> Nothing]
    /\ number' = [r \in Reqs |-> 0]
    /\ staged' = [r \in Reqs |-> Nothing]
    /\ UNCHANGED db

-----------------------------------------------------------------------------
(* create_adjustment, shared by the adjust route and the cycle count *)

\* submit_adjustment and receive_shipment load the Item first thing.
LoadItem(r) ==
    /\ r \in Threaded
    /\ pc[r] = "accepted"
    /\ pc' = [pc EXCEPT ![r] = "loaded"]
    /\ Loads(r, Item(r))
    /\ UNCHANGED <<db, lock, loop, body, pos, prepared, number, staged>>

ReadyToAdjust(r) ==
    \/ r \in Adjusters /\ pc[r] = "loaded"
    \/ /\ r \in Counters
       /\ pc[r] = "applying"
       /\ More(r)
       /\ Cur(r).qty # prepared[r][Item(r)]
       /\ cache[r][Item(r)] # None

\* _lock_item, compute_preview on the attributes already loaded, and the
\* adjustment number.  A refusal propagates with the transaction open.
TakeLock(r) ==
    /\ ReadyToAdjust(r)
    /\ lock[Item(r)] = None
    /\ lock' = [lock EXCEPT ![Item(r)] = r]
    /\ IF Refused(Cur(r), cache[r][Item(r)])
       THEN /\ pc' = [pc EXCEPT ![r] = "rejected"]
            /\ LeaveLoop(r)
            /\ UNCHANGED number
       ELSE /\ pc' = [pc EXCEPT ![r] = "locked"]
            /\ number' = [number EXCEPT ![r] = NextNumber]
            /\ UNCHANGED loop
    /\ UNCHANGED <<db, body, pos, cache, prepared, staged>>

\* The UNIQUE adjustment_number rejects the insert: rollback, HTTP 500.
CommitCollides(r) ==
    /\ pc[r] = "locked"
    /\ Taken(number[r])
    /\ pc' = [pc EXCEPT ![r] = "failed"]
    /\ lock' = Unlocked(r)
    /\ LeaveLoop(r)
    /\ UNCHANGED <<db, work>>

\* Insert the row, write the stock, commit; the commit expires the session.
CommitAdjustment(r) ==
    LET i == Item(r)
        before == cache[r][i]
        after == After(Cur(r), before)
    IN
    /\ pc[r] = "locked"
    /\ ~Taken(number[r])
    /\ stock' = [stock EXCEPT ![i] = after]
    /\ ledger' = Append(ledger, [num |-> number[r], item |-> i, req |-> r,
                                 before |-> before, after |-> after])
    /\ lock' = Unlocked(r)
    /\ cache' = Expired(r)
    /\ pos' = [pos EXCEPT ![r] = @ + 1]
    /\ pc' = [pc EXCEPT ![r] = IF r \in Counters THEN "applying" ELSE "committed"]
    /\ UNCHANGED <<events, loop, body, prepared, number, staged>>

-----------------------------------------------------------------------------
(* submit_cycle_count *)

\* _validate_all, one session.get per row.
ValidateRow(c) ==
    /\ c \in Counters
    /\ pc[c] = "accepted"
    /\ More(c)
    /\ Loads(c, Item(c))
    /\ prepared' = [prepared EXCEPT ![c][Item(c)] = stock[Item(c)]]
    /\ pos' = [pos EXCEPT ![c] = @ + 1]
    /\ UNCHANGED <<db, lock, loop, pc, body, number, staged>>

\* A negative count or a second row for an item: the batch is refused.
BadBatch(b) ==
    \E j \in DOMAIN b : b[j].qty < 0 \/ \E k \in 1..(j - 1) : b[k].item = b[j].item

EndValidation(c) ==
    /\ c \in Counters
    /\ pc[c] = "accepted"
    /\ ~More(c)
    /\ pos' = [pos EXCEPT ![c] = 1]
    /\ IF BadBatch(body[c])
       THEN pc' = [pc EXCEPT ![c] = "rejected"] /\ LeaveLoop(c)
       ELSE pc' = [pc EXCEPT ![c] = "applying"] /\ UNCHANGED loop
    /\ UNCHANGED <<db, lock, body, cache, prepared, number, staged>>

\* skipped_zero_variance, judged on the stock captured at validation.
SkipRow(c) ==
    /\ c \in Counters
    /\ pc[c] = "applying"
    /\ More(c)
    /\ Cur(c).qty = prepared[c][Item(c)]
    /\ pos' = [pos EXCEPT ![c] = @ + 1]
    /\ UNCHANGED <<db, lock, loop, pc, body, cache, prepared, number, staged>>

\* item.id on an expired object reloads the row before the lock is taken.
ReloadRow(c) ==
    /\ c \in Counters
    /\ pc[c] = "applying"
    /\ More(c)
    /\ Cur(c).qty # prepared[c][Item(c)]
    /\ cache[c][Item(c)] = None
    /\ Loads(c, Item(c))
    /\ UNCHANGED <<db, lock, loop, pc, body, pos, prepared, number, staged>>

EndCount(c) ==
    /\ c \in Counters
    /\ pc[c] = "applying"
    /\ ~More(c)
    /\ pc' = [pc EXCEPT ![c] = "committed"]
    /\ LeaveLoop(c)
    /\ UNCHANGED <<db, lock, work>>

-----------------------------------------------------------------------------
(* process_luma_consumption *)

Recorded(d, i) == <<LotOf[d], i>> \in events
Flushed(d, i)  == staged[d][i] # None

\* skipped_invalid (a negative quantity) or already_processed.
PassOver(d) ==
    /\ d \in Deliveries
    /\ pc[d] = "accepted"
    /\ More(d)
    /\ Cur(d).qty < 0 \/ Recorded(d, Item(d)) \/ Flushed(d, Item(d))
    /\ pos' = [pos EXCEPT ![d] = @ + 1]
    /\ UNCHANGED <<db, lock, loop, pc, body, cache, prepared, number, staged>>

\* An unlocked read of the item, then the look-up of an earlier event.
ReadEntry(d) ==
    /\ d \in Deliveries
    /\ pc[d] = "accepted"
    /\ More(d)
    /\ Cur(d).qty >= 0
    /\ ~Recorded(d, Item(d))
    /\ ~Flushed(d, Item(d))
    /\ pc' = [pc EXCEPT ![d] = "read"]
    /\ Loads(d, Item(d))
    /\ UNCHANGED <<db, lock, loop, body, pos, prepared, number, staged>>

WriteEntryCommitted(d) ==  \* mistaken variant: a commit per entry
    LET i == Item(d) IN
    /\ d \in Deliveries
    /\ pc[d] = "read"
    /\ lock[i] = None
    /\ events' = events \cup {<<LotOf[d], i>>}
    /\ stock' = [stock EXCEPT ![i] = Consumed(cache[d][i], Cur(d).qty)]
    /\ pc' = [pc EXCEPT ![d] = "accepted"]
    /\ pos' = [pos EXCEPT ![d] = @ + 1]
    /\ UNCHANGED <<ledger, lock, loop, body, cache, prepared, number, staged>>

\* Flush the event, whose foreign key waits for the row lock, then the stock.
WriteEntry(d) ==
    LET i == Item(d) IN
    /\ d \in Deliveries
    /\ pc[d] = "read"
    /\ lock[i] = None
    /\ lock' = [lock EXCEPT ![i] = d]
    /\ staged' = [staged EXCEPT ![d][i] = Consumed(cache[d][i], Cur(d).qty)]
    /\ pc' = [pc EXCEPT ![d] = "accepted"]
    /\ pos' = [pos EXCEPT ![d] = @ + 1]
    /\ UNCHANGED <<db, loop, body, cache, prepared, number>>

Collides(d) == pc[d] = "read" /\ Recorded(d, Item(d))

\* uq_consumption_lot_item rejects the flush: the whole push rolls back.
FlushCollides(d) ==
    /\ d \in Deliveries
    /\ pc[d] = "read"
    /\ lock[Item(d)] = None
    /\ pc' = [pc EXCEPT ![d] = "failed"]
    /\ lock' = Unlocked(d)
    /\ LeaveLoop(d)
    /\ UNCHANGED <<db, work>>

FlushEntry(d) == IF Collides(d) THEN FlushCollides(d) ELSE WriteEntry(d)

\* One commit for the whole push.  A column set to the value it was loaded
\* with is not part of the UPDATE.
CommitDelivery(d) ==
    LET written == {i \in Items : Flushed(d, i) /\ staged[d][i] # cache[d][i]} IN
    /\ d \in Deliveries
    /\ pc[d] = "accepted"
    /\ ~More(d)
    /\ events' = events \cup {<<LotOf[d], i>> : i \in {j \in Items : Flushed(d, j)}}
    /\ stock' = [i \in Items |-> IF i \in written THEN staged[d][i] ELSE stock[i]]
    /\ pc' = [pc EXCEPT ![d] = "committed"]
    /\ lock' = Unlocked(d)
    /\ LeaveLoop(d)
    /\ UNCHANGED <<ledger, work>>

-----------------------------------------------------------------------------
(* receive_shipment, the stock it adds *)

\* zoho.adjust_stock raised: the shipment is recorded, the stock is not.
ZohoRefusesReceipt(r) ==
    /\ r \in Receivers
    /\ pc[r] = "loaded"
    /\ pc' = [pc EXCEPT ![r] = "committed"]
    /\ UNCHANGED <<db, lock, loop, work>>

CommitReceipt(r) ==
    LET i == Item(r) IN
    /\ r \in Receivers
    /\ pc[r] = "loaded"
    /\ lock[i] = None
    /\ stock' = [stock EXCEPT ![i] = IF Cur(r).qty = 0 THEN @ ELSE cache[r][i] + Cur(r).qty]
    /\ pc' = [pc EXCEPT ![r] = "committed"]
    /\ UNCHANGED <<ledger, events, lock, loop, work>>

-----------------------------------------------------------------------------
(* scripts/sync_items_via_gateway.py *)

\* One commit writes what the gateway reports over the stocks of any items,
\* once no transaction holds their rows.
Overwrite ==
    /\ \E pulled \in [Items -> UNION {Upstream[i] : i \in Items} \cup {None}] :
          /\ \A i \in Items : pulled[i] # None => pulled[i] \in Upstream[i] /\ lock[i] = None
          /\ stock' = [i \in Items |-> IF pulled[i] = None THEN stock[i] ELSE pulled[i]]
    /\ UNCHANGED <<ledger, events, lock, loop, pc, work>>

-----------------------------------------------------------------------------

Step(r) ==
    \/ Accept(r) \/ Close(r)
    \/ LoadItem(r) \/ TakeLock(r) \/ CommitCollides(r) \/ CommitAdjustment(r)
    \/ ValidateRow(r) \/ EndValidation(r) \/ SkipRow(r) \/ ReloadRow(r) \/ EndCount(r)
    \/ PassOver(r) \/ ReadEntry(r) \/ FlushEntry(r) \/ CommitDelivery(r)
    \/ ZohoRefusesReceipt(r) \/ CommitReceipt(r)

Next == Crash \/ Overwrite \/ \E r \in Reqs : Step(r)

Spec == Init /\ [][Next]_vars

\* Threads are scheduled, the loop turns and Postgres answers: a request that
\* stays able to move does.  Nothing obliges a client to send one.
FairSpec == Spec /\ \A r \in Reqs : WF_vars(pc[r] # "idle" /\ Step(r))

-----------------------------------------------------------------------------
(* Safety *)

\* A stock gets below zero, or to another value there, only by a quantity no
\* code checks: the gateway's, or a receipt of a negative quantity or on top of
\* a stock that was negative when it was loaded.  A write that leaves a row or
\* an event never does, whatever stale stocks racing requests computed it from
\* (compute_preview, max(0.0, ...)).
Unchecked(i) ==
    /\ UNCHANGED <<ledger, events>>
    /\ \/ stock'[i] \in Upstream[i]
       \/ \E r \in Receivers : /\ pc[r] = "loaded" /\ Item(r) = i
                               /\ Cur(r).qty < 0 \/ cache[r][i] < 0

StaysAboveZero == \A i \in Items : stock'[i] \notin Nat \cup {stock[i]} => Unchecked(i)

BelowZeroOnlyUnchecked == [][StaysAboveZero]_vars

\* Adjustment numbers are the positions of the rows in commit order: no gap
\* and no repeat, although each request counts rows before it commits and
\* requests on different items do not exclude each other
\* (generate_adjustment_number and the UNIQUE column behind it).
NumbersDense == \A k \in 1..Len(ledger) : ledger[k].num = k

\* A lot is consumed once, and as a whole or not at all.  A replay never runs
\* into the UNIQUE constraint, as looking the event up and inserting it later
\* is not interleaved with another push; and whatever crashes or refusals cut
\* a push short, the recorded items include all the valid entries of one push
\* (_existing_event, record_consumption).
ValidItems(b) == {b[j].item : j \in {k \in DOMAIN b : b[k].qty >= 0}}

ConsumedOnceAndWhole ==
    /\ \A d \in Deliveries : pc[d] # "failed"
    /\ \A l \in Lots :
          LET recorded == {i \in Items : <<l, i>> \in events}
          IN recorded = {} \/ \E d \in Deliveries : \E b \in Bodies[d] :
                                  LotOf[d] = l /\ ValidItems(b) \subseteq recorded

\* Parts of a handler between its first read and its last commit.
Running(r) == pc[r] \in {"accepted", "applying", "read", "locked"}

\* Of an item, a request holds a stock that is no longer the committed one.
Outdated(r, i) == cache[r][i] \notin {None, stock[i]}

\* What a push consumes: of each item the quantity of its first valid entry.
FirstOf(b, i, j) ==
    /\ b[j].item = i /\ b[j].qty >= 0
    /\ \A k \in 1..(j - 1) : b[k].item = i => b[k].qty < 0

Uses(b) == [i \in ValidItems(b) |-> b[CHOOSE j \in DOMAIN b : FirstOf(b, i, j)].qty]

PushesOf(l) == UNION {{Uses(b) : b \in Bodies[d]} : d \in {e \in Deliveries : LotOf[e] = l}}

OutdatedItems  == {i \in Items : \E r \in Threaded :
                       pc[r] \in {"loaded", "locked"} /\ Outdated(r, i)}
OvertakenItems == {i \in Items : \E r \in OnLoop : Running(r) /\ Outdated(r, i)}

Receipts == {<<b[1].item, b[1].qty>> : b \in UNION {Bodies[r] : r \in Receivers}}

Atomic == INSTANCE AtomicLedger WITH
    Pushes    <- [l \in Lots |-> PushesOf(l)],
    outdated  <- OutdatedItems,
    overtaken <- OvertakenItems

\* The handlers' reads, locks, flushes and commits amount to atomic writes of
\* the stock, but for what AtomicLedger excepts: an async handler misses only
\* writes of the threadpool and of the script, so that cycle counts and
\* consumption pushes never overwrite each other and a batch reads afresh what
\* its own rows committed;
\* a push takes effect as a whole, once per lot and item (create_adjustment,
\* submit_cycle_count, process_luma_consumption, receive_shipment).
ImplementsAtomicLedger == Atomic!Spec

\* When an async handler stalls, it is behind a refused adjustment whose
\* transaction still holds a row lock: no other wait is endless.
HeldByRefused == \E i \in Items : lock[i] # None /\ pc[lock[i]] = "rejected"

LoopKeepsTurning ==
    [](~HeldByRefused) => \A r \in OnLoop : loop = r ~> loop # r

-----------------------------------------------------------------------------
(* Inductive strengthening *)

\* A request that touches an entry has one to touch.
AtEntry ==
    \A r \in Reqs :
        /\ pc[r] = "idle" => pos[r] = 1 /\ cache[r] = Nothing
        /\ r \in Threaded /\ pc[r] \in {"accepted", "loaded"} =>
                pos[r] = 1 /\ body[r] \in Bodies[r]
        /\ r \in Threaded /\ pc[r] = "accepted" => cache[r] = Nothing
        /\ pc[r] \in {"locked", "read"} => More(r)
        /\ pc[r] \in {"loaded", "locked", "read"} => cache[r][Item(r)] # None

\* Every quantity an adjustment, a count or a push may still write is
\* non-negative.
Amounts ==
    /\ \A r \in Reqs : \A i \in Items : staged[r][i] \in Nat \cup {None}
    /\ \A r \in Reqs : pc[r] = "locked" => ~Refused(Cur(r), cache[r][Item(r)])

\* A picked number is at most the next one.
Numbers ==
    /\ NumbersDense
    /\ \A r \in Reqs : pc[r] = "locked" => number[r] \in 1..(Len(ledger) + 1)

\* A running async handler has the loop; only create_adjustment's callers lock
\* an adjustment.
LoopMutex ==
    \A r \in Reqs :
        /\ r \in OnLoop /\ Running(r) => loop = r
        /\ pc[r] = "locked" => r \in Adjusters \cup Counters
        /\ pc[r] = "loaded" => r \in Threaded
        /\ pc[r] = "applying" => r \in Counters
        /\ pc[r] = "read" => r \in Deliveries

\* A push that writes an entry is the first of its lot to do so; the entries
\* behind it are recorded, flushed or invalid.
Consumption ==
    /\ ConsumedOnceAndWhole
    /\ \A d \in Deliveries :
        /\ pc[d] = "read" => ~Recorded(d, Item(d))
        /\ pc[d] \in {"accepted", "read"} =>
            /\ body[d] \in Bodies[d]
            /\ \A j \in DOMAIN body[d] :
                j < pos[d] /\ body[d][j].qty >= 0 =>
                  Recorded(d, body[d][j].item) \/ Flushed(d, body[d][j].item)

\* What a push has flushed was not recorded before, and follows from the
\* stock it loaded and its first valid entry for the item.
FlushOf(d, i) ==
    /\ ~Recorded(d, i)
    /\ cache[d][i] # None
    /\ \E j \in DOMAIN body[d] :
        /\ j < pos[d]
        /\ FirstOf(body[d], i, j)
        /\ staged[d][i] = Consumed(cache[d][i], body[d][j].qty)

FlushesOf(d) ==
    /\ pc[d] = "idle" => staged[d] = Nothing
    /\ pc[d] = "read" => Cur(d).qty >= 0 /\ ~Flushed(d, Item(d))
    /\ pc[d] \in {"accepted", "read"} =>
          \A i \in Items : Flushed(d, i) => FlushOf(d, i)

Flushes == \A d \in Deliveries : FlushesOf(d)

-----------------------------------------------------------------------------
(* What a comment promises and the code does not keep *)

\* "Re-render the form with the validation message": a refused adjustment is
\* answered.
RefusalIsAnswered == \A a \in Adjusters : pc[a] = "rejected" ~> pc[a] = "done"

=============================================================================
