# PackTrack: a TLA+ verification project

PackTrack records packaging inventory, purchase orders and receiving for one
company. It is one FastAPI process (uvicorn, a single worker) over Postgres, with
an in-process scheduler, and it talks to four outside systems: Zoho (through
`zoho-integration-service` and directly), Luma (production), and Telegram. This
directory holds TLA+ models of its core logic, the TLC configurations that check
them, and TLAPS proofs of the properties that matter most. Paths below are
relative to `src/packtrack/` unless they start with `scripts/` or `docs/`.

## 1. The system

What makes it hard is the mixture of execution models. A `def` route runs on a
worker thread beside everything else. An `async def` route that calls the
synchronous SQLAlchemy session occupies the event loop until it returns: no other
async route, no new request and no session teardown runs meanwhile. Sessions keep
what they have loaded until they commit, and a commit writes only the columns that
differ from what was loaded, so most read-modify-writes work on values read before
a lock, a form or an HTTP call of 20 to 60 seconds. Nothing retries by itself
except the purchase-order push and the catch-up.

| Component | State | Operations | Talks to | Hard behaviour | What makes it correct |
|---|---|---|---|---|---|
| Stock ledger (`services/inventory_adjustments.py`, `cycle_count.py`, `consumption.py`, `receive_shipment`) | `Item.current_stock`, `inventory_adjustments`, `material_consumption_events` | adjust, cycle count, consume, receive a shipment, overwrite (`scripts/sync_items_via_gateway.py`) | adjustment sync; Luma pushes to it; the gateway | row locks, stale identity maps, threads beside the event loop, crashes inside a batch | no adjustment, count or push takes a stock below zero, numbers dense, a lot consumed once and as a whole, commits amount to atomic writes but for what threads or the script overtook |
| Adjustment sync (`inventory_adjustment_sync.py`, `zoho_adjustment_client.py`) | `zoho_sync_status`, attempts, error | push after commit, owner's retry, retry gate | zoho-integration-service | timeout racing a late answer, lost reply, parallel retries, restarts | SYNCED means applied, no reversal without its original, a late failure does not undo a success |
| Reconciliation (`inventory_reconciliation.py`, `inventory_stock_policy.py`) | stock snapshots on items | build the dashboard | reads the two above | a page made of several queries while pushes go on | "no action" is final, every drift comes with a remedy |
| Receiving vNext (`routes/receiving_v2.py`, `services/receiving_v2_finalize.py`) | `receives`, cases, lines, `box_receipts` | edit, finalize, push, retry | Luma, Zoho | edits during finalize, double finalize, pushes of the same boxes by three routes | one box per line, boxes keep their lines, PUSHED_OK only over boxes Luma has |
| Packing lists (`receiving_v2_import.py`, `receiving_v2_reconcile.py`) | expected lines | add, delete, import, compare | the receive they belong to | a catalog that changes between preview and commit, two imports at a time | frozen by finalize, replace replaces, a quiet report means equal totals |
| Legacy receiving (`routes/receiving.py`, `services/receiving.py`, `box_receipt.py`) | `box_receipts` | post a form, type a box, retry-luma | Luma, Zoho | Luma is told before the commit and Zoho after it; double posts | a form takes effect once, Zoho never has more than PackTrack |
| Catch-up (`services/receive_catchup.py`) | boxes, orders | adopt, backfill, close | Zoho's mirror | runs beside operators and the sync | backfills only what was received in Zoho itself, and all of it |
| Material codes (`services/receiving.py`, `scripts/audit_material_codes.py`) | `Item.material_code` | choose, register with Luma, edit, default | Luma | a code is told Luma before it is committed; two sessions choose at once | boxes carry the item's code, Luma's mapping agrees |
| PO workflow (`services/workflow.py`, `routes/purchase_orders.py`, `routes/telegram_webhook.py`) | PO status, shipments, pending Telegram uploads | move, upload PI, ship, receive, Telegram buttons | notifications | a status read before an await, routes that bypass the table | no stage without the stages it rests on, closed orders stay closed |
| PO push and scheduler (`zoho.py`, `scheduler.py`) | `zoho_po_id`, push status | push, retry job, sync job | Zoho | timeout after creation, two pushers, starvation in the retry window | duplicates only where a reply was lost, link, number and status agree, every PO pushed in the end |
| Item master sync (`zoho_item_sync.py`, `zoho_item_detail.py`) | item fields, push status | park an edit, push it, inbound sync, overwrite (the same script) | Zoho | edits during a sync and a push | a parked edit and an owner's level survive, both systems come to one name |
| Telegram, notifications, forecast, auth, admin, dashboard, inbox, search, diagnostics, pages | users, chat ids | best-effort sends, CRUD, queries | | | |

`PROJECT.json` lists every component with its status and every hazard at its line.

## 2. Plan

Done: the stock ledger with the abstract `AtomicLedger`, which it is proved to
implement; the adjustment sync and the reconciliation dashboard on top of it; the vNext
receive; the push of orders; the order workflow with the abstract `OrderLife`, which it
is proved to implement; the older receiving form with the catch-up; material codes; the
item master sync; packing lists on top of the vNext receive, which they are proved to
implement. Every invariant and action property that a run checks is also a theorem.

Next, in this order:

1. The packing-list file of a receive and its version numbers, and the marking of
   a receive as a test, beside `PackingList`.
2. Forecast arithmetic, if integers suffice for it.

## 3. Modules

Constants are the requests, items and rows of an instance; every module names its
assumptions on them and its bounds. History variables are marked as such where they
are declared; no action's guard reads one. "Mistaken variant" marks operators that
stand beside a definition and are what a plausible error in it would be.

### StockLedger

Every writer of an existing item's `current_stock`: requests of four kinds, which go
through the program counters of their handlers, and a script.

| Requests | Route | Runs on | Actions |
|---|---|---|---|
| `Adjusters` | `POST /inventory/{id}/adjust` | a thread | `LoadItem`, `TakeLock`, `CommitAdjustment` / `CommitCollides` |
| `Counters` | `POST /inventory/cycle-count` | the loop | `ValidateRow`, `EndValidation`, then per row `SkipRow` or `ReloadRow`, `TakeLock`, `CommitAdjustment`; `EndCount` |
| `Deliveries` | `POST /api/internal/luma-consumption` | the loop | per entry `PassOver` or `ReadEntry`, `FlushEntry` (`WriteEntry`, or `FlushCollides`, which `ConsumedOnceAndWhole` shows never happens); `CommitDelivery` |
| `Receivers` | `POST /po/{id}/receive/{shipment}` | a thread | `LoadItem`, `ZohoRefusesReceipt` or `CommitReceipt` |

`Overwrite` is `scripts/sync_items_via_gateway.py`, a process of its own that writes
what the gateway reports (`Upstream`) over the stocks of any items, in one commit. Its
flushes are merged into the commit, so that it waits for all its rows at once and the
deadlock it can run into with a push, which Postgres ends by aborting one of them, is
left out. `Opening` is what a new item was seeded with. The code checks the sign of
neither, nor that of a received quantity, and the module assumes nothing of them.

`Accept` and `Close` need a free loop; `Crash` rolls everything open back. `cache`
is the identity map: `Loads` fills it, only a commit (`Expired`) or the end of the
session empties it, and the `SELECT ... FOR UPDATE` of `_lock_item` takes `lock`
without touching it. `staged` is what a delivery has flushed; it holds the row
locks of the items it wrote until its one commit. Quantities are integers where
the code has `Decimal` and `float`; years, and the random suffix that
`generate_adjustment_number` appends after five collisions, are left out.

### AtomicLedger

What the ledger promises, were each write of a stock one step: a row is numbered
next, tells the stock before it and explains the one after it (`Adjust`, `Count`); a
receipt adds (`Receive`); a push takes from the stock what is not recorded of its lot,
all of it at once (`Consume`). The code keeps this with an exception, and the point of
the module is who may cause it. `outdated` are the items of which a request on the
threadpool holds an old stock: any write may add to it, as such a request loads its
item before it locks it or not at all. `overtaken` are the items of which a handler on
the event loop holds an old stock: only writes of the threadpool and of the script
(`Overwrite`) add to it. Where an item is in the set its writer belongs to, the write
may start from any stock, but no row and no push takes a stock below zero, rows are
dense, and pushes whole. Receipts and the script may leave any stock.

`StockLedger` implements it (`ImplementsAtomicLedger`): the committed tables map to
themselves, the two sets are read off the identity maps (`OutdatedItems`,
`OvertakenItems`), and the amounts a push may take are those of the first valid entry
of each item of its body (`Uses`). Reads, locks, flushes, refusals and crashes map to
stuttering or to `End`, by which somebody stops holding an old stock.

### AdjustmentSync

One record per adjustment with the sync columns, requests that create and push one
(`Submitters`), owner retries (`Retriers`), and the service: a call waits on `wire`
until `Serve` handles it, which may be after `Timeout` gave up or after `Restart` killed
the caller. `loaded` is what the session holds; `Persist` writes the columns that differ
from it (`Merge`). The gate judges `voided_at` as the retry's session loaded it
(`voidSeen`) and reversals as they are committed. `is_configured` asks for one setting
more than `_adjustment_sync_configured`; `Configs` has the three cases. Reversals and
voids are made outside the routes (no code under `src/` writes them), so `Reverse` and
`Void` are external.

### Reconciliation

Extends `AdjustmentSync` with what `GET /inventory/reconciliation` does: one action per
query of the page (exceptions, their gate, the cards), each on what is committed at that
moment, except for the adjustment rows, with their `voided_at`, that the page's session
already holds. Snapshots of Zoho's stock are recorded at any time; a history field keeps
what Zoho had applied when they were read. What moves a stock without an adjustment is
left out: receipts, consumption, and the script that overwrites it; so are the page's
lists of variances and of stale snapshots, from which nothing else on the page is
computed (the cards count the items anew).

### ReceiveV2

One receive. `Editors` add and delete cases and lines and edit details;
`Finalizers` load the receive (`LoadReceive`), `Validate`, `Enumerate` the lines
again, `Materialize` the boxes in one transaction, `Reload`, push (`PushLuma` per
box) and `Conclude`; `Retriers` push again; `Sweepers` run the older form's
`retry_luma_push`, which takes the boxes of the whole order. The database keeps
the boxes' unique `(order, submission_id, submission_line_index)` and the foreign
key from a box to its line (migration `e1f2a3b4c5d7`, no `ON DELETE`), so a line
with a box cannot be deleted. The push and the retries judge what their session
loaded (`view`) and write back what they changed (`Saved`). Abstractions:

- A request refused for what its rows contain (case numbers, quantities, tracking)
  or for unconfirmed warnings, and one the process dies under, takes no further
  step. The model has safety properties only, so stopping is enough.
- `REVIEW` and `CANCELLED` are never assigned by the code. A `NOT_READY` box never
  has a material code, so the bump to `PENDING` in `retry_push_for_receive` finds
  nothing.
- Luma accepting a call late is the case "accepted and not heard".
- The outcome of Zoho is one bit per push, or an exception that no handler catches.

### PackingList

Extends `ReceiveV2` with the expected lines of its receive. Its `Editors` add and
delete single lines (`AddExpected`, `DeleteExpected`) and commit a text, which is
matched anew against the catalog of that moment (`Rematch`) and, replacing, deletes
the lines it found then (`CommitImport`). Each of these is a step of `EditExpected` in
`ReceiveV2`, which asks `Editable` of the status the session loaded and writes the
receive; `ListWrite` adds what it does to the list. All other steps of the receive run
`Beside`: cases and lines, finalize, pushes. So a list is frozen by a real finalize,
opened again by an edit that had loaded a DRAFT, and closed by a later push, and
`Remember` keeps, as history, what it was when the receive was last closed.

`Hits` is `match_row`: material code, SKU, exact name, part of a name; the first
key that hits decides. Names are sets of words, quantities small numbers. The id of
a line is the number of the write that added it and its place there, so that lists
are functions and an import replaces exactly if the list is one write's. `ReconcileStatus`,
`Reported` and `Differences` are the report; `TotalOf` the totals shown beside it.
What was counted is not taken from `ReceiveV2`, which leaves quantities out: the
report is compared for every count in `Counts`.

### Receiving

Goods of one Zoho order. A post of the form (`Arrive`, `Judge`, `Adopt`, per line
`BoxLine`, `SkipLine` or `LineFails`, then `Save`, per line `TellZoho`, `Answer`)
loads the mirror row before it awaits its body and holds the event loop afterwards.
The sync replaces mirror rows (`Sync`, `MissDetail`, `SyncFails`); a handler whose
commit has expired its mirror row finds it gone (`stale`). An exception may come at any
line and at the commit after the last (`LineFails`: a material code or a box that the
database refuses, a photo that cannot be written, the stale row); it rolls the boxes of
the post back, and Luma keeps what it was told of them (`RolledBack`). The catch-up then looks
the order up, adopts it, fills lines that Zoho received and no box covers
(`CatchUpLine`) and closes a shipped order (`CatchUp`). `AddCarton` is a supplier
box typed in, `ReceiveInZoho` a receipt entered in Zoho. `Crash` and `Restart` may
come between any two steps.

### MaterialCode

How items get codes. A session (`Forms`, `Pushes`) ensures the code of an item at a
time: it chooses (`Choice`), flushes (which waits for the row and for a transaction
that holds the same unique entry: `RowFree`, `CodeFree`; or collides), registers
with Luma, and commits at the end; forms also commit when they adopt the order.
`EditCode` and `Resku` are owners and the item sync (the script that pulls items from
the gateway writes SKUs, too), `LoadItems` and `ApplyDefaults`
the script `audit_material_codes.py`, whose check looks at the rows it has loaded.

### POWorkflow and OrderLife

One order. Every request loads the order, judges the status it loaded and writes
later (`Write`, an UPDATE only when the status differs from the loaded one). Moves
await their form; PI uploads, shipping, receiving and the catch-up run on threads;
the Telegram webhook holds the loop while it downloads a file, and moves without
giving the loop away (`BotMove`: the buttons and the commands). `OrderLife` is the
promise: no stage is entered before the stages it rests on. `ImplementsOrderLife`
instantiates it: its `status` is the order's column, its `passed` the history of
that name; requests, pending uploads and shipments are the detail it hides.

### ItemSync

One item's name, its reorder level, and what Zoho has. The edit form's handler runs on
the loop in four sessions' worth of commits (`Open`, `Submit`, `Resolve` or `Mirror`,
then `Park`, or `Patch` and `Finish`); retries and the inline editor run on threads; the
inbound sync fetches (`Fetch`), loads the row (`Load`) and commits (`Commit`) after it
has downloaded images. Sessions write the columns that differ (`Changes`, `Flush`).
`Overwrite` is `scripts/sync_items_via_gateway.py`, which writes the name whatever the
status of the row, and the level unless it is locked; an edit whose name it changes no
longer counts as wanted (a history variable). Zoho's users edit (`UpstreamEdit`), the
process stops and starts, perhaps with the integration configured by then.

### POPush

Purchase orders and Zoho's. Every pusher is a session with a list of orders (`todo`):
`Web` has the one it created (`Create`, on the event loop), a retry job those `StartJob`
selected under its file lock. Per order it loads (`Load`), waits for the row and then
ends at once (`AlreadyLinked`, `NothingToSend`) or sends (`Send`); Zoho's side is
`Answer` (whose reply may bring an id without a number), `Refuse`, `Lose` (created,
reply lost or too late) and `Garble` (created, reply without an id); `PushOk` and
`PushFailed` are the commits. `PushCollides` is a commit that raises, as the catch-up
adopted the number after the look-up had found it free: like `Crash` it rolls the run
back (`RollBack`), and the link is lost. Two facts of SQLAlchemy and Postgres shape it:

- `po.lines` is a lazy load and flushes `push_attempted_at`, so a push holds its
  order's row during the whole call (`row`). A concurrent push of the same order is
  thereby delayed, not prevented: it has loaded `zoho_po_id` by then (`known`).
- A commit writes the columns that differ from what was loaded (`Merged`), and
  expires the session: all orders of a window but the first are read again.

`Cancel` and the linking of the catch-up (`LinkByNumber`) write the same row and
wait for it. The catch-up takes mirror rows one at a time: `SkipLinked`,
`LinkByNumber`, `Adopt`, or `AdoptionCollides`, where the UNIQUE number makes the
insert raise. Abstractions:

- Zoho numbers its orders 1, 2, ... and one number stands for id and
  `purchaseorder_number`. Orders entered in Zoho directly are left out: they only
  meet `Adopt`, which treats them as it does the others.
- `push_po`'s branch for missing settings cannot be reached: both callers ask
  first.
- The look-up and the insert of an adoption are one step; what happens in the
  microseconds between is a UNIQUE violation that ends the catch-up, as
  `AdoptionCollides` does.
- A mirror is any set of orders Zoho has had: the sync may have failed, and Zoho
  orders leave it when they are closed.

## 4. Runs

| Run | Instance | Shows |
|---|---|---|
| `StockLedger` | 2 items, an adjustment, a cycle count, a shipment receipt, 2 pushes of one lot, the script, fair | `TypeOK`, `NumbersDense`, `ConsumedOnceAndWhole`, `BelowZeroOnlyUnchecked`, `ImplementsAtomicLedger`, `LoopKeepsTurning` |
| `StockLedgerStall` | an adjustment and a push, fair | TLC violates `RefusalIsAnswered` (section 6) |
| `AdjustmentSync` | 1 adjustment, its reversal, 1 submit, 3 retries | `TypeOK`, `SyncedIsApplied`, `NoLoneReversal`, `FailedRetryKeepsSynced` |
| `Reconciliation` | 1 item, 1 adjustment, its reversal, 1 submit, a retry of each | `DashboardTypeOK`, `AdvisedStayOut`, `DriftHasRemedy` |
| `ReceiveV2` | 3 lines, 2 cases, 2 finalizers, 1 editor | `TypeOK`, `BoxesKeepTheirLines` |
| `ReceiveV2Push` | 2 lines, 2 cases, finalizer, retrier, sweeper, editor | `PushedOkReachedLuma` |
| `PackingList` | 2 editors, 1 finalizer, a case, a line; 2 items, 2 catalogs, 1 text, 2 writes that add | `ListTypeOK`, `FrozenWhenFinalized`, `ReplaceReplaces`, `QuietReportIsEqual` |
| `Receiving` | 2 lines, 1 form posted twice, 1 typed box, 1 direct receipt a line, fair | `TypeOK`, `BackfillIsDirect`, `FormTakesEffectOnce`, `ZohoAfterPackTrack`, `ReceiptIsNoticed` |
| `MaterialCode` | 2 items, 1 SKU, a form and a push, 2 changes | `TypeOK`, `BoxesCarryTheCode`, `LumaAgrees` |
| `POPush` | 2 orders, one without anything to send, 2 processes, 1 mishap, fair | `TypeOK`, `ZohoOrdersExplained`, `BookAgrees`, `EventuallyLinked` |
| `POWorkflow` | 2 requests at a time, again and again, 2 shipments | `TypeOK`, `SettledOrderIsClosed`, `ImplementsOrderLife`, `ClosedUnlessReceived` |
| `ItemSync` | 2 names, 2 levels, an edit form, a retry, an inline edit, 2 at a time, fair | `TypeOK`, `ParkedEditKept`, `OwnLevelKept`, `Converges` |

Bounds. Every race found or excluded here needs two requests about one item,
adjustment, order or receive, plus a third that disturbs them, which the instances
have. In detail:

- `StockLedger`: two items are needed for number races and for batches. One starts at
  1, the other at -1, which the script may restore at any time; quantities are between
  -2 and 3, and the receipt's is -2. So refusals, zero deltas, the floor at zero,
  negative entries and stocks below zero all occur. Requests run once.
- `AdjustmentSync`, `Reconciliation`: requests run once; three retries beside the
  first push let one time out, one be late and one find the result.
- `ReceiveV2`: three lines in two cases, for a line inserted before another. An
  editor edits without end, up to `MaxLines` lines ever added and `MaxCases` cases
  at a time. Finalizers are interchangeable, which the symmetry uses. The run of the
  pushes has fewer lines and more kinds of pushers.
- `PackingList`: the two catalogs make the text match otherwise at the commit than in
  the preview; it has a row that is ambiguous under one of them, one whose code and name
  contradict each other, and one without a quantity. Two writes that add lines
  (`MaxWrites`) are two imports, or an import over a line typed in; writes that delete,
  and edits of the case and the line, go on without end. One line in one case is enough
  for the receive to be finalized, pushed, and opened again.
- `Receiving`: a line that was counted short is among the fills of a post; a box typed
  in has one fill, not counted (`Typed`). Both posts may fail at either line or at the
  commit. With one order, an exception at another order's mirror row, which ends every
  catch-up before it reaches this one (section 6), does not occur. `MaxDirect` bounds
  receipts in Zoho; syncs and catch-ups run without end.
- `MaterialCode`: two items that may share a SKU are what a collision needs;
  `MaxChanges` bounds what owners, the item sync and the script do.
- `POPush`: two orders for a number race and for a window with a hopeless order
  before a good one, two processes for the file lock, and one mishap (`MaxMishaps`
  bounds lost replies, garbled replies, crashes and collisions together), since each kind alone
  makes Zoho and the book differ; two mishaps give over 20 million states. Its
  window is 2 instead of 10, above the one hopeless order.
- `POWorkflow`: handlers start over, so histories are unbounded; only two overlap at
  a time, and a shipping adds up to `MaxShipments` shipments in all.
- `ItemSync`: posts start over; `MaxAtWork` bounds how many overlap. Zoho's reorder
  level does not change, the first one of an item may be another.

Deadlock checking is on where the system never stops (`PackingList`, `ItemSync`,
`POWorkflow`, `Receiving`, `Reconciliation`) and off where all requests being served is
a proper end.

Each property has a mutant in `PROJECT.json`, under which TLC finds it violated.

Fairness:

- `StockLedger.FairSpec`: a request that has been accepted and can move does,
  because threads are scheduled, the loop turns and Postgres answers. No fairness is
  assumed of clients or of crashes. A request that waits for a row lock is not able
  to move; that is why the stall below is a counterexample and not an unfair
  schedule, and why `LoopKeepsTurning` excepts behaviours in which a refused
  adjustment holds a lock.
- `POPush.FairSpec`: the scheduler starts a retry run whenever one is due (weak), a
  push that can move does, the HTTP client gives up after 60 seconds so that every
  call ends (weak), and Zoho, asked again and again, answers at some time (strong:
  an assumption about Zoho and not about this code). Creating and cancelling orders,
  crashes and the catch-up are not fair. `EventuallyLinked` needs fewer hopeless
  orders than `Window`.
- `Receiving.FairSpec`: the scheduler's job goes on whenever it can (weak), its sync
  reaches Zoho again and again (strong), and the process stays up in the end. This
  leaves out a catch-up that an exception at another order's row ends every time
  (`AdoptionCollides` in `POPush`). Posts are not fair: `ReceiptIsNoticed` holds
  whatever becomes of them.
- `ItemSync.FairSpec`: fetching and loading (weak) and the commit (strong) of the
  inbound sync, which not every job fails to reach. Nothing is assumed of handlers.
  `Converges` is about behaviours in which owners, the script and Zoho's users rest and
  the process stays up.

## 5. Proofs

TLAPS checks these for every value of the constants that satisfies the module's
`ASSUME`: any number of items, requests, lines, orders and so on, and any bound. An
invariant that a run checks is rarely inductive; what has to be known besides is
under "Inductive strengthening" at the end of each module, was checked by TLC on the
module's run before it was proved, and is explained below. A step that preserves an
invariant is a lemma per action.

**StockLedgerProofs**, from `LedgerAssumption` (kinds of requests are disjoint;
seeds, the gateway's stocks and all quantities are any integers):

- `TypeCorrect`: `TypeOK` alone is not inductive: that a request in `loaded`,
  `locked` or `read` stands at an entry and has its item loaded is `AtEntry`, proved
  together with it (`ShapeAlways`).
- `RecordedStockNotNegative` (`BelowZeroOnlyUnchecked`): an action property, from
  `Amounts`. What an adjustment, a count or a push may still write must be non-negative
  while it is in flight, although the stock it loaded may not be: staged values are,
  and a request that holds the lock passed `Refused` on the very value it will write
  from. What is left are the script, and a receipt with a negative quantity or on top of
  a negative stock.
- `NumbersAlwaysDense`: from `Numbers`. A picked number is at most one more than
  the rows, and the unique column refuses those that are not the next.
- `LotsConsumedOnceAndWhole`: from `Consumption`. Behind a push's position every
  entry is recorded, flushed or invalid, and an entry it is about to write has not
  been written by anyone, which `LoopMutex` keeps so until it has.
- `LedgerIsAtomic` (`ImplementsAtomicLedger`), from all of the above and `Flushes`. That
  only the threadpool and the script add to `overtaken` (`OvertakenMoves`) rests on
  `LoopMutex`: a running async handler has the loop, so whoever wrote in between ran on
  a thread or in the script, and what it commits itself it has expired. That a push is
  one step (`DeliveryIsAtomic`) needs `Flushes`: whatever it has staged follows from the
  stock it loaded and the first valid entry, and was not recorded before; with
  `Consumption` the items it records are then those of its body. That a row tells the
  stock before it and is numbered next (`CommittedRow`) comes from `Amounts` and
  `Numbers`.

**AdjustmentSyncProofs**, from `SyncAssumption` and, for the dashboard,
`DashboardAssumption` (a reversal moves its original's item back by as much):

- `SyncTypeCorrect`, with `Begun` (a request under way is about a committed
  adjustment).
- `SyncedRowsAreApplied` and `ReversalsFollowOriginals`, from `SyncInv`: success is
  loaded and reported of applied adjustments only, and a reversal that passed the
  gate or is on the wire has an applied original. The merge of columns is the heart
  of the first: a column that is not written keeps a status that was right before.
- `FailedRetriesKeepSynced`: an action property. A request that loaded FAILED and
  fails leaves the column unchanged, and so out of its UPDATE.
- `DashboardTypeCorrect` and `NoActionIsFinal` (`AdvisedStayOut`), from
  `DashboardInv`. That an adjustment was out of Zoho when the page was built is not
  enough: a retry that passed its gate earlier may still push it. `AdvisedSound`
  says that no call about it is under way (`AtRest`) and that every gate to come
  will refuse it (`Barred`): it is voided, or reversed and not synced, or the
  reversal of one that is `Dead`. The last case joins two queries of the page: that
  the original is dead was read from a row listed earlier, so `PageSound` carries it
  from the list to the judgement.
- `DriftsHaveRemedies` (`DriftHasRemedy`): an action property that joins the
  queries of the page, from `RemedyInv`. `SnapshotsAddUp` says what a snapshot
  holds, `ListedSound` that Zoho has all that the page left out, `ReasonsRemain` that
  a reason found against a retry still holds when the cards are counted. If every
  row had such a reason, what Zoho lacks would fall into pairs of an adjustment and
  its reversal, which `MovedCancels` shows to move nothing; so a variance leaves a
  row to retry. Sums are counted piece by piece here too (`Total`), so that
  `TotalSplits` and `TotalPaired` follow from the library's facts on cardinalities.

**POWorkflowProofs**, from `WorkflowAssumption` (`MaxShipments` is a natural number),
for any set of requests at work:

- `WorkflowTypeCorrect`, with what makes it inductive in it (`OneHolder`: a
  shipment's row and the loop have one holder, without which two receipts of a
  shipment could disagree).
- `WorkflowImplementsOrderLife`: `Spec => Life!Spec`. A step of the workflow may
  write a status judged long ago, so a refinement needs to know that the gates of
  whatever a request is going to write were passed when it was judged, and stay
  passed: `Rests` says so of requests, pending Telegram uploads and shipments.
  Each action is shown to be a step of `OrderLife` or to leave it unchanged.
- `GatesAlwaysPassed`: goods are made, shipped and received only for an order whose
  artwork and PI were approved.
- `SettledOrdersAreClosed`: from `ReceiptsInTurn`. While nothing overlaps, one
  receipt is flushed at a time, and one that leaves the order open has seen another
  shipment unsettled, which still is.
- `ClosedOrdersStayClosed`: an action property, from `RequestsKnow`: a request that
  moves an order without asking the table has loaded an open one, and the catch-up
  a shipped one, so to write over a closed order it must have been overlapped.

**ReceiveV2Proofs**, from `ReceiveAssumption`:

- `TypeCorrect` and `OneBoxPerLine` (`BoxesKeepTheirLines`) are inductive together
  with `LinksAgree` and `IndicesDense`. The second is why the unique index protects
  a line from a second box although both finalizers loaded it without one: no index
  is ever left out, so who numbers boxes on outdated rows starts at an index that is
  taken.
- `PushedOkIsTrue` (`PushedOkReachedLuma`): an action property, from
  `PushedIsAccepted`: PUSHED is loaded, held and written of boxes Luma has, and a
  vNext push retires nothing as DUPLICATE.

and, with `PackingListAssumption` (texts and counts are sequences, what is declared is
positive):

- `ListedReceive`: `ListSpec => Spec`. A step of `PackingList` is a step of `ReceiveV2`
  or leaves it unchanged, so the three theorems above hold with packing lists, too.
- `ListTypeCorrect`, with `ListsFinite` for the sums. A row becomes a line only if the
  least key that hits, hits one item of the order (`HitsAreItems`, `ReadyLinesType`).
- `ListStaysFrozen` (`FrozenWhenFinalized`): whoever writes the list has loaded an open
  receive, so a write that finds it closed and leaves it closed makes it `late`.
- `ImportReplaces` (`ReplaceReplaces`): from `PlansCurrent`, an import that nobody
  wrote beside is about to delete all there is, and `BroughtLast`, which names the
  write that brought the list.
- `QuietReports` (`QuietReportIsEqual`): a sum of positive quantities is 0 only for
  an item without lines (`TotalOfPositive`), so the items a report passes over agree,
  and `DifferenceIs` shows of each item that it is reported as different exactly if
  its sums are.

**MaterialCodeProofs**, from `CodeAssumption` (in particular, generated codes, SKUs
and random codes are distinct):

- `TypeCorrect`: items' codes differ only with `CodesApart`, which extends the
  unique index to codes flushed and not yet committed.
- `BoxesAgree` (`BoxesCarryTheCode`): two sessions choose for one item without
  seeing each other. `Choices` holds of every choice not yet committed that it is
  what the rule gives, or that what has been committed since will make the flush
  collide (`RightChoice`).
- `LumaKnows` (`LumaAgrees`): `Told` traces every mapping in Luma to a committed
  code, to one flushed by a session, or to a code that came loose.

**ItemSyncProofs**, from `ItemSyncAssumption`:

- `TypeCorrect`: with `OnTheLoop`, one edit at a time is past its last await.
- `ParkedEditsStay`: from `ParkingAgrees` (what is about to be parked is what the
  row holds), `PendingSettles` (with the service configured, whoever is at work on a
  pending row has loaded it pending), `SyncDecides` (a sync nobody overlapped
  decides on the row as it is) and `DownRunsNothing`.
- `OwnLevelsStay`: from `SyncDecides` and the column-wise flush: a session that does
  not change the level does not write it.

**POPushProofs**, from `PushAssumption`:

- `TypeCorrect`, with lemmas on the window of a retry run (`Oldest`: the first
  orders of the book that qualify, each once).
- `ZohoOrdersAreExplained` and `BookIsRight`, from `BooksInv`. Counting what Zoho
  holds is not inductive, as pushes on the way will add to it: `MadeBounded` counts
  them in. `AloneKnows` says that a pusher without company has loaded what the order
  still says, `RowsHeld` that who waits for Zoho holds the order's row, and
  `AnswersAreTheirs` that an answer names a Zoho order made for that order.

**ReceivingProofs**, from `ReceivingAssumption` (declared quantities are positive,
counts natural or absent), for any number of lines, forms, posts and boxes:

- `Inductive`: `ReceivingInv`, the conjunction of types, forms and Zoho; from it
  `TypeCorrect` and the three theorems below.
- `FormsTakeEffectOnce`: `LumaTold` says who pushed a line that Luma has, posts rolled
  back apart: the post that recorded the form, or the one at work, which `LoopHeldOnce`
  shows to be one.
- `ZohoComesAfterPackTrack`: `ToldIsDeclared`, which counts in what the post at work
  is about to tell.
- `CatchUpIsDirect` (`BackfillIsDirect`): from `MirrorBehind` (the mirror never runs
  ahead of Zoho), `ToldIsDeclared` and `StagedIsDirect`: what the catch-up is about
  to commit. The quantities of an unbounded set of boxes are added as the number of
  their pieces (`Total`), so that sums are cardinalities, about which the library
  has theorems, and not folds.

Only model-checked: liveness (`LoopKeepsTurning`, `ReceiptIsNoticed`, `EventuallyLinked`,
`Converges`, `RefusalIsAnswered`). Temporal properties under fairness need `ENABLED`,
which is out of the proof system's reach.

## 6. Where the code and its documents disagree

One disagreement has a run, `StockLedgerStall`: a refused adjustment keeps its row
lock until the event loop closes its session
(`services/inventory_adjustments.py:294`); a consumption push that waits for the row
on the loop (`routes/internal.py:53`) stalls the process.

The others were met while modelling. The properties named in section 4 state what
holds in spite of them, and say in their comments what they except.

Stock:

- The row lock does not prevent two operators from seeing the same
  `quantity_before` (`services/inventory_adjustments.py:7-8`): the item is loaded
  before it is locked (`routes/inventory_adjustments.py:158`) and the lock does not
  refresh it, so the second adjustment overwrites the first.
- A stock may be below zero, and nothing in the code says that it should not be able to:
  `receive_shipment` adds whatever quantity is posted (`routes/purchase_orders.py:658,
  694`; `min="0"` is an attribute of the HTML form), and a new item is seeded with
  Zoho's stock as it comes (`zoho.py:239-240`). `compute_preview` and the floor of
  `consumption.py:135` keep their own writes at zero or above.
- `scripts/sync_items_via_gateway.py:152` overwrites `current_stock` of existing items
  with the gateway's. It is not among the allowed writers of
  `services/inventory_stock_policy.py:9-21`, which says that existing items "NEVER have
  their `current_stock` written from inbound sync"; movements since the gateway was
  read are lost, and so are those Zoho has not got.
- A cycle count is not all-or-nothing (`services/cycle_count.py:7-8`): a row refused
  under the lock (`:267`) leaves earlier rows committed.
- Parallel retries lose an attempt count (`models.py:866-868`,
  `inventory_adjustment_sync.py:245`).
- An adjustment that timed out, was applied late and is then reversed locally shows
  "No action": Zoho keeps the original, which no retry removes
  (`inventory_reconciliation.py:284-286`; `BeyondRetry`).
- Nothing keeps reversals unique: the table has no constraint on
  `reversal_of_adjustment_id` and `create_adjustment` no check. Two reversals of one
  adjustment leave a drift whose rows are all blocked (`BeyondRetry`).
- The exception rows of the dashboard are limited to 500, the docstring says all.

Receiving:

- The older form's retry marks vNext boxes of the same item as `DUPLICATE` although
  Luma never saw them (`models.py:84-85`, `routes/receiving.py:648`).
- Lines added between two finalize attempts shift the index of lines that already
  have boxes (`receiving_v2_finalize.py:321-323`).
- A second finalize that loaded `COUNTING` takes a `PUSHED_OK` receive back to
  `FINALIZED` (`_terminal_statuses` says finalize must not run again), and an edit
  that loaded `DRAFT` takes a finalized receive back to `COUNTING`
  (`_bump_updated`).
- `build_reconciliation_report` sums declared quantities, while its docstring
  (`receiving_v2_reconcile.py:117-119`) says it uses the field finalize uses;
  `totals_by_item` uses counts. A receive marked as a test can still be finalized
  and pushed.
- Two replacing imports at a time leave both lists; an import matches its text anew
  and may commit other lines than its preview showed; a session that loaded the
  receive before finalize still writes its list afterwards.
- `submit_zoho_receives` "never raises", but a rejected credential does; the lines
  left are never told Zoho. Posting the form again answers "already processed" and
  does not either (`docs/PACKTRACK_ZOHO_INTEGRATION_RECEIVES.md` says otherwise).
- The form pushes to Luma before it commits (`routes/receiving.py:472`). A crash, or an
  exception at a later line (`:417`, `:426`, `:465`) or at the commit (`:517`), rolls the
  boxes back, and the same form, finding none, gives Luma new receipts for the same
  goods. The comment at `:343-350` says that double submits "cannot create duplicate
  BoxReceipts or duplicate Luma pushes". A sync between the
  loading of the mirror row and its use makes the handler fail after the order has
  been adopted (`:330`).
- The catch-up takes a count of zero for no count, contrary to
  `box_receipt.py:36-38`; backfills what a count found short; backfills a line once,
  so a second direct receipt of it stays unfilled (contrary to
  `receive_catchup.py:12`); and closes a shipped order of which nothing was received
  (`:163`). The older form tells Zoho declared quantities, vNext accepted ones.
- The script that copies SKUs into material codes promises "never overwrite a value
  the user already set, even if the snapshot said it was empty (race window)", but
  checks the rows it has loaded; edit forms write back the code they were rendered
  with. A code rolled back after Luma has heard of it stays mapped there and makes a
  later registration a CONFLICT.

Orders and items:

- Closed orders are not immutable (`services/workflow.py:6`): receiving a shipment
  turns a cancelled order into a received one (`routes/purchase_orders.py:703`).
- The reason an owner sends the bot to reject a PI is taken whatever the order's
  stage is by then: if it is back in design review, the reason approves the artwork
  (`routes/telegram_webhook.py:387-396`).
- "Failure persisted on PO and retried by scheduler"
  (`routes/purchase_orders.py:220`) fails when ten older orders can never be pushed;
  a failed push that overlapped a successful one leaves `failed` on a linked order;
  a reply that brings an id and no number leaves the `PT-` number on a linked order
  (`zoho.py:512-513`, "so both systems agree"); a number adopted between its look-up and
  the commit makes the commit raise (`:528`), the link is lost and the next run creates
  a second order in Zoho;
  an order can keep the number of a Zoho order it is no longer linked to, which ends
  every later catch-up at that order (`AdoptionCollides`).
- The inbound sync protects an edit that is pending, not one that failed
  (`zoho_item_sync.py:44-46`): it is overwritten, and a retry then sends Zoho's own
  value and says "synced". `scripts/sync_items_via_gateway.py:146` overwrites the name
  whatever the status, an edit parked included. A parked name is silently reverted when
  a later push of another field aligns the row with Zoho's answer.

## 7. Not modelled

- Of components that are modelled: the number of a receive and its marking as a
  test, packing-list files and their versions (no route reads them back to decide
  anything), delimiters and header synonyms of imports, the texts of blockers and
  warnings, the pages of the mirror sync and the OAuth token, the custom fields of
  items beyond the verdict on them, the thresholds other than the reorder level,
  images, photos, events and notifications. Of the gateway's script: vendors, units,
  descriptions, items it creates, its effect on the dashboard's variances, and deadlocks
  of its flushes with those of requests.
- Forecast and stock alerts: arithmetic over floats on read-only data.
- Receiving diagnostics, readiness and visibility; browsing, dashboard, inbox,
  search, exports: read-only queries and rendering.
- Administration, authentication, and the application shell: single-row updates,
  cookies, wiring and settings.

Composition is by shared abstractions rather than by one big module: a box retired
by the older form's retry is in `ReceiveV2` because it meets vNext boxes there, the
catch-up is in `Receiving` for its boxes, in `POWorkflow` for the status and in
`POPush` for adoption. One module of all of them is out of TLC's reach.
