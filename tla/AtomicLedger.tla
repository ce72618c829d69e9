--------------------------- MODULE AtomicLedger ---------------------------
(***************************************************************************)
(* What the stock ledger promises of each item, were every write of a      *)
(* stock a single step: adjustments, counts, receipts and consumption of   *)
(* a lot act on the stock as it is.                                        *)
(*                                                                         *)
(* The promise has two exceptions, and this module says who may cause      *)
(* them.  A request on the threadpool misses every write that came after   *)
(* it loaded its item (outdated).  A handler on the event loop misses      *)
(* only what such requests, or the gateway's script, wrote meanwhile       *)
(* (overtaken): counts and consumption never make each other miss          *)
(* anything.  Rows and recorded consumption leave no stock below zero;     *)
(* receipts and the script may.                                            *)
(***************************************************************************)
EXTENDS Integers, Sequences

CONSTANTS
    Items,     \* inventory items
    Lots,      \* finished lots
    Threaded,  \* requests served by the threadpool
    Pushes,    \* per lot, what a push may consume: functions from items to amounts
    Receipts,  \* <<item, quantity>> of the receipts there may be
    Upstream   \* per item, the stocks the gateway may report

VARIABLES
    stock,     \* stock of each item
    ledger,    \* adjustment rows, in order
    events,    \* <<lot, item>> of recorded consumption
    outdated,  \* items of which a threadpool request holds an old stock
    overtaken  \* items of which a handler on the loop holds an old stock

vars == <<stock, ledger, events, outdated, overtaken>>

Init ==
    /\ stock \in [Items -> Int]
    /\ ledger = <<>>
    /\ events = {}
    /\ outdated = {}
    /\ overtaken = {}

\* Whoever held an old stock may be done with it or gone; a write of some
\* items may add them to what requests on the threadpool have missed.
Missed(written) ==
    /\ overtaken' \subseteq overtaken
    /\ outdated' \subseteq outdated \cup written

\* A write by the threadpool or the script may be missed by the loop, too.
Overtook(written) ==
    /\ overtaken' \subseteq overtaken \cup written
    /\ outdated' \subseteq outdated \cup written

\* One more row, numbered next, that explains the new stock; it tells the
\* stock before unless that was missed.
Row(i, missed) ==
    LET row == ledger'[Len(ledger')] IN
    /\ Len(ledger') = Len(ledger) + 1
    /\ ledger' = Append(ledger, row)
    /\ row.num = Len(ledger')
    /\ row.item = i
    /\ row.before # row.after /\ row.after >= 0
    /\ i \notin missed => row.before = stock[i]
    /\ stock' = [stock EXCEPT ![i] = row.after]
    /\ UNCHANGED events

Adjust(i) ==
    /\ Row(i, outdated)
    /\ ledger'[Len(ledger')].req \in Threaded
    /\ Overtook({i})

Count(i) ==
    /\ Row(i, overtaken)
    /\ ledger'[Len(ledger')].req \notin Threaded
    /\ Missed({i})

Receive(i) ==
    /\ i \notin outdated => <<i, stock'[i] - stock[i]>> \in Receipts
    /\ stock' = [stock EXCEPT ![i] = stock'[i]]
    /\ UNCHANGED <<ledger, events>>
    /\ Overtook({i})

\* A push of a lot as a whole: what is recorded stays as it is, the rest is
\* taken from the stock as far as that goes.
Consume(l) ==
    \E use \in Pushes[l] :
        LET new == {i \in DOMAIN use : <<l, i>> \notin events}
            Left(i) == IF stock[i] > use[i] THEN stock[i] - use[i] ELSE 0
        IN
        /\ events' = events \cup {<<l, i>> : i \in DOMAIN use}
        /\ \A i \in Items \ new : stock'[i] = stock[i]
        /\ \A i \in new : stock'[i] >= 0 \/ stock'[i] = stock[i]
        /\ \A i \in new \ overtaken : stock'[i] = Left(i)
        /\ UNCHANGED ledger
        /\ Missed(new)

\* The gateway's stocks replace those of some items.
Overwrite ==
    /\ \A i \in Items : stock'[i] \in Upstream[i] \cup {stock[i]}
    /\ UNCHANGED <<ledger, events>>
    /\ Overtook({i \in Items : stock'[i] # stock[i]})

\* Requests that held an old stock are done with it.
End == Missed({}) /\ UNCHANGED <<stock, ledger, events>>

Next ==
    /\ stock' \in [Items -> Int]
    /\ \/ \E i \in Items : Adjust(i) \/ Count(i) \/ Receive(i)
       \/ \E l \in Lots : Consume(l)
       \/ Overwrite
       \/ End

Spec == Init /\ [][Next]_vars
=============================================================================
