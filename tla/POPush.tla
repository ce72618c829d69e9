------------------------------- MODULE POPush -------------------------------
(***************************************************************************)
(* Purchase orders on their way to Zoho, and Zoho's orders on their way    *)
(* back.  An order is pushed right after its creation, on the event loop,  *)
(* and by a retry job on a scheduler thread; the Zoho sync adopts every    *)
(* Zoho order that no purchase order is linked to.                         *)
(*                                                                         *)
(* push_po loads the order, and the lazy load of its lines flushes         *)
(* push_attempted_at: the UPDATE holds the order's row until the commit    *)
(* that ends the push, through the whole call to Zoho.  A second pusher of *)
(* the same order has loaded it by then, waits for the row and sends what  *)
(* it loaded.  Zoho is not asked whether it has the order already.         *)
(*                                                                         *)
(* Zoho's orders are numbered in the order Zoho creates them, and that     *)
(* number stands for the id and for the purchaseorder_number.              *)
(***************************************************************************)
EXTENDS Integers, Sequences, FiniteSets

CONSTANTS
    Orders,      \* orders owners will create
    Hopeless,    \* those without a line whose item has a Zoho id
    Jobs,        \* scheduler processes, one retry job each
    Main,        \* the process that also serves the owners' requests
    Web,         \* the event loop
    Window,      \* orders a retry run takes at most (limit = 10)
    MaxMishaps,  \* bound: lost or garbled replies, rolled back runs
    None

Pushers == Jobs \cup {Web}

ASSUME PushAssumption ==
    /\ Hopeless \subseteq Orders
    /\ Main \in Jobs
    /\ Web \notin Jobs
    /\ None \notin Pushers
    /\ Window \in Nat \ {0}
    /\ MaxMishaps \in Nat

VARIABLES
    book,       \* created orders, oldest first
    cancelled,  \* orders moved to CANCELLED
    zid,        \* zoho_po_id of an order, 0 for NULL
    number,     \* the Zoho number an order carries, 0 for its own PT- number
    status,     \* push_status
    zoho,       \* Zoho's orders: the order each was created for
    unnumbered, \* history: those whose reply brought an id and no number
    adopted,    \* Zoho orders with a purchase order made from the mirror
    scan,       \* mirror rows the running catch-up still has to look at
    pc,         \* how far a pusher is
    todo,       \* orders a pusher has before it, the current one first
    known,      \* the current order as the pusher's session loaded it
    reply,      \* what the call to Zoho brought back
    row,        \* the pusher whose transaction holds an order's row
    jobLock,    \* the process that holds push-retry.lock
    mishap,     \* history: what went wrong with an order's pushes
    mishaps     \* number of mishaps so far

orders == <<book, cancelled>>
links  == <<zid, number, status>>
sync   == <<adopted, scan>>
vars   == <<orders, links, zoho, unnumbered, sync, pc, todo, known, reply, row, jobLock,
            mishap, mishaps>>

Ids     == 1 .. Len(zoho)
Created == {book[i] : i \in DOMAIN book}
Unknown == [zid |-> 0, number |-> 0, status |-> "none"]
Failure == [ok |-> FALSE, id |-> 0, num |-> 0]

Current(p) == Head(todo[p])
Has(p, o)  == pc[p] \in {"loaded", "waiting", "answered"} /\ Current(p) = o

TypeOK ==
    /\ book \in Seq(Orders)
    /\ cancelled \subseteq Created
    /\ zid \in [Orders -> Ids \cup {0}]
    /\ number \in [Orders -> Ids \cup {0}]
    /\ status \in [Orders -> {"none", "success", "failed"}]
    /\ zoho \in Seq(Orders)
    /\ unnumbered \subseteq Ids
    /\ adopted \subseteq Ids
    /\ scan \subseteq Ids
    /\ pc \in [Pushers -> {"idle", "next", "loaded", "waiting", "answered"}]
    /\ todo \in [Pushers -> Seq(Orders)]
    /\ \A p \in Pushers : (pc[p] = "idle") <=> (todo[p] = <<>>)
    /\ known \in [Pushers -> [zid : Ids \cup {0}, number : Ids \cup {0},
                              status : {"none", "success", "failed"}]]
    /\ reply \in [Pushers -> [ok : BOOLEAN, id : Ids \cup {0}, num : Ids \cup {0}]]
    /\ row \in [Orders -> Pushers \cup {None}]
    /\ jobLock \in Jobs \cup {None}
    /\ \A j \in Jobs : jobLock = j <=> pc[j] # "idle"
    /\ mishap \in [Orders -> SUBSET {"lost", "garbled", "overlap"}]
    /\ mishaps \in 0 .. MaxMishaps

Init ==
    /\ book = <<>>
    /\ cancelled = {}
    /\ zid = [o \in Orders |-> 0]
    /\ number = [o \in Orders |-> 0]
    /\ status = [o \in Orders |-> "none"]
    /\ zoho = <<>>
    /\ unnumbered = {}
    /\ adopted = {}
    /\ scan = {}
    /\ pc = [p \in Pushers |-> "idle"]
    /\ todo = [p \in Pushers |-> <<>>]
    /\ known = [p \in Pushers |-> Unknown]
    /\ reply = [p \in Pushers |-> Failure]
    /\ row = [o \in Orders |-> None]
    /\ jobLock = None
    /\ mishap = [o \in Orders |-> {}]
    /\ mishaps = 0

---------------------------------------------------------------------------
(* Starting a push, and loading the order it is at.                        *)

\* p's session loads order o, and p goes on with the orders os.  The push
\* at creation and a retry run overlap when both have loaded the order.
LoadFirstOf(p, os) ==
    LET o == Head(os) IN
    /\ todo' = [todo EXCEPT ![p] = os]
    /\ known' = [known EXCEPT ![p] = [zid |-> zid[o], number |-> number[o],
                                      status |-> status[o]]]
    /\ pc' = [pc EXCEPT ![p] = "loaded"]
    /\ mishap' = IF \E q \in Pushers \ {p} : Has(q, o) /\ Web \in {p, q}
                 THEN [mishap EXCEPT ![o] = @ \cup {"overlap"}]
                 ELSE mishap

\* POST /po/new: the order is committed before its push starts.
Create(o) ==
    /\ pc[Web] = "idle"
    /\ o \notin Created
    /\ book' = Append(book, o)
    /\ pc' = [pc EXCEPT ![Web] = "next"]
    /\ todo' = [todo EXCEPT ![Web] = <<o>>]
    /\ UNCHANGED <<cancelled, links, zoho, unnumbered, sync, known, reply, row, jobLock,
                   mishap, mishaps>>

\* The first orders of the book at `places`, as many as a run takes.
Oldest(places) ==
    LET n == Cardinality(places)
        Place(i) == Cardinality({j \in places : j <= i})
    IN  [m \in 1 .. IF n < Window THEN n ELSE Window |-> book[CHOOSE i \in places : Place(i) = m]]

\* Mistaken variant: a retry run takes only orders no push has failed on.
NeverFailed ==
    Oldest({i \in DOMAIN book :
        zid[book[i]] = 0 /\ status[book[i]] # "failed" /\ book[i] \notin cancelled})

\* The rows a retry run selects.
Unpushed == Oldest({i \in DOMAIN book : zid[book[i]] = 0 /\ book[i] \notin cancelled})

\* Mistaken variant: the job runs without its file lock.
NoJobLock == TRUE

JobLockFree == jobLock = None

\* The retry job takes its file lock and selects its orders.
StartJob(j) ==
    /\ pc[j] = "idle"
    /\ JobLockFree
    /\ Unpushed # <<>>
    /\ jobLock' = j
    /\ LoadFirstOf(j, Unpushed)
    /\ UNCHANGED <<orders, links, zoho, unnumbered, sync, reply, row, mishaps>>

\* The commit of the previous push expired the order: it is read again.
Load(p) ==
    /\ pc[p] = "next"
    /\ LoadFirstOf(p, todo[p])
    /\ UNCHANGED <<orders, links, zoho, unnumbered, sync, reply, row, jobLock, mishaps>>

---------------------------------------------------------------------------
(* One push.                                                               *)

\* The value of a column after a commit: a column set to the value that was
\* loaded is not written.
Merged(column, o, loaded, value) ==
    IF value = loaded THEN column ELSE [column EXCEPT ![o] = value]

\* The commit that ends p's push of its current order.
Commit(p, id, num, result) ==
    LET o == Current(p) IN
    /\ zid' = Merged(zid, o, known[p].zid, id)
    /\ number' = Merged(number, o, known[p].number, num)
    /\ status' = Merged(status, o, known[p].status, result)
    /\ row' = [row EXCEPT ![o] = None]
    /\ todo' = [todo EXCEPT ![p] = Tail(@)]
    /\ pc' = [pc EXCEPT ![p] = IF Len(todo[p]) = 1 THEN "idle" ELSE "next"]
    /\ jobLock' = IF jobLock = p /\ Len(todo[p]) = 1 THEN None ELSE jobLock
    /\ known' = [known EXCEPT ![p] = Unknown]
    /\ reply' = [reply EXCEPT ![p] = Failure]
    /\ UNCHANGED <<orders, zoho, unnumbered, sync, mishap, mishaps>>

AtFreeRow(p) == pc[p] = "loaded" /\ row[Current(p)] = None

\* The order was linked when it was loaded.
AlreadyLinked(p) ==
    /\ AtFreeRow(p)
    /\ known[p].zid # 0
    /\ Commit(p, known[p].zid, known[p].number, "success")

\* No line of the order has an item Zoho knows.
NothingToSend(p) ==
    /\ AtFreeRow(p)
    /\ known[p].zid = 0
    /\ Current(p) \in Hopeless
    /\ Commit(p, known[p].zid, known[p].number, "failed")

\* The flush takes the row and the request goes out.
Send(p) ==
    /\ AtFreeRow(p)
    /\ known[p].zid = 0
    /\ Current(p) \notin Hopeless
    /\ row' = [row EXCEPT ![Current(p)] = p]
    /\ pc' = [pc EXCEPT ![p] = "waiting"]
    /\ UNCHANGED <<orders, links, zoho, unnumbered, sync, todo, known, reply, jobLock,
                   mishap, mishaps>>

Return(p, r) ==
    /\ pc[p] = "waiting"
    /\ reply' = [reply EXCEPT ![p] = r]
    /\ pc' = [pc EXCEPT ![p] = "answered"]
    /\ UNCHANGED <<orders, links, sync, todo, known, row, jobLock>>

New(p) == zoho' = Append(zoho, Current(p))

Mishap(o, kind) ==
    /\ mishaps < MaxMishaps
    /\ mishaps' = mishaps + 1
    /\ mishap' = [mishap EXCEPT ![o] = @ \cup {kind}]

\* Zoho creates the order and answers with its id and, as a rule, its number.
Answer(p) ==
    LET new == Len(zoho) + 1 IN
    /\ \E num \in {0, new} :
         /\ Return(p, [ok |-> TRUE, id |-> new, num |-> num])
         /\ unnumbered' = IF num = 0 THEN unnumbered \cup {new} ELSE unnumbered
    /\ New(p)
    /\ UNCHANGED <<mishap, mishaps>>

\* Zoho answers with an error, or cannot be reached.
Refuse(p) ==
    /\ Return(p, Failure)
    /\ UNCHANGED <<zoho, unnumbered, mishap, mishaps>>

\* Zoho creates the order and the reply is lost or comes after the timeout.
Lose(p) ==
    /\ Return(p, Failure)
    /\ New(p)
    /\ Mishap(Current(p), "lost")
    /\ UNCHANGED unnumbered

\* Zoho creates the order and the reply has no purchaseorder_id.
Garble(p) ==
    /\ \E num \in {0, Len(zoho) + 1} :
            Return(p, [ok |-> TRUE, id |-> 0, num |-> num])
    /\ New(p)
    /\ Mishap(Current(p), "garbled")
    /\ UNCHANGED unnumbered

\* Another purchase order has number n.
Taken(n, o) == n \in adopted \/ \E x \in Created \ {o} : number[x] = n

\* Mistaken variant: only an order's first push adopts the number.
AgreedOnFirstPush(p, n) ==
    IF n = 0 \/ Taken(n, Current(p)) \/ known[p].status = "failed"
    THEN known[p].number ELSE n

\* The number an order carries once Zoho has answered with n.
Agreed(p, n) ==
    IF n = 0 \/ Taken(n, Current(p)) THEN known[p].number ELSE n

PushOk(p) ==
    /\ pc[p] = "answered" /\ reply[p].ok
    /\ Commit(p, reply[p].id, Agreed(p, reply[p].num), "success")

PushFailed(p) ==
    /\ pc[p] = "answered" /\ ~reply[p].ok
    /\ Commit(p, known[p].zid, known[p].number, "failed")

\* The runs of the pushers in P end: their transactions are rolled back, their
\* locks freed, and what Zoho has answered them is lost.
RollBack(P) ==
    /\ mishaps < MaxMishaps
    /\ mishaps' = mishaps + 1
    /\ mishap' = [o \in Orders |->
            IF \E p \in P : Has(p, o) /\ pc[p] = "answered" /\ reply[p].ok
            THEN mishap[o] \cup {"lost"} ELSE mishap[o]]
    /\ pc' = [p \in Pushers |-> IF p \in P THEN "idle" ELSE pc[p]]
    /\ todo' = [p \in Pushers |-> IF p \in P THEN <<>> ELSE todo[p]]
    /\ known' = [p \in Pushers |-> IF p \in P THEN Unknown ELSE known[p]]
    /\ reply' = [p \in Pushers |-> IF p \in P THEN Failure ELSE reply[p]]
    /\ row' = [o \in Orders |-> IF row[o] \in P THEN None ELSE row[o]]
    /\ jobLock' = IF jobLock \in P THEN None ELSE jobLock
    /\ UNCHANGED <<orders, links, zoho, unnumbered, sync>>

\* The number was adopted after the look-up had found it free: po_number is
\* UNIQUE, the commit raises and ends the run or the request.
PushCollides(p) ==
    /\ pc[p] = "answered" /\ reply[p].ok
    /\ reply[p].num # 0 /\ Taken(reply[p].num, Current(p))
    /\ RollBack({p})

\* A process dies.
Runs(q) == IF q = Main THEN {Main, Web} ELSE {q}

Crash(q) ==
    /\ \E p \in Runs(q) : pc[p] # "idle"
    /\ RollBack(Runs(q))

---------------------------------------------------------------------------
(* The other writers of an order.                                          *)

\* POST /po/{id}/move to CANCELLED, on the event loop.
Cancel(o) ==
    /\ pc[Web] = "idle"
    /\ o \in Created \ cancelled
    /\ row[o] = None
    /\ cancelled' = cancelled \cup {o}
    /\ UNCHANGED <<book, links, zoho, unnumbered, sync, pc, todo, known, reply, row,
                   jobLock, mishap, mishaps>>

\* The catch-up reads the mirror: some of the orders Zoho has had so far.
Snapshot ==
    /\ scan = {}
    /\ scan' \in SUBSET Ids \ {{}}
    /\ UNCHANGED <<orders, links, zoho, unnumbered, adopted, pc, todo, known, reply, row,
                   jobLock, mishap, mishaps>>

HoldersOf(k) == {o \in Created : number[o] = k}
IsLinked(k)  == k \in adopted \/ \E o \in Created : zid[o] = k

Looked(k) == scan' = scan \ {k}
ScanOnly  == UNCHANGED <<orders, number, status, zoho, unnumbered, pc, todo, known, reply,
                         row, jobLock, mishap, mishaps>>

\* Some purchase order is linked to Zoho order k.
SkipLinked(k) ==
    /\ IsLinked(k)
    /\ Looked(k)
    /\ ScanOnly /\ UNCHANGED <<zid, adopted>>

\* An unlinked order carries k's number: it becomes k's order.
LinkByNumber(k) ==
    /\ ~IsLinked(k)
    /\ \E o \in HoldersOf(k) :
            /\ zid[o] = 0
            /\ row[o] = None
            /\ zid' = [zid EXCEPT ![o] = k]
    /\ Looked(k)
    /\ ScanOnly /\ UNCHANGED adopted

\* No purchase order has k's number: one is made.
Adopt(k) ==
    /\ ~IsLinked(k)
    /\ HoldersOf(k) = {}
    /\ adopted' = adopted \cup {k}
    /\ Looked(k)
    /\ ScanOnly /\ UNCHANGED zid

\* An order linked elsewhere has k's number: po_number is UNIQUE, the insert
\* raises and ends the whole catch-up.
AdoptionCollides(k) ==
    /\ ~IsLinked(k)
    /\ \E o \in HoldersOf(k) : zid[o] # 0
    /\ scan' = {}
    /\ ScanOnly /\ UNCHANGED <<zid, adopted>>

---------------------------------------------------------------------------

CatchUp(k) == SkipLinked(k) \/ LinkByNumber(k) \/ Adopt(k) \/ AdoptionCollides(k)

Step(p) ==
    \/ Load(p)
    \/ AlreadyLinked(p)
    \/ NothingToSend(p)
    \/ Send(p)
    \/ PushOk(p)
    \/ PushFailed(p)

Zoho(p) == Answer(p) \/ Refuse(p) \/ Lose(p) \/ Garble(p)

Next ==
    \/ \E o \in Orders : Create(o) \/ Cancel(o)
    \/ \E j \in Jobs : StartJob(j) \/ Crash(j)
    \/ \E p \in Pushers : Step(p) \/ Zoho(p) \/ PushCollides(p)
    \/ Snapshot
    \/ \E k \in scan : CatchUp(k)

Spec == Init /\ [][Next]_vars

\* The scheduler runs the retry job every few minutes, a push goes on by
\* itself, the HTTP client gives up after its timeout, and Zoho does not
\* refuse forever.
FairSpec ==
    /\ Spec
    /\ WF_vars(\E j \in Jobs : StartJob(j))
    /\ \A p \in Pushers : WF_vars(Step(p)) /\ WF_vars(Zoho(p))
    /\ SF_vars(\E p \in Pushers : Answer(p))

---------------------------------------------------------------------------
(* Properties *)

Made(o) == {k \in Ids : zoho[k] = o}

\* Zoho gets an order once, unless the push at creation and a retry run had
\* both loaded it (then twice), or a reply got lost, on its way or with the run
\* that was rolled back after it: one retry run never sends
\* what an earlier one, a window selected long ago or a sync has settled.
ZohoOrdersExplained ==
    \A o \in Orders :
        mishap[o] \subseteq {"overlap"} =>
            Cardinality(Made(o)) <= 1 + Cardinality(mishap[o])

\* A linked order is linked to a Zoho order made for it.  It carries that
\* order's number ("so both systems agree"), unless the reply left the number
\* out, a purchase order adopted meanwhile has it, or a reply without an id
\* renamed the order.
NumbersAgree(o) ==
    zid[o] # 0 =>
        /\ zoho[zid[o]] = o
        /\ \/ number[o] = zid[o] \/ "garbled" \in mishap[o]
           \/ zid[o] \in unnumbered \cup adopted

\* push_status, which the owner sees, says "success" for the linked orders
\* and for no others: a failed push never overwrites the link or the status
\* another push or the sync has settled.
StatusTellsLink(o) ==
    mishap[o] \subseteq {"lost"} => (status[o] = "success" <=> zid[o] # 0)

\* What an order says of its life in Zoho, its link, its number and its
\* push_status, is what became of it there, however pushes, replies and the
\* sync interleave (push_po, adopt_zoho_po).
BookAgrees == \A o \in Created : NumbersAgree(o) /\ StatusTellsLink(o)

\* Every order with something to send gets its link or is cancelled, as long
\* as fewer orders than a retry run takes have nothing to send.
EventuallyLinked ==
    \A o \in Orders \ Hopeless :
        o \in Created ~> (zid[o] # 0 \/ o \in cancelled)

---------------------------------------------------------------------------
(* Inductive strengthening *)

\* Who waits for Zoho or has its answer holds the order's row, and had loaded
\* the order unlinked.
RowsHeld ==
    \A p \in Pushers : pc[p] \in {"waiting", "answered"} => row[Current(p)] = p /\ known[p].zid = 0

\* An answer names a Zoho order made for the order, whose number the order did
\* not carry when it was loaded.
AnswerIsTheirs(p) ==
    LET r == reply[p] IN
    /\ r.id # 0 => zoho[r.id] = Current(p) /\ (r.num = r.id \/ (r.num = 0 /\ r.id \in unnumbered))
    /\ r.num # 0 => zoho[r.num] = Current(p) /\ known[p].number # r.num
    /\ r.id = 0 => "garbled" \in mishap[Current(p)]

AnswersAreTheirs == \A p \in Pushers : pc[p] = "answered" /\ reply[p].ok => AnswerIsTheirs(p)

\* The Zoho number of an order is one of a Zoho order made for it, and comes
\* with the link.
NumberIsTheirs(o) ==
    number[o] # 0 => zoho[number[o]] = o /\ (zid[o] # 0 \/ "garbled" \in mishap[o])

\* Two pushers at one order is an overlap; a pusher alone at it has loaded what
\* the order still says.
AloneKnows(o) ==
    /\ "overlap" \notin mishap[o] => \A p, q \in Pushers : Has(p, o) /\ Has(q, o) => p = q
    /\ mishap[o] \subseteq {"lost"} => \A p \in Pushers : Has(p, o) =>
         known[p] = [zid |-> zid[o], number |-> number[o], status |-> status[o]]

\* Pushers that may still make a Zoho order for o.
Sending(o) == {p \in Pushers : Has(p, o) /\ pc[p] # "answered" /\ known[p].zid = 0}

\* The orders made for o and those still to come; while o has no link at most
\* one was made, and its answer is on the way to the commit.
MadeBounded(o) ==
    mishap[o] \subseteq {"overlap"} =>
        /\ Cardinality(Made(o)) + Cardinality(Sending(o)) <= 1 + Cardinality(mishap[o])
        /\ zid[o] = 0 =>
             \/ Made(o) = {}
             \/ /\ Cardinality(Made(o)) = 1
                /\ \E p \in Pushers : pc[p] = "answered" /\ reply[p].ok /\ Current(p) = o

OrderSound(o) ==
    NumbersAgree(o) /\ StatusTellsLink(o) /\ NumberIsTheirs(o) /\ AloneKnows(o) /\ MadeBounded(o)

OrdersSound == \A o \in Orders : OrderSound(o)
=============================================================================
