--------------------------- MODULE Reconciliation ---------------------------
(***************************************************************************)
(* The reconciliation dashboard beside the pushes of AdjustmentSync: what  *)
(* GET /inventory/reconciliation tells of PackTrack's stock, of the last   *)
(* snapshot of Zoho's, and of the adjustments that are not synced.         *)
(*                                                                         *)
(* The page is built by queries on one session, and others commit          *)
(* between them; only the adjustments it has listed stay as they were      *)
(* loaded.  A snapshot is dated when it is recorded, not when it was read. *)
(*                                                                         *)
(* Items are seeded with Zoho's stock, which counts as 0 here.  What moves *)
(* a stock without an adjustment (consumption, shipments, sales in Zoho)   *)
(* is left out: the page shows it as a variance for good; so is the script *)
(* that overwrites it with Zoho's (sync_items_via_gateway.py).  The page's *)
(* lists of variances and of stale snapshots are left out, not the cards   *)
(* that count them: nothing on the page is computed from those lists.  So  *)
(* are sorting, search, product lines and the limit of 500 rows.           *)
(***************************************************************************)
EXTENDS AdjustmentSync, Integers

CONSTANTS
    Items,      \* items of the catalogue
    ItemOf,     \* the item an adjustment is about
    Delta       \* its quantity_delta

ASSUME DashboardAssumption ==
    /\ ItemOf \in [Adjs -> Items]
    /\ Delta \in [Adjs -> Int]
    /\ \A b \in Reversals :
         ItemOf[b] = ItemOf[OriginalOf[b]] /\ Delta[b] = -Delta[OriginalOf[b]]

VARIABLES
    snapshot,  \* last_zoho_stock_snapshot of the items that have one
    page,      \* the page being built
    advised    \* history: adjustments a page called done with, while no call
               \* was under way about them and Zoho did not have them

dashboard == <<snapshot, page, advised>>
allVars   == <<vars, dashboard>>

\* What a snapshot holds, and (history) what Zoho had applied when it was read.
Snapshots == [qty : Int, fresh : BOOLEAN, had : SUBSET Adjs]

Blocks == {"already_synced", "voided_locally", "reversed_locally", "reversal_of_unsynced", "none"}

\* Every page starts with nothing on it.
NoPage == [pc |-> "idle", listed |-> [a \in {} |-> "none"], voids |-> {}, quiet |-> {},
           ledger |-> {}, blocks |-> [a \in {} |-> "none"]]

DashboardTypeOK ==
    /\ TypeOK
    /\ DOMAIN snapshot \subseteq Items /\ snapshot \in [DOMAIN snapshot -> Snapshots]
    /\ \A i \in DOMAIN snapshot : snapshot[i].had \subseteq applied
    /\ page \in [pc : {"idle", "listed", "judged"},
                 listed : {page.listed}, voids : SUBSET Adjs, quiet : SUBSET Adjs,
                 ledger : SUBSET Adjs, blocks : {page.blocks}]
    /\ DOMAIN page.blocks \subseteq DOMAIN page.listed
    /\ DOMAIN page.listed \subseteq page.ledger
    /\ \A a \in DOMAIN page.listed : page.listed[a] \in Statuses
    /\ \A a \in DOMAIN page.blocks : page.blocks[a] \in Blocks
    /\ page.voids \subseteq voided /\ page.quiet \subseteq page.ledger
    /\ page.ledger \subseteq ledger
    /\ advised \subseteq ledger

DashboardInit ==
    /\ Init
    /\ snapshot = [i \in {} |-> 0]
    /\ page = NoPage
    /\ advised = {}

-----------------------------------------------------------------------------
(* Stocks and snapshots *)

\* The sum of the positive numbers in m, counted piece by piece.
Total(m) == Cardinality(UNION {{k} \X (1 .. m[k]) : k \in DOMAIN m})

\* What the adjustments in S have moved item i by, up and down.
Moved(S, i) ==
    LET about == {a \in S : ItemOf[a] = i} IN
    Total([a \in about |-> Delta[a]]) - Total([a \in about |-> -Delta[a]])

CurrentStock(i) == Moved(ledger, i)

\* sync_items commits what its pages told minutes ago, when Zoho lacked some
\* of what it has by now.  An item that came without a stock keeps its snapshot.
RecordSnapshot(S, had) ==
    /\ linked
    /\ S # {}
    /\ snapshot' = [i \in S \cup DOMAIN snapshot |->
                      IF i \in S THEN [qty |-> Moved(had, i), fresh |-> TRUE, had |-> had]
                      ELSE snapshot[i]]
    /\ UNCHANGED <<vars, page, advised>>

\* INVENTORY_RECONCILIATION_STALE_HOURS pass.
GrowStale(i) ==
    /\ i \in DOMAIN snapshot /\ snapshot[i].fresh
    /\ snapshot' = [snapshot EXCEPT ![i].fresh = FALSE]
    /\ UNCHANGED <<vars, page, advised>>

-----------------------------------------------------------------------------
(* Classes of items *)

\* zoho_stock_variance
Variance(i) == CurrentStock(i) - snapshot[i].qty

IsSnapshotStale(i) == i \in DOMAIN snapshot /\ ~snapshot[i].fresh

StaleRows == {i \in Items : i \notin DOMAIN snapshot \/ IsSnapshotStale(i)}

-----------------------------------------------------------------------------
(* Rows of adjustments *)

\* Mistaken variant: the transaction of a creation still under way is seen.
Uncommitted == {a \in Adjs : row[a].status # "SYNCED"}

\* Mistaken variant: only what has failed is listed.
FailedOnly == {a \in ledger : row[a].status = "FAILED"}

ExceptionRows == {a \in ledger : row[a].status # "SYNCED"}

\* The original of a reversal, as the page's session has it.
OriginalStatus(b) ==
    LET a == OriginalOf[b] IN
    IF a \in DOMAIN page.listed THEN page.listed[a] ELSE row[a].status

\* retry_eligibility, the first rule that matches; status and voided_at are
\* those of the rows as listed, the reversals are queried.
Eligibility(a) ==
    CASE page.listed[a] = "SYNCED" -> "already_synced"
      [] a \in page.voids         -> "voided_locally"
      [] Reversed(a)              -> "reversed_locally"
      [] OTHER -> IF a \in Reversals /\ OriginalStatus(a) # "SYNCED"
                  THEN "reversal_of_unsynced" ELSE "none"

\* recommended_exception_action
RecommendedAction(a, block) ==
    CASE block # "none"                              -> "no action"
      [] page.listed[a] = "NOT_CONFIGURED"           -> "check configuration"
      [] page.listed[a] = "SKIPPED"                  -> "link item"
      [] OTHER                                       -> "retry"

\* An adjustment with what it reverses and what reverses it.
Family(a) ==
    {a} \cup {b \in Reversals : OriginalOf[b] = a}
        \cup (IF a \in Reversals THEN {OriginalOf[a]} ELSE {})

\* No request is at work about it, here or at the service.
Quiet(a) == \A s \in Sessions : Target[s] \in Family(a) => pc[s] \in {"idle", "done"} /\ s \notin wire

-----------------------------------------------------------------------------
(* GET /inventory/reconciliation: build_dashboard *)

UnchangedButPage == UNCHANGED <<vars, snapshot>>

ListExceptions ==
    /\ page.pc = "idle"
    /\ page' = [page EXCEPT !.pc = "listed",
                            !.listed = [a \in ExceptionRows |-> row[a].status],
                            !.voids = voided \cap ExceptionRows,
                            !.ledger = ledger,
                            !.quiet = {a \in ledger : Quiet(a)}]
    /\ UnchangedButPage /\ UNCHANGED advised

JudgeExceptions ==
    LET blocks == [a \in DOMAIN page.listed |-> Eligibility(a)]
        closed == {a \in DOMAIN blocks : RecommendedAction(a, blocks[a]) = "no action"}
    IN
    /\ page.pc = "listed"
    /\ page' = [page EXCEPT !.pc = "judged", !.blocks = blocks, !.voids = {},
                            !.quiet = {}]
    /\ advised' = advised \cup {a \in closed : a \in page.quiet /\ Quiet(a) /\ a \notin applied}
    /\ UnchangedButPage

Listed(status) == Cardinality({a \in DOMAIN page.listed : page.listed[a] = status})

\* compute_summary: of the items as they are by now, and of the rows listed.
Summary ==
    LET differs == {i \in DOMAIN snapshot : Variance(i) # 0} IN
    [total_items              |-> Cardinality(Items),
     items_in_sync            |-> Cardinality(Items \ (StaleRows \cup differs)),
     items_with_variance      |-> Cardinality(differs),
     items_stale_or_missing   |-> Cardinality(StaleRows),
     failed_sync_rows         |-> Listed("FAILED"),
     pending_sync_rows        |-> Listed("PENDING"),
     not_configured_sync_rows |-> Listed("NOT_CONFIGURED"),
     skipped_sync_rows        |-> Listed("SKIPPED"),
     retryable_sync_rows      |->
        Cardinality({a \in DOMAIN page.blocks : page.blocks[a] = "none"}),
     blocked_sync_rows        |->
        Cardinality({a \in DOMAIN page.blocks : page.blocks[a] # "none"})]

\* Summary.exception_total
ExceptionTotal(s) ==
    s.failed_sync_rows + s.pending_sync_rows + s.not_configured_sync_rows + s.skipped_sync_rows

\* apply_filters: the rows a filter leaves of the exceptions; the cards stay.
Exceptions(filter) ==
    CASE filter = "none"           -> DOMAIN page.listed
      [] filter = "failed_only"    -> {a \in DOMAIN page.listed : page.listed[a] = "FAILED"}
      [] filter = "retryable_only" -> {a \in DOMAIN page.listed : page.blocks[a] = "none"}
      [] OTHER                     -> {}

\* The summary is computed last, and the page is sent.
Summarise ==
    /\ page.pc = "judged"
    /\ page' = NoPage
    /\ UnchangedButPage /\ UNCHANGED advised

\* The process restarts while the page is built.
Abandon ==
    /\ page.pc # "idle"
    /\ page' = NoPage
    /\ UNCHANGED <<vars, snapshot, advised>>

-----------------------------------------------------------------------------

DashboardNext ==
    \/ Next /\ UNCHANGED dashboard
    \/ \E i \in Items : GrowStale(i)
    \/ \E S \in SUBSET Items, had \in SUBSET applied : RecordSnapshot(S, had)
    \/ ListExceptions \/ JudgeExceptions \/ Summarise
    \/ Abandon

DashboardSpec == DashboardInit /\ [][DashboardNext]_allVars

-----------------------------------------------------------------------------
(* Properties *)

\* "No action" is final: an adjustment the page calls voided, compensated or
\* kept back with its original, when Zoho did not have it and no call about
\* it was under way, never gets to Zoho later, whoever retries what
\* (recommended_exception_action, rules 2 to 4 of retry_eligibility).
AdvisedStayOut == advised \cap applied = {}

\* The snapshots tell all that Zoho has by now, and the rows listed are all.
Undisturbed ==
    /\ ledger = page.ledger
    /\ \A i \in DOMAIN snapshot : snapshot[i].had = applied

\* Rows that no retry brings together again: voided ones, a reversal blocked
\* although Zoho has the original, applied after its call timed out, and two
\* reversals of one adjustment (nothing keeps an owner's script from a second).
BeyondRetry ==
    \E a \in DOMAIN page.listed :
        \/ a \in voided
        \/ page.blocks[a] = "reversal_of_unsynced" /\ OriginalOf[a] \in applied
        \/ \E b \in DOMAIN page.listed \ {a} :
              {a, b} \subseteq Reversals /\ OriginalOf[a] = OriginalOf[b]

\* A drift that PackTrack made can be worked off: when the cards count a
\* variance they count an exception, and retryable_only shows a row to retry,
\* although the page is put together while pushes, late answers and retries
\* go on (build_dashboard; "retryable_only").
DriftHasRemedy ==
    [][Summarise /\ Undisturbed /\ ~BeyondRetry /\ Summary.items_with_variance > 0 =>
         /\ ExceptionTotal(Summary) > 0
         /\ Exceptions("retryable_only") # {}]_allVars

-----------------------------------------------------------------------------
(* Inductive strengthening *)

\* An adjustment is submitted once, and a reversal has its original.
SubmittedOnce ==
    /\ \A s \in Submitters : Target[s] \in ledger => pc[s] # "idle"
    /\ \A b \in ledger \cap Reversals : OriginalOf[b] \in ledger

\* No call about it is under way; a retry may have loaded it.
AtRest(a) ==
    /\ a \in ledger
    /\ \A s \in Sessions : Target[s] = a =>
         /\ pc[s] \in {"idle", "loaded", "done"} /\ s \notin wire
         /\ s \in Submitters => pc[s] = "done"

\* A compensated adjustment that no retry gets to Zoho any more.
Dead(a) == AtRest(a) /\ Reversed(a) /\ row[a].status # "SYNCED"

\* Voided, also as the retries have it that loaded it.
KnownVoid(a) ==
    a \in voided /\ \A s \in Sessions : Target[s] = a /\ pc[s] = "loaded" => voidSeen[s]

\* No retry gets it to Zoho, for one of rules 2 to 4.
Barred(a) ==
    /\ AtRest(a)
    /\ \/ KnownVoid(a)
       \/ Reversed(a)
       \/ a \in Reversals /\ Dead(OriginalOf[a])

\* The page lists what was not synced, and a reversal it lists with its
\* original, both at rest, is kept back from then on.
PageSound ==
    page.pc = "listed" =>
        \A a \in DOMAIN page.listed :
            /\ a \in ledger /\ page.listed[a] # "SYNCED"
            /\ a \in page.quiet \cap Reversals /\ OriginalOf[a] \in DOMAIN page.listed =>
                  Dead(OriginalOf[a])

\* Nothing is judged before it is listed.
JudgedLast == page.pc # "judged" => DOMAIN page.blocks = {}

AdvisedSound == \A a \in advised : a \notin applied /\ Barred(a)

LedgerFinite == IsFiniteSet(ledger)

\* A snapshot tells what the adjustments Zoho had by then come to.
SnapshotsAddUp == \A i \in DOMAIN snapshot : snapshot[i].qty = Moved(snapshot[i].had, i)

\* Zoho has what the page left out as SYNCED.
ListedSound ==
    page.pc \in {"listed", "judged"} =>
        /\ page.ledger \ DOMAIN page.listed \subseteq applied
        /\ \A a \in DOMAIN page.listed : page.listed[a] # "SYNCED"

\* Every row listed is judged, and the reasons found against a retry remain.
ReasonsRemain ==
    page.pc = "judged" =>
        /\ DOMAIN page.blocks = DOMAIN page.listed
        /\ \A a \in DOMAIN page.blocks :
              \/ page.blocks[a] = "none"
              \/ page.blocks[a] = "voided_locally" /\ a \in voided
              \/ page.blocks[a] = "reversed_locally" /\ Reversed(a)
              \/ page.blocks[a] = "reversal_of_unsynced" /\ a \in Reversals
=============================================================================
