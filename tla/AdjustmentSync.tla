--------------------------- MODULE AdjustmentSync ---------------------------
(***************************************************************************)
(* Pushing inventory adjustments to Zoho through zoho-integration-service: *)
(* the push that follows a local commit, the owner's retries of it, and    *)
(* the gate in front of a retry (retry_eligibility).                       *)
(*                                                                         *)
(* A push is one HTTP call of at most 30 seconds.  The service may apply   *)
(* the adjustment long after the caller has given up, and its reply may be *)
(* lost; it applies an Idempotency-Key once.  Each request works on the    *)
(* attributes its session loaded before the call, and the commit that      *)
(* follows writes back the columns whose value differs from the loaded one.*)
(***************************************************************************)
EXTENDS Naturals, FiniteSets

CONSTANTS
    Adjs,        \* adjustments that may come to exist
    Reversals,   \* those that cancel another one
    OriginalOf,  \* the adjustment a reversal cancels
    Submitters,  \* requests that create an adjustment and push it
    Retriers,    \* POST /inventory/adjustments/{id}/sync
    Target,      \* the adjustment a request is about
    None         \* no value

Sessions == Submitters \cup Retriers
Statuses == {"NOT_CONFIGURED", "PENDING", "SYNCED", "FAILED", "SKIPPED"}

Outcomes == {"SYNCED", "NOT_CONFIGURED", "SKIPPED", "timeout", "refused"}

\* Which of the settings are set: all four, all but the brand, or too few.
Configs  == {"on", "no_brand", "off"}

ASSUME SyncAssumption ==
    /\ None \notin Outcomes
    /\ Submitters \cap Retriers = {}
    /\ Reversals \subseteq Adjs
    /\ OriginalOf \in [Reversals -> Adjs \ Reversals]
    /\ Target \in [Sessions -> Adjs]
    \* No route creates a reversal, and an adjustment is submitted once.
    /\ \A s \in Submitters : Target[s] \notin Reversals
    /\ \A s, t \in Submitters : Target[s] = Target[t] => s = t

VARIABLES
    ledger,    \* adjustments committed locally
    row,       \* the sync columns of each adjustment
    voided,    \* adjustments with voided_at set
    linked,    \* the items carry a zoho_item_id
    config,    \* settings the process started with
    pc,        \* how far a request is
    loaded,    \* the sync columns in a request's session
    linkSeen,  \* the item's link in a request's session
    voidSeen,  \* voided_at in a retry's session
    reply,     \* what the service answered a request
    wire,      \* requests whose HTTP call the service has not handled
    applied    \* adjustments Zoho has applied

vars == <<ledger, row, voided, linked, config, pc, loaded, linkSeen, voidSeen, reply,
          wire, applied>>
upstream == <<wire, applied>>
books    == <<ledger, voided, linked, config>>
session  == <<loaded, linkSeen, voidSeen, reply>>

Columns == [status: Statuses, attempts: Nat, error: {"none", "timeout", "refused", "unlinked"}]
PCs == {"idle", "created", "loaded", "eligible", "waiting", "answered", "done"}

TypeOK ==
    /\ ledger \subseteq Adjs
    /\ row \in [Adjs -> Columns]
    /\ voided \subseteq ledger
    /\ linked \in BOOLEAN
    /\ config \in Configs
    /\ pc \in [Sessions -> PCs]
    /\ loaded \in [Sessions -> Columns]
    /\ linkSeen \in [Sessions -> BOOLEAN] /\ voidSeen \in [Sessions -> BOOLEAN]
    /\ reply \in [Sessions -> Outcomes \cup {None}]
    /\ wire \subseteq Sessions
    /\ applied \subseteq ledger

Blank == [status |-> "NOT_CONFIGURED", attempts |-> 0, error |-> "none"]

Init ==
    /\ ledger = {}
    /\ row = [a \in Adjs |-> Blank]
    /\ voided = {}
    /\ linked \in BOOLEAN
    /\ config \in Configs
    /\ pc = [s \in Sessions |-> "idle"]
    /\ loaded = [s \in Sessions |-> Blank]
    /\ linkSeen = [s \in Sessions |-> FALSE]
    /\ voidSeen = [s \in Sessions |-> FALSE]
    /\ reply = [s \in Sessions |-> None]
    /\ wire = {}
    /\ applied = {}

-----------------------------------------------------------------------------
(* The row *)

\* enqueue_or_mark_adjustment_sync, whose check leaves the brand out.
Initial == [Blank EXCEPT !.status = IF config = "off" THEN "NOT_CONFIGURED" ELSE "PENDING"]

RecordUncommitted(a) ==  \* mistaken variant: the push before the commit
    /\ row' = [row EXCEPT ![a] = Initial]
    /\ UNCHANGED ledger

Record(a) ==
    /\ ledger' = ledger \cup {a}
    /\ row' = [row EXCEPT ![a] = Initial]

\* create_adjustment commits the row.
Submit(s) ==
    /\ s \in Submitters
    /\ pc[s] = "idle"
    /\ Record(Target[s])
    /\ pc' = [pc EXCEPT ![s] = "created"]
    /\ UNCHANGED <<voided, linked, config, loaded, linkSeen, voidSeen, reply, upstream>>

\* The owner compensates an adjustment from a script: create_adjustment with
\* reversal_of_adjustment_id, no push.
Reverse(a) ==
    /\ a \in Reversals \ ledger
    /\ OriginalOf[a] \in ledger
    /\ Record(a)
    /\ UNCHANGED <<voided, linked, config, pc, loaded, linkSeen, voidSeen, reply, upstream>>

\* An adjustment is marked void in the database.
Void(a) ==
    /\ a \in ledger \ voided
    /\ voided' = voided \cup {a}
    /\ UNCHANGED <<ledger, row, linked, config, pc, loaded, linkSeen, voidSeen, reply, upstream>>

\* The item sync learns the item's zoho_item_id.
Link ==
    /\ ~linked
    /\ linked' = TRUE
    /\ UNCHANGED <<ledger, row, voided, config, pc, loaded, linkSeen, voidSeen, reply, upstream>>

\* The process restarts, perhaps with other settings; calls on the wire stay.
Restart ==
    /\ \E s \in Sessions : pc[s] \notin {"idle", "done"}
    /\ config' \in Configs
    /\ pc' = [s \in Sessions |-> IF pc[s] = "idle" THEN "idle" ELSE "done"]
    /\ loaded' = [s \in Sessions |-> Blank]
    /\ linkSeen' = [s \in Sessions |-> FALSE]
    /\ voidSeen' = [s \in Sessions |-> FALSE]
    /\ reply' = [s \in Sessions |-> None]
    /\ UNCHANGED <<ledger, row, voided, linked, upstream>>

-----------------------------------------------------------------------------
(* A request *)

\* The response is sent and the session closed.
Finish(s) ==
    /\ pc' = [pc EXCEPT ![s] = "done"]
    /\ loaded' = [loaded EXCEPT ![s] = Blank]
    /\ linkSeen' = [linkSeen EXCEPT ![s] = FALSE]
    /\ voidSeen' = [voidSeen EXCEPT ![s] = FALSE]
    /\ reply' = [reply EXCEPT ![s] = None]

\* session.refresh after the creating commit, session.get in the retry route;
\* only the retry judges what it has loaded of voided_at.
Load(s) ==
    /\ \/ pc[s] = "created" /\ pc' = [pc EXCEPT ![s] = "eligible"]
       \/ /\ s \in Retriers
          /\ pc[s] = "idle"
          /\ Target[s] \in ledger
          /\ pc' = [pc EXCEPT ![s] = "loaded"]
    /\ loaded' = [loaded EXCEPT ![s] = row[Target[s]]]
    /\ linkSeen' = [linkSeen EXCEPT ![s] = linked]
    /\ voidSeen' = [voidSeen EXCEPT ![s] = s \in Retriers /\ Target[s] \in voided]
    /\ UNCHANGED <<books, row, reply, upstream>>

Reversed(a) == \E b \in ledger \cap Reversals : OriginalOf[b] = a

\* Mistaken variants: rules 3 and 4 of the gate left out.
IgnoringReversals(s) ==
    \/ loaded[s].status = "SYNCED"
    \/ voidSeen[s]
    \/ Target[s] \in Reversals /\ row[OriginalOf[Target[s]]].status # "SYNCED"

IgnoringOriginals(s) ==
    \/ loaded[s].status = "SYNCED"
    \/ voidSeen[s]
    \/ Reversed(Target[s])

\* retry_eligibility: the four rules, each a reason to refuse with 409.  Status
\* and voided_at are those of the row as loaded, the other rows are queried.
Blocked(s) ==
    \/ loaded[s].status = "SYNCED"
    \/ voidSeen[s]
    \/ Reversed(Target[s])
    \/ Target[s] \in Reversals /\ row[OriginalOf[Target[s]]].status # "SYNCED"

CheckEligible(s) ==
    /\ pc[s] = "loaded"
    /\ IF Blocked(s)
       THEN Finish(s)
       ELSE pc' = [pc EXCEPT ![s] = "eligible"] /\ UNCHANGED session
    /\ UNCHANGED <<books, row, upstream>>

\* try_sync_adjustment and push_adjustment_to_zoho, up to the call: nothing to
\* do, settings incomplete, item not linked, or the request goes out.
Push(s) ==
    /\ pc[s] = "eligible"
    /\ \/ /\ loaded[s].status = "SYNCED"
          /\ Finish(s)
          /\ UNCHANGED wire
       \/ /\ loaded[s].status # "SYNCED"
          /\ config # "on" \/ ~linkSeen[s]
          /\ reply' = [reply EXCEPT ![s] = IF config # "on" THEN "NOT_CONFIGURED" ELSE "SKIPPED"]
          /\ pc' = [pc EXCEPT ![s] = "answered"]
          /\ UNCHANGED <<loaded, linkSeen, voidSeen, wire>>
       \/ /\ loaded[s].status # "SYNCED"
          /\ config = "on" /\ linkSeen[s]
          /\ wire' = wire \cup {s}
          /\ pc' = [pc EXCEPT ![s] = "waiting"]
          /\ UNCHANGED session
    /\ UNCHANGED <<books, row, applied>>

\* No answer in time, or the connection broke.
Timeout(s) ==
    /\ pc[s] = "waiting"
    /\ reply' = [reply EXCEPT ![s] = "timeout"]
    /\ pc' = [pc EXCEPT ![s] = "answered"]
    /\ UNCHANGED <<books, row, loaded, linkSeen, voidSeen, upstream>>

\* _interpret_response: only a 200 whose body says ok counts.
Interpreted(ok) == IF ok THEN "SYNCED" ELSE "refused"

\* The service handles a call, late or not; it may refuse it.  Only a caller
\* still waiting hears of it.
Serve(s) ==
    /\ s \in wire
    /\ wire' = wire \ {s}
    /\ \E ok \in BOOLEAN :
         /\ applied' = IF ok THEN applied \cup {Target[s]} ELSE applied
         /\ IF pc[s] = "waiting"
            THEN /\ reply' = [reply EXCEPT ![s] = Interpreted(ok)]
                 /\ pc' = [pc EXCEPT ![s] = "answered"]
            ELSE UNCHANGED <<reply, pc>>
    /\ UNCHANGED <<books, row, loaded, linkSeen, voidSeen>>

\* Mistaken variant: no answer taken for a good one.
TimeoutAsSynced(outcome) == IF outcome = "refused" THEN "FAILED" ELSE "SYNCED"

\* SyncOutcome.to_status; a timeout and a refusal are both FAILED.
ToStatus(outcome) == IF outcome \in {"timeout", "refused"} THEN "FAILED" ELSE outcome

\* The columns an outcome leaves in the session; NOT_CONFIGURED is no attempt.
After(columns, outcome) ==
    IF outcome = "NOT_CONFIGURED"
    THEN [columns EXCEPT !.status = "NOT_CONFIGURED"]
    ELSE [status   |-> ToStatus(outcome),
          attempts |-> columns.attempts + 1,
          error    |-> CASE outcome = "SYNCED" -> "none"
                         [] outcome = "SKIPPED" -> "unlinked"
                         [] OTHER -> outcome]

\* Mistaken variant: the whole row written back.
WholeRow(current, old, new) == new

\* An UPDATE names the columns that differ from what the session loaded.
Merge(current, old, new) ==
    [c \in DOMAIN new |-> IF new[c] = old[c] THEN current[c] ELSE new[c]]

\* _persist_outcome.
Persist(s) ==
    LET a == Target[s]
        new == After(loaded[s], reply[s])
    IN
    /\ pc[s] = "answered"
    /\ row' = [row EXCEPT ![a] = Merge(@, loaded[s], new)]
    /\ Finish(s)
    /\ UNCHANGED <<books, upstream>>

-----------------------------------------------------------------------------

Handle(s) == Load(s) \/ CheckEligible(s) \/ Push(s) \/ Timeout(s) \/ Persist(s)

Next ==
    \/ \E s \in Sessions : Submit(s) \/ Handle(s) \/ Serve(s)
    \/ \E a \in Adjs : Reverse(a) \/ Void(a)
    \/ Link
    \/ Restart

Spec == Init /\ [][Next]_vars

-----------------------------------------------------------------------------
(* Properties *)

\* A row that says SYNCED is in Zoho, whatever the order of late replies,
\* timeouts, retries and restarts (the outcome of another call never shows up
\* as success).
SyncedIsApplied == \A a \in Adjs : row[a].status = "SYNCED" => a \in applied

\* Zoho never carries a reversal without the adjustment it cancels, although
\* the gate reads the original's status and the call is served any time later
\* (retry_eligibility, rule 4).
NoLoneReversal == \A a \in Reversals : a \in applied => OriginalOf[a] \in applied

\* A late failure of a request that found the row FAILED does not take a
\* SYNCED row back: the status it writes is the one it loaded.  Only requests
\* that found the row in another status, or that never reached the service,
\* undo SYNCED.
FailedRetryKeepsSynced ==
    [][\A s \in Sessions :
          /\ reply[s] \in {"timeout", "refused"}
          /\ loaded[s].status = "FAILED" /\ row[Target[s]].status = "SYNCED"
          /\ Persist(s)
          => row'[Target[s]].status = "SYNCED"]_vars

-----------------------------------------------------------------------------
(* Inductive strengthening *)

\* A request under way, here or upstream, is about a committed adjustment, and
\* one that was answered has an outcome.
Begun ==
    \A s \in Sessions :
        /\ pc[s] \notin {"idle", "done"} \/ s \in wire => Target[s] \in ledger
        /\ pc[s] = "created" => s \in Submitters
        /\ pc[s] = "answered" => reply[s] \in Outcomes

\* Success is reported of applied adjustments only, and a reversal is pushed
\* on the word of an original that is applied.
ReportedIsApplied ==
    /\ \A s \in Sessions : loaded[s].status = "SYNCED" => Target[s] \in applied
    /\ \A s \in Sessions : reply[s] = "SYNCED" => Target[s] \in applied

OriginalFirst ==
    \A s \in Sessions :
        Target[s] \in Reversals /\ (pc[s] = "eligible" \/ s \in wire)
            => OriginalOf[Target[s]] \in applied

SyncInv == SyncedIsApplied /\ NoLoneReversal /\ ReportedIsApplied /\ OriginalFirst

=============================================================================
