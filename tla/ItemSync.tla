------------------------------ MODULE ItemSync ------------------------------
(***************************************************************************)
(* The master data of one item: edited by owners in PackTrack, pushed to   *)
(* Zoho by the integration service, and overwritten by the inbound sync.   *)
(*                                                                         *)
(* Name, unit and description travel together and are one name here; the   *)
(* Zoho-only fields (brand, category, custom fields) are the field "other" *)
(* of a form, which PackTrack does not store.  The reorder level is        *)
(* PackTrack's once an owner has set it.  The other thresholds, the stock  *)
(* snapshot (never the stock), vendor, SKU and image are left out.         *)
(*                                                                         *)
(* A commit writes the columns that differ from the row its session        *)
(* loaded, and no others; of that row a session here keeps the columns it  *)
(* may write.  The edit form's handler runs on the event loop, retries and *)
(* inline edits on threads, the sync in the scheduler's job.               *)
(***************************************************************************)
EXTENDS Naturals, FiniteSets

CONSTANTS
    Names,    \* of the item
    None,     \* no name or level: unchanged, not in a reply, not known
    Levels,   \* reorder levels
    ZohoLevel, \* Zoho's reorder level; bound: it does not change
    Edits,    \* posts of the edit form
    Retries,  \* posts of "Retry sync"
    Inlines,  \* posts of the inline row editor
    MaxAtWork \* bound: requests at work at a time

Requests == Edits \cup Retries \cup Inlines

ASSUME ItemSyncAssumption ==
    /\ None \notin Names \cup Levels
    /\ Edits \cap (Retries \cup Inlines) = {}
    /\ Retries \cap Inlines = {}
    /\ ZohoLevel \in Levels
    /\ MaxAtWork \in Nat

VARIABLES
    item,        \* the Item row
    zoho,        \* the name in Zoho
    configured,  \* the integration service is configured
    req,         \* requests at work
    job,         \* the inbound sync
    wanted,      \* history: the name last saved or parked in PackTrack
    owned        \* history: the level an owner last submitted; both are None
                 \* once the row holds what a session wrote that had loaded
                 \* it before another one did, wanted also after the script

vars == <<item, zoho, configured, req, job, wanted, owned>>

\* "synced" stands for NULL too: neither tells of an edit not delivered.
Status == {"synced", "failed", "pending"}

Row == [name : Names, status : Status, level : Levels, locked : BOOLEAN]

\* What a post of the edit form can hold: name and unit cannot be emptied, a
\* field whose value is its hidden original is unchanged.
Form == [name : Names \cup {None}, other : BOOLEAN]

Idle == [pc |-> "idle"]

\* Between two runs of the process its job is down.
Down == [pc |-> "down"]

Thresholds == {"level", "locked"}
Identity   == {"name", "status"}

ThresholdRow == [level : Levels, locked : BOOLEAN]
IdentityRow  == [name : Names, status : Status]

Stage ==
    {Idle}
    \cup [pc : {"body", "loaded"}, row : ThresholdRow]
    \cup [pc : {"saved"}, row : IdentityRow]
    \cup [pc : {"mirrored"}, row : IdentityRow, send : Names \cup {None}]
    \cup [pc : {"answered"}, row : IdentityRow, ok : BOOLEAN, body : Names \cup {None}]

\* What the sync writes of a row.
Writes == {w \in UNION {[C -> Names \cup Levels] : C \in SUBSET {"name", "level"}} :
             /\ "name" \in DOMAIN w => w["name"] \in Names
             /\ "level" \in DOMAIN w => w["level"] \in Levels}

JobStage ==
    {Idle, Down}
    \cup [pc : {"fetched"}, name : Names]
    \cup [pc : {"loaded"}, writes : Writes, overlapped : BOOLEAN]

AtWork == {r \in Requests : req[r] # Idle}

OnTheLoop == {e \in Edits : req[e].pc \notin {"idle", "body"}}

TypeOK ==
    /\ item \in Row
    /\ zoho \in Names
    /\ configured \in BOOLEAN
    /\ req \in [Requests -> Stage]
    /\ \A r \in Requests :
         /\ req[r].pc \in {"body", "saved"} => r \in Edits
         /\ req[r].pc = "loaded" => r \in Inlines
         /\ req[r].pc \in {"mirrored", "answered"} => r \notin Inlines
         /\ req[r].pc = "answered" => configured
    /\ Cardinality(AtWork) <= MaxAtWork
    /\ Cardinality(OnTheLoop) <= 1
    /\ job \in JobStage
    /\ wanted \in Names \cup {None}
    /\ owned \in Levels \cup {None}

\* An item the first sync has inserted; Zoho may have given it another reorder
\* level since, and the service may be configured later.
Init ==
    /\ zoho \in Names
    /\ \E l \in Levels :
         item = [name |-> zoho, status |-> "synced", level |-> l, locked |-> FALSE]
    /\ configured \in BOOLEAN
    /\ req = [r \in Requests |-> Idle]
    /\ job = Idle
    /\ wanted = zoho
    /\ owned = item.level

---------------------------------------------------------------------------
(* Sessions                                                                *)

Columns(row, C) == [c \in C |-> row[c]]

\* What a session that loaded `row` writes of `new`, and the row it leaves.
Changes(row, new) == [c \in {d \in DOMAIN row : new[d] # row[d]} |-> new[c]]
Flush(writes)     == [c \in DOMAIN item |-> IF c \in DOMAIN writes THEN writes[c] ELSE item[c]]

LoopFree == OnTheLoop = {}

Room == job # Down /\ Cardinality(AtWork) < MaxAtWork

\* The job's commit will have overlapped a request of owners.
Overlap(j) == IF j.pc = "loaded" THEN [j EXCEPT !.overlapped = TRUE] ELSE j

---------------------------------------------------------------------------
(* POST /inventory/{item_id}: update_item                                  *)

\* The handler loads the item and awaits the form.
Open(e) ==
    /\ req[e] = Idle /\ Room
    /\ LoopFree
    /\ req' = [req EXCEPT ![e] = [pc |-> "body", row |-> Columns(item, Thresholds)]]
    /\ job' = Overlap(job)
    /\ UNCHANGED <<item, zoho, configured, wanted, owned>>

Locked(row, l) == [row EXCEPT !.level = l, !.locked = TRUE]

\* An owner submits level l in a session that loaded `row`.
SaveLevel(row, l) ==
    /\ item' = Flush(Changes(row, Locked(row, l)))
    /\ owned' = IF item'.level = l THEN l ELSE None

\* The operational fields are committed first.
Submit(e, l) ==
    /\ req[e].pc = "body"
    /\ LoopFree
    /\ SaveLevel(req[e].row, l)
    /\ req' = [req EXCEPT ![e] = [pc |-> "saved", row |-> Columns(item', Identity)]]
    /\ UNCHANGED <<zoho, configured, job, wanted>>

\* fetch_metadata: an answer, the cached one while it is fresh, or a stale one
\* when the service fails; nothing without the service.
HasMetadata(answered) == configured /\ answered

\* resolve_master_data_changes: a Zoho-only field needs the metadata.
Invalid(f, metadata) == f.other /\ ~HasMetadata(metadata)

Unchanged(f) == f.name = None /\ ~f.other

\* Nothing more is written unless every change is valid and there is one.
Resolve(e, f, metadata) ==
    /\ req[e].pc = "saved"
    /\ Invalid(f, metadata) \/ Unchanged(f)
    /\ req' = [req EXCEPT ![e] = Idle]
    /\ UNCHANGED <<item, zoho, configured, job, wanted, owned>>

\* The name of the form is kept locally before it is pushed.
Mirror(e, f, metadata) ==
    LET row == req[e].row
        new == IF f.name = None THEN row ELSE [row EXCEPT !.name = f.name]
    IN  /\ req[e].pc = "saved"
        /\ ~Invalid(f, metadata) /\ ~Unchanged(f)
        /\ item' = Flush(Changes(row, new))
        /\ req' = [req EXCEPT ![e] = [pc |-> "mirrored", row |-> Columns(item', Identity),
                                      send |-> f.name]]
        /\ wanted' = IF f.name = None THEN wanted
                     ELSE IF item'.name = f.name THEN f.name ELSE None
        /\ UNCHANGED <<zoho, configured, job, owned>>

---------------------------------------------------------------------------
(* POST /inventory/{item_id}/sync/retry and /inventory/{item_id}/edit      *)

\* scalar_payload: the retry sends what the row holds.
Retry(t) ==
    /\ req[t] = Idle /\ Room
    /\ req' = [req EXCEPT ![t] = [pc |-> "mirrored", row |-> Columns(item, Identity),
                                  send |-> item.name]]
    /\ job' = Overlap(job)
    /\ UNCHANGED <<item, zoho, configured, wanted, owned>>

\* edit_item_thresholds
OpenInline(i) ==
    /\ req[i] = Idle /\ Room
    /\ req' = [req EXCEPT ![i] = [pc |-> "loaded", row |-> Columns(item, Thresholds)]]
    /\ job' = Overlap(job)
    /\ UNCHANGED <<item, zoho, configured, wanted, owned>>

SaveInline(i, l) ==
    /\ req[i].pc = "loaded"
    /\ SaveLevel(req[i].row, l)
    /\ req' = [req EXCEPT ![i] = Idle]
    /\ UNCHANGED <<zoho, configured, job, wanted>>

---------------------------------------------------------------------------
(* push_item_update                                                        *)

\* Without the service the edit is parked.
Park(r) ==
    /\ req[r].pc = "mirrored"
    /\ ~configured
    /\ item' = Flush(Changes(req[r].row, [req[r].row EXCEPT !.status = "pending"]))
    /\ req' = [req EXCEPT ![r] = Idle]
    /\ wanted' = IF r \in Retries THEN item'.name ELSE wanted
    /\ UNCHANGED <<zoho, configured, job, owned>>

\* The PATCH reaches Zoho or not; its answer names the item, is empty, or is
\* an error, which may come of a PATCH that was applied.
Patch(r, applied, answer) ==
    LET send == req[r].send
        name == IF applied /\ send # None THEN send ELSE zoho
    IN  /\ req[r].pc = "mirrored"
        /\ configured
        /\ answer \in {"body", "empty"} => applied
        /\ zoho' = name
        /\ req' = [req EXCEPT ![r] = [pc |-> "answered", row |-> req[r].row,
                                      ok |-> answer # "error",
                                      body |-> IF answer = "body" THEN name ELSE None]]
        /\ UNCHANGED <<item, configured, job, wanted, owned>>

\* Mistaken variant: an answer without a name is aligned with.
AlignedAnyway(r, verified) == req[r].body

\* fetch_item: a GET that may fail.
Fetched(verified) == IF verified THEN zoho ELSE None

\* The name to align with: of the answer, else of a GET, else the row's own.
Aligned(r, verified) ==
    LET name == IF req[r].body # None THEN req[r].body ELSE Fetched(verified)
    IN  IF name = None THEN req[r].row.name ELSE name

Outcome(r) == IF req[r].ok THEN "synced" ELSE "failed"

Finish(r, verified) ==
    LET row == req[r].row
        new == [row EXCEPT !.status = Outcome(r),
                           !.name = IF req[r].ok THEN Aligned(r, verified) ELSE @]
    IN  /\ req[r].pc = "answered"
        /\ item' = Flush(Changes(row, new))
        /\ req' = [req EXCEPT ![r] = Idle]
        /\ UNCHANGED <<zoho, configured, job, wanted, owned>>

---------------------------------------------------------------------------
(* sync_items                                                              *)

\* Mistaken variant: a failed edit is protected as well.
ProtectsFailed(row) == row.status \in {"pending", "failed"}

\* Mistaken variant: nothing is.
ProtectsNothing(row) == FALSE

\* An edit that waits for the service is not reverted.
Protected(row) == row.status = "pending"

\* Mistaken variant: the owner's level is overwritten.
Unlocked(row) == ZohoLevel

LevelOf(row) == IF row.locked THEN row.level ELSE ZohoLevel

\* _apply_item_sync_fields
Applied(row, name) ==
    [row EXCEPT !.name = IF Protected(row) THEN @ ELSE name,
                !.level = LevelOf(row)]

Fetch ==
    /\ job = Idle
    /\ job' = [pc |-> "fetched", name |-> zoho]
    /\ UNCHANGED <<item, zoho, configured, req, wanted, owned>>

Load ==
    /\ job.pc = "fetched"
    /\ job' = [pc |-> "loaded", writes |-> Changes(item, Applied(item, job.name)),
               overlapped |-> AtWork # {}]
    /\ UNCHANGED <<item, zoho, configured, req, wanted, owned>>

\* The commit follows the download of images.
Commit ==
    /\ job.pc = "loaded"
    /\ item' = Flush(job.writes)
    /\ wanted' = IF job.overlapped /\ "name" \in DOMAIN job.writes THEN None ELSE wanted
    /\ owned' = IF job.overlapped /\ "level" \in DOMAIN job.writes THEN None ELSE owned
    /\ job' = Idle
    /\ UNCHANGED <<zoho, configured, req>>

\* A page that cannot be fetched or a database error ends the job: wherever it
\* does, nothing has been committed.
SyncFails ==
    /\ job.pc = "loaded"
    /\ job' = Idle
    /\ UNCHANGED <<item, zoho, configured, req, wanted, owned>>

---------------------------------------------------------------------------
(* scripts/sync_items_via_gateway.py                                       *)

\* A process of its own, started by hand: it writes a name Zoho had when it
\* fetched its pages whatever the status of the row says, and the level, if
\* Zoho told one, unless it is the owners'.
Overwrite(n) ==
    /\ \E l \in {item.level, LevelOf(item)} : item' = [item EXCEPT !.name = n, !.level = l]
    /\ wanted' = IF n = item.name THEN wanted ELSE None
    /\ UNCHANGED <<zoho, configured, req, job, owned>>

---------------------------------------------------------------------------
(* Zoho and the process                                                    *)

UpstreamEdit(n) ==
    /\ n # zoho
    /\ zoho' = n
    /\ UNCHANGED <<item, configured, req, job, wanted, owned>>

Crash ==
    /\ job # Down
    /\ req' = [r \in Requests |-> Idle]
    /\ job' = Down
    /\ UNCHANGED <<item, zoho, configured, wanted, owned>>

\* The process starts, with the service configured or not as before.
Restart(c) ==
    /\ job = Down
    /\ configured => c
    /\ configured' = c
    /\ job' = Idle
    /\ UNCHANGED <<item, zoho, req, wanted, owned>>

---------------------------------------------------------------------------

Arrives ==
    \/ \E e \in Edits : Open(e)
    \/ \E t \in Retries : Retry(t)
    \/ \E i \in Inlines : OpenInline(i)

Proceeds(r) ==
    \/ r \in Edits /\ \E l \in Levels : Submit(r, l)
    \/ r \in Edits /\ \E f \in Form, metadata \in BOOLEAN :
                        Resolve(r, f, metadata) \/ Mirror(r, f, metadata)
    \/ r \in Inlines /\ \E l \in Levels : SaveInline(r, l)
    \/ r \notin Inlines /\ Park(r)
    \/ r \notin Inlines /\ \E applied \in BOOLEAN, answer \in {"body", "empty", "error"} :
                            Patch(r, applied, answer)
    \/ r \notin Inlines /\ \E verified \in BOOLEAN : Finish(r, verified)

Next ==
    \/ Arrives
    \/ \E r \in Requests : Proceeds(r)
    \/ Fetch
    \/ Load
    \/ Commit
    \/ SyncFails
    \/ \E n \in Names : Overwrite(n)
    \/ \E n \in Names : UpstreamEdit(n)
    \/ Crash
    \/ \E c \in BOOLEAN : Restart(c)

Spec == Init /\ [][Next]_vars

\* The scheduler runs the sync again and again, and not every job fails.
\* Nothing is assumed of handlers.
FairSpec == Spec /\ WF_vars(Fetch \/ Load) /\ SF_vars(Commit)

---------------------------------------------------------------------------
(* Properties                                                              *)

\* An edit parked for want of the service is what the row holds: no sync
\* reverts it, unless one that overlapped a request of an owner already had, or
\* the script that heeds no status (_apply_item_sync_fields keeps the name of a
\* pending row; the row it looks at is the one it loaded).
ParkedEditKept == item.status = "pending" => wanted \in {item.name, None}

\* Once an owner has set the reorder level it is theirs: it stays the one last
\* submitted, unless a session decided it that had loaded the row before
\* another one wrote it.
OwnLevelKept == item.locked => owned \in {item.level, None}

\* When owners, the script and Zoho's users rest and the process stays up, PackTrack comes
\* to Zoho's name, or the edit is parked.
Converges ==
    <>[](job # Down) /\ <>[][~(Arrives \/ \E n \in Names : Overwrite(n) \/ UpstreamEdit(n))]_vars
        => <>[](item.name = zoho \/ item.status = "pending")

---------------------------------------------------------------------------
(* Inductive strengthening                                                 *)

\* A sync not overlapped by a request decides on the row as it still is.
SyncDecides ==
    job.pc = "loaded" /\ ~job.overlapped =>
        /\ AtWork = {}
        /\ "name" \in DOMAIN job.writes => item.status # "pending"
        /\ "level" \in DOMAIN job.writes => ~item.locked

\* A process that is down runs nothing.
DownRunsNothing == job = Down => AtWork = {}

\* What an edit is about to park is what the row holds: with no service only
\* the name can have been changed.
ParkingAgrees ==
    ~configured => \A e \in Edits : req[e].pc = "mirrored" => wanted \in {item.name, None}

\* With the service nothing is parked any more: who is at work on a pending row
\* has loaded it pending, and settles it.
PendingSettles ==
    configured /\ item.status = "pending" =>
        \A r \in Requests : req[r].pc \in {"saved", "mirrored", "answered"} => req[r].row.status = "pending"
=============================================================================
