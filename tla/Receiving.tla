----------------------------- MODULE Receiving -----------------------------
(***************************************************************************)
(* Goods of one Zoho purchase order on their way into PackTrack: the older *)
(* receiving form, supplier boxes typed in one by one, receipts made in    *)
(* Zoho itself, and the scheduler's sync and catch-up.                     *)
(*                                                                         *)
(* The form's handler awaits its body after it has loaded the mirror row   *)
(* and then holds the event loop to its end: it pushes every line to Luma, *)
(* commits, and only then tells Zoho.  The sync replaces the mirror rows   *)
(* by new ones, so a handler whose commit expired its mirror row may find  *)
(* it gone.  The catch-up runs in the sync's job, under its file lock.     *)
(*                                                                         *)
(* Every line names an item PackTrack knows, and Luma is configured.       *)
(* Material codes, photos, lots, events and the Luma status of a box are   *)
(* left out; ReceiveV2 has the retries of failed Luma pushes.              *)
(***************************************************************************)
EXTENDS Naturals, FiniteSets

CONSTANTS
    NumLines,      \* lines of the order
    Submissions,   \* rendered forms, each with its submission_id
    Posts,         \* posts of forms at work at a time
    Cartons,       \* numbers of supplier boxes
    Fills,         \* what a line may be filled with: <<declared, counted>>
    Typed,         \* what a supplier box may be typed in with
    Uncounted,     \* no count
    Backfill,      \* the catch-up, as the source of a box
    MaxDirect      \* bound: units of a line received in Zoho itself

Lines == 1 .. NumLines

ASSUME ReceivingAssumption ==
    /\ NumLines \in Nat \ {0}
    /\ MaxDirect \in Nat
    /\ Uncounted \notin Nat
    /\ \A f \in Fills \cup Typed : f[1] \in Nat \ {0} /\ f[2] \in Nat \cup {Uncounted}
    /\ Submissions # {}
    /\ Backfill \notin Submissions \cup Cartons
    /\ Submissions \cap Cartons = {}

VARIABLES
    order,    \* the PackTrack order linked to the Zoho order
    boxes,    \* BoxReceipt rows, by source and line
    zoho,     \* units received per line, in Zoho
    direct,   \* history: those received in Zoho itself
    mirror,   \* units received per line, in the mirror row; NoRow without one
    luma,     \* history: receipts of every line of a form sent to Luma by
              \* posts that were recorded or are at work; those of posts that
              \* were rolled back stay in Luma, without a box, uncounted
    post,     \* posts of forms at work
    job,      \* the sync job
    recorded  \* history: posts committed of every form

vars == <<order, boxes, zoho, direct, mirror, luma, post, job, recorded>>

Sources == Submissions \cup Cartons \cup {Backfill}
Box     == [declared : Nat, accepted : Nat]

Nothing     == [x \in {} |-> 0]
Units(m)    == m \in [Lines -> Nat]
IsStaged(m) == DOMAIN m \subseteq Lines /\ m \in [DOMAIN m -> Box]

\* No mirror row for the order: its detail could not be fetched.
NoRow == Nothing

Idle == [pc |-> "idle", form |-> CHOOSE s \in Submissions : TRUE, stale |-> FALSE,
         seen |-> "none", next |-> 1, staged |-> Nothing]

Asleep == [pc |-> "idle", seen |-> "none", next |-> 1, staged |-> Nothing]

\* The process is down, between two runs of it.
Down == [Asleep EXCEPT !.pc = "down"]
Up   == job.pc # "down"

\* Posts that have the event loop.
OnLoop == {p \in Posts : post[p].pc \notin {"idle", "body"}}

TypeOK ==
    /\ order \in {"none", "shipped", "received"}
    /\ DOMAIN boxes \subseteq Sources \X Lines
    /\ \A k \in DOMAIN boxes : boxes[k] \in Box
    /\ Units(zoho) /\ Units(direct)
    /\ \A l \in Lines : direct[l] <= zoho[l] /\ direct[l] <= MaxDirect
    /\ mirror = NoRow \/ Units(mirror)
    /\ luma \in [Submissions \X Lines -> Nat]
    /\ post \in [Posts -> [pc : {"idle", "body", "adopting", "lines", "saved"},
                           form : Submissions, stale : BOOLEAN,
                           seen : {"none", "shipped", "received"},
                           next : 1 .. NumLines + 1, staged : {post[p].staged : p \in Posts}]]
    /\ \A p \in Posts : IsStaged(post[p].staged)
    /\ Cardinality(OnLoop) <= 1
    /\ job \in [pc : {"idle", "synced", "looked", "lines", "down"},
               seen : {"none", "shipped", "received"},
               next : 1 .. NumLines + 1, staged : {job.staged}]
    /\ IsStaged(job.staged)
    /\ recorded \in [Submissions -> Nat]

Init ==
    /\ order \in {"none", "shipped"}
    /\ boxes = Nothing
    /\ zoho = [l \in Lines |-> 0]
    /\ direct = [l \in Lines |-> 0]
    /\ mirror = [l \in Lines |-> 0]
    /\ luma = [k \in Submissions \X Lines |-> 0]
    /\ post = [p \in Posts |-> Idle]
    /\ job = Asleep
    /\ recorded = [s \in Submissions |-> 0]

---------------------------------------------------------------------------
(* Quantities                                                              *)

\* compute_accepted: what was counted, if anything was.
Accepted(f) == IF f[2] = Uncounted THEN f[1] ELSE f[2]

NewBox(f) == [declared |-> f[1], accepted |-> Accepted(f)]

\* A box of line l added to those of an open transaction.
Staging(staged, l, box) ==
    [m \in DOMAIN staged \cup {l} |-> IF m = l THEN box ELSE staged[m]]

\* `accepted_quantity or declared_quantity`: a count of zero is no count.
Worth(b) == IF b.accepted # 0 THEN b.accepted ELSE b.declared

\* The sum of the numbers in m, counted piece by piece.
Total(m) == Cardinality(UNION {{k} \X (1 .. m[k]) : k \in DOMAIN m})

BoxesOn(l) == {k \in DOMAIN boxes : k[2] = l}
FormBoxesOn(l) == {k \in BoxesOn(l) : k[1] \in Submissions}

\* Mistaken variant: boxes of the form do not count.
CoveredWithoutForms(l) ==
    Total([k \in BoxesOn(l) \ FormBoxesOn(l) |-> Worth(boxes[k])])

\* Units of line l that the order's boxes cover.
Covered(l) == Total([k \in BoxesOn(l) |-> Worth(boxes[k])])

---------------------------------------------------------------------------
(* POST /receive/{zoho_po_id}                                              *)

\* Mistaken variant: posts on threads.
OnThreads == TRUE

LoopFree == OnLoop = {}

Stop(p) == post' = [post EXCEPT ![p] = Idle]

\* The handler loads the mirror row and awaits its body.
Arrive(p, s) ==
    /\ Up
    /\ post[p].pc = "idle"
    /\ LoopFree
    /\ mirror # NoRow
    /\ post' = [post EXCEPT ![p].pc = "body", ![p].form = s]
    /\ UNCHANGED <<order, boxes, zoho, direct, mirror, luma, job, recorded>>

\* Mistaken variant: only the line posted first counts.
FirstLineOnly(s) == <<s, 1>> \in DOMAIN boxes

\* _existing_boxes_for_submission
AlreadyProcessed(s) == \E l \in Lines : <<s, l>> \in DOMAIN boxes

\* A form not yet processed is looked at up to its first line with a quantity,
\* which sends for the order; one without any is a 400.
Judge(p) ==
    /\ post[p].pc = "body"
    /\ LoopFree
    /\ \/ Stop(p)
       \/ /\ ~AlreadyProcessed(post[p].form)
          /\ \E l \in Lines :
               post' = [post EXCEPT ![p].pc = "adopting", ![p].seen = order, ![p].next = l]
    /\ UNCHANGED <<order, boxes, zoho, direct, mirror, luma, job, recorded>>

\* adopt_zoho_po for one that found no order: order numbers are unique.
Adoptable(seen) == seen = "none" => order = "none"

AfterAdopting(seen) == IF seen = "none" THEN "shipped" ELSE order

Adopt(p) ==
    /\ post[p].pc = "adopting"
    /\ IF Adoptable(post[p].seen)
       THEN /\ order' = AfterAdopting(post[p].seen)
            /\ post' = [post EXCEPT ![p].pc = "lines", ![p].seen = "none"]
       ELSE Stop(p) /\ UNCHANGED order
    /\ UNCHANGED <<boxes, zoho, direct, mirror, luma, job, recorded>>

\* The boxes of a post are rolled back with its transaction; what Luma was told
\* of them stays.
RolledBack(q) ==
    luma' = [k \in Submissions \X Lines |->
                IF k[1] = q.form /\ k[2] \in DOMAIN q.staged THEN 0 ELSE luma[k]]

\* An exception at any line, or at the commit after the last: the commit of
\* adopt_zoho_po expired the mirror row, and it is gone; the unique index on
\* (order, submission, line) refuses the box; a material code is taken when it
\* is flushed; a photo is not to be written; the database is away.
LineFails(p) ==
    /\ post[p].pc = "lines"
    /\ RolledBack(post[p])
    /\ Stop(p)
    /\ UNCHANGED <<order, boxes, zoho, direct, mirror, job, recorded>>

\* One line: its box is flushed, and pushed to Luma.
BoxLine(p) ==
    LET q == post[p]
        l == q.next IN
    /\ q.pc = "lines"
    /\ l \in Lines
    /\ q.stale => q.staged # Nothing
    /\ <<q.form, l>> \notin DOMAIN boxes
    /\ \E f \in Fills :
         post' = [post EXCEPT ![p].staged = Staging(q.staged, l, NewBox(f)), ![p].next = l + 1]
    /\ luma' = [luma EXCEPT ![<<q.form, l>>] = @ + 1]
    /\ UNCHANGED <<order, boxes, zoho, direct, mirror, job, recorded>>

\* A line left empty, or with an item PackTrack does not know.
SkipLine(p) ==
    /\ post[p].pc = "lines"
    /\ post[p].next \in Lines
    /\ post[p].staged # Nothing
    /\ post' = [post EXCEPT ![p].next = @ + 1]
    /\ UNCHANGED <<order, boxes, zoho, direct, mirror, luma, job, recorded>>

\* Mistaken variant: a post records the lines it had reached before the last.
AllButLast(q) == DOMAIN q.staged \ {NumLines}

LinesOf(q) == DOMAIN q.staged

WithBoxes(s, ls, staged) ==
    [k \in DOMAIN boxes \cup ({s} \X ls) |->
        IF k[1] = s /\ k[2] \in ls THEN staged[k[2]] ELSE boxes[k]]

Save(p) ==
    LET q == post[p] IN
    /\ q.pc = "lines"
    /\ q.next = NumLines + 1
    /\ boxes' = WithBoxes(q.form, LinesOf(q), q.staged)
    /\ recorded' = [recorded EXCEPT ![q.form] = @ + 1]
    /\ post' = [post EXCEPT ![p].pc = "saved", ![p].next = 1]
    /\ UNCHANGED <<order, zoho, direct, mirror, luma, job>>

Untold(q) == {l \in DOMAIN q.staged : l >= q.next}

\* What the service answers, a rejected credential apart, and what becomes of
\* the receipt in Zoho: a gateway error leaves it open.
Answers == {"done", "dry run", "conflict", "rate limited", "misconfigured", "invalid",
            "gateway error"}
Applied(a) == CASE a = "done"          -> {TRUE}
                [] a = "gateway error" -> BOOLEAN
                [] OTHER               -> {FALSE}

\* submit_zoho_receives, line by line: whatever the answer, the next follows.
TellZoho(p) ==
    LET q == post[p] IN
    /\ q.pc = "saved"
    /\ q.stale => q.next # 1
    /\ \E l \in Untold(q) :
         /\ \A m \in Untold(q) : l <= m
         /\ \E applied \in UNION {Applied(a) : a \in Answers} :
              zoho' = IF applied THEN [zoho EXCEPT ![l] = @ + q.staged[l].declared] ELSE zoho
         /\ post' = [post EXCEPT ![p].next = l + 1]
    /\ UNCHANGED <<order, boxes, direct, mirror, luma, job, recorded>>

\* All told; or a rejected credential or a mirror row that is gone since the
\* commit expired it: neither is caught, and the lines left stay untold.
Answer(p) ==
    /\ post[p].pc = "saved"
    /\ Stop(p)
    /\ UNCHANGED <<order, boxes, zoho, direct, mirror, luma, job, recorded>>

---------------------------------------------------------------------------
(* POST /po/{id}/boxes, and receipts in Zoho itself                        *)

\* A number already used on the order is refused.
NumberUsed(c) == \E l \in Lines : <<c, l>> \in DOMAIN boxes

\* create_box_receipt commits it; a negative count is refused.
CreateBox(c, l, f) ==
    /\ ~NumberUsed(c)
    /\ boxes' = WithBoxes(c, {l}, [m \in {l} |-> NewBox(f)])

\* add_box_receipt: any order will do, and any item, on the order or not.
AddCarton(c, l) ==
    /\ Up
    /\ order # "none"
    /\ \E f \in Typed : CreateBox(c, l, f)
    /\ UNCHANGED <<order, zoho, direct, mirror, luma, post, job, recorded>>

ReceiveInZoho(l) ==
    /\ direct[l] < MaxDirect
    /\ direct' = [direct EXCEPT ![l] = @ + 1]
    /\ zoho' = [zoho EXCEPT ![l] = @ + 1]
    /\ UNCHANGED <<order, boxes, mirror, luma, post, job, recorded>>

---------------------------------------------------------------------------
(* The sync job: sync_open_pos, then catchup_zoho_receives                 *)

\* Wipe and replace: the row a handler has loaded is gone.  What is read from
\* the mirror later is as old as if it had been fetched earlier.
Replace(row) ==
    /\ job.pc = "idle"
    /\ mirror' = row
    /\ post' = [p \in Posts |->
                  IF post[p].pc = "idle" THEN post[p] ELSE [post[p] EXCEPT !.stale = TRUE]]
    /\ job' = [job EXCEPT !.pc = "synced"]
    /\ UNCHANGED <<order, boxes, zoho, direct, luma, recorded>>

\* The order's detail is fetched, or it is not and the order has no row.
Sync == Replace(zoho)

MissDetail == Replace(NoRow)

\* The list cannot be had: the mirror stays, and the catch-up runs on it.
SyncFails ==
    /\ job.pc = "idle"
    /\ job' = [job EXCEPT !.pc = "synced"]
    /\ UNCHANGED <<order, boxes, zoho, direct, mirror, luma, post, recorded>>

\* The catch-up looks up the order of the mirror row.
Look ==
    /\ job.pc = "synced"
    /\ job' = IF mirror = NoRow THEN Asleep ELSE [job EXCEPT !.pc = "looked", !.seen = order]
    /\ UNCHANGED <<order, boxes, zoho, direct, mirror, luma, post, recorded>>

JobAdopts ==
    /\ job.pc = "looked"
    /\ IF Adoptable(job.seen)
       THEN /\ order' = AfterAdopting(job.seen)
            /\ job' = [job EXCEPT !.pc = "lines", !.seen = "none"]
       ELSE job' = Asleep /\ UNCHANGED order
    /\ UNCHANGED <<boxes, zoho, direct, mirror, luma, post, recorded>>

\* Mistaken variant: one catch-up box per order.
OrderBackfilled(l) == \E m \in Lines : <<Backfill, m>> \in DOMAIN boxes

\* The box number CATCHUP-{order}-{item} is taken.
Backfilled(l) == <<Backfill, l>> \in DOMAIN boxes

Missing(l) == mirror[l] > Covered(l) /\ ~Backfilled(l)

CatchUpLine ==
    LET l == job.next
        q == mirror[l] - Covered(l) IN
    /\ job.pc = "lines"
    /\ l \in Lines
    /\ job' = [job EXCEPT
          !.next = l + 1,
          !.staged = IF Missing(l)
                     THEN Staging(@, l, [declared |-> q, accepted |-> q])
                     ELSE @]
    /\ UNCHANGED <<order, boxes, zoho, direct, mirror, luma, post, recorded>>

\* The new boxes are committed, and a shipped order is received when its
\* boxes, the new ones included, cover the mirror row.
CatchUp ==
    LET own(l) == IF l \in DOMAIN job.staged THEN job.staged[l].accepted ELSE 0 IN
    /\ job.pc = "lines"
    /\ job.next = NumLines + 1
    /\ boxes' = WithBoxes(Backfill, DOMAIN job.staged, job.staged)
    /\ order' = IF order = "shipped" /\ \A l \in Lines : Covered(l) + own(l) >= mirror[l]
                THEN "received" ELSE order
    /\ job' = Asleep
    /\ UNCHANGED <<zoho, direct, mirror, luma, post, recorded>>

---------------------------------------------------------------------------

\* The process dies; open transactions are rolled back, with the boxes of a
\* post that has pushed them to Luma.
Crash ==
    /\ Up
    /\ luma' = [k \in Submissions \X Lines |-> IF k \in DOMAIN boxes THEN luma[k] ELSE 0]
    /\ post' = [p \in Posts |-> Idle]
    /\ job' = Down
    /\ UNCHANGED <<order, boxes, zoho, direct, mirror, recorded>>

Restart ==
    /\ ~Up
    /\ job' = Asleep
    /\ UNCHANGED <<order, boxes, zoho, direct, mirror, luma, post, recorded>>

Handle(p) ==
    \/ Judge(p) \/ Adopt(p) \/ LineFails(p) \/ BoxLine(p) \/ SkipLine(p)
    \/ Save(p) \/ TellZoho(p) \/ Answer(p)

RunJob == Look \/ JobAdopts \/ CatchUpLine \/ CatchUp

Next ==
    \/ \E p \in Posts, s \in Submissions : Arrive(p, s)
    \/ \E p \in Posts : Handle(p)
    \/ \E c \in Cartons, l \in Lines : AddCarton(c, l)
    \/ \E l \in Lines : ReceiveInZoho(l)
    \/ Sync \/ MissDetail \/ SyncFails \/ RunJob
    \/ Crash \/ Restart

Spec == Init /\ [][Next]_vars

\* The scheduler runs the job again and again, and a job that was started
\* goes on; Zoho is not out of reach for good, and the process stays up in the end.
FairSpec == Spec /\ WF_vars(RunJob) /\ SF_vars(Sync) /\ <>[]Up

---------------------------------------------------------------------------
(* Properties                                                              *)

DeclaredOn(l) == Total([k \in FormBoxesOn(l) |-> boxes[k].declared])
ShortCount(l) == \E k \in FormBoxesOn(l) : Worth(boxes[k]) < boxes[k].declared

\* The catch-up only makes boxes for what was received in Zoho itself, never
\* a second time for what the form has recorded and told Zoho, however posts,
\* syncs and crashes interleave; a line counted short is the exception
\* (catchup_zoho_receives, submit_receiving).
BackfillIsDirect ==
    \A l \in Lines : <<Backfill, l>> \in DOMAIN boxes =>
        ShortCount(l) \/ boxes[<<Backfill, l>>].declared <= direct[l]

\* A form takes effect once, however often it is sent and whatever the second
\* post holds (the unique index alone would let other lines in): one post of
\* it is recorded, and Luma has a line of it from one post, those apart that
\* were rolled back after they had told Luma.  Such a post, cut off by a
\* restart or by an exception at a later line or at the commit, leaves no box
\* to be found by, and Luma gets the line again under a new receipt id
\* (submit_receiving, submission_id).
FormTakesEffectOnce ==
    \A s \in Submissions : recorded[s] <= 1 /\ \A l \in Lines : luma[<<s, l>>] <= 1

\* "Receipts are always recorded in Pack Track and Luma first": Zoho has no
\* more from the form than the boxes on record declare.
ZohoAfterPackTrack == \A l \in Lines : zoho[l] - direct[l] <= DeclaredOn(l)

\* What Zoho received of a line does not stay unnoticed: it has a box in the
\* end, be it the catch-up's (scheduler, catchup_zoho_receives).
ReceiptIsNoticed ==
    \A l \in Lines : zoho[l] > 0 ~> \E s \in Sources : <<s, l>> \in DOMAIN boxes

---------------------------------------------------------------------------
(* Inductive strengthening *)

LoopHeldOnce == \A p, q \in OnLoop : p = q

Unboxed(s) == \A l \in Lines : <<s, l>> \notin DOMAIN boxes

\* A post works its lines in order, has at least one when it is through, and no
\* other post of its form has been recorded.
PostSound(q) ==
    /\ q.pc \in {"idle", "body", "adopting"} => q.staged = Nothing
    /\ q.pc \in {"adopting", "lines"} => Unboxed(q.form) /\ (q.staged = Nothing => q.next \in Lines)
    /\ q.pc = "lines" => \A l \in DOMAIN q.staged : l < q.next

PostsSound == \A p \in Posts : PostSound(post[p])

\* Luma has a line of a form from the post that has recorded it, or from the
\* one at work.
LumaTold(s, l) ==
    luma[<<s, l>>] # 0 =>
        /\ luma[<<s, l>>] = 1
        /\ \/ <<s, l>> \in DOMAIN boxes
           \/ \E p \in Posts : post[p].pc = "lines" /\ post[p].form = s /\ l \in DOMAIN post[p].staged

LumaSound == \A s \in Submissions, l \in Lines : LumaTold(s, l)

RecordSound == \A s \in Submissions : recorded[s] # 0 => recorded[s] = 1 /\ ~Unboxed(s)

\* The mirror is behind Zoho, and what a catch-up works from is there.
MirrorBehind ==
    /\ mirror # NoRow => \A l \in Lines : mirror[l] <= zoho[l]
    /\ job.pc \in {"looked", "lines"} => mirror # NoRow

\* Zoho has been told no more than the form's boxes declare, what the post at
\* work is about to tell included.
ToldIsDeclared ==
    \A l \in Lines :
        /\ zoho[l] <= direct[l] + DeclaredOn(l)
        /\ \A p \in Posts : post[p].pc = "saved" /\ l \in Untold(post[p]) =>
             zoho[l] + post[p].staged[l].declared <= direct[l] + DeclaredOn(l)

\* The boxes a catch-up is about to commit are for direct receipts.
StagedIsDirect ==
    \A l \in DOMAIN job.staged : ShortCount(l) \/ job.staged[l].declared <= direct[l]

BoxesFinite == IsFiniteSet(DOMAIN boxes)
=============================================================================
