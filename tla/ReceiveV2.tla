----------------------------- MODULE ReceiveV2 -----------------------------
(***************************************************************************)
(* Receiving vNext: one Receive, the cases and lines operators count into  *)
(* it, the box receipts finalize materializes, and the pushes of those     *)
(* boxes to Luma and Zoho.                                                 *)
(*                                                                         *)
(*   Editors     case, line and header edits    (routes/receiving_v2.py)   *)
(*   Finalizers  POST /receive/v2/{id}/finalize                            *)
(*   Retriers    POST /receive/v2/{id}/retry-push                          *)
(*   Sweepers    POST /receive/{zoho_po_id}/retry-luma, the older form's   *)
(*               retry, which takes every box of the purchase order        *)
(*                                                                         *)
(* All are threadpool routes on sessions of their own.  What a session has *)
(* loaded it keeps until it commits, and a commit writes the columns whose *)
(* value differs from the loaded one.  The database holds the boxes'       *)
(* UNIQUE (purchase order, submission_id, submission_line_index) and the   *)
(* foreign keys between lines and boxes.  A request the process dies under  *)
(* takes no further step: nothing but the database outlives it.            *)
(***************************************************************************)
EXTENDS Naturals, Sequences, FiniteSets, FiniteSetsExt

CONSTANTS
    Editors, Finalizers, Retriers, Sweepers,
    MaxLines,   \* bound on the lines ever added
    MaxCases,   \* bound on the cases that exist at once
    ItemOf,     \* the item of each line
    None        \* no status loaded

Pushers  == Finalizers \cup Retriers
Sessions == Editors \cup Pushers \cup Sweepers
LineIds  == 1..MaxLines
Cases    == 1..MaxCases

ASSUME ReceiveAssumption ==
    /\ MaxLines \in Nat /\ MaxCases \in Nat
    /\ DOMAIN ItemOf = LineIds
    /\ Editors \cap (Pushers \cup Sweepers) = {}
    /\ Finalizers \cap Retriers = {}
    /\ Pushers \cap Sweepers = {}

\* REVIEW and CANCELLED are never assigned.
Statuses == {"DRAFT", "COUNTING", "FINALIZED", "PUSHED_OK", "PUSH_FAILED"}
LumaStatuses == {"PENDING", "NOT_READY", "PUSHED", "FAILED", "DUPLICATE"}

ASSUME None \notin Statuses

VARIABLES
    status,   \* Receive.status
    cases,    \* its cases, by sequence
    lines,    \* its lines, by id
    caseOf,   \* the case of every line ever added; 0 before that
    boxes,    \* BoxReceipt rows, in order of id
    link,     \* box_receipt_id of every line; 0 is NULL
    luma,     \* boxes Luma has accepted
    pc,       \* how far a request is
    seen,     \* Receive.status in a session
    rows,     \* the lines in a session, with the link they were loaded with
    view,     \* luma_push_status of the boxes in a session, as loaded
    outcome   \* luma_push_status a session is about to write

receive == <<status, cases, lines, caseOf>>
receipts == <<boxes, link>>
session == <<seen, rows, view, outcome>>
vars == <<receive, receipts, luma, pc, session>>

Box == [line: LineIds, index: Nat \ {0}, push: LumaStatuses, batch: Nat]
PCs == {"idle", "loaded", "valid", "ordered", "saved", "pushing", "done"}

BoxIds == 1..Len(boxes)
Mapping(S, T) == UNION {[D -> T] : D \in SUBSET S}

TypeOK ==
    /\ status \in Statuses
    /\ cases \subseteq Cases
    /\ lines \subseteq LineIds
    /\ caseOf \in [LineIds -> Cases \cup {0}]
    /\ boxes \in Seq(Box)
    /\ link \in [LineIds -> BoxIds \cup {0}]
    /\ luma \subseteq BoxIds
    /\ pc \in [Sessions -> PCs]
    /\ seen \in [Sessions -> Statuses \cup {None}]
    /\ rows \in [Sessions -> Mapping(LineIds, BoxIds \cup {0})]
    /\ view \in [Sessions -> Mapping(BoxIds, LumaStatuses)]
    /\ outcome \in [Sessions -> Mapping(BoxIds, LumaStatuses)]

Empty == [x \in {} |-> 0]

\* create_receive.
Init ==
    /\ status = "DRAFT"
    /\ cases = {}
    /\ lines = {}
    /\ caseOf = [l \in LineIds |-> 0]
    /\ boxes = <<>>
    /\ link = [l \in LineIds |-> 0]
    /\ luma = {}
    /\ pc = [s \in Sessions |-> "idle"]
    /\ seen = [s \in Sessions |-> None]
    /\ rows = [s \in Sessions |-> Empty]
    /\ view = [s \in Sessions |-> Empty]
    /\ outcome = [s \in Sessions |-> Empty]

-----------------------------------------------------------------------------
(* Sessions *)

\* A response: the session is closed, an open transaction rolls back.
Finish(s) ==
    /\ pc' = [pc EXCEPT ![s] = "done"]
    /\ seen' = [seen EXCEPT ![s] = None]
    /\ rows' = [rows EXCEPT ![s] = Empty]
    /\ view' = [view EXCEPT ![s] = Empty]
    /\ outcome' = [outcome EXCEPT ![s] = Empty]

\* _load_receive.
LoadReceive(s) ==
    /\ s \in Editors \cup Pushers
    /\ pc[s] = "idle"
    /\ pc' = [pc EXCEPT ![s] = "loaded"]
    /\ seen' = [seen EXCEPT ![s] = status]
    /\ UNCHANGED <<receive, receipts, luma, rows, view, outcome>>

-----------------------------------------------------------------------------
(* Editing.  No case or line route asks for the receive's status. *)

\* _bump_updated, on the status the session loaded.
Bump(e) == status' = IF seen[e] = "DRAFT" THEN "COUNTING" ELSE status

\* An editor is a user who edits again and again.
Edit(e) ==
    /\ e \in Editors
    /\ pc[e] = "loaded"
    /\ Bump(e)
    /\ pc' = [pc EXCEPT ![e] = "idle"]
    /\ seen' = [seen EXCEPT ![e] = None]
    /\ UNCHANGED <<receipts, luma, rows, view, outcome>>

\* What a case or a line says of itself is left out, its existence is not.
EditCase(e) == cases # {} /\ Edit(e) /\ UNCHANGED <<cases, lines, caseOf>>

EditLine(e) == lines # {} /\ Edit(e) /\ UNCHANGED <<cases, lines, caseOf>>

\* _FINALIZED_STATUSES, which are those retry_push accepts, too; none is
\* ever CANCELLED.
Closed == {"FINALIZED", "PUSHED_OK", "PUSH_FAILED"}

\* Mistaken variant: expected lines are always editable.
AlwaysEditable(e) == TRUE

\* _expected_lines_editable, of the status the session loaded.
Editable(e) == seen[e] \notin Closed

\* The expected lines, which PackingList has, ask for the status.
EditExpected(e) ==
    /\ Editable(e)
    /\ Edit(e)
    /\ UNCHANGED <<cases, lines, caseOf>>

\* add_case, at next_case_sequence.
AddCase(e) ==
    LET next == IF cases = {} THEN 1 ELSE Max(cases) + 1 IN
    /\ next <= MaxCases
    /\ cases' = cases \cup {next}
    /\ Edit(e)
    /\ UNCHANGED <<lines, caseOf>>

AddLine(e) ==
    \E c \in cases, l \in LineIds :
        /\ caseOf[l] = 0
        /\ \A m \in 1..(l - 1) : caseOf[m] # 0
        /\ caseOf' = [caseOf EXCEPT ![l] = c]
        /\ lines' = lines \cup {l}
        /\ Edit(e)
        /\ UNCHANGED cases

\* Mistaken variant: box_receipts.receive_case_line_id ON DELETE SET NULL.
AlwaysDeletable(l) == TRUE

\* The box's foreign key keeps its line.
Deletable(l) == ~\E k \in BoxIds : boxes[k].line = l

DeleteLine(e) ==
    \E l \in lines :
        /\ Deletable(l)
        /\ lines' = lines \ {l}
        /\ Edit(e)
        /\ UNCHANGED <<cases, caseOf>>

\* delete_case takes the lines of the case along.
DeleteCase(e) ==
    \E c \in cases :
        LET gone == {l \in lines : caseOf[l] = c} IN
        /\ \A l \in gone : Deletable(l)
        /\ cases' = cases \ {c}
        /\ lines' = lines \ gone
        /\ Edit(e)
        /\ UNCHANGED caseOf

-----------------------------------------------------------------------------
(* finalize_receive *)

\* _terminal_statuses: finalize may run again after a failed push.
Terminal == {"FINALIZED", "PUSHED_OK"}

\* validate_receive_for_finalize: the status is the one the session loaded.
Blocked(f) ==
    \/ seen[f] \in Terminal
    \/ cases = {}
    \/ \E c \in cases : \A l \in lines : caseOf[l] # c

\* It loads the lines.  A request refused for what its rows contain, or for
\* warnings nobody confirmed, takes no further step.
Validate(f) ==
    /\ f \in Finalizers
    /\ pc[f] = "loaded"
    /\ IF Blocked(f)
       THEN Finish(f)
       ELSE /\ pc' = [pc EXCEPT ![f] = "valid"]
            /\ rows' = [rows EXCEPT ![f] = [l \in lines |-> link[l]]]
            /\ UNCHANGED <<seen, view, outcome>>
    /\ UNCHANGED <<receive, receipts, luma>>

\* _stable_line_order selects the lines again; those the session has keep the
\* link they were loaded with.
Enumerate(f) ==
    /\ f \in Finalizers
    /\ pc[f] = "valid"
    /\ pc' = [pc EXCEPT ![f] = "ordered"]
    /\ rows' = [rows EXCEPT ![f] =
                  [l \in lines |-> IF l \in DOMAIN rows[f] THEN rows[f][l] ELSE link[l]]]
    /\ UNCHANGED <<receive, receipts, luma, seen, view, outcome>>

Before(l, m) == caseOf[l] < caseOf[m] \/ (caseOf[l] = caseOf[m] /\ l <= m)

PlaceIn(l, S) == Cardinality({m \in S : Before(m, l)})

\* Mistaken variant: enumerate without start=1.
LineIndexFromZero(f, l) == PlaceIn(l, DOMAIN rows[f]) - 1

\* submission_line_index: a line's place among the enumerated ones.
LineIndex(f, l) == PlaceIn(l, DOMAIN rows[f])

\* uq_box_receipts_po_submission.
IndexTaken(n) == \E k \in BoxIds : boxes[k].index = n

Unboxed(f) == {l \in DOMAIN rows[f] : rows[f][l] = 0}

Refusable(f) == \E l \in Unboxed(f) : l \notin lines \/ IndexTaken(LineIndex(f, l))

\* materialize_box_receipts in one transaction; some new boxes wait for their
\* item's material_code.
Materialize(f) ==
    LET all == DOMAIN rows[f]
        new == Unboxed(f)
        NewBox(l, waiting) ==
            [line  |-> l,
             index |-> LineIndex(f, l),
             push  |-> IF l \in waiting THEN "NOT_READY" ELSE "PENDING",
             batch |-> Len(boxes)]
        Nth(n) == CHOOSE l \in new : PlaceIn(l, new) = n
    IN
    /\ f \in Finalizers
    /\ pc[f] = "ordered"
    /\ ~Refusable(f)
    /\ \E waiting \in SUBSET new :
         boxes' = boxes \o [n \in 1..Cardinality(new) |-> NewBox(Nth(n), waiting)]
    /\ link' = [l \in LineIds |-> IF l \in new THEN Len(boxes) + PlaceIn(l, new) ELSE link[l]]
    /\ status' = "FINALIZED"
    /\ pc' = [pc EXCEPT ![f] = "saved"]
    /\ rows' = [rows EXCEPT ![f] = [l \in all |-> link'[l]]]
    /\ seen' = [seen EXCEPT ![f] = None]
    /\ UNCHANGED <<cases, lines, caseOf, luma, view, outcome>>

\* A line is gone or an index taken: IntegrityError, HTTP 500.
FailToMaterialize(f) ==
    /\ f \in Finalizers
    /\ pc[f] = "ordered"
    /\ Refusable(f)
    /\ Finish(f)
    /\ UNCHANGED <<receive, receipts, luma>>

-----------------------------------------------------------------------------
(* push_receive_to_integrations *)

Good == {"PUSHED", "DUPLICATE"}
Eligible(s) == {k \in DOMAIN view[s] : view[s][k] \notin Good}

Begin(s, mine) ==
    /\ pc' = [pc EXCEPT ![s] = "pushing"]
    /\ view' = [view EXCEPT ![s] = [k \in mine |-> boxes[k].push]]

\* The refreshes that follow the finalizing commit.
Reload(f) ==
    /\ f \in Finalizers
    /\ pc[f] = "saved"
    /\ Begin(f, {rows[f][l] : l \in DOMAIN rows[f]})
    /\ seen' = [seen EXCEPT ![f] = status]
    /\ UNCHANGED <<receive, receipts, luma, rows, outcome>>

\* retry_push and retry_push_for_receive.  A box still NOT_READY never has a
\* material_code, so the bump to PENDING finds nothing.
Retry(r) ==
    /\ r \in Retriers
    /\ pc[r] = "loaded"
    /\ IF seen[r] \in Closed
       THEN Begin(r, BoxIds) /\ UNCHANGED <<seen, rows, outcome>>
       ELSE Finish(r)
    /\ UNCHANGED <<receive, receipts, luma>>

\* push_luma_receipt reports success on an answer that says so.
Acknowledged(accepted, heard) == accepted /\ heard

\* The outcomes so far, and that of box k.
Settled(o, k, push) == [j \in DOMAIN o \cup {k} |-> IF j = k THEN push ELSE o[j]]

\* One call per eligible box; Luma may accept it without being heard.
PushLuma(s) ==
    LET todo == Eligible(s) \ DOMAIN outcome[s]
        k == Min(todo)
    IN
    /\ pc[s] = "pushing"
    /\ todo # {}
    /\ \E accepted, heard \in BOOLEAN :
         LET push == IF Acknowledged(accepted, heard) THEN "PUSHED" ELSE "FAILED" IN
         /\ luma' = IF accepted THEN luma \cup {k} ELSE luma
         /\ outcome' = [outcome EXCEPT ![s] = Settled(@, k, push)]
    /\ UNCHANGED <<receive, receipts, pc, seen, rows, view>>

\* The statuses a commit leaves, given the columns it writes.
Saved(s) ==
    [k \in BoxIds |-> [boxes[k] EXCEPT !.push =
        IF k \in DOMAIN outcome[s] /\ outcome[s][k] # view[s][k] THEN outcome[s][k] ELSE @]]

\* Mistaken variant: only the leaves pushed this time are looked at.
SomeGood(p) == \E k \in DOMAIN view[p] : k \in DOMAIN outcome[p] /\ outcome[p][k] \in Good

AllGood(p) ==
    \A k \in DOMAIN view[p] :
        IF k \in DOMAIN outcome[p] THEN outcome[p][k] \in Good ELSE view[p][k] \in Good

\* Zoho is told of every box.  It may be unreachable, unmapped, refuse, or
\* answer 401, which no handler catches: the whole push rolls back.
Conclude(p) ==
    /\ p \in Pushers
    /\ pc[p] = "pushing"
    /\ Eligible(p) \subseteq DOMAIN outcome[p]
    /\ \/ UNCHANGED <<boxes, status>>
       \/ \E zohoOk \in BOOLEAN :
            LET verdict == IF zohoOk /\ AllGood(p) THEN "PUSHED_OK" ELSE "PUSH_FAILED" IN
            /\ boxes' = Saved(p)
            /\ status' = IF verdict # seen[p] THEN verdict ELSE status
    /\ Finish(p)
    /\ UNCHANGED <<cases, lines, caseOf, link, luma>>

-----------------------------------------------------------------------------
(* retry_luma_push *)

\* Of several boxes of one item only a latest one is kept.
Latest(k, S) ==
    \A j \in S : ItemOf[boxes[j].line] = ItemOf[boxes[k].line] => boxes[j].batch <= boxes[k].batch

Sweep(g) ==
    LET mine == {k \in BoxIds : boxes[k].push \in {"FAILED", "NOT_READY"}}
        items == {ItemOf[boxes[k].line] : k \in mine}
    IN
    /\ g \in Sweepers
    /\ pc[g] = "idle"
    /\ mine # {}
    /\ Begin(g, mine)
    /\ \E kept \in [items -> mine] :
         /\ \A i \in items : ItemOf[boxes[kept[i]].line] = i /\ Latest(kept[i], mine)
         /\ outcome' = [outcome EXCEPT ![g] =
                          [k \in mine \ {kept[i] : i \in items} |-> "DUPLICATE"]]
    /\ UNCHANGED <<receive, receipts, luma, seen, rows>>

ConcludeSweep(g) ==
    /\ g \in Sweepers
    /\ pc[g] = "pushing"
    /\ DOMAIN view[g] = DOMAIN outcome[g]
    /\ boxes' = Saved(g)
    /\ Finish(g)
    /\ UNCHANGED <<receive, link, luma>>

-----------------------------------------------------------------------------

Counting(e) ==
    \/ AddCase(e) \/ EditCase(e) \/ DeleteCase(e)
    \/ AddLine(e) \/ EditLine(e) \/ DeleteLine(e)
Editing(e) == Counting(e) \/ EditExpected(e)
Finalizing(f) == Validate(f) \/ Enumerate(f) \/ Materialize(f) \/ FailToMaterialize(f) \/ Reload(f)
Pushing(s) == Retry(s) \/ PushLuma(s) \/ Conclude(s) \/ Sweep(s) \/ ConcludeSweep(s)

Next == \E s \in Sessions : LoadReceive(s) \/ Editing(s) \/ Finalizing(s) \/ Pushing(s)

Spec == Init /\ [][Next]_vars

-----------------------------------------------------------------------------
(* Properties *)

\* Every box is the box of a line that still exists, and a line has one:
\* however finalize attempts, edits and failed pushes interleave, no receipt
\* is left behind that a later push would not reach, and none is made a second
\* time, which Luma and Zoho would count twice (materialize_box_receipts).
BoxesKeepTheirLines == \A k \in BoxIds : boxes[k].line \in lines /\ link[boxes[k].line] = k

\* Who reports PUSHED_OK has all the boxes it looked at in Luma, those it
\* skipped because another push, perhaps a slower one, had settled them
\* included; only what the older retry retired as DUPLICATE may be missing.
PushedOkReachedLuma ==
    [][\A p \in Pushers :
         Conclude(p) /\ status # "PUSHED_OK" /\ status' = "PUSHED_OK" =>
           \A k \in DOMAIN view[p] : k \in luma \/ view[p][k] = "DUPLICATE"]_vars

-----------------------------------------------------------------------------
(* Inductive strengthening *)

\* A line's link names its box, and a session that has a line with a link has
\* a line with a box.
LinksAgree ==
    /\ \A l \in LineIds : link[l] # 0 => boxes[link[l]].line = l
    /\ \A s \in Sessions : \A l \in DOMAIN rows[s] : rows[s][l] # 0 => link[l] # 0
    /\ \A s \in Sessions : pc[s] = "saved" => \A l \in DOMAIN rows[s] : rows[s][l] # 0

\* No index is left out.  So whoever gives a box to a line that has one, on rows
\* loaded too early, meets an index that is taken.
IndicesDense == \A n \in BoxIds : IndexTaken(n)

\* What is known as PUSHED Luma has accepted; a push that is not the older
\* form's retires nothing.
PushedIsAccepted ==
    /\ \A k \in BoxIds : boxes[k].push = "PUSHED" => k \in luma
    /\ \A s \in Sessions :
        /\ \A k \in DOMAIN view[s] : view[s][k] = "PUSHED" => k \in luma
        /\ \A k \in DOMAIN outcome[s] : outcome[s][k] = "PUSHED" => k \in luma
        /\ s \in Pushers => \A k \in DOMAIN outcome[s] : outcome[s][k] # "DUPLICATE"
=============================================================================
