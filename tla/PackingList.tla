---------------------------- MODULE PackingList ----------------------------
(***************************************************************************)
(* The vendor's packing list of the receive that ReceiveV2 models:         *)
(* expected lines typed in or imported from a text by its Editors, frozen  *)
(* when the receive is finalized, and reconciled with what was counted.    *)
(* EditExpected(e) of ReceiveV2 is what such a write does to the receive;  *)
(* its other steps run beside.                                             *)
(*                                                                         *)
(* A text is a sequence of rows; delimiters, headers and column synonyms   *)
(* are left out.  An item's name is a set of words: one name contained in  *)
(* another is a subset of it.  Quantities that are no positive number are  *)
(* 0.  Units, notes and case numbers are left out.  The id of an expected  *)
(* line is the write that added it and the line's place in that write.     *)
(*                                                                         *)
(* The status a session has loaded is the one it judges by; deleting a row *)
(* that is gone already is no error.                                       *)
(***************************************************************************)
EXTENDS ReceiveV2

CONSTANTS
    Catalogs,   \* what the purchase order's items may be called, over time
    Texts,      \* packing lists that may be imported
    Counts,     \* what may have been counted: sequences of case lines
    MaxWrites   \* bound on the writes that add expected lines

Items == UNION {DOMAIN c : c \in Catalogs}
Rows  == UNION {DOMAIN t : t \in Texts}
Ids   == (1..MaxWrites) \X (Rows \cup {1})

IsSeq(s) == Len(s) \in Nat /\ DOMAIN s = 1..Len(s)

ASSUME PackingListAssumption ==
    /\ MaxWrites \in Nat
    /\ None \notin Nat
    /\ \A t \in Texts : IsSeq(t) /\ t # <<>> /\ \A n \in DOMAIN t : t[n].qty \in Nat
    /\ \A s \in Counts : IsSeq(s) /\ \A n \in DOMAIN s :
         s[n].item \in Items /\ s[n].declared \in Nat \ {0} /\ s[n].counted \in Nat \cup {None}

VARIABLES
    catalog,   \* material code, SKU and name of the order's items
    expected,  \* the expected lines, by id
    last,      \* the last write that added lines
    plan,      \* the import an editor's session has prepared, or None
    frozen,    \* history: the expected lines when the receive was finalized;
               \* NoLines before
    late,      \* history: a session that had loaded the open receive has
               \* written since it was finalized
    listed     \* history: what the last replacing import brought, if no other
               \* session was at work with it and none has written since

listVars == <<catalog, expected, last, plan, frozen, late, listed>>

Line == [item : Items, qty : Nat \ {0}]

IsList(m, S) == DOMAIN m \subseteq S /\ \A i \in DOMAIN m : m[i] \in Line

IsPlan(p) ==
    /\ DOMAIN p = {"new", "replace", "existing", "alone"}
    /\ IsList(p.new, Rows)
    /\ p.replace \in BOOLEAN /\ p.alone \in BOOLEAN
    /\ p.existing \subseteq Ids

ListTypeOK ==
    /\ catalog \in Catalogs
    /\ last \in 0..MaxWrites
    /\ IsList(expected, Ids)
    /\ DOMAIN plan = Editors
    /\ \A e \in Editors : plan[e] = None \/ IsPlan(plan[e])
    /\ IsList(frozen, Ids)
    /\ late \in BOOLEAN
    /\ listed = None \/ IsList(listed, Rows)

NoLines == [i \in {} |-> 0]

ListInit ==
    /\ Init
    /\ catalog \in Catalogs
    /\ expected = NoLines
    /\ last = 0
    /\ plan = [e \in Editors |-> None]
    /\ frozen = NoLines
    /\ late = FALSE
    /\ listed = None

---------------------------------------------------------------------------
(* build_preview: matching rows with the items of the order                *)

\* Items of the order by the row's material code, SKU, name, and part of name.
HitsByKey(row) ==
    << {i \in DOMAIN catalog : row.material # None /\ catalog[i].material = row.material},
       {i \in DOMAIN catalog : row.sku # None /\ catalog[i].sku = row.sku},
       {i \in DOMAIN catalog : row.name # {} /\ catalog[i].name = row.name},
       {i \in DOMAIN catalog : row.name # {} /\ row.name \subseteq catalog[i].name} >>

\* The first key that hits decides, even when it hits several items.
Hits(row) ==
    LET h == HitsByKey(row)
        deciding == {n \in DOMAIN h : h[n] # {}}
    IN  IF deciding = {} THEN {} ELSE h[Min(deciding)]

\* Mistaken variant: quantities are not looked at.
MatchOnly(row) == IF Cardinality(Hits(row)) = 1 THEN "ready" ELSE "unmatched"

\* match_row, and the quantity of a row that has one item.
RowStatus(row) ==
    CASE Hits(row) = {}             -> "unmatched"
      [] Cardinality(Hits(row)) > 1 -> "ambiguous"
      [] OTHER -> IF row.qty = 0 THEN "invalid_qty" ELSE "ready"

\* PreviewReport.ready_rows, as expected lines by their place in the text.
ReadyLines(text) ==
    [n \in {m \in DOMAIN text : RowStatus(text[m]) = "ready"} |->
       [item |-> CHOOSE i \in Hits(text[n]) : TRUE, qty |-> text[n].qty]]

---------------------------------------------------------------------------
(* Expected lines: add, delete, import                                     *)

\* What a step makes of the history of a finalized receive; `lateNow` says
\* that it writes what was judged by an open one.
Remember(lateNow) ==
    /\ frozen' = IF status' \notin Closed THEN NoLines
                 ELSE IF status \notin Closed THEN expected' ELSE frozen
    /\ late' = (status \in Closed /\ status' \in Closed /\ (late \/ lateNow))

\* What every write of the list ends with.
ListWrite(e, now, brought) ==
    /\ EditExpected(e)
    /\ expected' = now
    /\ listed' = brought
    /\ plan' = [d \in Editors |->
                  IF d = e \/ plan[d] = None THEN None ELSE [plan[d] EXCEPT !.alone = FALSE]]
    /\ Remember(seen[e] \notin Closed)
    /\ UNCHANGED catalog

\* `old` with the lines `new`, which the next write adds.
With(old, new) ==
    [i \in DOMAIN old \cup ({last + 1} \X DOMAIN new) |->
       IF i \in DOMAIN old THEN old[i] ELSE new[i[2]]]

\* add_expected_line: the item is one of the order's.
AddExpected(e, line) ==
    /\ plan[e] = None
    /\ line.item \in DOMAIN catalog
    /\ last < MaxWrites
    /\ last' = last + 1
    /\ ListWrite(e, With(expected, [n \in {1} |-> line]), None)

\* delete_expected_line
DeleteExpected(e, id) ==
    /\ plan[e] = None
    /\ id \in DOMAIN expected
    /\ UNCHANGED last
    /\ ListWrite(e, Restrict(expected, DOMAIN expected \ {id}), None)

\* commit_expected_lines_import matches the text anew, and loads the lines it
\* is to replace.
Rematch(e, text, replace) ==
    /\ pc[e] = "loaded" /\ Editable(e)
    /\ plan[e] = None
    /\ plan' = [plan EXCEPT ![e] =
                  [new |-> ReadyLines(text),
                   replace |-> replace,
                   existing |-> IF replace THEN DOMAIN expected ELSE {},
                   alone |-> TRUE]]
    /\ UNCHANGED <<vars, catalog, expected, last, frozen, late, listed>>

\* Mistaken variant: new lines are added, old ones stay.
KeepsAll(e) == expected

\* What is left of the list when e's import has deleted what it replaces.
Kept(e) == Restrict(expected, DOMAIN expected \ plan[e].existing)

CommitImport(e) ==
    /\ plan[e] # None
    /\ last < MaxWrites
    /\ last' = last + 1
    /\ ListWrite(e, With(Kept(e), plan[e].new),
                 IF plan[e].replace /\ plan[e].alone THEN plan[e].new ELSE None)

---------------------------------------------------------------------------
(* build_reconciliation_report, totals_by_item                             *)

\* The sum of the numbers in m, counted piece by piece.
Total(m) == Cardinality(UNION {{k} \X (1..m[k]) : k \in DOMAIN m})

OfItem(all, item) == {k \in DOMAIN all : all[k].item = item}

\* Mistaken variant: one of an item's expected lines is its expectation.
LastOfItem(item) ==
    IF OfItem(expected, item) = {} THEN 0
    ELSE expected[CHOOSE k \in OfItem(expected, item) : TRUE].qty

ExpectedOf(item) == Total([k \in OfItem(expected, item) |-> expected[k].qty])

\* The report counts what was declared of every case line.
CountedOf(count, item) == Total([n \in OfItem(count, item) |-> count[n].declared])

\* The totals on the same page take the count where there is one.
TotalOf(count, item) ==
    Total([n \in OfItem(count, item) |->
             IF count[n].counted = None THEN count[n].declared ELSE count[n].counted])

IsExpected(item) == OfItem(expected, item) # {}
IsCounted(count, item) == OfItem(count, item) # {}

ReconcileStatus(count, item) ==
    LET counted == CountedOf(count, item)
    IN  IF ~IsExpected(item) THEN "unexpected"
        ELSE CASE counted = 0                -> "missing"
               [] counted = ExpectedOf(item) -> "match"
               [] OTHER -> IF counted < ExpectedOf(item) THEN "short" ELSE "over"

Reported(count) == {i \in Items : IsExpected(i) \/ IsCounted(count, i)}

Differences(count) == {i \in Reported(count) : ReconcileStatus(count, i) # "match"}

---------------------------------------------------------------------------

\* Items are renamed, given codes, added to the order.
Recatalog(c) ==
    /\ c # catalog
    /\ catalog' = c
    /\ UNCHANGED <<vars, expected, last, plan, frozen, late, listed>>

\* The receive's other steps.  A session with an import at hand takes none.
Beside(s) ==
    /\ s \in Editors => plan[s] = None
    /\ LoadReceive(s) \/ Counting(s) \/ Finalizing(s) \/ Pushing(s)
    /\ UNCHANGED <<catalog, expected, last, plan, listed>>
    /\ Remember(FALSE)

ListNext ==
    \/ \E s \in Sessions : Beside(s)
    \/ \E e \in Editors, item \in Items : AddExpected(e, [item |-> item, qty |-> 1])
    \/ \E e \in Editors, id \in Ids : DeleteExpected(e, id)
    \/ \E e \in Editors, text \in Texts, replace \in BOOLEAN : Rematch(e, text, replace)
    \/ \E e \in Editors : CommitImport(e)
    \/ \E c \in Catalogs : Recatalog(c)

ListSpec == ListInit /\ [][ListNext]_<<vars, listVars>>

---------------------------------------------------------------------------
(* Properties                                                              *)

\* The expected lines of a finalized receive are those it was finalized with,
\* unless a session wrote that had loaded the receive before
\* (_expected_lines_editable: "Keeps the post-push audit trail honest").
FrozenWhenFinalized == status \in Closed /\ ~late => expected = frozen

\* After an import that replaces the list and had it to itself, the list is
\* what its text brought, added by one write: two of them at a time leave both
\* (commit_expected_lines_import).
Brought(b) ==
    /\ DOMAIN expected = {b} \X DOMAIN listed
    /\ \A n \in DOMAIN listed : expected[<<b, n>>] = listed[n]

ReplaceReplaces == listed # None => \E b \in 1..MaxWrites : Brought(b)

\* A report without differences says that finalize receives of every item what
\* the packing list expects, as long as nothing was counted otherwise than
\* declared; and the other way round (build_reconciliation_report).
QuietReportIsEqual ==
    \A count \in Counts :
      (\A n \in DOMAIN count : count[n].counted \in {None, count[n].declared}) =>
      (Differences(count) = {} <=> \A i \in Items :
         TotalOf(count, i) = Total([k \in OfItem(expected, i) |-> expected[k].qty]))

---------------------------------------------------------------------------
(* Inductive strengthening                                                 *)

\* The list was brought by the last write that added lines.
BroughtLast == listed # None => last \in 1..MaxWrites /\ Brought(last)

\* An import that nobody wrote beside is to replace what the list still is.
PlansCurrent ==
    \A e \in Editors :
        plan[e] # None /\ plan[e].replace /\ plan[e].alone => plan[e].existing = DOMAIN expected

\* Lists are finite: their quantities have a sum.
ListsFinite ==
    /\ IsFiniteSet(DOMAIN expected)
    /\ \A e \in Editors : plan[e] # None => IsFiniteSet(DOMAIN plan[e].new)
=============================================================================
