---------------------------- MODULE MaterialCode ----------------------------
(***************************************************************************)
(* How items come by their material codes, and what Luma learns of them.   *)
(* Whoever is about to record a box receipt makes sure first that its item *)
(* has a code: the item's SKU if no other item has it as its code, else    *)
(* PT- and the item's id, else a random one.  The code is flushed, told    *)
(* Luma at once, and committed with the boxes at the very end.             *)
(*                                                                         *)
(*   Forms      POST /receive/{zoho_po_id}, which commits when it adopts   *)
(*              its order, after the code of its first item                *)
(*   Pushes     finalize, retry-push, retry-luma and the catch-up          *)
(*                                                                         *)
(* A code made of an item's id is written as the item, a random one as the *)
(* session that drew it.  An UPDATE holds its row, and its entry in the    *)
(* unique index of codes, until the transaction ends.  Any session may end *)
(* with a rollback: a crash, a rejected credential, a deadlock Postgres    *)
(* resolves.  Luma never drops a mapping.                                  *)
(***************************************************************************)
EXTENDS Naturals, FiniteSets, Functions

CONSTANTS
    Items, Forms, Pushes,
    Skus,    \* SKUs that Zoho may give an item
    Typed,   \* codes an owner may type
    MaxChanges,  \* bound: changes by owners, the item sync and the script
    None

Sessions == Forms \cup Pushes

\* A SKU, an item's PT- code, a session's random one.
Codes == Skus \cup Items \cup Sessions

ASSUME CodeAssumption ==
    /\ Forms \cap Pushes = {}
    /\ Items \cap Sessions = {} /\ Skus \cap (Items \cup Sessions) = {}
    /\ Typed \subseteq Skus \cup Items
    /\ None \notin Codes
    /\ MaxChanges \in Nat

VARIABLES
    sku,      \* Item.sku_code
    code,     \* Item.material_code
    luma,     \* the item Luma maps a code to
    req,      \* sessions at work
    script,   \* audit_material_codes.py: the items it has loaded
    boxes,    \* items of the box receipts, with the code each carries
    changes,  \* changes by owners, the item sync and the script so far
    stirred,  \* history: an owner, the item sync or the script came between
              \* sessions that are still at work
    moved,    \* history: items whose code was replaced by an owner, by the
              \* script, at random, or by a session while stirred
    loose     \* history: codes rolled back or replaced since Luma heard them

vars == <<sku, code, luma, req, script, boxes, changes, stirred, moved, loose>>

Maybe(S) == S \cup {None}
Mapping(T) == UNION {[D -> T] : D \in SUBSET Items}
NoItems == [i \in {} |-> None]

\* Mapping f with v for item i.
Put(f, i, v) == [j \in DOMAIN f \cup {i} |-> IF j = i THEN v ELSE f[j]]

Idle == [pc |-> "idle", at |-> None, code |-> None, own |-> NoItems,
         staged |-> NoItems, adopted |-> FALSE]

Over == [Idle EXCEPT !.pc = "over"]

Asleep == [pc |-> "idle", sku |-> NoItems, code |-> NoItems]

Request == [pc : {"idle", "open", "want", "coded", "expired", "over"},
            at : Maybe(Items), code : Maybe(Codes), own : Mapping(Codes),
            staged : Mapping(Maybe(Codes)), adopted : BOOLEAN]

TypeOK ==
    /\ sku \in [Items -> Maybe(Skus)]
    /\ code \in [Items -> Maybe(Codes)]
    /\ \A i, j \in Items : i # j /\ code[i] = code[j] => code[i] = None
    /\ luma \in [Codes -> Maybe(Items)]
    /\ req \in [Sessions -> Request]
    /\ \A s, t \in Sessions : s # t => DOMAIN req[s].own \cap DOMAIN req[t].own = {}
    /\ script \in [pc : {"idle", "loaded"}, sku : Mapping(Maybe(Skus)),
                   code : Mapping(Maybe(Codes))]
    /\ boxes \subseteq Items \X Maybe(Codes)
    /\ changes \in 0 .. MaxChanges
    /\ stirred \in BOOLEAN
    /\ moved \subseteq Items
    /\ loose \subseteq Codes

\* Items come from the item sync, without a code.
Init ==
    /\ sku \in [Items -> Maybe(Skus)]
    /\ code = [i \in Items |-> None]
    /\ luma = [c \in Codes |-> None]
    /\ req = [s \in Sessions |-> Idle]
    /\ script = Asleep
    /\ boxes = {}
    /\ changes = 0
    /\ stirred = FALSE
    /\ moved = {}
    /\ loose = {}

---------------------------------------------------------------------------
(* Rows, transactions and Luma                                             *)

AtWork == {s \in Sessions : req[s] \notin {Idle, Over}}

RowFree(i, s) == \A t \in Sessions \ {s} : i \notin DOMAIN req[t].own

\* No other transaction has yet to decide about code c.
CodeFree(c, s) ==
    \A t \in Sessions \ {s} : \A i \in DOMAIN req[t].own :
        req[t].own[i] # c /\ code[i] # c

\* What session s sees of item i.
Sees(s, i) == IF i \in DOMAIN req[s].own THEN req[s].own[i] ELSE code[i]

\* Mistaken variant: other items' codes do not count.
AnyCode(c, i, s) == FALSE

\* Another item has code c: the unique index refuses it.
Taken(c, i, s) == \E j \in Items \ {i} : Sees(s, j) = c

\* A transaction that replaces codes commits.
Replaced(new) == {i \in DOMAIN new : code[i] # None /\ code[i] # new[i]}

CommitCodes(new, excused) ==
    /\ code' = [i \in Items |-> IF i \in DOMAIN new THEN new[i] ELSE code[i]]
    /\ moved' = moved \cup {i \in Replaced(new) : excused[i]}
    /\ loose' = loose \cup {code[i] : i \in Replaced(new)}

CommitOwn(s) ==
    CommitCodes(req[s].own,
                [i \in DOMAIN req[s].own |-> stirred \/ req[s].own[i] \in Sessions])

\* The session is over.
End(s) ==
    /\ req' = [req EXCEPT ![s] = Over]
    /\ stirred' = (stirred /\ AtWork # {s})

\* The session ends without a commit; what it told Luma stays there.
Fail(s) ==
    LET told == {i \in DOMAIN req[s].own : luma[req[s].own[i]] = i} IN
    /\ s \in AtWork
    /\ End(s)
    /\ loose' = loose \cup {req[s].own[i] : i \in told}
    /\ UNCHANGED <<sku, code, luma, script, boxes, changes, moved>>

---------------------------------------------------------------------------
(* ensure_material_code, and the box it is called for                      *)

\* Mistaken variant: an item's code follows its SKU.
FollowsSku(i) == code[i] # None /\ sku[i] = None

HasCode(i) == code[i] # None

\* The code for an item without one, after a look for collisions.
Choice(s, i) ==
    IF sku[i] # None /\ ~Taken(sku[i], i, s) THEN sku[i]
    ELSE IF ~Taken(i, i, s) THEN i ELSE s

\* The handler comes to the next item.
Ensure(s, i) ==
    /\ req[s].pc \in {"idle", "open"}
    /\ i \notin DOMAIN req[s].staged
    /\ req' = [req EXCEPT ![s].pc = IF HasCode(i) THEN "coded" ELSE "want",
                          ![s].at = i,
                          ![s].code = IF HasCode(i) THEN code[i] ELSE Choice(s, i)]
    /\ UNCHANGED <<sku, code, luma, script, boxes, changes, stirred, moved, loose>>

\* The flush waits for the row and for the code.
CanFlush(s) ==
    req[s].pc = "want" /\ RowFree(req[s].at, s) /\ CodeFree(req[s].code, s)

Flush(s) ==
    LET i == req[s].at
        c == req[s].code IN
    /\ CanFlush(s)
    /\ ~Taken(c, i, s)
    /\ req' = [req EXCEPT ![s].pc = "coded",
                          ![s].own = Put(@, i, c)]
    /\ UNCHANGED <<sku, code, luma, script, boxes, changes, stirred, moved, loose>>

\* IntegrityError: nobody catches it.
FlushCollides(s) ==
    /\ CanFlush(s)
    /\ Taken(req[s].code, req[s].at, s)
    /\ Fail(s)

\* Mistaken variant: Luma is told before the flush.
OnceChosen(s) == req[s].pc \in {"want", "coded"}

Registrable(s) == req[s].pc = "coded"

\* register_item_with_luma: a new code is mapped, one mapped to another item
\* is a CONFLICT, logged and left; nothing is done about a failure either.
Register(s) ==
    LET c == req[s].code IN
    /\ Registrable(s)
    /\ c # None /\ luma[c] = None
    /\ luma' = [luma EXCEPT ![c] = req[s].at]
    /\ UNCHANGED <<sku, code, req, script, boxes, changes, stirred, moved, loose>>

\* adopt_zoho_po commits, once for a form, and the item expires.
Adopt(s) ==
    /\ s \in Forms /\ ~req[s].adopted
    /\ req[s].pc = "coded"
    /\ CommitOwn(s)
    /\ req' = [req EXCEPT ![s].pc = "expired", ![s].own = NoItems, ![s].adopted = TRUE]
    /\ UNCHANGED <<sku, luma, script, boxes, changes, stirred>>

Reread(s) ==
    /\ req[s].pc = "expired"
    /\ req' = [req EXCEPT ![s].pc = "coded", ![s].code = code[req[s].at]]
    /\ UNCHANGED <<sku, code, luma, script, boxes, changes, stirred, moved, loose>>

\* The box gets the code as it is in the session.
Box(s) ==
    /\ req[s].pc = "coded"
    /\ s \in Forms => req[s].adopted
    /\ req' = [req EXCEPT ![s].pc = "open", ![s].at = None, ![s].code = None,
                          ![s].staged = Put(@, req[s].at, req[s].code)]
    /\ UNCHANGED <<sku, code, luma, script, boxes, changes, stirred, moved, loose>>

Commit(s) ==
    /\ req[s].pc = "open"
    /\ CommitOwn(s)
    /\ boxes' = boxes \cup {<<i, req[s].staged[i]>> : i \in DOMAIN req[s].staged}
    /\ End(s)
    /\ UNCHANGED <<sku, luma, script, changes>>

---------------------------------------------------------------------------
(* The other writers: owners, the item sync, the script                    *)

\* One more change.
Counted ==
    /\ changes < MaxChanges
    /\ changes' = changes + 1

\* Whoever is at work may have seen what was before.
Stir == stirred' = (stirred \/ AtWork # {})

\* update_item and edit_item_thresholds write the code the form holds: a new
\* one, or the one, perhaps none, it was rendered with.
EditCode(i, c) ==
    /\ c # code[i]
    /\ RowFree(i, None)
    /\ c # None => CodeFree(c, None) /\ ~\E j \in Items \ {i} : code[j] = c
    /\ code' = [code EXCEPT ![i] = c]
    /\ moved' = moved \cup {i}
    /\ loose' = IF code[i] = None THEN loose ELSE loose \cup {code[i]}
    /\ Counted /\ Stir
    /\ UNCHANGED <<sku, luma, req, script, boxes>>

\* The item sync, or sync_items_via_gateway.py, brings another SKU, or none.
Resku(i, k) ==
    /\ k # sku[i]
    /\ RowFree(i, None)
    /\ sku' = [sku EXCEPT ![i] = k]
    /\ Counted /\ Stir
    /\ UNCHANGED <<code, luma, req, script, boxes, moved, loose>>

LoadItems ==
    /\ script = Asleep
    /\ script' = [pc |-> "loaded", sku |-> sku, code |-> code]
    /\ Counted
    /\ UNCHANGED <<sku, code, luma, req, boxes, stirred, moved, loose>>

\* compute_safe_defaults on what the script has loaded.
SafeDefaults ==
    {i \in DOMAIN script.sku :
        /\ script.code[i] = None
        /\ script.sku[i] # None
        /\ \A j \in DOMAIN script.sku \ {i} : script.sku[j] # script.sku[i]}

\* _apply_defaults looks again at the rows it has loaded, not at the table.
ApplyDefaults ==
    LET new == Restrict(script.sku, SafeDefaults) IN
    /\ script.pc = "loaded"
    /\ \A i \in SafeDefaults : RowFree(i, None) /\ CodeFree(new[i], None)
    /\ script' = Asleep
    /\ IF \E i \in SafeDefaults : \E j \in Items \ {i} : code[j] = new[i]
       THEN UNCHANGED <<code, moved, loose>>
       ELSE CommitCodes(new, [i \in SafeDefaults |-> TRUE])
    /\ Stir
    /\ UNCHANGED <<sku, luma, req, boxes, changes>>

---------------------------------------------------------------------------

Handle(s) ==
    \/ \E i \in Items : Ensure(s, i)
    \/ Flush(s) \/ FlushCollides(s) \/ Register(s)
    \/ Adopt(s) \/ Reread(s) \/ Box(s) \/ Commit(s) \/ Fail(s)

Next ==
    \/ \E s \in Sessions : Handle(s)
    \/ \E i \in Items, c \in Maybe(Typed) : EditCode(i, c)
    \/ \E i \in Items, k \in Maybe(Skus) : Resku(i, k)
    \/ LoadItems \/ ApplyDefaults

Spec == Init /\ [][Next]_vars

---------------------------------------------------------------------------
(* Properties                                                              *)

\* The box receipts of an item carry the code the item has, "stable per item":
\* sessions that give it one at the same time agree or fail, however their
\* flushes wait for each other, unless an owner, the item sync or the script
\* came between, or a random code was drawn (ensure_material_code).
BoxesCarryTheCode == \A b \in boxes : b[2] = code[b[1]] \/ b[1] \in moved

\* Luma maps the code of an item to that item or to none, so that registering
\* it never is a CONFLICT, unless the code was rolled back or taken away from
\* an item after Luma had heard of it (register_item_with_luma).
LumaAgrees ==
    \A i \in Items :
        code[i] # None /\ RowFree(i, None) =>
          luma[code[i]] \in {i, None} \/ code[i] \in loose

---------------------------------------------------------------------------
(* Inductive strengthening                                                 *)

\* A session is at an item it has not yet staged, and gave codes to the items
\* it has staged and to that one only.
AtItem ==
    \A s \in Sessions :
        /\ req[s].pc \in {"idle", "over"} => req[s] \in {Idle, Over}
        /\ req[s].pc \in {"want", "coded", "expired"} => req[s].at \in Items \ DOMAIN req[s].staged
        /\ req[s].pc = "want" => req[s].code # None
        /\ DOMAIN req[s].own \subseteq
              DOMAIN req[s].staged \cup (IF req[s].pc = "coded" THEN {req[s].at} ELSE {})

\* The unique index: a code given and not yet committed is given once, and no
\* other item has it.
CodesApart ==
    \A s \in Sessions : \A i \in DOMAIN req[s].own :
        /\ \A t \in Sessions : \A j \in DOMAIN req[t].own :
              req[t].own[j] = req[s].own[i] => t = s /\ j = i
        /\ \A j \in Items \ DOMAIN req[s].own : code[j] # req[s].own[i]

\* Session s has v as the code of item i.
Carries(s, i, v) ==
    IF i \in DOMAIN req[s].own THEN v = req[s].own[i]
    ELSE (v # None /\ v = code[i]) \/ i \in moved

Receipts ==
    /\ \A b \in boxes : (b[2] # None /\ b[2] = code[b[1]]) \/ b[1] \in moved
    /\ \A s \in Sessions :
        /\ \A i \in DOMAIN req[s].staged : Carries(s, i, req[s].staged[i])
        /\ req[s].pc = "coded" => Carries(s, req[s].at, req[s].code)
        /\ req[s].pc = "expired" => code[req[s].at] # None \/ req[s].at \in moved

\* What session s has chosen for item i, flushed or not.
Choosing(s, i) == i \in DOMAIN req[s].own \/ (req[s].pc = "want" /\ req[s].at = i)
Chosen(s, i)   == IF i \in DOMAIN req[s].own THEN req[s].own[i] ELSE req[s].code

\* The choice was right and still is, or the flush will be refused: with what
\* has been committed since it agrees, random codes apart.
RightChoice(s, i, c) ==
    /\ c \in {sku[i], i, s}
    /\ c # sku[i] /\ sku[i] # None => Taken(sku[i], i, s)
    /\ c = s => \E j \in Items \ {i} : code[j] = i
    /\ \/ code[i] \in {None, c}
       \/ c \in Sessions /\ code[i] \in Sessions
       \/ c \notin Sessions /\ i \notin DOMAIN req[s].own /\ Taken(c, i, s)

Choices ==
    ~stirred => \A s \in Sessions, i \in Items :
                    Choosing(s, i) => RightChoice(s, i, Chosen(s, i))

\* What Luma was told is so, or will be with a commit, or came loose.
ToldOf(c, i) ==
    \/ c \in loose
    \/ c = code[i]
    \/ \E s \in Sessions : i \in DOMAIN req[s].own /\ c = req[s].own[i]

Told ==
    /\ \A c \in Codes : luma[c] # None => ToldOf(c, luma[c])
    /\ \A s \in Sessions :
        req[s].pc = "coded" /\ req[s].code # None =>
            \/ req[s].code \in loose \cup {code[req[s].at]}
            \/ req[s].at \in DOMAIN req[s].own /\ req[s].code = req[s].own[req[s].at]
=============================================================================
