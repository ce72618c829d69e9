--------------------------- MODULE ItemSyncProofs ---------------------------
(***************************************************************************)
(* Theorems of ItemSync for any requests, names and levels.                *)
(***************************************************************************)
EXTENDS ItemSync, FiniteSetTheorems, TLAPS

---------------------------------------------------------------------------
(* What a commit writes                                                    *)

LEMMA ColumnTypes ==
    ASSUME item \in Row
    PROVE  Columns(item, Thresholds) \in ThresholdRow /\ Columns(item, Identity) \in IdentityRow
<1>1. item.name \in Names /\ item.status \in Status /\ item.level \in Levels /\ item.locked \in BOOLEAN
  BY DEF Row
<1>. QED
  BY <1>1 DEF Columns, Thresholds, Identity, ThresholdRow, IdentityRow

\* Flush(w) for any w over columns of the row.
LEMMA FlushRow ==
    ASSUME item \in Row, NEW w,
           "name" \in DOMAIN w => w["name"] \in Names,
           "status" \in DOMAIN w => w["status"] \in Status,
           "level" \in DOMAIN w => w["level"] \in Levels,
           "locked" \in DOMAIN w => w["locked"] \in BOOLEAN
    PROVE  /\ Flush(w) \in Row
           /\ Flush(w).name = IF "name" \in DOMAIN w THEN w["name"] ELSE item.name
           /\ Flush(w).status = IF "status" \in DOMAIN w THEN w["status"] ELSE item.status
           /\ Flush(w).level = IF "level" \in DOMAIN w THEN w["level"] ELSE item.level
           /\ Flush(w).locked = IF "locked" \in DOMAIN w THEN w["locked"] ELSE item.locked
<1>1. DOMAIN item = {"name", "status", "level", "locked"}
  BY DEF Row
<1>2. item.name \in Names /\ item.status \in Status /\ item.level \in Levels /\ item.locked \in BOOLEAN
  BY DEF Row
<1>3. /\ Flush(w).name = IF "name" \in DOMAIN w THEN w["name"] ELSE item.name
      /\ Flush(w).status = IF "status" \in DOMAIN w THEN w["status"] ELSE item.status
      /\ Flush(w).level = IF "level" \in DOMAIN w THEN w["level"] ELSE item.level
      /\ Flush(w).locked = IF "locked" \in DOMAIN w THEN w["locked"] ELSE item.locked
  BY <1>1 DEF Flush
<1>4. Flush(w).name \in Names /\ Flush(w).status \in Status
      /\ Flush(w).level \in Levels /\ Flush(w).locked \in BOOLEAN
  BY <1>2, <1>3
<1>5. Flush(w) = [name |-> Flush(w).name, status |-> Flush(w).status,
                  level |-> Flush(w).level, locked |-> Flush(w).locked]
  BY <1>1 DEF Flush
<1>. QED
  BY <1>3, <1>4, <1>5 DEF Row

LEMMA FlushIdentity ==
    ASSUME item \in Row, NEW row \in IdentityRow, NEW new \in IdentityRow
    PROVE  LET row1 == Flush(Changes(row, new)) IN
           /\ row1 \in Row
           /\ row1.name = IF new.name # row.name THEN new.name ELSE item.name
           /\ row1.status = IF new.status # row.status THEN new.status ELSE item.status
           /\ row1.level = item.level /\ row1.locked = item.locked
<1>. DEFINE w == Changes(row, new)
<1>1. DOMAIN row = {"name", "status"} /\ new.name \in Names /\ new.status \in Status
  BY DEF IdentityRow
<1>2. /\ "name" \in DOMAIN w <=> new.name # row.name
      /\ "status" \in DOMAIN w <=> new.status # row.status
      /\ "level" \notin DOMAIN w /\ "locked" \notin DOMAIN w
      /\ "name" \in DOMAIN w => w["name"] = new.name
      /\ "status" \in DOMAIN w => w["status"] = new.status
  BY <1>1 DEF Changes
<1>. HIDE DEF w
<1>3. /\ Flush(w) \in Row
      /\ Flush(w).name = IF "name" \in DOMAIN w THEN w["name"] ELSE item.name
      /\ Flush(w).status = IF "status" \in DOMAIN w THEN w["status"] ELSE item.status
      /\ Flush(w).level = item.level
      /\ Flush(w).locked = item.locked
  BY <1>1, <1>2, FlushRow
<1>. QED
  BY <1>2, <1>3 DEF w

LEMMA FlushThresholds ==
    ASSUME item \in Row, NEW row \in ThresholdRow, NEW new \in ThresholdRow
    PROVE  LET row1 == Flush(Changes(row, new)) IN
           /\ row1 \in Row
           /\ row1.level = IF new.level # row.level THEN new.level ELSE item.level
           /\ row1.name = item.name /\ row1.status = item.status
<1>. DEFINE w == Changes(row, new)
<1>1. DOMAIN row = {"level", "locked"} /\ new.level \in Levels /\ new.locked \in BOOLEAN
  BY DEF ThresholdRow
<1>2. /\ "level" \in DOMAIN w <=> new.level # row.level
      /\ "name" \notin DOMAIN w /\ "status" \notin DOMAIN w
      /\ "level" \in DOMAIN w => w["level"] = new.level
      /\ "locked" \in DOMAIN w => w["locked"] = new.locked
  BY <1>1 DEF Changes
<1>. HIDE DEF w
<1>3. /\ Flush(w) \in Row
      /\ Flush(w).name = item.name
      /\ Flush(w).status = item.status
      /\ Flush(w).level = IF "level" \in DOMAIN w THEN w["level"] ELSE item.level
  BY <1>1, <1>2, FlushRow
<1>. QED
  BY <1>2, <1>3 DEF w

\* What the sync decides to write of a row, and what its commit leaves.
LEMMA SyncWrites ==
    ASSUME ItemSyncAssumption, item \in Row, NEW n \in Names
    PROVE  LET w == Changes(item, Applied(item, n)) IN
           /\ w \in Writes
           /\ "name" \in DOMAIN w => item.status # "pending"
           /\ "level" \in DOMAIN w => ~item.locked
<1>. DEFINE new == Applied(item, n)
            w == Changes(item, new)
<1>1. DOMAIN item = {"name", "status", "level", "locked"} /\ item.locked \in BOOLEAN
      /\ item.level \in Levels /\ ZohoLevel \in Levels
      /\ item = [name |-> item.name, status |-> item.status, level |-> item.level, locked |-> item.locked]
  BY DEF Row, ItemSyncAssumption
<1>2. /\ new.name = IF item.status = "pending" THEN item.name ELSE n
      /\ new.level = IF item.locked THEN item.level ELSE ZohoLevel
      /\ new.status = item.status /\ new.locked = item.locked
  BY <1>1 DEF Applied, Protected, LevelOf
<1>. HIDE DEF new
<1>3. DOMAIN w = {c \in {"name", "status", "level", "locked"} : new[c] # item[c]}
      /\ \A c \in DOMAIN w : w[c] = new[c]
  BY <1>1 DEF Changes
<1>4. DOMAIN w \subseteq {"name", "level"}
  BY <1>2, <1>3
<1>5. /\ "name" \in DOMAIN w => item.status # "pending" /\ w["name"] = n
      /\ "level" \in DOMAIN w => ~item.locked /\ w["level"] = ZohoLevel
  BY <1>2, <1>3
<1>6. w \in [DOMAIN w -> Names \cup Levels]
  <2>1. \A c \in DOMAIN w : w[c] \in Names \cup Levels
    BY <1>1, <1>4, <1>5
  <2>2. w = [c \in DOMAIN w |-> w[c]]
    BY DEF Changes
  <2>. QED
    BY <2>1, <2>2
<1>. HIDE DEF w
<1>. QED
  BY <1>1, <1>4, <1>5, <1>6 DEF Writes, w, new

LEMMA WritesFacts ==
    ASSUME NEW w \in Writes
    PROVE  /\ DOMAIN w \subseteq {"name", "level"}
           /\ "name" \in DOMAIN w => w["name"] \in Names
           /\ "level" \in DOMAIN w => w["level"] \in Levels
<1>1. PICK C \in SUBSET {"name", "level"} : w \in [C -> Names \cup Levels]
  BY DEF Writes
<1>. QED
  BY <1>1 DEF Writes

LEMMA CommitRow ==
    ASSUME item \in Row, NEW w \in Writes
    PROVE  /\ Flush(w) \in Row
           /\ Flush(w).name = IF "name" \in DOMAIN w THEN w["name"] ELSE item.name
           /\ Flush(w).level = IF "level" \in DOMAIN w THEN w["level"] ELSE item.level
           /\ Flush(w).status = item.status /\ Flush(w).locked = item.locked
<1>1. /\ "status" \notin DOMAIN w /\ "locked" \notin DOMAIN w
      /\ "name" \in DOMAIN w => w["name"] \in Names
      /\ "level" \in DOMAIN w => w["level"] \in Levels
  BY WritesFacts
<1>. QED
  BY <1>1, FlushRow

---------------------------------------------------------------------------
(* What a request does to the table of requests                            *)

LEMMA IdleStage == Idle \in Stage /\ Idle.pc = "idle"
  BY DEF Idle, Stage

LEMMA StageFacts ==
    ASSUME NEW x \in Stage
    PROVE  /\ x.pc \in {"idle", "body", "loaded", "saved", "mirrored", "answered"}
           /\ x.pc = "idle" <=> x = Idle
           /\ x.pc \in {"body", "loaded"} => x.row \in ThresholdRow
           /\ x.pc \in {"saved", "mirrored", "answered"} => x.row \in IdentityRow
           /\ x.pc = "mirrored" => x.send \in Names \cup {None}
           /\ x.pc = "answered" => x.ok \in BOOLEAN /\ x.body \in Names \cup {None}
  BY DEF Stage, Idle

LEMMA JobFacts ==
    ASSUME NEW j \in JobStage
    PROVE  /\ j.pc \in {"idle", "down", "fetched", "loaded"}
           /\ j.pc = "idle" <=> j = Idle
           /\ j.pc = "down" <=> j = Down
           /\ j.pc = "fetched" => j.name \in Names
           /\ j.pc = "loaded" => j.writes \in Writes /\ j.overlapped \in BOOLEAN
           /\ Overlap(j) \in JobStage
           /\ Overlap(j).pc = j.pc
           /\ j.pc = "loaded" => Overlap(j).overlapped /\ Overlap(j).writes = j.writes
<1>1. CASE j \in {Idle, Down}
  BY <1>1 DEF JobStage, Idle, Down, Overlap
<1>2. CASE j \in [pc : {"fetched"}, name : Names]
  BY <1>2 DEF JobStage, Idle, Down, Overlap
<1>3. CASE j \in [pc : {"loaded"}, writes : Writes, overlapped : BOOLEAN]
  <2>1. j.pc = "loaded" /\ j.writes \in Writes /\ j.overlapped \in BOOLEAN
    BY <1>3
  <2>2. Overlap(j) = [j EXCEPT !.overlapped = TRUE]
    BY <2>1 DEF Overlap
  <2>3. Overlap(j) \in [pc : {"loaded"}, writes : Writes, overlapped : BOOLEAN]
    BY <1>3, <2>2
  <2>4. Overlap(j).overlapped /\ Overlap(j).writes = j.writes /\ Overlap(j).pc = "loaded"
    BY <1>3, <2>2
  <2>. QED
    BY <2>1, <2>3, <2>4 DEF JobStage, Idle, Down
<1>. QED
  BY <1>1, <1>2, <1>3 DEF JobStage

\* The bounds on who is at work.
Loads ==
    /\ IsFiniteSet(AtWork)
    /\ Cardinality(AtWork) <= MaxAtWork
    /\ Cardinality(OnTheLoop) <= 1

RequestsOk ==
    /\ req \in [Requests -> Stage]
    /\ \A r \in Requests :
         /\ req[r].pc \in {"body", "saved"} => r \in Edits
         /\ req[r].pc = "loaded" => r \in Inlines
         /\ req[r].pc \in {"mirrored", "answered"} => r \notin Inlines
         /\ req[r].pc = "answered" => configured

LEMMA LoopFinite ==
    ASSUME IsFiniteSet(AtWork)
    PROVE  OnTheLoop \subseteq AtWork /\ IsFiniteSet(OnTheLoop)
<1>1. OnTheLoop \subseteq AtWork
  BY DEF OnTheLoop, AtWork, Requests, Idle
<1>. QED
  BY <1>1, FS_Subset

\* A request at work goes on, or ends; only an edit that the loop is free for
\* gets onto it.
LEMMA GoesOn ==
    ASSUME ItemSyncAssumption, Loads, RequestsOk, NEW r \in Requests, NEW x \in Stage, r \in AtWork,
           req' = [req EXCEPT ![r] = x],
           r \in Edits /\ x.pc \notin {"idle", "body"} /\ req[r].pc = "body" => LoopFree
    PROVE  /\ req' \in [Requests -> Stage]
           /\ req'[r] = x /\ \A t \in Requests \ {r} : req'[t] = req[t]
           /\ AtWork' \subseteq AtWork
           /\ Loads'
<1>1. /\ req' \in [Requests -> Stage]
      /\ req'[r] = x /\ \A t \in Requests \ {r} : req'[t] = req[t]
  BY DEF RequestsOk
<1>2. AtWork' \subseteq AtWork
  BY <1>1 DEF AtWork
<1>3. IsFiniteSet(AtWork') /\ Cardinality(AtWork') <= Cardinality(AtWork)
  BY <1>2, FS_Subset DEF Loads
<1>4. Cardinality(AtWork') \in Nat /\ Cardinality(AtWork) \in Nat
  BY <1>3, FS_CardinalityType DEF Loads
<1>5. Cardinality(AtWork') <= MaxAtWork
  BY <1>3, <1>4 DEF Loads, ItemSyncAssumption
<1>6. IsFiniteSet(OnTheLoop)
  BY LoopFinite DEF Loads
<1>7. req[r].pc # "idle"
  BY StageFacts DEF RequestsOk, AtWork
<1>8. CASE OnTheLoop' \subseteq OnTheLoop
  <2>1. Cardinality(OnTheLoop') <= Cardinality(OnTheLoop) /\ IsFiniteSet(OnTheLoop')
    BY <1>6, <1>8, FS_Subset
  <2>2. Cardinality(OnTheLoop') \in Nat /\ Cardinality(OnTheLoop) \in Nat
    BY <1>6, <2>1, FS_CardinalityType
  <2>3. Cardinality(OnTheLoop') <= 1
    BY <2>1, <2>2 DEF Loads
  <2>. QED
    BY <1>1, <1>2, <1>3, <1>5, <2>3 DEF Loads
<1>9. CASE ~ (OnTheLoop' \subseteq OnTheLoop)
  <2>1. r \in Edits /\ x.pc \notin {"idle", "body"} /\ req[r].pc = "body"
    BY <1>1, <1>7, <1>9 DEF OnTheLoop, Requests
  <2>2. OnTheLoop' = {r}
    BY <1>1, <2>1 DEF LoopFree, OnTheLoop, Requests
  <2>3. Cardinality({r}) = 1
    BY FS_Singleton
  <2>4. Cardinality(OnTheLoop') <= 1
    BY <2>2, <2>3
  <2>. QED
    BY <1>1, <1>2, <1>3, <1>5, <2>4 DEF Loads
<1>. QED
  BY <1>8, <1>9

\* A request arrives while there is room.
LEMMA ArrivesInRoom ==
    ASSUME ItemSyncAssumption, Loads, RequestsOk, NEW r \in Requests, NEW x \in Stage, r \notin AtWork, Room,
           req' = [req EXCEPT ![r] = x], r \in Edits => x.pc = "body" 
    PROVE  /\ req' \in [Requests -> Stage]
           /\ req'[r] = x /\ \A t \in Requests \ {r} : req'[t] = req[t]
           /\ Loads'
<1>1. /\ req' \in [Requests -> Stage]
      /\ req'[r] = x /\ \A t \in Requests \ {r} : req'[t] = req[t]
  BY DEF RequestsOk
<1>2. AtWork' \subseteq AtWork \cup {r}
  BY <1>1 DEF AtWork
<1>3. IsFiniteSet(AtWork \cup {r}) /\ Cardinality(AtWork \cup {r}) = Cardinality(AtWork) + 1
  BY FS_AddElement DEF Loads
<1>4. IsFiniteSet(AtWork') /\ Cardinality(AtWork') <= Cardinality(AtWork \cup {r})
  BY <1>2, <1>3, FS_Subset
<1>5. Cardinality(AtWork') \in Nat /\ Cardinality(AtWork) \in Nat
  BY <1>4, FS_CardinalityType DEF Loads
<1>6. Cardinality(AtWork') <= MaxAtWork
  BY <1>3, <1>4, <1>5 DEF Loads, ItemSyncAssumption, Room
<1>7. OnTheLoop' = OnTheLoop
  <2>1. r \notin OnTheLoop /\ r \notin OnTheLoop'
    BY <1>1 DEF OnTheLoop, AtWork, Idle, Requests
  <2>2. \A e \in Edits \ {r} : req'[e] = req[e]
    BY <1>1 DEF Requests
  <2>. QED
    BY <2>1, <2>2 DEF OnTheLoop
<1>. QED
  BY <1>1, <1>4, <1>6, <1>7 DEF Loads

LEMMA RequestsKept ==
    ASSUME RequestsOk, NEW r \in Requests, NEW x \in Stage, configured' = configured,
           req' \in [Requests -> Stage], req'[r] = x, \A t \in Requests \ {r} : req'[t] = req[t],
           x.pc \in {"body", "saved"} => r \in Edits,
           x.pc = "loaded" => r \in Inlines,
           x.pc \in {"mirrored", "answered"} => r \notin Inlines,
           x.pc = "answered" => configured
    PROVE  RequestsOk'
<1>1. ASSUME NEW t \in Requests
      PROVE  /\ req'[t].pc \in {"body", "saved"} => t \in Edits
             /\ req'[t].pc = "loaded" => t \in Inlines
             /\ req'[t].pc \in {"mirrored", "answered"} => t \notin Inlines
             /\ req'[t].pc = "answered" => configured
  <2>1. CASE t = r
    BY <2>1
  <2>2. CASE t # r
    BY <2>2 DEF RequestsOk
  <2>. QED
    BY <2>1, <2>2
<1>. QED
  BY <1>1 DEF RequestsOk

---------------------------------------------------------------------------
(* The inductive invariant, and what a step of a request leaves of it      *)

Whole ==
    /\ TypeOK
    /\ IsFiniteSet(AtWork)
    /\ ParkedEditKept
    /\ OwnLevelKept
    /\ SyncDecides
    /\ DownRunsNothing
    /\ ParkingAgrees
    /\ PendingSettles

Types ==
    /\ item \in Row
    /\ zoho \in Names
    /\ configured \in BOOLEAN
    /\ job \in JobStage
    /\ wanted \in Names \cup {None}
    /\ owned \in Levels \cup {None}

LEMMA TypeParts == TypeOK /\ IsFiniteSet(AtWork) <=> Types /\ RequestsOk /\ Loads
  BY DEF TypeOK, Types, RequestsOk, Loads

LEMMA RowFacts ==
    ASSUME NEW row \in Row
    PROVE  row.name \in Names /\ row.status \in Status /\ row.level \in Levels /\ row.locked \in BOOLEAN
  BY DEF Row

LEMMA IdentityFacts ==
    ASSUME NEW row \in IdentityRow
    PROVE  row.name \in Names /\ row.status \in Status
  BY DEF IdentityRow

\* Names and levels are reconciled with the histories, and nothing becomes
\* pending but an edit that is parked.
Proceeded(r) ==
    /\ job' = job /\ configured' = configured
    /\ r \in AtWork
    /\ Types' /\ RequestsOk' /\ Loads'
    /\ \A t \in Requests \ {r} : req'[t] = req[t]
    /\ \/ item'.level = item.level /\ item'.locked = item.locked /\ owned' = owned
       \/ owned' \in {item'.level, None}
    /\ \/ item'.name = item.name /\ wanted' = wanted
       \/ wanted' \in {item'.name, None}
       \/ item'.status # "pending" /\ configured
    /\ item'.status = "pending" =>
         \/ item.status = "pending"
         \/ ~configured /\ req[r].pc = "mirrored" /\ (r \in Edits \/ wanted' = item'.name)
    /\ ~configured /\ req'[r].pc = "mirrored" => wanted' \in {item'.name, None}
    /\ configured /\ item'.status = "pending" /\ req'[r].pc \in {"saved", "mirrored", "answered"} =>
         req'[r].row.status = "pending"

LEMMA SubmitProceeds ==
    ASSUME ItemSyncAssumption, Whole, NEW e \in Edits, NEW l \in Levels, Submit(e, l)
    PROVE  Proceeded(e)
<1>. DEFINE x == [pc |-> "saved", row |-> Columns(item', Identity)]
<1>1. Types /\ RequestsOk /\ Loads
  BY TypeParts DEF Whole
<1>2. e \in Requests /\ e \in AtWork
  BY DEF Requests, AtWork, Submit, Idle
<1>3. req[e].row \in ThresholdRow
  BY <1>1, <1>2, StageFacts DEF Submit, RequestsOk
<1>4. Locked(req[e].row, l) \in ThresholdRow
  BY <1>3 DEF ThresholdRow, Locked
<1>5. item' \in Row /\ item'.name = item.name /\ item'.status = item.status
  BY <1>1, <1>3, <1>4, FlushThresholds DEF Submit, SaveLevel, Types
<1>6. Columns(item', Identity) \in IdentityRow /\ Columns(item', Identity).status = item'.status
  <2>1. item'.name \in Names /\ item'.status \in Status
    BY <1>5, RowFacts
  <2>. QED
    BY <2>1 DEF Columns, Identity, IdentityRow
<1>7. x \in Stage /\ x.pc = "saved" /\ x.row.status = item'.status
  BY <1>6 DEF Stage
<1>8. req' = [req EXCEPT ![e] = x] /\ LoopFree
      /\ job' = job /\ configured' = configured /\ zoho' = zoho /\ wanted' = wanted
      /\ owned' \in {item'.level, None} /\ owned' \in Levels \cup {None}
  BY DEF Submit, SaveLevel
<1>. HIDE DEF x
<1>9. /\ req' \in [Requests -> Stage]
      /\ req'[e] = x /\ \A t \in Requests \ {e} : req'[t] = req[t]
      /\ Loads'
  BY <1>1, <1>2, <1>7, <1>8, GoesOn
<1>10. RequestsOk'
  BY <1>1, <1>2, <1>7, <1>8, <1>9, RequestsKept
<1>. QED
  BY <1>1, <1>2, <1>5, <1>7, <1>8, <1>9, <1>10 DEF Proceeded, Types

\* A request whose answer is the last of it.
LEMMA Ends ==
    ASSUME ItemSyncAssumption, Whole, NEW r \in Requests, r \in AtWork, req' = [req EXCEPT ![r] = Idle],
           configured' = configured
    PROVE  /\ RequestsOk' /\ Loads'
           /\ req'[r].pc = "idle" /\ \A t \in Requests \ {r} : req'[t] = req[t]
<1>1. RequestsOk /\ Loads
  BY TypeParts DEF Whole
<1>2. /\ req' \in [Requests -> Stage]
      /\ req'[r] = Idle /\ \A t \in Requests \ {r} : req'[t] = req[t]
      /\ Loads'
  BY <1>1, IdleStage, GoesOn
<1>3. RequestsOk'
  BY <1>1, <1>2, IdleStage, RequestsKept
<1>. QED
  BY <1>2, <1>3, IdleStage

LEMMA ResolveProceeds ==
    ASSUME ItemSyncAssumption, Whole, NEW e \in Edits, NEW f \in Form, NEW m, Resolve(e, f, m)
    PROVE  Proceeded(e)
<1>1. Types /\ e \in Requests /\ e \in AtWork
  BY TypeParts DEF Whole, Requests, AtWork, Resolve, Idle
<1>2. req' = [req EXCEPT ![e] = Idle] /\ UNCHANGED <<item, zoho, configured, job, wanted, owned>>
  BY DEF Resolve
<1>3. /\ RequestsOk' /\ Loads'
      /\ req'[e].pc = "idle" /\ \A t \in Requests \ {e} : req'[t] = req[t]
  BY <1>1, <1>2, Ends
<1>. QED
  BY <1>1, <1>2, <1>3 DEF Proceeded, Types

LEMMA SaveInlineProceeds ==
    ASSUME ItemSyncAssumption, Whole, NEW i \in Inlines, NEW l \in Levels, SaveInline(i, l)
    PROVE  Proceeded(i)
<1>1. Types /\ RequestsOk /\ i \in Requests /\ i \in AtWork
  BY TypeParts DEF Whole, Requests, AtWork, SaveInline, Idle
<1>2. /\ req' = [req EXCEPT ![i] = Idle] /\ UNCHANGED <<zoho, configured, job, wanted>>
      /\ owned' \in {item'.level, None} /\ owned' \in Levels \cup {None}
  BY DEF SaveInline, SaveLevel
<1>3. /\ RequestsOk' /\ Loads'
      /\ req'[i].pc = "idle" /\ \A t \in Requests \ {i} : req'[t] = req[t]
  BY <1>1, <1>2, Ends
<1>4. req[i].row \in ThresholdRow
  BY <1>1, StageFacts DEF SaveInline, RequestsOk
<1>5. Locked(req[i].row, l) \in ThresholdRow
  BY <1>4 DEF ThresholdRow, Locked
<1>6. item' \in Row /\ item'.name = item.name /\ item'.status = item.status
  BY <1>1, <1>4, <1>5, FlushThresholds DEF SaveInline, SaveLevel, Types
<1>. QED
  BY <1>1, <1>2, <1>3, <1>6 DEF Proceeded, Types

LEMMA MirrorProceeds ==
    ASSUME ItemSyncAssumption, Whole, NEW e \in Edits, NEW f \in Form, NEW m \in BOOLEAN, Mirror(e, f, m)
    PROVE  Proceeded(e)
<1>. DEFINE row == req[e].row
            new == IF f.name = None THEN row ELSE [row EXCEPT !.name = f.name]
            x == [pc |-> "mirrored", row |-> Columns(item', Identity), send |-> f.name]
<1>1. Types /\ RequestsOk /\ Loads
  BY TypeParts DEF Whole
<1>2. e \in Requests /\ e \in AtWork /\ e \notin Inlines
  BY DEF Requests, AtWork, Mirror, Idle, ItemSyncAssumption
<1>3. row \in IdentityRow
  BY <1>1, <1>2, StageFacts DEF Mirror, RequestsOk
<1>4. f.name \in Names \cup {None} /\ f.other \in BOOLEAN
  BY DEF Form
<1>5. new \in IdentityRow /\ new.status = row.status
      /\ (f.name = None => new.name = row.name) /\ (f.name # None => new.name = f.name)
  BY <1>3, <1>4 DEF IdentityRow
<1>6. item' = Flush(Changes(row, new))
  BY DEF Mirror
<1>. HIDE DEF row, new
<1>7. /\ item' \in Row
      /\ item'.name = IF new.name # row.name THEN new.name ELSE item.name
      /\ item'.status = item.status
      /\ item'.level = item.level /\ item'.locked = item.locked
  BY <1>1, <1>3, <1>5, <1>6, FlushIdentity DEF Types
<1>8. Columns(item', Identity) \in IdentityRow /\ Columns(item', Identity).status = item'.status
  <2>1. item'.name \in Names /\ item'.status \in Status
    BY <1>7, RowFacts
  <2>. QED
    BY <2>1 DEF Columns, Identity, IdentityRow
<1>9. x \in Stage /\ x.pc = "mirrored" /\ x.row.status = item'.status
  BY <1>4, <1>8 DEF Stage
<1>10. /\ req' = [req EXCEPT ![e] = x] /\ req[e].pc = "saved"
       /\ UNCHANGED <<zoho, configured, job, owned>>
       /\ wanted' = IF f.name = None THEN wanted
                    ELSE IF item'.name = f.name THEN f.name ELSE None
  BY DEF Mirror
<1>11. configured \/ f.name # None
  BY <1>4 DEF Mirror, Invalid, Unchanged, HasMetadata
<1>. HIDE DEF x
<1>12. /\ req' \in [Requests -> Stage]
       /\ req'[e] = x /\ \A t \in Requests \ {e} : req'[t] = req[t]
       /\ Loads'
  BY <1>1, <1>2, <1>9, <1>10, GoesOn
<1>13. RequestsOk'
  BY <1>1, <1>2, <1>9, <1>10, <1>12, RequestsKept
<1>14. wanted' \in Names \cup {None} /\ owned' \in Levels \cup {None}
  BY <1>1, <1>4, <1>10 DEF Types
<1>15. \/ item'.name = item.name /\ wanted' = wanted /\ f.name = None
       \/ wanted' \in {item'.name, None} /\ f.name # None
  BY <1>5, <1>7, <1>10
<1>. QED
  BY <1>1, <1>2, <1>7, <1>9, <1>10, <1>11, <1>12, <1>13, <1>14, <1>15 DEF Proceeded, Types

LEMMA ParkProceeds ==
    ASSUME ItemSyncAssumption, Whole, NEW r \in Requests, r \notin Inlines, Park(r)
    PROVE  Proceeded(r)
<1>. DEFINE row == req[r].row
            new == [row EXCEPT !.status = "pending"]
<1>1. Types /\ RequestsOk /\ r \in AtWork
  BY TypeParts DEF Whole, AtWork, Park, Idle
<1>2. /\ req' = [req EXCEPT ![r] = Idle] /\ UNCHANGED <<zoho, configured, job, owned>>
      /\ wanted' = (IF r \in Retries THEN item'.name ELSE wanted)
      /\ ~configured /\ req[r].pc = "mirrored"
      /\ item' = Flush(Changes(row, new))
  BY DEF Park
<1>3. /\ RequestsOk' /\ Loads'
      /\ req'[r].pc = "idle" /\ \A t \in Requests \ {r} : req'[t] = req[t]
  BY <1>1, <1>2, Ends
<1>4. row \in IdentityRow
  BY <1>1, <1>2, StageFacts DEF RequestsOk
<1>5. new \in IdentityRow /\ new.name = row.name
  BY <1>4 DEF IdentityRow, Status
<1>. HIDE DEF row, new
<1>6. /\ item' \in Row /\ item'.name = item.name
      /\ item'.level = item.level /\ item'.locked = item.locked
  BY <1>1, <1>2, <1>4, <1>5, FlushIdentity DEF Types
<1>7. wanted' \in Names \cup {None} /\ (r \in Edits \/ wanted' = item'.name)
  <2>1. item'.name \in Names
    BY <1>6, RowFacts
  <2>. QED
    BY <1>1, <1>2, <2>1 DEF Types, Requests
<1>8. wanted' = wanted \/ wanted' = item'.name
  BY <1>2
<1>. QED
  BY <1>1, <1>2, <1>3, <1>6, <1>7, <1>8 DEF Proceeded, Types

LEMMA PatchProceeds ==
    ASSUME ItemSyncAssumption, Whole, NEW r \in Requests, r \notin Inlines,
           NEW applied \in BOOLEAN, NEW answer, Patch(r, applied, answer)
    PROVE  Proceeded(r)
<1>. DEFINE name == IF applied /\ req[r].send # None THEN req[r].send ELSE zoho
            x == [pc |-> "answered", row |-> req[r].row, ok |-> answer # "error",
                  body |-> IF answer = "body" THEN name ELSE None]
<1>1. Types /\ RequestsOk /\ Loads /\ r \in AtWork
  BY TypeParts DEF Whole, AtWork, Patch, Idle
<1>2. /\ req' = [req EXCEPT ![r] = x] /\ UNCHANGED <<item, configured, job, wanted, owned>>
      /\ zoho' = name /\ configured /\ req[r].pc = "mirrored"
  BY DEF Patch
<1>3. req[r].row \in IdentityRow /\ req[r].send \in Names \cup {None}
  BY <1>1, <1>2, StageFacts DEF RequestsOk
<1>4. name \in Names
  BY <1>1, <1>3 DEF Types
<1>. HIDE DEF name
<1>5. x \in Stage /\ x.pc = "answered" /\ x.row = req[r].row
  BY <1>3, <1>4 DEF Stage
<1>. HIDE DEF x
<1>6. /\ req' \in [Requests -> Stage]
      /\ req'[r] = x /\ \A t \in Requests \ {r} : req'[t] = req[t]
      /\ Loads'
  BY <1>1, <1>2, <1>5, GoesOn
<1>7. RequestsOk'
  BY <1>1, <1>2, <1>5, <1>6, RequestsKept
<1>8. item.status = "pending" => x.row.status = "pending"
  BY <1>2, <1>5 DEF Whole, PendingSettles
<1>. QED
  BY <1>1, <1>2, <1>4, <1>5, <1>6, <1>7, <1>8 DEF Proceeded, Types

LEMMA FinishProceeds ==
    ASSUME ItemSyncAssumption, Whole, NEW r \in Requests, r \notin Inlines,
           NEW verified \in BOOLEAN, Finish(r, verified)
    PROVE  Proceeded(r)
<1>. DEFINE row == req[r].row
            new == [row EXCEPT !.status = Outcome(r),
                               !.name = IF req[r].ok THEN Aligned(r, verified) ELSE @]
<1>1. Types /\ RequestsOk /\ r \in AtWork
  BY TypeParts DEF Whole, AtWork, Finish, Idle
<1>2. /\ req' = [req EXCEPT ![r] = Idle] /\ UNCHANGED <<zoho, configured, job, wanted, owned>>
      /\ req[r].pc = "answered"
      /\ item' = Flush(Changes(row, new))
  BY DEF Finish
<1>3. /\ RequestsOk' /\ Loads'
      /\ req'[r].pc = "idle" /\ \A t \in Requests \ {r} : req'[t] = req[t]
  BY <1>1, <1>2, Ends
<1>4. row \in IdentityRow /\ req[r].ok \in BOOLEAN /\ req[r].body \in Names \cup {None}
  BY <1>1, <1>2, StageFacts DEF RequestsOk
<1>5. Aligned(r, verified) \in Names
  <2>1. row.name \in Names
    BY <1>4, IdentityFacts
  <2>. QED
    BY <1>1, <1>4, <2>1 DEF Aligned, Fetched, Types
<1>6. Outcome(r) \in Status /\ Outcome(r) # "pending"
  BY DEF Outcome, Status
<1>7. new \in IdentityRow /\ new.status = Outcome(r)
  BY <1>4, <1>5, <1>6 DEF IdentityRow
<1>8. configured
  BY <1>1, <1>2 DEF RequestsOk
<1>9. item.status = "pending" => row.status = "pending"
  BY <1>2, <1>8 DEF Whole, PendingSettles
<1>. HIDE DEF row, new
<1>10. /\ item' \in Row
       /\ item'.status = IF new.status # row.status THEN new.status ELSE item.status
       /\ item'.level = item.level /\ item'.locked = item.locked
  BY <1>1, <1>2, <1>4, <1>7, FlushIdentity DEF Types
<1>11. item'.status # "pending"
  BY <1>6, <1>7, <1>9, <1>10
<1>. QED
  BY <1>1, <1>2, <1>3, <1>8, <1>10, <1>11, IdleStage DEF Proceeded, Types

LEMMA ProceedsProceeds ==
    ASSUME ItemSyncAssumption, Whole, NEW r \in Requests, Proceeds(r)
    PROVE  Proceeded(r)
<1>1. ASSUME NEW l \in Levels, r \in Edits, Submit(r, l) PROVE Proceeded(r)
  BY <1>1, SubmitProceeds
<1>2. ASSUME NEW f \in Form, NEW metadata \in BOOLEAN, r \in Edits, Resolve(r, f, metadata) PROVE Proceeded(r)
  BY <1>2, ResolveProceeds
<1>3. ASSUME NEW f \in Form, NEW metadata \in BOOLEAN, r \in Edits, Mirror(r, f, metadata) PROVE Proceeded(r)
  BY <1>3, MirrorProceeds
<1>4. ASSUME NEW l \in Levels, r \in Inlines, SaveInline(r, l) PROVE Proceeded(r)
  BY <1>4, SaveInlineProceeds
<1>5. ASSUME r \notin Inlines, Park(r) PROVE Proceeded(r)
  BY <1>5, ParkProceeds
<1>6. ASSUME NEW applied \in BOOLEAN, NEW answer \in {"body", "empty", "error"},
             r \notin Inlines, Patch(r, applied, answer)
      PROVE  Proceeded(r)
  BY <1>6, PatchProceeds
<1>7. ASSUME NEW verified \in BOOLEAN, r \notin Inlines, Finish(r, verified) PROVE Proceeded(r)
  BY <1>7, FinishProceeds
<1>. QED
  BY <1>1, <1>2, <1>3, <1>4, <1>5, <1>6, <1>7, Zenon DEF Proceeds

LEMMA ProceedsKeeps ==
    ASSUME ItemSyncAssumption, Whole, NEW r \in Requests, Proceeds(r)
    PROVE  Whole'
<1>1. Proceeded(r)
  BY ProceedsProceeds
<1>2. TypeOK' /\ IsFiniteSet(AtWork)'
  BY <1>1, TypeParts DEF Proceeded, TypeOK, Types, RequestsOk, Loads
<1>3. ParkedEditKept'
  BY <1>1 DEF Proceeded, Whole, ParkedEditKept, ParkingAgrees
<1>4. OwnLevelKept'
  BY <1>1 DEF Proceeded, Whole, OwnLevelKept
<1>5. SyncDecides' /\ DownRunsNothing'
  <2>1. AtWork # {} /\ job' = job
    BY <1>1 DEF Proceeded
  <2>. QED
    BY <2>1 DEF Whole, SyncDecides, DownRunsNothing
<1>6. ParkingAgrees'
  <2>1. SUFFICES ASSUME ~configured', NEW e \in Edits, req'[e].pc = "mirrored"
                 PROVE  wanted' \in {item'.name, None}
    BY DEF ParkingAgrees
  <2>2. ~configured
    BY <1>1, <2>1 DEF Proceeded
  <2>3. CASE e = r
    BY <1>1, <2>1, <2>2, <2>3 DEF Proceeded
  <2>4. CASE e # r
    <3>1. req[e].pc = "mirrored"
      BY <1>1, <2>1, <2>4 DEF Proceeded, Requests
    <3>2. wanted \in {item.name, None}
      BY <2>2, <3>1 DEF Whole, ParkingAgrees
    <3>. QED
      BY <1>1, <2>2, <3>2 DEF Proceeded
  <2>. QED
    BY <2>3, <2>4
<1>7. PendingSettles'
  <2>1. SUFFICES ASSUME configured', item'.status = "pending", NEW t \in Requests,
                        req'[t].pc \in {"saved", "mirrored", "answered"}
                 PROVE  req'[t].row.status = "pending"
    BY DEF PendingSettles
  <2>2. CASE t = r
    BY <1>1, <2>1, <2>2 DEF Proceeded
  <2>3. CASE t # r
    BY <1>1, <2>1, <2>3 DEF Proceeded, Whole, PendingSettles
  <2>. QED
    BY <2>2, <2>3
<1>. QED
  BY <1>2, <1>3, <1>4, <1>5, <1>6, <1>7 DEF Whole

LEMMA ArrivesKeeps ==
    ASSUME ItemSyncAssumption, Whole, Arrives
    PROVE  Whole'
<1>. DEFINE Got(r, x) ==
              /\ r \notin AtWork /\ Room
              /\ x \in Stage
              /\ r \in Edits => x.pc = "body"
              /\ r \in Retries => x.pc = "mirrored" /\ x.row.status = item.status
              /\ r \in Inlines => x.pc = "loaded"
              /\ req' = [req EXCEPT ![r] = x]
<1>1. Types /\ RequestsOk /\ Loads
  BY TypeParts DEF Whole
<1>2. job' = Overlap(job) /\ UNCHANGED <<item, zoho, configured, wanted, owned>>
  BY DEF Arrives, Open, Retry, OpenInline
<1>3. /\ Columns(item, Thresholds) \in ThresholdRow /\ Columns(item, Identity) \in IdentityRow
      /\ Columns(item, Identity).status = item.status
      /\ item.name \in Names
  BY <1>1, ColumnTypes, RowFacts DEF Types, Columns, Identity
<1>4. PICK r \in Requests : \E x : Got(r, x)
  <2>1. ASSUME NEW e \in Edits, Open(e) PROVE \E x : Got(e, x)
    <3>1. [pc |-> "body", row |-> Columns(item, Thresholds)] \in Stage
      BY <1>3 DEF Stage
    <3>2. Got(e, [pc |-> "body", row |-> Columns(item, Thresholds)])
      BY <2>1, <3>1 DEF Open, AtWork, ItemSyncAssumption
    <3>. QED
      BY <3>2
  <2>2. ASSUME NEW t \in Retries, Retry(t) PROVE \E x : Got(t, x)
    <3>. DEFINE x == [pc |-> "mirrored", row |-> Columns(item, Identity), send |-> item.name]
    <3>1. x \in Stage
      BY <1>3 DEF Stage
    <3>2. Got(t, x)
      BY <1>3, <2>2, <3>1 DEF Retry, AtWork, ItemSyncAssumption
    <3>. QED
      BY <3>2
  <2>3. ASSUME NEW i \in Inlines, OpenInline(i) PROVE \E x : Got(i, x)
    <3>1. [pc |-> "loaded", row |-> Columns(item, Thresholds)] \in Stage
      BY <1>3 DEF Stage
    <3>2. Got(i, [pc |-> "loaded", row |-> Columns(item, Thresholds)])
      BY <2>3, <3>1 DEF OpenInline, AtWork, ItemSyncAssumption
    <3>. QED
      BY <3>2
  <2>. HIDE DEF Got
  <2>. QED
    BY <2>1, <2>2, <2>3 DEF Arrives, Requests
<1>5. PICK x : Got(r, x)
  BY <1>4
<1>6. /\ req' \in [Requests -> Stage]
      /\ req'[r] = x /\ \A t \in Requests \ {r} : req'[t] = req[t]
      /\ Loads'
  BY <1>1, <1>5, ArrivesInRoom
<1>7. RequestsOk'
  BY <1>1, <1>2, <1>5, <1>6, RequestsKept DEF ItemSyncAssumption, Requests
<1>8. /\ job' \in JobStage /\ job'.pc = job.pc /\ job # Down
      /\ job'.pc = "loaded" => job'.overlapped
      /\ job' # Down
  <2>1. job \in JobStage /\ job # Down
    BY <1>1, <1>5 DEF Types, Room
  <2>. QED
    BY <1>2, <2>1, JobFacts
<1>9. Types'
  BY <1>1, <1>2, <1>8 DEF Types
<1>10. TypeOK' /\ IsFiniteSet(AtWork)'
  BY <1>6, <1>7, <1>9, TypeParts DEF TypeOK, Types, RequestsOk, Loads
<1>11. ParkedEditKept' /\ OwnLevelKept'
  BY <1>2 DEF Whole, ParkedEditKept, OwnLevelKept
<1>12. SyncDecides' /\ DownRunsNothing'
  BY <1>8 DEF SyncDecides, DownRunsNothing
<1>13. ParkingAgrees'
  <2>1. SUFFICES ASSUME ~configured', NEW e \in Edits, req'[e].pc = "mirrored"
                 PROVE  wanted' \in {item'.name, None}
    BY DEF ParkingAgrees
  <2>2. e # r
    BY <1>5, <1>6, <2>1 DEF Requests
  <2>3. req[e].pc = "mirrored"
    BY <1>6, <2>1, <2>2 DEF Requests
  <2>. QED
    BY <1>2, <2>1, <2>3 DEF Whole, ParkingAgrees
<1>14. PendingSettles'
  <2>1. SUFFICES ASSUME configured', item'.status = "pending", NEW t \in Requests,
                        req'[t].pc \in {"saved", "mirrored", "answered"}
                 PROVE  req'[t].row.status = "pending"
    BY DEF PendingSettles
  <2>2. CASE t = r
    BY <1>2, <1>5, <1>6, <2>1, <2>2 DEF Requests
  <2>3. CASE t # r
    BY <1>2, <1>6, <2>1, <2>3 DEF Whole, PendingSettles
  <2>. QED
    BY <2>2, <2>3
<1>. QED
  BY <1>10, <1>11, <1>12, <1>13, <1>14 DEF Whole

LEMMA SyncKeeps ==
    ASSUME ItemSyncAssumption, Whole, Fetch \/ Load \/ Commit \/ SyncFails
    PROVE  Whole'
<1>1. Types /\ RequestsOk /\ Loads
  BY TypeParts DEF Whole
<1>2. zoho' = zoho /\ configured' = configured /\ req' = req /\ AtWork' = AtWork /\ OnTheLoop' = OnTheLoop
  BY DEF Fetch, Load, Commit, SyncFails, AtWork, OnTheLoop
<1>3. RequestsOk' /\ Loads'
  BY <1>1, <1>2 DEF RequestsOk, Loads
<1>4. job # Down /\ job' # Down
  BY DEF Fetch, Load, Commit, SyncFails, Idle, Down
<1>5. ASSUME Types', ParkedEditKept', OwnLevelKept', SyncDecides', ParkingAgrees', PendingSettles'
      PROVE  Whole'
  <2>1. TypeOK' /\ IsFiniteSet(AtWork)'
    BY <1>3, <1>5 DEF TypeOK, Types, RequestsOk, Loads
  <2>2. DownRunsNothing'
    BY <1>4 DEF DownRunsNothing
  <2>. QED
    BY <1>5, <2>1, <2>2 DEF Whole
<1>6. CASE Fetch \/ SyncFails
  <2>1. UNCHANGED <<item, wanted, owned>> /\ job'.pc # "loaded" /\ job' \in JobStage
    BY <1>1, <1>6 DEF Fetch, SyncFails, Types, Idle, JobStage
  <2>. QED
    BY <1>1, <1>2, <1>5, <2>1
       DEF Whole, Types, ParkedEditKept, OwnLevelKept, SyncDecides, ParkingAgrees, PendingSettles
<1>7. CASE Load
  <2>. DEFINE w == Changes(item, Applied(item, job.name))
  <2>1. /\ UNCHANGED <<item, wanted, owned>>
        /\ job' = [pc |-> "loaded", writes |-> w, overlapped |-> AtWork # {}]
    BY <1>7 DEF Load
  <2>2. job.name \in Names
    BY <1>1, <1>7, JobFacts DEF Load, Types
  <2>3. /\ w \in Writes
        /\ "name" \in DOMAIN w => item.status # "pending"
        /\ "level" \in DOMAIN w => ~item.locked
    BY <1>1, <2>2, SyncWrites DEF Types
  <2>. HIDE DEF w
  <2>4. job' \in JobStage
    BY <2>1, <2>3 DEF JobStage
  <2>5. SyncDecides'
    BY <1>2, <2>1, <2>3 DEF SyncDecides
  <2>. QED
    BY <1>1, <1>2, <1>5, <2>1, <2>4, <2>5
       DEF Whole, Types, ParkedEditKept, OwnLevelKept, ParkingAgrees, PendingSettles
<1>8. CASE Commit
  <2>. DEFINE w == job.writes
  <2>1. /\ item' = Flush(w) /\ job.pc = "loaded" /\ job' = Idle
        /\ wanted' = IF job.overlapped /\ "name" \in DOMAIN w THEN None ELSE wanted
        /\ owned' = IF job.overlapped /\ "level" \in DOMAIN w THEN None ELSE owned
    BY <1>8 DEF Commit
  <2>2. w \in Writes /\ job.overlapped \in BOOLEAN
    BY <1>1, <2>1, JobFacts DEF Types
  <2>3. /\ item' \in Row
        /\ item'.name = IF "name" \in DOMAIN w THEN w["name"] ELSE item.name
        /\ item'.level = IF "level" \in DOMAIN w THEN w["level"] ELSE item.level
        /\ item'.status = item.status /\ item'.locked = item.locked
    BY <1>1, <2>1, <2>2, CommitRow DEF Types
  <2>4. ~job.overlapped =>
          /\ AtWork = {}
          /\ "name" \in DOMAIN w => item.status # "pending"
          /\ "level" \in DOMAIN w => ~item.locked
    BY <2>1 DEF Whole, SyncDecides
  <2>. HIDE DEF w
  <2>5. Types'
    BY <1>1, <1>2, <2>1, <2>3 DEF Types, JobStage
  <2>6. ParkedEditKept'
    BY <2>1, <2>3, <2>4 DEF Whole, ParkedEditKept
  <2>7. OwnLevelKept'
    BY <2>1, <2>3, <2>4 DEF Whole, OwnLevelKept
  <2>8. SyncDecides'
    BY <2>1, IdleStage DEF SyncDecides
  <2>9. ParkingAgrees'
    <3>1. SUFFICES ASSUME ~configured, NEW e \in Edits, req[e].pc = "mirrored"
                   PROVE  wanted' \in {item'.name, None}
      BY <1>2 DEF ParkingAgrees
    <3>2. e \in AtWork /\ wanted \in {item.name, None}
      BY <3>1, IdleStage DEF AtWork, Requests, Whole, ParkingAgrees
    <3>. QED
      BY <2>1, <2>3, <2>4, <3>2
  <2>10. PendingSettles'
    BY <1>2, <2>3 DEF Whole, PendingSettles
  <2>. QED
    BY <1>5, <2>5, <2>6, <2>7, <2>8, <2>9, <2>10
<1>. QED
  BY <1>6, <1>7, <1>8

LEMMA OutsideKeeps ==
    ASSUME ItemSyncAssumption, Whole, (\E n \in Names : UpstreamEdit(n)) \/ Crash \/ (\E c \in BOOLEAN : Restart(c))
    PROVE  Whole'
<1>1. Types /\ RequestsOk /\ Loads
  BY TypeParts DEF Whole
<1>2. UNCHANGED <<item, wanted, owned>>
  BY DEF UpstreamEdit, Crash, Restart
<1>3. ParkedEditKept' /\ OwnLevelKept'
  BY <1>2 DEF Whole, ParkedEditKept, OwnLevelKept
<1>4. CASE \E n \in Names : UpstreamEdit(n)
  <2>1. zoho' \in Names /\ UNCHANGED <<configured, req, job>>
    BY <1>4 DEF UpstreamEdit
  <2>2. Types' /\ RequestsOk' /\ Loads'
    BY <1>1, <1>2, <2>1 DEF Types, RequestsOk, Loads, AtWork, OnTheLoop
  <2>3. TypeOK' /\ IsFiniteSet(AtWork)'
    BY <2>2 DEF TypeOK, Types, RequestsOk, Loads
  <2>. QED
    BY <1>2, <1>3, <2>1, <2>3 DEF Whole, SyncDecides, DownRunsNothing, ParkingAgrees, PendingSettles, AtWork
<1>5. CASE Crash \/ (\E c \in BOOLEAN : Restart(c))
  <2>1. zoho' = zoho /\ configured' \in BOOLEAN /\ job' \in {Idle, Down}
    BY <1>1, <1>5 DEF Crash, Restart, Types
  <2>2. /\ \A r \in Requests : req'[r] = Idle
        /\ req' \in [Requests -> Stage]
    <3>1. CASE Crash
      BY <3>1, IdleStage DEF Crash
    <3>2. CASE \E c \in BOOLEAN : Restart(c)
      <4>1. AtWork = {} /\ req' = req
        BY <3>2 DEF Restart, Whole, DownRunsNothing
      <4>. QED
        BY <1>1, <4>1 DEF AtWork, RequestsOk
    <3>. QED
      BY <1>5, <3>1, <3>2
  <2>3. AtWork' = {} /\ OnTheLoop' = {}
    BY <2>2, IdleStage DEF AtWork, OnTheLoop, Requests
  <2>4. Loads'
    BY <2>3, FS_EmptySet DEF Loads, ItemSyncAssumption
  <2>5. RequestsOk'
    BY <2>2, IdleStage DEF RequestsOk
  <2>6. Types'
    BY <1>1, <1>2, <2>1 DEF Types, JobStage
  <2>7. TypeOK' /\ IsFiniteSet(AtWork)'
    BY <2>4, <2>5, <2>6 DEF TypeOK, Types, RequestsOk, Loads
  <2>8. job'.pc # "loaded"
    BY <2>1 DEF Idle, Down
  <2>9. \A r \in Requests : req'[r].pc = "idle"
    BY <2>2, IdleStage
  <2>10. SyncDecides' /\ DownRunsNothing'
    BY <2>3, <2>8 DEF SyncDecides, DownRunsNothing
  <2>11. ParkingAgrees' /\ PendingSettles'
    BY <2>9 DEF ParkingAgrees, PendingSettles, Requests
  <2>. QED
    BY <1>3, <2>7, <2>10, <2>11 DEF Whole
<1>. QED
  BY <1>4, <1>5

---------------------------------------------------------------------------

\* The script takes the word of Zoho for the name, and for an unlocked level.
LEMMA OverwriteKeeps ==
    ASSUME ItemSyncAssumption, Whole, NEW n \in Names, Overwrite(n)
    PROVE  Whole'
<1>1. Types /\ RequestsOk /\ Loads
  BY TypeParts DEF Whole
<1>2. PICK l \in {item.level, LevelOf(item)} : item' = [item EXCEPT !.name = n, !.level = l]
  BY DEF Overwrite
<1>3. /\ wanted' = IF n = item.name THEN wanted ELSE None
      /\ UNCHANGED <<zoho, configured, req, job, owned>>
  BY DEF Overwrite
<1>4. item \in Row /\ item.level \in Levels /\ l \in Levels /\ (item.locked => l = item.level)
  BY <1>1, RowFacts DEF Types, LevelOf, ItemSyncAssumption
<1>5. /\ item' \in Row /\ item'.name = n /\ item'.level = l
      /\ item'.status = item.status /\ item'.locked = item.locked
  BY <1>2, <1>4 DEF Row
<1>6. Types' /\ RequestsOk' /\ Loads'
  BY <1>1, <1>3, <1>5 DEF Types, RequestsOk, Loads, AtWork, OnTheLoop
<1>7. TypeOK' /\ IsFiniteSet(AtWork)'
  BY <1>6 DEF TypeOK, Types, RequestsOk, Loads
<1>8. ParkedEditKept' /\ OwnLevelKept'
  BY <1>3, <1>4, <1>5 DEF Whole, ParkedEditKept, OwnLevelKept
<1>9. SyncDecides' /\ DownRunsNothing'
  BY <1>3, <1>5 DEF Whole, SyncDecides, DownRunsNothing, AtWork
<1>10. ParkingAgrees' /\ PendingSettles'
  BY <1>3, <1>5 DEF Whole, ParkingAgrees, PendingSettles
<1>. QED
  BY <1>7, <1>8, <1>9, <1>10 DEF Whole

LEMMA WholeInit == Init => Whole
<1>1. SUFFICES ASSUME Init PROVE Whole
  OBVIOUS
<1>2. ItemSyncAssumption
  BY ItemSyncAssumption
<1>3. AtWork = {} /\ OnTheLoop = {} /\ \A r \in Requests : req[r] = Idle
  BY <1>1, IdleStage DEF Init, AtWork, OnTheLoop, Requests
<1>4. /\ item.name = zoho /\ item.status = "synced" /\ ~item.locked /\ item \in Row /\ item.level \in Levels
      /\ job = Idle
  BY <1>1 DEF Init, Row, Status
<1>5. Types
  BY <1>1, <1>4 DEF Init, Types, JobStage
<1>6. RequestsOk
  BY <1>1, <1>3, IdleStage DEF Init, RequestsOk
<1>7. Loads
  BY <1>2, <1>3, FS_EmptySet DEF Loads, ItemSyncAssumption
<1>8. TypeOK /\ IsFiniteSet(AtWork)
  BY <1>5, <1>6, <1>7, TypeParts
<1>9. SyncDecides /\ DownRunsNothing
  BY <1>3, <1>4, IdleStage DEF SyncDecides, DownRunsNothing
<1>10. ParkingAgrees /\ PendingSettles
  BY <1>3, IdleStage DEF ParkingAgrees, PendingSettles, Requests
<1>. QED
  BY <1>4, <1>8, <1>9, <1>10 DEF Whole, ParkedEditKept, OwnLevelKept

LEMMA WholeAlways == Spec => []Whole
<1>1. Whole /\ [Next]_vars => Whole'
  <2>1. SUFFICES ASSUME Whole, [Next]_vars PROVE Whole'
    OBVIOUS
  <2>2. ItemSyncAssumption
    BY ItemSyncAssumption
  <2>3. ASSUME NEW r \in Requests, Proceeds(r) PROVE Whole'
    BY <2>1, <2>2, <2>3, ProceedsKeeps
  <2>4. CASE UNCHANGED vars
    BY <2>1, <2>4 DEF vars, Whole, TypeOK, ParkedEditKept, OwnLevelKept, SyncDecides, DownRunsNothing,
                      ParkingAgrees, PendingSettles, AtWork, OnTheLoop
  <2>. QED
    BY <2>1, <2>2, <2>3, <2>4, ArrivesKeeps, SyncKeeps, OutsideKeeps, OverwriteKeeps DEF Next
<1>. QED
  BY <1>1, WholeInit, PTL DEF Spec

\* The row, the requests at work and the sync keep their types, and at most one
\* edit is past its form on the event loop (update_item).
THEOREM TypeCorrect == Spec => []TypeOK
<1>1. Whole => TypeOK
  BY DEF Whole
<1>. QED
  BY <1>1, WholeAlways, PTL

\* No sync reverts a parked edit it did not overlap (_apply_item_sync_fields).
THEOREM ParkedEditsStay == Spec => []ParkedEditKept
<1>1. Whole => ParkedEditKept
  BY DEF Whole
<1>. QED
  BY <1>1, WholeAlways, PTL

\* A reorder level an owner has set stays theirs.
THEOREM OwnLevelsStay == Spec => []OwnLevelKept
<1>1. Whole => OwnLevelKept
  BY DEF Whole
<1>. QED
  BY <1>1, WholeAlways, PTL
=============================================================================
