------------------------- MODULE StockLedgerProofs -------------------------
(***************************************************************************)
(* Theorems of StockLedger for any number of items, requests and lots.     *)
(***************************************************************************)
EXTENDS StockLedger, SequenceTheorems, TLAPS

\* The shape of a state: types, positions within a request, who holds the loop.
Shape == TypeOK /\ AtEntry /\ LoopMutex

USE DEF PCs

\* A request that has more entries is at one of them.
LEMMA CurrentEntry ==
    ASSUME TypeOK, NEW r \in Reqs, More(r)
    PROVE  Cur(r) \in Entry /\ Item(r) \in Items
<1>1. body[r] \in Seq(Entry) /\ pos[r] \in Nat \ {0}
  BY DEF TypeOK
<1>2. pos[r] \in 1..Len(body[r])
  BY <1>1, LenProperties DEF More
<1>3. Cur(r) \in Entry
  BY <1>1, <1>2, ElementOfSeq DEF Cur
<1>. QED
  BY <1>3 DEF Item, Entry

LEMMA ThreadedEntry ==
    ASSUME TypeOK, AtEntry, NEW r \in Threaded, pc[r] \in {"accepted", "loaded"}
    PROVE  More(r)
<1>1. r \in Reqs
  BY DEF Reqs
<1>2. body[r] \in Seq(Entry) /\ body[r] # <<>> /\ pos[r] = 1
  BY <1>1, LedgerAssumption DEF TypeOK, AtEntry
<1>. QED
  BY <1>1, <1>2, EmptySeq DEF More

LEMMA AfterType ==
    ASSUME NEW e \in Entry, NEW before \in Int
    PROVE  After(e, before) \in Int
BY DEF After, Entry, Modes

LEMMA UnlockedType ==
    ASSUME TypeOK, NEW r \in Reqs
    PROVE  Unlocked(r) \in [Items -> Reqs \cup {None}]
BY DEF TypeOK, Unlocked

LEMMA LoadsType ==
    ASSUME TypeOK, NEW r \in Reqs, NEW i \in Items, Loads(r, i)
    PROVE  cache' \in [Reqs -> [Items -> Int \cup {None}]]
BY DEF TypeOK, Loads

LEMMA ShapeInit == Init => Shape
<1>1. ASSUME Init PROVE TypeOK
  <2>1. stock \in [Items -> Int]
    <3>1. stock \in [Items -> UNION {Opening[i] : i \in Items}]
          /\ \A i \in Items : stock[i] \in Opening[i]
      BY <1>1 DEF Init
    <3>2. \A i \in Items : Opening[i] \subseteq Int
      BY LedgerAssumption
    <3>. QED
      BY <3>1, <3>2
  <2>2. ledger \in Seq(Row) /\ body \in [Reqs -> Seq(Entry)]
    <3>1. <<>> \in Seq(Row)
      BY EmptySeq
    <3>2. <<>> \in Seq(Entry)
      BY EmptySeq
    <3>. QED
      BY <1>1, <3>1, <3>2 DEF Init
  <2>3. Nothing \in [Items -> Reqs \cup {None}] /\ Nothing \in [Items -> Int \cup {None}]
    BY DEF Nothing
  <2>. QED
    BY <1>1, <2>1, <2>2, <2>3 DEF Init, TypeOK
<1>2. Init => AtEntry /\ LoopMutex
  BY DEF Init, AtEntry, LoopMutex, Running
<1>. QED
  BY <1>1, <1>2 DEF Shape

LEMMA TypeStep ==
    ASSUME Shape, NEW r \in Reqs, Step(r)
    PROVE  TypeOK'
<1>. USE DEF Shape
<1>1. CASE Accept(r)
  BY <1>1, LedgerAssumption DEF Accept, TypeOK, db, LoopFree, Reqs
<1>2. CASE Close(r)
  BY <1>2, UnlockedType DEF Close, TypeOK, db, Nothing
<1>3. CASE LoadItem(r)
  <2>1. Item(r) \in Items
    BY <1>3, ThreadedEntry, CurrentEntry DEF LoadItem
  <2>. QED
    BY <1>3, <2>1, LoadsType DEF LoadItem, TypeOK, db
<1>4. CASE TakeLock(r)
  <2>1. NextNumber \in Nat
    BY LenProperties DEF TypeOK, NextNumber
  <2>2. number' \in [Reqs -> Nat]
    BY <1>4, <2>1 DEF TakeLock, TypeOK
  <2>3. pc' \in [Reqs -> PCs] /\ loop' \in OnLoop \cup {None}
    BY <1>4 DEF TakeLock, TypeOK, LeaveLoop
  <2>. QED
    BY <1>4, <2>2, <2>3 DEF TakeLock, TypeOK, db
<1>5. CASE CommitCollides(r)
  BY <1>5, UnlockedType DEF CommitCollides, TypeOK, db, work, LeaveLoop
<1>6. CASE CommitAdjustment(r)
  <2>. DEFINE i == Item(r)
              before == cache[r][i]
              row == [num |-> number[r], item |-> i, req |-> r,
                      before |-> before, after |-> After(Cur(r), before)]
  <2>1. Cur(r) \in Entry /\ i \in Items
    BY <1>6, CurrentEntry DEF CommitAdjustment, AtEntry
  <2>2. before \in Int
    BY <1>6, <2>1 DEF CommitAdjustment, AtEntry, TypeOK
  <2>5. After(Cur(r), before) \in Int
    BY <2>1, <2>2, AfterType
  <2>3. row \in Row
    BY <2>1, <2>2, <2>5 DEF TypeOK, Row
  <2>4. ledger' \in Seq(Row)
    BY <1>6, <2>3 DEF CommitAdjustment, TypeOK
  <2>. QED
    BY <1>6, <2>1, <2>5, <2>4, UnlockedType DEF CommitAdjustment, TypeOK, Expired, Nothing
<1>7. CASE ValidateRow(r)
  <2>1. Item(r) \in Items
    BY <1>7, CurrentEntry DEF ValidateRow
  <2>. QED
    BY <1>7, <2>1, LoadsType DEF ValidateRow, TypeOK, db
<1>8. CASE EndValidation(r)
  <2>1. pc' \in [Reqs -> PCs] /\ loop' \in OnLoop \cup {None}
    BY <1>8 DEF EndValidation, TypeOK, LeaveLoop
  <2>. QED
    BY <1>8, <2>1 DEF EndValidation, TypeOK, db
<1>9. CASE SkipRow(r)
  BY <1>9 DEF SkipRow, TypeOK, db
<1>10. CASE ReloadRow(r)
  <2>1. Item(r) \in Items
    BY <1>10, CurrentEntry DEF ReloadRow
  <2>. QED
    BY <1>10, <2>1, LoadsType DEF ReloadRow, TypeOK, db
<1>11. CASE EndCount(r)
  BY <1>11 DEF EndCount, TypeOK, db, work, LeaveLoop
<1>12. CASE PassOver(r)
  BY <1>12 DEF PassOver, TypeOK, db
<1>13. CASE ReadEntry(r)
  <2>1. Item(r) \in Items
    BY <1>13, CurrentEntry DEF ReadEntry
  <2>. QED
    BY <1>13, <2>1, LoadsType DEF ReadEntry, TypeOK, db
<1>14. CASE WriteEntry(r)
  <2>1. Item(r) \in Items /\ Cur(r).qty \in Int
    BY <1>14, CurrentEntry DEF WriteEntry, AtEntry, Entry
  <2>2. cache[r][Item(r)] \in Int
    BY <1>14, <2>1 DEF WriteEntry, AtEntry, TypeOK
  <2>3. Consumed(cache[r][Item(r)], Cur(r).qty) \in Int
    BY <2>1, <2>2 DEF Consumed
  <2>. QED
    BY <1>14, <2>1, <2>3 DEF WriteEntry, TypeOK, db
<1>15. CASE FlushCollides(r)
  BY <1>15, UnlockedType DEF FlushCollides, TypeOK, db, work, LeaveLoop
<1>16. CASE CommitDelivery(r)
  BY <1>16, UnlockedType, LedgerAssumption DEF CommitDelivery, TypeOK, work, LeaveLoop, Flushed
<1>17. CASE ZohoRefusesReceipt(r)
  BY <1>17 DEF ZohoRefusesReceipt, TypeOK, db, work
<1>18. CASE CommitReceipt(r)
  <2>1. r \in Threaded
    BY <1>18 DEF CommitReceipt, Threaded
  <2>2. Item(r) \in Items /\ Cur(r).qty \in Int
    BY <1>18, <2>1, ThreadedEntry, CurrentEntry DEF CommitReceipt, Entry
  <2>3. cache[r][Item(r)] \in Int
    BY <1>18, <2>2 DEF CommitReceipt, AtEntry, TypeOK
  <2>. QED
    BY <1>18, <2>2, <2>3 DEF CommitReceipt, TypeOK, work
<1>. QED
  BY <1>1, <1>2, <1>3, <1>4, <1>5, <1>6, <1>7, <1>8, <1>9, <1>10, <1>11, <1>12,
     <1>13, <1>14, <1>15, <1>16, <1>17, <1>18 DEF Step, FlushEntry

-----------------------------------------------------------------------------

\* A request's own attributes and session belong to it alone.
LEMMA OthersUntouched ==
    ASSUME TypeOK, NEW r \in Reqs, Step(r), NEW q \in Reqs, q # r
    PROVE  /\ pc'[q] = pc[q] /\ body'[q] = body[q] /\ pos'[q] = pos[q]
           /\ cache'[q] = cache[q] /\ staged'[q] = staged[q] /\ number'[q] = number[q]
<1>. USE DEF TypeOK
<1>1. CASE Accept(r) BY <1>1 DEF Accept
<1>2. CASE Close(r) BY <1>2 DEF Close
<1>3. CASE LoadItem(r) BY <1>3 DEF LoadItem, Loads
<1>4. CASE TakeLock(r)
  <2>1. pc'[q] = pc[q] /\ number'[q] = number[q]
    BY <1>4 DEF TakeLock
  <2>. QED
    BY <1>4, <2>1 DEF TakeLock
<1>5. CASE CommitCollides(r) BY <1>5 DEF CommitCollides, work
<1>6. CASE CommitAdjustment(r) BY <1>6 DEF CommitAdjustment, Expired
<1>7. CASE ValidateRow(r) BY <1>7 DEF ValidateRow, Loads
<1>8. CASE EndValidation(r)
  <2>1. pc'[q] = pc[q]
    BY <1>8 DEF EndValidation
  <2>. QED
    BY <1>8, <2>1 DEF EndValidation
<1>9. CASE SkipRow(r) BY <1>9 DEF SkipRow
<1>10. CASE ReloadRow(r) BY <1>10 DEF ReloadRow, Loads
<1>11. CASE EndCount(r) BY <1>11 DEF EndCount, work
<1>12. CASE PassOver(r) BY <1>12 DEF PassOver
<1>13. CASE ReadEntry(r) BY <1>13 DEF ReadEntry, Loads
<1>14. CASE WriteEntry(r) BY <1>14 DEF WriteEntry
<1>15. CASE FlushCollides(r) BY <1>15 DEF FlushCollides, work
<1>16. CASE CommitDelivery(r) BY <1>16 DEF CommitDelivery, work
<1>17. CASE ZohoRefusesReceipt(r) BY <1>17 DEF ZohoRefusesReceipt, work
<1>18. CASE CommitReceipt(r) BY <1>18 DEF CommitReceipt, work
<1>. QED
  BY <1>1, <1>2, <1>3, <1>4, <1>5, <1>6, <1>7, <1>8, <1>9, <1>10, <1>11, <1>12,
     <1>13, <1>14, <1>15, <1>16, <1>17, <1>18 DEF Step, FlushEntry

\* What AtEntry says of one request.
EntryOf(q) ==
    /\ pc[q] = "idle" => pos[q] = 1 /\ cache[q] = Nothing
    /\ q \in Threaded /\ pc[q] \in {"accepted", "loaded"} =>
            pos[q] = 1 /\ body[q] \in Bodies[q]
    /\ q \in Threaded /\ pc[q] = "accepted" => cache[q] = Nothing
    /\ pc[q] \in {"locked", "read"} => More(q)
    /\ pc[q] \in {"loaded", "locked", "read"} => cache[q][Item(q)] # None

LEMMA LoadedIsSome ==
    ASSUME TypeOK, NEW r \in Reqs, NEW i \in Items, Loads(r, i)
    PROVE  cache'[r][i] # None
BY LedgerAssumption DEF TypeOK, Loads

LEMMA EntryStep ==
    ASSUME Shape, NEW r \in Reqs, Step(r)
    PROVE  AtEntry'
<1>. USE DEF Shape
<1>1. ASSUME NEW q \in Reqs, q # r PROVE EntryOf(q)'
  BY <1>1, OthersUntouched DEF AtEntry, EntryOf, More, Item, Cur
<1>2. EntryOf(r)'
  <2>. USE DEF EntryOf, TypeOK
  <2>1. CASE Accept(r)
    BY <2>1 DEF Accept, AtEntry
  <2>2. CASE Close(r)
    BY <2>2 DEF Close
  <2>3. CASE LoadItem(r)
    <3>1. Item(r) \in Items
      BY <2>3, ThreadedEntry, CurrentEntry DEF LoadItem
    <3>2. cache'[r][Item(r)] # None
      BY <2>3, <3>1, LoadedIsSome DEF LoadItem
    <3>. QED
      BY <2>3, <3>2 DEF LoadItem, AtEntry, Item, Cur
  <2>4. CASE TakeLock(r)
    <3>1. r \in Adjusters => r \in Threaded
      BY DEF Threaded
    <3>2. More(r) /\ cache[r][Item(r)] # None
      BY <2>4, <3>1, ThreadedEntry DEF TakeLock, ReadyToAdjust, AtEntry
    <3>3. pc'[r] \in {"rejected", "locked"}
      BY <2>4 DEF TakeLock
    <3>. QED
      BY <2>4, <3>2, <3>3 DEF TakeLock, More, Item, Cur
  <2>5. CASE CommitCollides(r)
    BY <2>5 DEF CommitCollides
  <2>6. CASE CommitAdjustment(r)
    BY <2>6 DEF CommitAdjustment
  <2>7. CASE ValidateRow(r)
    BY <2>7, LedgerAssumption DEF ValidateRow, Threaded, OnLoop
  <2>8. CASE EndValidation(r)
    <3>1. pc'[r] \in {"rejected", "applying"}
      BY <2>8 DEF EndValidation
    <3>. QED
      BY <3>1
  <2>9. CASE SkipRow(r)
    BY <2>9 DEF SkipRow
  <2>10. CASE ReloadRow(r)
    BY <2>10 DEF ReloadRow
  <2>11. CASE EndCount(r)
    BY <2>11 DEF EndCount
  <2>12. CASE PassOver(r)
    BY <2>12, LedgerAssumption DEF PassOver, Threaded, OnLoop
  <2>13. CASE ReadEntry(r)
    <3>1. Item(r) \in Items
      BY <2>13, CurrentEntry DEF ReadEntry
    <3>2. cache'[r][Item(r)] # None
      BY <2>13, <3>1, LoadedIsSome DEF ReadEntry
    <3>. QED
      BY <2>13, <3>2 DEF ReadEntry, More, Item, Cur
  <2>14. CASE WriteEntry(r)
    BY <2>14, LedgerAssumption DEF WriteEntry, Threaded, OnLoop
  <2>15. CASE FlushCollides(r)
    BY <2>15 DEF FlushCollides
  <2>16. CASE CommitDelivery(r)
    BY <2>16 DEF CommitDelivery
  <2>17. CASE ZohoRefusesReceipt(r)
    BY <2>17 DEF ZohoRefusesReceipt
  <2>18. CASE CommitReceipt(r)
    BY <2>18 DEF CommitReceipt
  <2>. QED
    BY <2>1, <2>2, <2>3, <2>4, <2>5, <2>6, <2>7, <2>8, <2>9, <2>10, <2>11, <2>12,
       <2>13, <2>14, <2>15, <2>16, <2>17, <2>18 DEF Step, FlushEntry
<1>. QED
  BY <1>1, <1>2 DEF EntryOf, AtEntry

-----------------------------------------------------------------------------

\* A step takes the loop when it is free and leaves it when it is its own.
LEMMA LoopMoves ==
    ASSUME NEW r \in Reqs, Step(r), loop # None, loop # r
    PROVE  loop' = loop
<1>1. CASE Accept(r) BY <1>1 DEF Accept, LoopFree
<1>2. CASE TakeLock(r) BY <1>2 DEF TakeLock, LeaveLoop
<1>3. CASE EndValidation(r) BY <1>3 DEF EndValidation, LeaveLoop
<1>4. CASE CommitCollides(r) \/ EndCount(r) \/ FlushCollides(r) \/ CommitDelivery(r)
  BY <1>4 DEF CommitCollides, EndCount, FlushCollides, CommitDelivery, LeaveLoop
<1>5. CASE Close(r) \/ LoadItem(r) \/ CommitAdjustment(r) \/ ValidateRow(r)
           \/ SkipRow(r) \/ ReloadRow(r) \/ PassOver(r) \/ ReadEntry(r)
           \/ WriteEntry(r) \/ ZohoRefusesReceipt(r) \/ CommitReceipt(r)
  BY <1>5 DEF Close, LoadItem, CommitAdjustment, ValidateRow, SkipRow, ReloadRow,
              PassOver, ReadEntry, WriteEntry, ZohoRefusesReceipt, CommitReceipt
<1>. QED
  BY <1>1, <1>2, <1>3, <1>4, <1>5 DEF Step, FlushEntry

\* What LoopMutex says of one request.
RoleOf(q) ==
    /\ q \in OnLoop /\ Running(q) => loop = q
    /\ pc[q] = "locked" => q \in Adjusters \cup Counters
    /\ pc[q] = "loaded" => q \in Threaded
    /\ pc[q] = "applying" => q \in Counters
    /\ pc[q] = "read" => q \in Deliveries

LEMMA RoleStep ==
    ASSUME Shape, NEW r \in Reqs, Step(r)
    PROVE  LoopMutex'
<1>. USE DEF Shape, Running
<1>0. None \notin Reqs /\ \A q \in Reqs : RoleOf(q)
  BY LedgerAssumption DEF LoopMutex, RoleOf
<1>1. ASSUME NEW q \in Reqs, q # r PROVE RoleOf(q)'
  <2>1. q \in OnLoop /\ Running(q) => loop' = q
    BY <1>0, <1>1, LoopMoves DEF RoleOf
  <2>. QED
    BY <1>0, <1>1, <2>1, OthersUntouched DEF RoleOf
<1>2. RoleOf(r)'
  <2>. USE <1>0 DEF RoleOf, TypeOK
  <2>1. CASE Accept(r)
    BY <2>1 DEF Accept
  <2>2. CASE Close(r)
    BY <2>2 DEF Close
  <2>3. CASE LoadItem(r)
    BY <2>3, LedgerAssumption DEF LoadItem
  <2>4. CASE TakeLock(r)
    <3>1. r \in Adjusters \cup Counters
      BY <2>4 DEF TakeLock, ReadyToAdjust
    <3>2. \/ pc'[r] = "rejected"
          \/ pc'[r] = "locked" /\ loop' = loop
      BY <2>4 DEF TakeLock
    <3>3. r \in OnLoop => pc[r] = "applying"
      BY <2>4, LedgerAssumption DEF TakeLock, ReadyToAdjust, Threaded, OnLoop
    <3>. QED
      BY <3>1, <3>2, <3>3
  <2>5. CASE CommitCollides(r)
    BY <2>5 DEF CommitCollides
  <2>6. CASE CommitAdjustment(r)
    <3>1. loop' = loop /\ pc[r] = "locked"
          /\ pc'[r] = IF r \in Counters THEN "applying" ELSE "committed"
      BY <2>6 DEF CommitAdjustment
    <3>. QED
      BY <3>1
  <2>7. CASE ValidateRow(r)
    BY <2>7 DEF ValidateRow
  <2>8. CASE EndValidation(r)
    <3>1. \/ pc'[r] = "rejected"
          \/ pc'[r] = "applying" /\ loop' = loop
      BY <2>8 DEF EndValidation
    <3>. QED
      BY <2>8, <3>1 DEF EndValidation
  <2>9. CASE SkipRow(r)
    BY <2>9 DEF SkipRow
  <2>10. CASE ReloadRow(r)
    BY <2>10 DEF ReloadRow
  <2>11. CASE EndCount(r)
    BY <2>11 DEF EndCount
  <2>12. CASE PassOver(r)
    BY <2>12 DEF PassOver
  <2>13. CASE ReadEntry(r)
    BY <2>13 DEF ReadEntry
  <2>14. CASE WriteEntry(r)
    BY <2>14 DEF WriteEntry
  <2>15. CASE FlushCollides(r)
    BY <2>15 DEF FlushCollides
  <2>16. CASE CommitDelivery(r)
    BY <2>16 DEF CommitDelivery
  <2>17. CASE ZohoRefusesReceipt(r)
    BY <2>17 DEF ZohoRefusesReceipt
  <2>18. CASE CommitReceipt(r)
    BY <2>18 DEF CommitReceipt
  <2>. QED
    BY <2>1, <2>2, <2>3, <2>4, <2>5, <2>6, <2>7, <2>8, <2>9, <2>10, <2>11, <2>12,
       <2>13, <2>14, <2>15, <2>16, <2>17, <2>18 DEF Step, FlushEntry
<1>. QED
  BY <1>1, <1>2 DEF RoleOf, LoopMutex

LEMMA CrashShape ==
    ASSUME Shape, Crash
    PROVE  Shape'
<1>. USE DEF Shape, Crash
<1>1. \A q \in Reqs : pc'[q] \in {"idle", "done"} /\ pos'[q] = 1
  OBVIOUS
<1>2. Nothing \in [Items -> Reqs \cup {None}] /\ Nothing \in [Items -> Int \cup {None}]
  BY DEF Nothing
<1>3. <<>> \in Seq(Entry)
  BY EmptySeq
<1>4. TypeOK'
  BY <1>2, <1>3 DEF TypeOK, db
<1>5. AtEntry' /\ LoopMutex'
  BY <1>1 DEF Shape, AtEntry, LoopMutex, Running
<1>. QED
  BY <1>4, <1>5

\* The script writes stocks and nothing else, and only such as it is told.
LEMMA ScriptMoves ==
    ASSUME Shape, Overwrite
    PROVE  /\ UNCHANGED <<ledger, events, lock, loop, pc, body, pos, cache, prepared,
                         number, staged>>
           /\ stock' \in [Items -> Int]
           /\ \A i \in Items : stock'[i] \in Upstream[i] \cup {stock[i]}
<1>1. PICK pulled \in [Items -> UNION {Upstream[i] : i \in Items} \cup {None}] :
          /\ \A i \in Items : pulled[i] # None => pulled[i] \in Upstream[i]
          /\ stock' = [i \in Items |-> IF pulled[i] = None THEN stock[i] ELSE pulled[i]]
  BY DEF Overwrite
<1>2. \A i \in Items : stock'[i] \in Upstream[i] \cup {stock[i]}
  BY <1>1
<1>3. \A i \in Items : Upstream[i] \subseteq Int /\ stock[i] \in Int
  BY LedgerAssumption DEF Shape, TypeOK
<1>4. stock' \in [Items -> Int]
  <2>1. stock' = [i \in Items |-> stock'[i]]
    BY <1>1
  <2>2. \A i \in Items : stock'[i] \in Int
    BY <1>2, <1>3
  <2>. QED
    BY <2>1, <2>2
<1>. QED
  BY <1>2, <1>4 DEF Overwrite, work

LEMMA ShapeStep == Shape /\ [Next]_vars => Shape'
<1>. SUFFICES ASSUME Shape, [Next]_vars PROVE Shape'
  OBVIOUS
<1>1. ASSUME NEW r \in Reqs, Step(r) PROVE Shape'
  BY <1>1, TypeStep, EntryStep, RoleStep DEF Shape
<1>2. CASE Crash
  BY <1>2, CrashShape
<1>4. CASE Overwrite
  <2>1. TypeOK'
    BY <1>4, ScriptMoves DEF Shape, TypeOK
  <2>2. AtEntry' /\ LoopMutex'
    BY <1>4, ScriptMoves DEF Shape, AtEntry, LoopMutex, Running, More, Item, Cur
  <2>. QED
    BY <2>1, <2>2 DEF Shape
<1>3. CASE UNCHANGED vars
  <2>1. TypeOK'
    BY <1>3 DEF Shape, TypeOK, vars
  <2>2. AtEntry' /\ LoopMutex'
    BY <1>3 DEF Shape, AtEntry, LoopMutex, Running, More, Item, Cur, vars
  <2>. QED
    BY <2>1, <2>2 DEF Shape
<1>. QED
  BY <1>1, <1>2, <1>3, <1>4 DEF Next

THEOREM ShapeAlways == Spec => []Shape
BY ShapeInit, ShapeStep, PTL DEF Spec

\* Every variable keeps its type.
THEOREM TypeCorrect == Spec => []TypeOK
<1>1. Shape => TypeOK
  BY DEF Shape
<1>. QED
  BY <1>1, ShapeAlways, PTL

-----------------------------------------------------------------------------
(* Adjustment numbers *)

LEMMA LedgerMoves ==
    ASSUME NEW r \in Reqs, Step(r)
    PROVE  ledger' = ledger \/ CommitAdjustment(r)
BY DEF Step, FlushEntry, Accept, Close, LoadItem, TakeLock, CommitCollides, ValidateRow,
       EndValidation,
       SkipRow, ReloadRow, EndCount, PassOver, ReadEntry, WriteEntry, FlushCollides,
       CommitDelivery, ZohoRefusesReceipt, CommitReceipt, db

\* Only _lock_item brings a request to the point of committing an adjustment.
LEMMA LockedByTakeLock ==
    ASSUME TypeOK, NEW r \in Reqs, Step(r), pc'[r] = "locked"
    PROVE  TakeLock(r)
<1>1. CASE EndValidation(r)
  BY <1>1 DEF EndValidation, TypeOK
<1>2. CASE CommitAdjustment(r)
  BY <1>2 DEF CommitAdjustment, TypeOK
<1>3. CASE SkipRow(r) \/ ReloadRow(r) \/ ValidateRow(r) \/ PassOver(r)
  BY <1>3 DEF SkipRow, ReloadRow, ValidateRow, PassOver
<1>. QED
  BY <1>1, <1>2, <1>3 DEF Step, FlushEntry, TypeOK, Accept, Close, LoadItem, CommitCollides,
     EndCount,
     ReadEntry, WriteEntry, FlushCollides, CommitDelivery, ZohoRefusesReceipt, CommitReceipt

LEMMA NumbersStep ==
    ASSUME Shape, Numbers, NEW r \in Reqs, Step(r)
    PROVE  Numbers'
<1>. USE DEF Shape
<1>1. ledger \in Seq(Row) /\ Len(ledger) \in Nat
  BY LenProperties DEF TypeOK
<1>2. CASE CommitAdjustment(r)
  <2>. DEFINE row == [num |-> number[r], item |-> Item(r), req |-> r,
                      before |-> cache[r][Item(r)],
                      after |-> After(Cur(r), cache[r][Item(r)])]
  <2>1. number[r] = Len(ledger) + 1
    <3>1. number[r] \in 1..(Len(ledger) + 1) /\ ~Taken(number[r])
      BY <1>2 DEF CommitAdjustment, Numbers
    <3>2. number[r] \notin 1..Len(ledger)
      BY <3>1 DEF Numbers, NumbersDense, Taken
    <3>. QED
      BY <1>1, <3>1, <3>2
  <2>2. ledger' = Append(ledger, row)
    BY <1>2 DEF CommitAdjustment
  <2>3. row \in Row
    <3>1. Cur(r) \in Entry /\ Item(r) \in Items
      BY <1>2, CurrentEntry DEF CommitAdjustment, AtEntry
    <3>2. cache[r][Item(r)] \in Int
      BY <1>2, <3>1 DEF CommitAdjustment, AtEntry, TypeOK
    <3>3. After(Cur(r), cache[r][Item(r)]) \in Int
      BY <3>1, <3>2, AfterType
    <3>. QED
      BY <3>1, <3>2, <3>3 DEF Row, TypeOK
  <2>4. /\ Len(ledger') = Len(ledger) + 1
        /\ \A k \in 1..Len(ledger) : ledger'[k] = ledger[k]
        /\ ledger'[Len(ledger) + 1] = row
    BY <1>1, <2>2, <2>3, AppendProperties
  <2>5. NumbersDense'
    BY <1>1, <2>1, <2>4 DEF Numbers, NumbersDense
  <2>6. ASSUME NEW q \in Reqs, pc'[q] = "locked"
        PROVE  number'[q] \in 1..(Len(ledger') + 1)
    <3>1. q # r
      BY <1>2, <2>6 DEF CommitAdjustment, TypeOK
    <3>2. number[q] \in 1..(Len(ledger) + 1) /\ number'[q] = number[q]
      BY <2>6, <3>1, OthersUntouched DEF Numbers
    <3>. QED
      BY <1>1, <2>4, <3>2
  <2>. QED
    BY <2>5, <2>6 DEF Numbers
<1>3. CASE ledger' = ledger
  <2>1. ASSUME NEW q \in Reqs, pc'[q] = "locked"
        PROVE  number'[q] \in 1..(Len(ledger') + 1)
    <3>1. CASE q # r
      BY <1>3, <2>1, <3>1, OthersUntouched DEF Numbers
    <3>2. CASE q = r
      <4>1. TakeLock(r)
        BY <2>1, <3>2, LockedByTakeLock
      <4>2. number'[r] = NextNumber
        BY <2>1, <3>2, <4>1 DEF TakeLock, TypeOK
      <4>. QED
        BY <1>1, <1>3, <3>2, <4>2 DEF NextNumber
    <3>. QED
      BY <3>1, <3>2
  <2>. QED
    BY <1>3, <2>1 DEF Numbers, NumbersDense
<1>. QED
  BY <1>2, <1>3, LedgerMoves

LEMMA NumbersAlways == Spec => []Numbers
<1>1. Init => Numbers
  <2>1. ASSUME Init PROVE Len(ledger) = 0 /\ \A q \in Reqs : pc[q] # "locked"
    <3>1. Len(<<>>) = 0
      BY EmptySeq
    <3>. QED
      BY <2>1, <3>1 DEF Init
  <2>. QED
    BY <2>1 DEF Numbers, NumbersDense
<1>2. Shape /\ Numbers /\ [Next]_vars => Numbers'
  <2>. SUFFICES ASSUME Shape, Numbers, [Next]_vars PROVE Numbers'
    OBVIOUS
  <2>1. CASE Crash
    <3>1. ledger' = ledger /\ \A q \in Reqs : pc'[q] # "locked"
      BY <2>1 DEF Crash, db
    <3>. QED
      BY <3>1 DEF Numbers, NumbersDense
  <2>2. CASE UNCHANGED vars
    BY <2>2 DEF Numbers, NumbersDense, vars
  <2>3. CASE Overwrite
    BY <2>3, ScriptMoves DEF Numbers, NumbersDense
  <2>. QED
    BY <2>1, <2>2, <2>3, NumbersStep DEF Next
<1>. QED
  BY <1>1, <1>2, ShapeAlways, PTL DEF Spec

\* Adjustment numbers follow the commit order without gap or repeat, however
\* many requests count the rows at the same time.
THEOREM NumbersAlwaysDense == Spec => []NumbersDense
<1>1. Numbers => NumbersDense
  BY DEF Numbers
<1>. QED
  BY <1>1, NumbersAlways, PTL

-----------------------------------------------------------------------------
(* Quantities *)

LEMMA AmountsStep ==
    ASSUME Shape, Amounts, NEW r \in Reqs, Step(r)
    PROVE  Amounts'
<1>. USE DEF Shape
<1>3. ASSUME NEW q \in Reqs, NEW i \in Items, staged'[q][i] # None
      PROVE  staged'[q][i] >= 0
  <2>1. CASE q # r
    BY <1>3, <2>1, OthersUntouched DEF Amounts
  <2>2. CASE WriteEntry(r)
    <3>1. Item(r) \in Items /\ Cur(r).qty \in Int
      BY <2>2, CurrentEntry DEF WriteEntry, AtEntry, Entry
    <3>2. cache[r][Item(r)] \in Int
      BY <2>2, <3>1 DEF WriteEntry, AtEntry, TypeOK
    <3>3. Consumed(cache[r][Item(r)], Cur(r).qty) >= 0
      BY <3>1, <3>2 DEF Consumed
    <3>. QED
      BY <1>3, <2>1, <2>2, <3>1, <3>3 DEF WriteEntry, Amounts, TypeOK
  <2>3. CASE staged' = staged
    BY <1>3, <2>3 DEF Amounts
  <2>4. CASE staged' = [staged EXCEPT ![r] = Nothing]
    BY <1>3, <2>1, <2>4 DEF TypeOK, Nothing
  <2>. QED
    BY <2>2, <2>3, <2>4 DEF Step, FlushEntry, Accept, Close, LoadItem, TakeLock, CommitCollides,
       CommitAdjustment, ValidateRow, EndValidation, SkipRow, ReloadRow, EndCount, PassOver,
       ReadEntry, FlushCollides, CommitDelivery, ZohoRefusesReceipt, CommitReceipt, work
<1>4. ASSUME NEW q \in Reqs, pc'[q] = "locked"
      PROVE  ~Refused(Cur(q), cache[q][Item(q)])'
  <2>1. CASE q # r
    BY <1>4, <2>1, OthersUntouched DEF Amounts, Cur, Item, Refused, After
  <2>2. CASE q = r
    <3>1. TakeLock(r)
      BY <1>4, <2>2, LockedByTakeLock
    <3>2. ~Refused(Cur(r), cache[r][Item(r)])
      BY <1>4, <2>2, <3>1 DEF TakeLock, TypeOK
    <3>3. cache' = cache /\ body' = body /\ pos' = pos
      BY <3>1 DEF TakeLock
    <3>. QED
      BY <2>2, <3>2, <3>3 DEF Cur, Item, Refused, After
  <2>. QED
    BY <2>1, <2>2
<1>. QED
  <2>1. staged' \in [Reqs -> [Items -> Int \cup {None}]]
    BY TypeStep DEF TypeOK
  <2>2. \A q \in Reqs : \A i \in Items : staged'[q][i] \in Nat \cup {None}
    BY <1>3, <2>1
  <2>. QED
    BY <1>4, <2>2 DEF Amounts

LEMMA AmountsAlways == Spec => []Amounts
<1>1. Init => Amounts
  <2>. SUFFICES ASSUME Init PROVE Amounts
    OBVIOUS
  <2>2. \A r \in Reqs : pc[r] # "locked"
    BY DEF Init
  <2>3. \A r \in Reqs : \A i \in Items : staged[r][i] = None
    BY DEF Init, Nothing
  <2>. QED
    BY <2>2, <2>3 DEF Amounts
<1>2. Shape /\ Amounts /\ [Next]_vars => Amounts'
  <2>. SUFFICES ASSUME Shape, Amounts, [Next]_vars PROVE Amounts'
    OBVIOUS
  <2>1. CASE Crash
    <3>1. \A q \in Reqs : pc'[q] # "locked" /\ staged'[q] = Nothing
      BY <2>1 DEF Crash
    <3>. QED
      BY <3>1 DEF Amounts, Nothing
  <2>2. CASE UNCHANGED vars
    BY <2>2 DEF Amounts, Cur, Item, Refused, After, vars
  <2>3. CASE Overwrite
    BY <2>3, ScriptMoves DEF Amounts, Cur, Item, Refused, After
  <2>. QED
    BY <2>1, <2>2, <2>3, AmountsStep DEF Next
<1>. QED
  BY <1>1, <1>2, ShapeAlways, PTL DEF Spec

\* The stock an adjustment or a count commits was accepted by the preview.
LEMMA AdjustedStock ==
    ASSUME Shape, Amounts, NEW r \in Reqs, CommitAdjustment(r)
    PROVE  /\ Item(r) \in Items
           /\ cache[r][Item(r)] \in Int
           /\ After(Cur(r), cache[r][Item(r)]) \in Nat
<1>1. Cur(r) \in Entry /\ Item(r) \in Items
  BY CurrentEntry DEF CommitAdjustment, Shape, AtEntry
<1>2. cache[r][Item(r)] \in Int
  BY <1>1 DEF CommitAdjustment, Shape, AtEntry, TypeOK
<1>3. After(Cur(r), cache[r][Item(r)]) \in Int
  BY <1>1, <1>2, AfterType
<1>4. ~Refused(Cur(r), cache[r][Item(r)])
  BY DEF CommitAdjustment, Amounts
<1>. QED
  BY <1>1, <1>2, <1>3, <1>4 DEF Refused

\* Three kinds of commits write stocks.
LEMMA StockMoves ==
    ASSUME NEW r \in Reqs, Step(r)
    PROVE  stock' = stock \/ CommitAdjustment(r) \/ CommitDelivery(r) \/ CommitReceipt(r)
BY DEF Step, FlushEntry, Accept, Close, LoadItem, TakeLock, CommitCollides, ValidateRow,
       EndValidation, SkipRow, ReloadRow, EndCount, PassOver, ReadEntry, WriteEntry,
       FlushCollides, ZohoRefusesReceipt, db

LEMMA BelowZeroStep ==
    ASSUME Shape, Amounts, NEW r \in Reqs, Step(r),
           NEW i \in Items, stock'[i] \notin Nat \cup {stock[i]}
    PROVE  Unchecked(i)
<1>. USE DEF Shape
<1>1. ~CommitAdjustment(r)
  <2>. SUFFICES ASSUME CommitAdjustment(r) PROVE FALSE
    OBVIOUS
  <2>1. stock' = [stock EXCEPT ![Item(r)] = After(Cur(r), cache[r][Item(r)])]
    BY DEF CommitAdjustment
  <2>. QED
    BY <2>1, AdjustedStock DEF TypeOK
<1>2. ~CommitDelivery(r)
  BY DEF CommitDelivery, Flushed, Amounts, TypeOK
<1>3. CASE CommitReceipt(r)
  <2>1. r \in Receivers /\ r \in Threaded /\ pc[r] = "loaded"
    BY <1>3 DEF CommitReceipt, Threaded
  <2>2. Cur(r) \in Entry /\ Item(r) \in Items /\ Cur(r).qty \in Int
    BY <2>1, ThreadedEntry, CurrentEntry DEF Entry
  <2>3. cache[r][Item(r)] \in Int
    BY <2>1, <2>2 DEF AtEntry, TypeOK
  <2>4. Item(r) = i /\ stock'[i] = cache[r][i] + Cur(r).qty
    BY <1>3, <2>2 DEF CommitReceipt, TypeOK
  <2>5. Cur(r).qty < 0 \/ cache[r][i] < 0
    BY <2>2, <2>3, <2>4
  <2>. QED
    BY <1>3, <2>1, <2>4, <2>5 DEF Unchecked, CommitReceipt
<1>. QED
  BY <1>1, <1>2, <1>3, StockMoves

\* Whatever the items, the requests and the quantities: no adjustment, count
\* or push takes an item below zero, in no interleaving with unchecked receipts
\* and the script.
THEOREM RecordedStockNotNegative == Spec => BelowZeroOnlyUnchecked
<1>1. Shape /\ Amounts /\ [Next]_vars => [StaysAboveZero]_vars
  <2>. SUFFICES ASSUME Shape, Amounts, [Next]_vars,
                       NEW i \in Items, stock'[i] \notin Nat \cup {stock[i]}
                PROVE  Unchecked(i)
    BY DEF StaysAboveZero
  <2>1. stock' # stock
    OBVIOUS
  <2>2. CASE Overwrite
    BY <2>2, ScriptMoves DEF Unchecked
  <2>. QED
    BY <2>1, <2>2, BelowZeroStep DEF Next, Crash, db, vars
<1>. QED
  BY <1>1, ShapeAlways, AmountsAlways, PTL DEF Spec, BelowZeroOnlyUnchecked

-----------------------------------------------------------------------------
(* Consumption pushes *)

LEMMA EntriesOf ==
    ASSUME NEW b \in Seq(Entry), NEW j \in DOMAIN b
    PROVE  /\ j \in Nat /\ Len(b) \in Nat /\ j <= Len(b)
           /\ b[j].item \in Items /\ b[j].qty \in Int
<1>1. j \in 1 .. Len(b) /\ Len(b) \in Nat
  BY LenProperties
<1>2. b[j] \in Entry
  BY <1>1, ElementOfSeq
<1>. QED
  BY <1>1, <1>2 DEF Entry

\* Only a push's commit records consumption, and only for its own lot.
LEMMA EventsMove ==
    ASSUME NEW r \in Reqs, Step(r)
    PROVE  events' = events \/ CommitDelivery(r)
BY DEF Step, FlushEntry, Accept, Close, LoadItem, TakeLock, CommitCollides, CommitAdjustment,
       ValidateRow, EndValidation, SkipRow, ReloadRow, EndCount, PassOver, ReadEntry, WriteEntry,
       FlushCollides, ZohoRefusesReceipt, CommitReceipt, db

\* What Consumption says of one push.
PushOf(d) ==
    /\ pc[d] # "failed"
    /\ pc[d] = "read" => ~Recorded(d, Item(d))
    /\ pc[d] \in {"accepted", "read"} =>
        /\ body[d] \in Bodies[d]
        /\ \A j \in DOMAIN body[d] :
            j < pos[d] /\ body[d][j].qty >= 0 =>
              Recorded(d, body[d][j].item) \/ Flushed(d, body[d][j].item)

WholeLots ==
    \A l \in Lots :
        LET recorded == {i \in Items : <<l, i>> \in events}
        IN recorded = {} \/ \E d \in Deliveries : \E b \in Bodies[d] :
                                LotOf[d] = l /\ ValidItems(b) \subseteq recorded

LEMMA SplitConsumption == Consumption <=> WholeLots /\ \A d \in Deliveries : PushOf(d)
BY DEF Consumption, ConsumedOnceAndWhole, WholeLots, PushOf

\* A push that is at work is not disturbed by the requests around it.
LEMMA OtherPushes ==
    ASSUME Shape, Consumption, NEW r \in Reqs, Step(r), NEW d \in Deliveries, d # r
    PROVE  PushOf(d)'
<1>1. d \in Reqs /\ d \in OnLoop
  BY DEF Reqs, OnLoop
<1>2. /\ pc'[d] = pc[d] /\ body'[d] = body[d] /\ pos'[d] = pos[d] /\ staged'[d] = staged[d]
  BY <1>1, OthersUntouched DEF Shape
<1>3. PushOf(d)
  BY SplitConsumption
<1>4. CASE events' = events
  BY <1>2, <1>3, <1>4 DEF PushOf, Recorded, Flushed, Item, Cur
<1>5. CASE CommitDelivery(r)
  <2>1. events \subseteq events'
    BY <1>5 DEF CommitDelivery
  <2>2. pc[d] # "read"
    BY <1>1, <1>5 DEF CommitDelivery, Shape, LoopMutex, Running, OnLoop
  <2>. QED
    BY <1>2, <1>3, <2>1, <2>2 DEF PushOf, Recorded, Flushed, Item, Cur
<1>. QED
  BY <1>4, <1>5, EventsMove

\* The entry a push is at gets recorded, flushed or passed over.
LEMMA OwnPush ==
    ASSUME Shape, Consumption, NEW r \in Deliveries, Step(r)
    PROVE  PushOf(r)'
<1>. USE DEF Shape
<1>0. r \in Reqs /\ r \notin Threaded /\ r \notin Counters
  BY LedgerAssumption DEF Reqs, OnLoop, Threaded
<1>1. PushOf(r)
  BY SplitConsumption
<1>2. More(r) => Cur(r) \in Entry /\ Item(r) \in Items
  BY <1>0, CurrentEntry
<1>3. pos[r] \in Nat \ {0}
  BY <1>0 DEF TypeOK
<1>4. CASE Accept(r)
  <2>1. pos[r] = 1 /\ pos'[r] = 1
    BY <1>0, <1>4 DEF Accept, AtEntry
  <2>2. pc'[r] = "accepted" /\ body'[r] \in Bodies[r]
    BY <1>0, <1>4 DEF Accept, TypeOK
  <2>3. DOMAIN body'[r] \subseteq Nat \ {0}
    <3>1. body'[r] \in Seq(Entry)
      BY <1>0, <2>2, LedgerAssumption
    <3>. QED
      BY <3>1, LenProperties
  <2>. QED
    BY <2>1, <2>2, <2>3 DEF PushOf
<1>5. CASE Close(r)
  BY <1>0, <1>5 DEF Close, PushOf, TypeOK
<1>6. CASE TakeLock(r) \/ LoadItem(r) \/ CommitCollides(r) \/ CommitAdjustment(r)
  BY <1>0, <1>6 DEF TakeLock, ReadyToAdjust, LoadItem, CommitCollides, CommitAdjustment,
     LoopMutex, Threaded
<1>7. CASE PassOver(r)
  <2>1. pos' = [pos EXCEPT ![r] = @ + 1] /\ UNCHANGED <<events, pc, body, staged>> /\ More(r)
    BY <1>7 DEF PassOver, db
  <2>2. Cur(r).qty < 0 \/ Recorded(r, Item(r)) \/ Flushed(r, Item(r))
    BY <1>7 DEF PassOver
  <2>3. pos'[r] = pos[r] + 1
    BY <1>0, <2>1 DEF TypeOK
  <2>4. \A j \in DOMAIN body[r] : j \in Int /\ body[r][j].qty \in Int
    BY <1>0, EntriesOf DEF TypeOK
  <2>5. pc'[r] = "accepted"
    BY <1>7 DEF PassOver
  <2>. QED
    BY <1>1, <1>3, <1>7, <2>1, <2>2, <2>3, <2>4, <2>5 DEF PassOver, PushOf, Recorded, Flushed, Item, Cur
<1>8. CASE ReadEntry(r)
  <2>1. UNCHANGED <<events, pos, body, staged>> /\ pc[r] = "accepted" /\ ~Recorded(r, Item(r))
    BY <1>8 DEF ReadEntry, db
  <2>2. pc'[r] = "read"
    BY <1>0, <1>8 DEF ReadEntry, TypeOK
  <2>. QED
    BY <1>1, <2>1, <2>2 DEF PushOf, Recorded, Flushed, Item, Cur
<1>9. CASE WriteEntry(r)
  <2>1. UNCHANGED <<events, body>> /\ pc[r] = "read"
    BY <1>9 DEF WriteEntry, db
  <2>2. pc'[r] = "accepted" /\ pos'[r] = pos[r] + 1
    BY <1>0, <1>9 DEF WriteEntry, TypeOK
  <2>3. Item(r) \in Items /\ Cur(r).qty \in Int
    BY <1>0, <1>2, <2>1 DEF AtEntry, Entry
  <2>4. cache[r][Item(r)] \in Int
    BY <1>0, <2>1, <2>3 DEF AtEntry, TypeOK
  <2>5. Consumed(cache[r][Item(r)], Cur(r).qty) \in Int
    BY <2>3, <2>4 DEF Consumed
  <2>6. /\ staged'[r][Item(r)] # None
        /\ \A i \in Items : staged[r][i] # None => staged'[r][i] # None
    BY <1>0, <1>9, <2>3, <2>5, LedgerAssumption DEF WriteEntry, TypeOK
  <2>7. \A j \in DOMAIN body[r] : j \in Int /\ body[r][j].item \in Items
    BY <1>0, EntriesOf DEF TypeOK
  <2>8. ASSUME NEW j \in DOMAIN body[r], j < pos[r] + 1, body[r][j].qty >= 0
        PROVE  Recorded(r, body[r][j].item) \/ staged'[r][body[r][j].item] # None
    <3>1. CASE j < pos[r]
      BY <1>1, <2>1, <2>6, <2>7, <2>8, <3>1 DEF PushOf, Flushed
    <3>2. CASE j = pos[r]
      BY <2>6, <3>2 DEF Item, Cur
    <3>. QED
      BY <1>3, <2>7, <2>8, <3>1, <3>2
  <2>. QED
    BY <1>1, <2>1, <2>2, <2>8 DEF PushOf, Recorded, Flushed
<1>10. CASE CommitDelivery(r)
  BY <1>0, <1>10 DEF CommitDelivery, PushOf, TypeOK
<1>11. CASE ValidateRow(r) \/ EndValidation(r) \/ SkipRow(r) \/ ReloadRow(r) \/ EndCount(r)
  BY <1>0, <1>11 DEF ValidateRow, EndValidation, SkipRow, ReloadRow, EndCount
<1>12. CASE ZohoRefusesReceipt(r) \/ CommitReceipt(r)
  BY <1>0, <1>12 DEF ZohoRefusesReceipt, CommitReceipt, Threaded
<1>13. ~(Collides(r) /\ FlushCollides(r))
  BY <1>1 DEF Collides, PushOf
<1>. QED
  BY <1>4, <1>5, <1>6, <1>7, <1>8, <1>9, <1>10, <1>11, <1>12, <1>13 DEF Step, FlushEntry

\* A push that commits has all its valid entries recorded, by itself or before.
LEMMA LotsStep ==
    ASSUME Shape, Consumption, NEW r \in Reqs, Step(r)
    PROVE  WholeLots'
<1>1. WholeLots
  BY SplitConsumption
<1>2. CASE events' = events
  BY <1>1, <1>2 DEF WholeLots
<1>3. CASE CommitDelivery(r)
  <2>1. /\ r \in Deliveries /\ pc[r] = "accepted" /\ ~More(r)
        /\ events' = events \cup {<<LotOf[r], i>> : i \in {j \in Items : Flushed(r, j)}}
    BY <1>3 DEF CommitDelivery
  <2>2. PushOf(r)
    BY <2>1, SplitConsumption
  <2>3. body[r] \in Bodies[r] /\ body[r] \in Seq(Entry) /\ pos[r] \in Nat
    BY <2>1, <2>2 DEF PushOf, Shape, TypeOK
  <2>4. \A j \in DOMAIN body[r] : j < pos[r] /\ body[r][j].item \in Items
    BY <2>1, <2>3, EntriesOf DEF More
  <2>5. ValidItems(body[r]) \subseteq {i \in Items : <<LotOf[r], i>> \in events'}
    BY <2>1, <2>2, <2>4 DEF ValidItems, PushOf, Recorded
  <2>6. SUFFICES ASSUME NEW l \in Lots
                 PROVE  \/ {i \in Items : <<l, i>> \in events'} = {}
                        \/ \E d \in Deliveries : \E b \in Bodies[d] :
                             LotOf[d] = l /\ ValidItems(b) \subseteq {i \in Items : <<l, i>> \in events'}
    BY DEF WholeLots
  <2>7. CASE l = LotOf[r]
    BY <2>1, <2>3, <2>5, <2>7
  <2>8. CASE l # LotOf[r]
    <3>1. {i \in Items : <<l, i>> \in events'} = {i \in Items : <<l, i>> \in events}
      BY <2>1, <2>8
    <3>. QED
      BY <1>1, <3>1 DEF WholeLots
  <2>. QED
    BY <2>7, <2>8
<1>. QED
  BY <1>2, <1>3, EventsMove

LEMMA ConsumptionStep == Shape /\ Consumption /\ [Next]_vars => Consumption'
<1>. SUFFICES ASSUME Shape, Consumption, [Next]_vars PROVE Consumption'
  OBVIOUS
<1>1. ASSUME NEW r \in Reqs, Step(r) PROVE Consumption'
  <2>1. \A d \in Deliveries : PushOf(d)'
    BY <1>1, OtherPushes, OwnPush
  <2>2. WholeLots'
    BY <1>1, LotsStep
  <2>. QED
    BY <2>1, <2>2 DEF Consumption, ConsumedOnceAndWhole, WholeLots, PushOf
<1>2. CASE Crash
  <2>1. events' = events /\ \A d \in Deliveries : pc'[d] \in {"idle", "done"}
    BY <1>2 DEF Crash, db, Reqs, OnLoop
  <2>. QED
    BY <2>1 DEF Consumption, ConsumedOnceAndWhole
<1>3. CASE UNCHANGED vars
  BY <1>3 DEF vars, Consumption, ConsumedOnceAndWhole, Recorded, Flushed, Item, Cur
<1>4. CASE Overwrite
  BY <1>4, ScriptMoves DEF Consumption, ConsumedOnceAndWhole, Recorded, Flushed, Item, Cur
<1>. QED
  BY <1>1, <1>2, <1>3, <1>4 DEF Next

LEMMA ConsumptionAlways == Spec => []Consumption
<1>1. Init => Consumption
  BY DEF Init, Consumption, ConsumedOnceAndWhole, Reqs, OnLoop
<1>. QED
  BY <1>1, ShapeAlways, ConsumptionStep, PTL DEF Spec

\* A lot is consumed once and as a whole, whatever pushes, replays, crashes and
\* refusals of them interleave with (process_luma_consumption).
THEOREM LotsConsumedOnceAndWhole == Spec => []ConsumedOnceAndWhole
<1>1. Consumption => ConsumedOnceAndWhole
  BY DEF Consumption
<1>. QED
  BY <1>1, ConsumptionAlways, PTL

-----------------------------------------------------------------------------
(* What a push has flushed *)

\* A push that is at work has the loop, and what it has flushed stays.
LEMMA OtherFlushes ==
    ASSUME Shape, Flushes, NEW r \in Reqs, Step(r), NEW d \in Deliveries, d # r
    PROVE  FlushesOf(d)'
<1>1. d \in Reqs /\ d \in OnLoop
  BY DEF Reqs, OnLoop
<1>2. /\ pc'[d] = pc[d] /\ body'[d] = body[d] /\ pos'[d] = pos[d]
      /\ cache'[d] = cache[d] /\ staged'[d] = staged[d]
  BY <1>1, OthersUntouched DEF Shape
<1>3. FlushesOf(d)
  BY DEF Flushes
<1>4. CASE events' = events
  BY <1>2, <1>3, <1>4 DEF FlushesOf, FlushOf, Recorded, Flushed, Item, Cur
<1>5. CASE CommitDelivery(r)
  <2>1. pc[d] \notin {"accepted", "read"}
    BY <1>1, <1>5 DEF CommitDelivery, Shape, LoopMutex, Running, OnLoop
  <2>. QED
    BY <1>2, <1>3, <2>1 DEF FlushesOf
<1>. QED
  BY <1>4, <1>5, EventsMove

\* What a push flushes follows from its first valid entry for the item.
LEMMA OwnFlushes ==
    ASSUME Shape, Consumption, Flushes, NEW r \in Deliveries, Step(r)
    PROVE  FlushesOf(r)'
<1>. USE DEF Shape
<1>0. r \in Reqs /\ r \notin Threaded /\ r \notin Counters
  BY LedgerAssumption DEF Reqs, OnLoop, Threaded
<1>1. FlushesOf(r) /\ PushOf(r)
  BY SplitConsumption DEF Flushes
<1>2. More(r) => Cur(r) \in Entry /\ Item(r) \in Items
  BY <1>0, CurrentEntry
<1>3. pos[r] \in Nat \ {0}
  BY <1>0 DEF TypeOK
<1>4. CASE Accept(r)
  BY <1>0, <1>1, <1>4 DEF Accept, FlushesOf, Flushed, Nothing, TypeOK
<1>5. CASE Close(r)
  BY <1>0, <1>5 DEF Close, FlushesOf, TypeOK
<1>6. CASE TakeLock(r) \/ LoadItem(r) \/ CommitCollides(r) \/ CommitAdjustment(r)
  BY <1>0, <1>6 DEF TakeLock, ReadyToAdjust, LoadItem, CommitCollides, CommitAdjustment,
     LoopMutex, Threaded
<1>7. CASE PassOver(r)
  <2>1. /\ UNCHANGED <<events, pc, body, cache, staged>>
        /\ pc[r] = "accepted" /\ pos'[r] = pos[r] + 1
    BY <1>0, <1>7 DEF PassOver, db, TypeOK
  <2>2. \A j \in DOMAIN body[r] : j \in Int
    BY <1>0, EntriesOf DEF TypeOK
  <2>. QED
    BY <1>1, <1>3, <2>1, <2>2 DEF FlushesOf, FlushOf, Recorded, Flushed
<1>8. CASE ReadEntry(r)
  <2>1. /\ UNCHANGED <<events, pos, body, staged>> /\ pc[r] = "accepted"
        /\ Cur(r).qty >= 0 /\ ~Flushed(r, Item(r))
    BY <1>8 DEF ReadEntry, db
  <2>2. pc'[r] = "read"
    BY <1>0, <1>8 DEF ReadEntry, TypeOK
  <2>3. \A i \in Items : i # Item(r) => cache'[r][i] = cache[r][i]
    BY <1>0, <1>8 DEF ReadEntry, Loads, TypeOK
  <2>. QED
    BY <1>1, <2>1, <2>2, <2>3 DEF FlushesOf, FlushOf, Recorded, Flushed, Item, Cur
<1>9. CASE WriteEntry(r)
  <2>1. UNCHANGED <<events, body, cache>> /\ pc[r] = "read" /\ pos'[r] = pos[r] + 1
    BY <1>0, <1>9 DEF WriteEntry, db, TypeOK
  <2>2. pc'[r] = "accepted"
    BY <1>0, <1>9 DEF WriteEntry, TypeOK
  <2>3. Item(r) \in Items /\ Cur(r).qty \in Int /\ More(r) /\ cache[r][Item(r)] # None
    BY <1>0, <1>2, <2>1 DEF AtEntry, Entry
  <2>4. /\ \A i \in Items : i # Item(r) => staged'[r][i] = staged[r][i]
        /\ staged'[r][Item(r)] = Consumed(cache[r][Item(r)], Cur(r).qty)
    BY <1>0, <1>9, <2>3 DEF WriteEntry, TypeOK
  <2>5. \A j \in DOMAIN body[r] : j \in Int /\ body[r][j].qty \in Int
    BY <1>0, EntriesOf DEF TypeOK
  <2>6. pos[r] \in DOMAIN body[r] /\ DOMAIN body[r] = 1 .. Len(body[r])
        /\ Len(body[r]) \in Nat
    BY <1>0, <1>3, <2>3, LenProperties DEF More, TypeOK
  <2>7. FirstOf(body[r], Item(r), pos[r])
    <3>1. ~Recorded(r, Item(r)) /\ ~Flushed(r, Item(r)) /\ Cur(r).qty >= 0
      BY <1>1, <2>1 DEF PushOf, FlushesOf
    <3>2. ASSUME NEW k \in 1..(pos[r] - 1), body[r][k].item = Item(r)
          PROVE  body[r][k].qty < 0
      <4>1. k \in DOMAIN body[r] /\ k < pos[r]
        BY <1>3, <2>6
      <4>2. ~(body[r][k].qty >= 0)
        BY <1>1, <2>1, <3>1, <3>2, <4>1 DEF PushOf
      <4>. QED
        BY <2>5, <4>1, <4>2
    <3>. QED
      BY <3>1, <3>2 DEF FirstOf, Item, Cur
  <2>8. ASSUME NEW i \in Items, Flushed(r, i)'
        PROVE  FlushOf(r, i)'
    <3>1. CASE i = Item(r)
      <4>1. ~Recorded(r, i)
        BY <1>1, <2>1, <3>1 DEF PushOf
      <4>2. pos[r] < pos'[r]
        BY <1>3, <2>1
      <4>3. staged'[r][i] = Consumed(cache[r][i], body[r][pos[r]].qty)
        BY <2>4, <3>1 DEF Cur
      <4>4. FirstOf(body[r], i, pos[r])
        BY <2>7, <3>1
      <4>. QED
        BY <2>1, <2>3, <2>6, <3>1, <4>1, <4>2, <4>3, <4>4 DEF FlushOf, Recorded
    <3>2. CASE i # Item(r)
      <4>1. FlushOf(r, i) /\ staged'[r][i] = staged[r][i]
        BY <1>1, <2>1, <2>4, <2>8, <3>2 DEF FlushesOf, Flushed
      <4>2. \A j \in DOMAIN body[r] : j < pos[r] => j < pos'[r]
        BY <1>3, <2>1, <2>5
      <4>. QED
        BY <2>1, <4>1, <4>2 DEF FlushOf, Recorded
    <3>. QED
      BY <3>1, <3>2
  <2>. QED
    BY <2>2, <2>8 DEF FlushesOf
<1>10. CASE CommitDelivery(r)
  BY <1>0, <1>10 DEF CommitDelivery, FlushesOf, TypeOK
<1>11. CASE ValidateRow(r) \/ EndValidation(r) \/ SkipRow(r) \/ ReloadRow(r) \/ EndCount(r)
  BY <1>0, <1>11 DEF ValidateRow, EndValidation, SkipRow, ReloadRow, EndCount
<1>12. CASE ZohoRefusesReceipt(r) \/ CommitReceipt(r)
  BY <1>0, <1>12 DEF ZohoRefusesReceipt, CommitReceipt, Threaded
<1>13. CASE FlushCollides(r)
  BY <1>0, <1>13 DEF FlushCollides, FlushesOf, TypeOK
<1>. QED
  BY <1>4, <1>5, <1>6, <1>7, <1>8, <1>9, <1>10, <1>11, <1>12, <1>13 DEF Step, FlushEntry

LEMMA FlushesAlways == Spec => []Flushes
<1>1. Init => Flushes
  BY DEF Init, Flushes, FlushesOf, Reqs, OnLoop
<1>2. Shape /\ Consumption /\ Flushes /\ [Next]_vars => Flushes'
  <2>. SUFFICES ASSUME Shape, Consumption, Flushes, [Next]_vars PROVE Flushes'
    OBVIOUS
  <2>1. ASSUME NEW r \in Reqs, Step(r) PROVE Flushes'
    BY <2>1, OtherFlushes, OwnFlushes DEF Flushes
  <2>2. CASE Crash
    <3>1. \A d \in Deliveries : pc'[d] \in {"idle", "done"} /\ staged'[d] = Nothing
      BY <2>2 DEF Crash, Reqs, OnLoop
    <3>. QED
      BY <3>1 DEF Flushes, FlushesOf
  <2>3. CASE UNCHANGED vars
    BY <2>3 DEF Flushes, FlushesOf, FlushOf, Flushed, Recorded, Item, Cur, vars
  <2>4. CASE Overwrite
    BY <2>4, ScriptMoves DEF Flushes, FlushesOf, FlushOf, Flushed, Recorded, Item, Cur
  <2>. QED
    BY <2>1, <2>2, <2>3, <2>4 DEF Next
<1>. QED
  BY <1>1, <1>2, ShapeAlways, ConsumptionAlways, PTL DEF Spec

-----------------------------------------------------------------------------
(* The refinement of AtomicLedger *)

\* By a request's step a handler on the loop comes to hold an old stock only if
\* the request is on the threadpool and writes it: no other handler runs beside it, and what it
\* commits itself it reads again.
LEMMA OvertakenMoves ==
    ASSUME Shape, NEW r \in Reqs, Step(r), NEW i \in OvertakenItems'
    PROVE  i \in OvertakenItems \/ (r \in Threaded /\ stock'[i] # stock[i])
<1>. USE DEF Shape
<1>0. None \notin Reqs /\ i \in Items
  BY LedgerAssumption DEF OvertakenItems
<1>1. PICK q \in OnLoop : Running(q)' /\ cache'[q][i] # None /\ cache'[q][i] # stock'[i]
  BY DEF OvertakenItems, Outdated
<1>2. q \in Reqs
  BY DEF Reqs
<1>3. loop' = q
  BY <1>1, <1>2, RoleStep DEF LoopMutex
<1>4. CASE q # r
  <2>1. Running(q) /\ cache'[q] = cache[q]
    BY <1>1, <1>2, <1>4, OthersUntouched DEF Running
  <2>2. CASE stock'[i] = stock[i]
    BY <1>0, <1>1, <2>1, <2>2 DEF OvertakenItems, Outdated
  <2>3. CASE r \in OnLoop
    <3>1. ~Running(r)
      BY <1>2, <1>4, <2>1, <2>3 DEF LoopMutex
    <3>2. r \notin Threaded
      BY <2>3, LedgerAssumption
    <3>3. ~CommitAdjustment(r) /\ ~CommitDelivery(r) /\ ~CommitReceipt(r)
      BY <3>1, <3>2 DEF CommitAdjustment, CommitDelivery, CommitReceipt, Running, Threaded
    <3>4. stock' = stock
      BY <3>3, StockMoves
    <3>. QED
      BY <2>2, <3>4
  <2>. QED
    BY <2>2, <2>3 DEF Reqs
<1>5. CASE q = r
  <2>1. r \notin Threaded
    BY <1>1, <1>5, LedgerAssumption
  <2>2. CASE Accept(r)
    BY <1>0, <1>1, <1>5, <2>2 DEF Accept, AtEntry, Nothing
  <2>3. CASE \E j : Loads(r, j) /\ stock' = stock /\ Running(r)
    BY <1>0, <1>1, <1>2, <1>5, <2>3 DEF Loads, OvertakenItems, Outdated, TypeOK
  <2>4. CASE cache' = [cache EXCEPT ![r] = Nothing]
    BY <1>0, <1>1, <1>2, <1>5, <2>4 DEF TypeOK, Nothing
  <2>5. CASE cache' = cache /\ stock' = stock /\ Running(r)
    BY <1>0, <1>1, <1>5, <2>5 DEF OvertakenItems, Outdated
  <2>6. CASE pc'[r] \in {"committed", "rejected", "failed", "done"}
    BY <1>1, <1>5, <2>6 DEF Running
  <2>. QED
    BY <2>1, <2>2, <2>3, <2>4, <2>5, <2>6 DEF Step, FlushEntry, Running, Close, LoadItem, TakeLock,
       CommitCollides, CommitAdjustment, ValidateRow, EndValidation, SkipRow, ReloadRow,
       EndCount, PassOver, ReadEntry, WriteEntry, FlushCollides, CommitDelivery,
       ZohoRefusesReceipt, CommitReceipt, ReadyToAdjust, Expired, db, work, Threaded, TypeOK
<1>. QED
  BY <1>4, <1>5

\* A request on the threadpool comes to hold an old stock by a write of it.
LEMMA OutdatedMoves ==
    ASSUME Shape, NEW r \in Reqs, Step(r), NEW i \in OutdatedItems'
    PROVE  i \in OutdatedItems \/ stock'[i] # stock[i]
<1>. USE DEF Shape
<1>0. i \in Items
  BY DEF OutdatedItems
<1>1. PICK q \in Threaded : /\ pc'[q] \in {"loaded", "locked"}
                            /\ cache'[q][i] # None /\ cache'[q][i] # stock'[i]
  BY DEF OutdatedItems, Outdated
<1>2. q \in Reqs
  BY DEF Reqs
<1>3. CASE stock'[i] = stock[i]
  <2>1. CASE q # r
    <3>1. pc'[q] = pc[q] /\ cache'[q] = cache[q]
      BY <1>2, <2>1, OthersUntouched
    <3>. QED
      BY <1>0, <1>1, <1>3, <3>1 DEF OutdatedItems, Outdated
  <2>2. CASE q = r
    <3>1. CASE LoadItem(r)
      BY <1>0, <1>1, <1>2, <1>3, <2>2, <3>1 DEF LoadItem, Loads, AtEntry, Nothing, TypeOK
    <3>2. CASE TakeLock(r)
      <4>1. pc[r] = "loaded" /\ cache' = cache
        BY <1>1, <2>2, <3>2, LedgerAssumption DEF TakeLock, ReadyToAdjust, Threaded, OnLoop
      <4>. QED
        BY <1>0, <1>1, <1>3, <2>2, <4>1 DEF OutdatedItems, Outdated
    <3>3. r \notin OnLoop /\ r \notin Counters /\ r \notin Deliveries
      BY <1>1, <2>2, LedgerAssumption DEF OnLoop
    <3>. QED
      BY <1>1, <2>2, <3>1, <3>2, <3>3 DEF Step, FlushEntry, Accept, Close, CommitCollides,
         CommitAdjustment, ValidateRow, EndValidation, SkipRow, ReloadRow, EndCount, PassOver,
         ReadEntry, WriteEntry, FlushCollides, CommitDelivery, ZohoRefusesReceipt,
         CommitReceipt, TypeOK
  <2>. QED
    BY <2>1, <2>2
<1>. QED
  BY <1>3

\* What requests miss by a step that writes no other items than these.
LEMMA MissedBy ==
    ASSUME Shape, NEW r \in Reqs, Step(r), NEW written,
           \A i \in Items : i \notin written => stock'[i] = stock[i]
    PROVE  /\ OutdatedItems' \subseteq OutdatedItems \cup written
           /\ OvertakenItems' \subseteq OvertakenItems \cup written
           /\ r \notin Threaded => OvertakenItems' \subseteq OvertakenItems
<1>1. OutdatedItems' \subseteq Items /\ OvertakenItems' \subseteq Items
  BY DEF OutdatedItems, OvertakenItems
<1>. QED
  BY <1>1, OvertakenMoves, OutdatedMoves

\* The row a commit adds is the next one and tells the stock its request held.
LEMMA CommittedRow ==
    ASSUME Shape, Numbers, Amounts, NEW r \in Reqs, CommitAdjustment(r), NEW missed,
           Outdated(r, Item(r)) => Item(r) \in missed
    PROVE  /\ Item(r) \in Items
           /\ Atomic!Row(Item(r), missed)
           /\ ledger'[Len(ledger')].req = r
<1>. USE DEF Shape
<1>. DEFINE i == Item(r)
            row == [num |-> number[r], item |-> i, req |-> r, before |-> cache[r][i],
                    after |-> After(Cur(r), cache[r][i])]
<1>1. pc[r] = "locked" /\ ledger' = Append(ledger, row) /\ events' = events
      /\ stock' = [stock EXCEPT ![i] = row.after] /\ ~Taken(number[r])
  BY DEF CommitAdjustment
<1>2. Cur(r) \in Entry /\ i \in Items
  BY <1>1, CurrentEntry DEF AtEntry
<1>3. cache[r][i] \in Int /\ cache[r][i] # None
  BY <1>1, <1>2 DEF AtEntry, TypeOK
<1>4. row.before # row.after /\ row.after >= 0
  <2>1. row.before # row.after
    BY <1>1 DEF Amounts, Refused
  <2>2. After(Cur(r), cache[r][i]) \in Nat
    BY AdjustedStock
  <2>. QED
    BY <2>1, <2>2
<1>5. ledger \in Seq(Row) /\ row \in Row
  <2>1. number[r] \in Nat /\ row.after \in Int
    BY <1>2, <1>3, AfterType DEF TypeOK
  <2>. QED
    BY <1>2, <1>3, <2>1 DEF TypeOK, Row
<1>6. Len(ledger) \in Nat /\ Len(ledger') = Len(ledger) + 1 /\ ledger'[Len(ledger')] = row
  BY <1>1, <1>5, AppendProperties, LenProperties
<1>7. number[r] = Len(ledger')
  <2>1. number[r] \in 1..(Len(ledger) + 1)
    BY <1>1 DEF Numbers
  <2>2. number[r] \notin 1..Len(ledger)
    BY <1>1 DEF Taken, Numbers, NumbersDense
  <2>. QED
    BY <1>6, <2>1, <2>2
<1>8. i \notin missed => row.before = stock[i]
  BY <1>3 DEF Outdated
<1>. HIDE DEF row
<1>9. Atomic!Row(i, missed)
  <2>1. row.num = number[r] /\ row.item = i
    BY DEF row
  <2>. QED
    BY <1>1, <1>4, <1>6, <1>7, <1>8, <2>1 DEF Atomic!Row
<1>10. row.req = r
  BY DEF row
<1>. QED
  BY <1>2, <1>6, <1>9, <1>10

\* An adjustment or a counted row is committed as AtomicLedger has it.
LEMMA AdjustmentIsAtomic ==
    ASSUME Shape, Numbers, Amounts, NEW r \in Reqs, Step(r), CommitAdjustment(r)
    PROVE  \E i \in Items : Atomic!Adjust(i) \/ Atomic!Count(i)
<1>. DEFINE i == Item(r)
<1>1. r \in Adjusters \cup Counters /\ pc[r] = "locked"
  BY DEF CommitAdjustment, Shape, LoopMutex
<1>2. i \in Items
  BY <1>1, CurrentEntry DEF Shape, AtEntry
<1>3. \A j \in Items : j \notin {i} => stock'[j] = stock[j]
  BY <1>2 DEF CommitAdjustment, Shape, TypeOK
<1>4. CASE r \in Threaded
  <2>1. Outdated(r, i) => i \in OutdatedItems
    BY <1>1, <1>2, <1>4 DEF OutdatedItems
  <2>2. Atomic!Row(i, OutdatedItems) /\ ledger'[Len(ledger')].req = r
    BY <2>1, CommittedRow
  <2>3. Atomic!Overtook({i})
    BY <1>3, MissedBy DEF Atomic!Overtook
  <2>. QED
    BY <1>2, <1>4, <2>2, <2>3 DEF Atomic!Adjust
<1>5. CASE r \notin Threaded
  <2>1. Outdated(r, i) => i \in OvertakenItems
    BY <1>1, <1>2, <1>5 DEF OvertakenItems, Running, Threaded, OnLoop
  <2>2. Atomic!Row(i, OvertakenItems) /\ ledger'[Len(ledger')].req = r
    BY <2>1, CommittedRow
  <2>3. Atomic!Missed({i})
    BY <1>3, <1>5, MissedBy DEF Atomic!Missed
  <2>. QED
    BY <1>2, <1>5, <2>2, <2>3 DEF Atomic!Count
<1>. QED
  BY <1>4, <1>5

\* A receipt adds its quantity to the stock unless it missed a write of it.
LEMMA ReceiptIsAtomic ==
    ASSUME Shape, NEW r \in Reqs, Step(r), CommitReceipt(r)
    PROVE  \E i \in Items : Atomic!Receive(i)
<1>. USE DEF Shape
<1>. DEFINE i == Item(r)
<1>1. r \in Receivers /\ r \in Threaded /\ pc[r] = "loaded"
  BY DEF CommitReceipt, Threaded
<1>2. Cur(r) \in Entry /\ i \in Items
  BY <1>1, ThreadedEntry, CurrentEntry
<1>3. cache[r][i] \in Int /\ cache[r][i] # None /\ stock[i] \in Int
  BY <1>1, <1>2 DEF AtEntry, TypeOK
<1>4. Cur(r).qty \in Int /\ <<i, Cur(r).qty>> \in Receipts
  <2>1. body[r] \in Bodies[r] /\ pos[r] = 1
    BY <1>1 DEF AtEntry
  <2>. QED
    BY <1>1, <1>2, <2>1 DEF Receipts, Entry, Item, Cur
<1>5. stock' = [stock EXCEPT ![i] = IF Cur(r).qty = 0 THEN stock[i] ELSE cache[r][i] + Cur(r).qty]
      /\ UNCHANGED <<ledger, events>>
  BY DEF CommitReceipt
<1>6. stock' = [stock EXCEPT ![i] = stock'[i]] /\ \A j \in Items : j \notin {i} => stock'[j] = stock[j]
  BY <1>2, <1>5 DEF TypeOK
<1>7. i \notin OutdatedItems => <<i, stock'[i] - stock[i]>> \in Receipts
  <2>1. i \notin OutdatedItems => cache[r][i] = stock[i]
    BY <1>1, <1>2, <1>3 DEF OutdatedItems, Outdated
  <2>2. stock'[i] = IF Cur(r).qty = 0 THEN stock[i] ELSE cache[r][i] + Cur(r).qty
    BY <1>2, <1>5 DEF TypeOK
  <2>3. i \notin OutdatedItems => stock'[i] - stock[i] = Cur(r).qty
    BY <1>3, <1>4, <2>1, <2>2
  <2>. QED
    BY <1>4, <2>3
<1>8. Atomic!Overtook({i})
  BY <1>6, MissedBy DEF Atomic!Overtook
<1>. QED
  BY <1>2, <1>5, <1>6, <1>7, <1>8 DEF Atomic!Receive

\* An item has one first valid entry.
LEMMA OneFirst ==
    ASSUME NEW b \in Seq(Entry), NEW i \in Items,
           NEW j \in DOMAIN b, FirstOf(b, i, j)
    PROVE  i \in ValidItems(b) /\ Uses(b)[i] = b[j].qty
<1>1. b[j].item = i /\ b[j].qty >= 0
  BY DEF FirstOf
<1>2. i \in ValidItems(b)
  BY <1>1 DEF ValidItems
<1>3. ASSUME NEW k \in DOMAIN b, FirstOf(b, i, k) PROVE k = j
  <2>1. j \in Nat \ {0} /\ k \in Nat \ {0} /\ b[j].qty \in Int /\ b[k].qty \in Int
    BY EntriesOf, LenProperties
  <2>2. ~(k < j) /\ ~(j < k)
    BY <1>3, <2>1 DEF FirstOf
  <2>. QED
    BY <2>1, <2>2
<1>4. (CHOOSE k \in DOMAIN b : FirstOf(b, i, k)) = j
  BY <1>3
<1>. QED
  BY <1>2, <1>4 DEF Uses

\* A push commits as one step: what it recorded newly is what it flushed, and
\* it read those stocks as they are unless a request on the threadpool came
\* between.
LEMMA DeliveryIsAtomic ==
    ASSUME Shape, Amounts, Consumption, Flushes, NEW r \in Reqs, Step(r), CommitDelivery(r)
    PROVE  \E l \in Lots : Atomic!Consume(l)
<1>. USE DEF Shape
<1>. DEFINE l       == LotOf[r]
            use     == Uses(body[r])
            flushed == {i \in Items : Flushed(r, i)}
<1>1. /\ r \in Deliveries /\ pc[r] = "accepted" /\ ~More(r) /\ ledger' = ledger
      /\ events' = events \cup {<<l, i>> : i \in flushed}
      /\ \A i \in Items : stock'[i] = IF i \in flushed /\ staged[r][i] # cache[r][i]
                                      THEN staged[r][i] ELSE stock[i]
  BY DEF CommitDelivery
<1>2. /\ r \in OnLoop /\ r \notin Threaded /\ l \in Lots
      /\ body[r] \in Seq(Entry) /\ pos[r] \in Nat
  BY <1>1, LedgerAssumption DEF OnLoop, TypeOK
<1>3. PushOf(r) /\ FlushesOf(r)
  BY <1>1, SplitConsumption DEF Flushes
<1>4. body[r] \in Bodies[r] /\ use \in PushesOf(l)
  BY <1>1, <1>3 DEF PushOf, PushesOf
<1>5. ASSUME NEW i \in flushed
      PROVE  /\ i \in DOMAIN use /\ <<l, i>> \notin events
             /\ cache[r][i] \in Int /\ use[i] \in Int
             /\ staged[r][i] = Consumed(cache[r][i], use[i])
  <2>1. FlushOf(r, i) /\ i \in Items
    BY <1>1, <1>3 DEF FlushesOf
  <2>2. PICK j \in DOMAIN body[r] :
            FirstOf(body[r], i, j) /\ staged[r][i] = Consumed(cache[r][i], body[r][j].qty)
    BY <2>1 DEF FlushOf
  <2>3. i \in ValidItems(body[r]) /\ use[i] = body[r][j].qty
    BY <1>2, <2>1, <2>2, OneFirst
  <2>4. body[r][j].qty \in Int
    BY <1>2, EntriesOf
  <2>5. cache[r][i] \in Int
    BY <2>1 DEF FlushOf, TypeOK
  <2>6. i \in DOMAIN use
    BY <2>3 DEF Uses
  <2>. QED
    BY <2>1, <2>2, <2>3, <2>4, <2>5, <2>6 DEF FlushOf, Recorded
<1>6. ASSUME NEW i \in DOMAIN use
      PROVE  i \in Items /\ (<<l, i>> \in events \/ i \in flushed)
  <2>1. PICK j \in DOMAIN body[r] : body[r][j].qty >= 0 /\ body[r][j].item = i
    BY DEF Uses, ValidItems
  <2>2. j < pos[r] /\ i \in Items
    BY <1>1, <1>2, <2>1, EntriesOf DEF More
  <2>. QED
    BY <1>1, <1>3, <2>1, <2>2 DEF PushOf, Recorded
<1>. DEFINE new == {i \in DOMAIN use : <<l, i>> \notin events}
            Left(i) == IF stock[i] > use[i] THEN stock[i] - use[i] ELSE 0
<1>7. new = flushed
  BY <1>5, <1>6
<1>8. events' = events \cup {<<l, i>> : i \in DOMAIN use}
  BY <1>1, <1>5, <1>6
<1>9. \A i \in Items : i \notin new => stock'[i] = stock[i]
  BY <1>1, <1>7
<1>10. ASSUME NEW i \in new \ OvertakenItems PROVE stock'[i] = Left(i)
  <2>1. i \in Items /\ cache[r][i] \in Int /\ use[i] \in Int
        /\ staged[r][i] = Consumed(cache[r][i], use[i])
    BY <1>5, <1>6, <1>7, <1>10
  <2>2. cache[r][i] = stock[i]
    <3>1. cache[r][i] # None
      BY <2>1, LedgerAssumption
    <3>. QED
      BY <1>1, <1>2, <1>10, <2>1, <3>1 DEF OvertakenItems, Outdated, Running
  <2>3. stock'[i] = Consumed(stock[i], use[i])
    BY <1>1, <1>7, <1>10, <2>1, <2>2
  <2>. QED
    BY <2>1, <2>2, <2>3 DEF Consumed
<1>13. ASSUME NEW i \in new PROVE stock'[i] >= 0 \/ stock'[i] = stock[i]
  <2>1. i \in Items /\ staged[r][i] # None /\ r \in Reqs
    BY <1>6, <1>7, <1>13 DEF Flushed
  <2>2. staged[r][i] \in Nat
    BY <2>1 DEF Amounts
  <2>. QED
    BY <1>1, <2>1, <2>2
<1>11. Atomic!Missed(new)
  BY <1>2, <1>9, MissedBy DEF Atomic!Missed
<1>12. Atomic!Consume(l)
  <2>1. use \in [k \in Lots |-> PushesOf(k)][l]
    BY <1>2, <1>4
  <2>. HIDE DEF l, use
  <2>2. \A i \in Items \ new : stock'[i] = stock[i]
    BY <1>9
  <2>3. \A i \in new \ OvertakenItems : stock'[i] = Left(i)
    BY <1>10
  <2>4. \A i \in new : stock'[i] >= 0 \/ stock'[i] = stock[i]
    BY <1>13
  <2>. QED
    BY <1>1, <1>8, <1>11, <2>1, <2>2, <2>3, <2>4 DEF Atomic!Consume
<1>. QED
  BY <1>2, <1>12

\* Every other step leaves what is committed and lets nobody miss anything.
LEMMA StepIsAtomic ==
    ASSUME Shape, Numbers, Amounts, Consumption, Flushes, Shape',
           NEW r \in Reqs, Step(r)
    PROVE  Atomic!Next
<1>1. stock' \in [Items -> Int]
  BY DEF Shape, TypeOK
<1>2. CASE CommitAdjustment(r)
  BY <1>1, <1>2, AdjustmentIsAtomic DEF Atomic!Next
<1>3. CASE CommitReceipt(r)
  BY <1>1, <1>3, ReceiptIsAtomic DEF Atomic!Next
<1>4. CASE CommitDelivery(r)
  BY <1>1, <1>4, DeliveryIsAtomic DEF Atomic!Next
<1>5. CASE UNCHANGED <<stock, ledger, events>>
  BY <1>1, <1>5, MissedBy DEF Atomic!Next, Atomic!End, Atomic!Missed
<1>6. CommitAdjustment(r) \/ CommitReceipt(r) \/ CommitDelivery(r)
      \/ UNCHANGED <<stock, ledger, events>>
  BY StockMoves, LedgerMoves, EventsMove
<1>. QED
  BY <1>2, <1>3, <1>4, <1>5, <1>6

\* The script's commit, where it changes a stock, may be missed by everyone.
LEMMA ScriptIsAtomic ==
    ASSUME Shape, Overwrite
    PROVE  Atomic!Next
<1>. DEFINE changed == {i \in Items : stock'[i] # stock[i]}
<1>1. UNCHANGED <<ledger, events, pc, cache>> /\ stock' \in [Items -> Int]
      /\ \A i \in Items : stock'[i] \in Upstream[i] \cup {stock[i]}
  BY ScriptMoves
<1>2. OutdatedItems' \subseteq OutdatedItems \cup changed
  BY <1>1 DEF OutdatedItems, Outdated
<1>3. OvertakenItems' \subseteq OvertakenItems \cup changed
  BY <1>1 DEF OvertakenItems, Outdated, Running
<1>4. Atomic!Overwrite
  BY <1>1, <1>2, <1>3 DEF Atomic!Overwrite, Atomic!Overtook
<1>. QED
  BY <1>1, <1>4 DEF Atomic!Next

\* Reads without a lock, locks that refresh nothing, flushes and commits: all
\* of it comes to atomic writes of the stock, where a handler on the loop
\* misses only writes of the threadpool and the script (create_adjustment,
\* submit_cycle_count, process_luma_consumption, receive_shipment).
THEOREM LedgerIsAtomic == Spec => ImplementsAtomicLedger
<1>. DEFINE Inv == Shape /\ Numbers /\ Amounts /\ Consumption /\ Flushes
<1>1. Init => Atomic!Init
  <2>. SUFFICES ASSUME Init PROVE Atomic!Init
    OBVIOUS
  <2>1. stock \in [Items -> Int]
    BY ShapeInit DEF Shape, TypeOK
  <2>2. OutdatedItems = {} /\ OvertakenItems = {}
    BY DEF Init, OutdatedItems, OvertakenItems, Running, Reqs
  <2>. QED
    BY <2>1, <2>2 DEF Init, Atomic!Init
<1>2. Inv /\ Inv' /\ [Next]_vars => [Atomic!Next]_(Atomic!vars)
  <2>. SUFFICES ASSUME Inv, Inv', [Next]_vars PROVE [Atomic!Next]_(Atomic!vars)
    OBVIOUS
  <2>1. ASSUME NEW r \in Reqs, Step(r) PROVE Atomic!Next
    BY <2>1, StepIsAtomic
  <2>2. CASE Crash
    <3>1. \A q \in Reqs : pc'[q] \in {"idle", "done"} /\ UNCHANGED <<stock, ledger, events>>
      BY <2>2 DEF Crash, db
    <3>2. UNCHANGED <<stock, ledger, events>>
      BY <2>2 DEF Crash, db
    <3>3. OutdatedItems' = {} /\ OvertakenItems' = {}
      BY <3>1 DEF OutdatedItems, OvertakenItems, Running, Reqs
    <3>4. stock' \in [Items -> Int]
      BY DEF Shape, TypeOK
    <3>. QED
      BY <3>2, <3>3, <3>4 DEF Atomic!Next, Atomic!End, Atomic!Missed
  <2>3. CASE UNCHANGED vars
    BY <2>3 DEF vars, Atomic!vars, OutdatedItems, OvertakenItems, Outdated, Running
  <2>4. CASE Overwrite
    BY <2>4, ScriptIsAtomic
  <2>. QED
    BY <2>1, <2>2, <2>3, <2>4 DEF Next
<1>. QED
  BY <1>1, <1>2, ShapeAlways, NumbersAlways, AmountsAlways, ConsumptionAlways, FlushesAlways,
     PTL DEF Spec, ImplementsAtomicLedger, Atomic!Spec
=============================================================================
