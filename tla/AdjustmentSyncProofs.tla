------------------------ MODULE AdjustmentSyncProofs ------------------------
(***************************************************************************)
(* For any number of adjustments, reversals and racing requests: what is   *)
(* SYNCED locally is in Zoho, Zoho never holds a reversal alone, and a row *)
(* stays SYNCED when failures come late; for a dashboard read beside them, *)
(* that a row it has called final is never pushed again, and that a        *)
(* variance PackTrack made comes with a row to retry.                      *)
(***************************************************************************)
EXTENDS Reconciliation, FiniteSetTheorems, TLAPS

LEMMA TargetType == \A s \in Sessions : Target[s] \in Adjs
BY SyncAssumption

\* The columns an outcome leaves are columns.
LEMMA AfterType ==
    ASSUME NEW c \in Columns, NEW o \in Outcomes
    PROVE  After(c, o) \in Columns
<1>1. CASE o = "NOT_CONFIGURED"
  BY <1>1 DEF After, Columns, Statuses
<1>2. CASE o # "NOT_CONFIGURED"
  <2>1. ToStatus(o) \in Statuses
    BY <1>2 DEF ToStatus, Outcomes, Statuses
  <2>2. c.attempts + 1 \in Nat
    BY DEF Columns
  <2>3. (CASE o = "SYNCED" -> "none" [] o = "SKIPPED" -> "unlinked" [] OTHER -> o)
           \in {"none", "timeout", "refused", "unlinked"}
    BY <1>2 DEF Outcomes
  <2>. QED
    BY <1>2, <2>1, <2>2, <2>3 DEF After, Columns
<1>. QED
  BY <1>1, <1>2

\* Merging two sets of columns over a third gives columns.
LEMMA MergeType ==
    ASSUME NEW cur \in Columns, NEW old \in Columns, NEW new \in Columns
    PROVE  Merge(cur, old, new) \in Columns
<1>1. DOMAIN new = {"status", "attempts", "error"}
  BY DEF Columns
<1>2. Merge(cur, old, new) =
        [status   |-> IF new.status = old.status THEN cur.status ELSE new.status,
         attempts |-> IF new.attempts = old.attempts THEN cur.attempts ELSE new.attempts,
         error    |-> IF new.error = old.error THEN cur.error ELSE new.error]
  BY <1>1 DEF Merge
<1>. QED
  BY <1>2 DEF Columns

LEMMA TypeInit == Init => TypeOK
BY DEF Init, TypeOK, Blank, Columns, Statuses, PCs

LEMMA InitialType == TypeOK => Initial \in Columns /\ Initial.status # "SYNCED"
BY DEF Initial, Blank, Columns, Statuses

LEMMA TypeStep == TypeOK /\ Begun /\ [Next]_vars => TypeOK'
<1>. SUFFICES ASSUME TypeOK, Begun, [Next]_vars PROVE TypeOK'
  OBVIOUS
<1>0. Blank \in Columns
  BY DEF Blank, Columns, Statuses
<1>1. ASSUME NEW s \in Sessions, Submit(s) PROVE TypeOK'
  BY <1>1, TargetType, InitialType DEF Submit, Record, TypeOK, PCs, upstream
<1>2. ASSUME NEW s \in Sessions, Load(s) PROVE TypeOK'
  BY <1>2, TargetType DEF Load, TypeOK, PCs, upstream, books
<1>3. ASSUME NEW s \in Sessions, CheckEligible(s) PROVE TypeOK'
  BY <1>0, <1>3 DEF CheckEligible, Finish, session, TypeOK, PCs, upstream, books
<1>4. ASSUME NEW s \in Sessions, Push(s) PROVE TypeOK'
  <2>. USE <1>4 DEF TypeOK, books, PCs
  <2>1. CASE Finish(s) /\ UNCHANGED wire
    BY <1>0, <2>1 DEF Push, Finish
  <2>2. CASE /\ reply' = [reply EXCEPT ![s] = IF config # "on" THEN "NOT_CONFIGURED" ELSE "SKIPPED"]
             /\ pc' = [pc EXCEPT ![s] = "answered"]
             /\ UNCHANGED <<loaded, linkSeen, voidSeen, wire>>
    BY <2>2 DEF Push, Outcomes
  <2>3. CASE /\ wire' = wire \cup {s}
             /\ pc' = [pc EXCEPT ![s] = "waiting"]
             /\ UNCHANGED session
    BY <2>3 DEF Push, session
  <2>. QED
    BY <2>1, <2>2, <2>3 DEF Push
<1>5. ASSUME NEW s \in Sessions, Timeout(s) PROVE TypeOK'
  BY <1>5 DEF Timeout, TypeOK, PCs, Outcomes, upstream, books
<1>6. ASSUME NEW s \in Sessions, Serve(s) PROVE TypeOK'
  <2>1. Target[s] \in ledger
    BY <1>6 DEF Serve, Interpreted, Begun
  <2>. QED
    BY <1>6, <2>1 DEF Serve, Interpreted, TypeOK, PCs, Outcomes, upstream, books
<1>7. ASSUME NEW s \in Sessions, Persist(s) PROVE TypeOK'
  <2>1. loaded[s] \in Columns /\ reply[s] \in Outcomes /\ row[Target[s]] \in Columns
    BY <1>7, TargetType DEF Persist, Begun, TypeOK
  <2>2. Merge(row[Target[s]], loaded[s], After(loaded[s], reply[s])) \in Columns
    BY <2>1, AfterType, MergeType
  <2>3. row' \in [Adjs -> Columns]
    BY <1>7, <2>2 DEF Persist, TypeOK
  <2>. QED
    BY <1>0, <1>7, <2>3 DEF Persist, Finish, TypeOK, PCs, upstream, books
<1>8. ASSUME NEW a \in Adjs, Reverse(a) PROVE TypeOK'
  BY <1>8, InitialType DEF Reverse, Record, TypeOK, upstream
<1>9. ASSUME NEW a \in Adjs, Void(a) PROVE TypeOK'
  BY <1>9 DEF Void, TypeOK, upstream
<1>10. CASE Link
  BY <1>10 DEF Link, TypeOK, upstream
<1>11. CASE Restart
  BY <1>0, <1>11 DEF Restart, TypeOK, PCs, upstream
<1>12. CASE UNCHANGED vars
  BY <1>12 DEF TypeOK, vars
<1>. QED
  BY <1>1, <1>2, <1>3, <1>4, <1>5, <1>6, <1>7, <1>8, <1>9, <1>10, <1>11, <1>12
     DEF Next, Handle

LEMMA BegunStep == TypeOK /\ Begun /\ [Next]_vars => Begun'
<1>. SUFFICES ASSUME TypeOK, Begun, [Next]_vars, NEW t \in Sessions
              PROVE  /\ pc'[t] \notin {"idle", "done"} \/ t \in wire' => Target[t] \in ledger'
                     /\ pc'[t] = "created" => t \in Submitters
                     /\ pc'[t] = "answered" => reply'[t] \in Outcomes
  BY DEF Begun
<1>. USE DEF Begun, TypeOK
<1>1. ASSUME NEW s \in Sessions, Submit(s) PROVE Begun'
  BY <1>1 DEF Submit, Record, upstream
<1>2. ASSUME NEW s \in Sessions, Load(s) PROVE Begun'
  BY <1>2 DEF Load, upstream, books
<1>3. ASSUME NEW s \in Sessions, CheckEligible(s) PROVE Begun'
  BY <1>3 DEF CheckEligible, Finish, session, upstream, books
<1>4. ASSUME NEW s \in Sessions, Push(s) PROVE Begun'
  BY <1>4 DEF Push, Finish, session, books, Outcomes
<1>5. ASSUME NEW s \in Sessions, Timeout(s) PROVE Begun'
  BY <1>5 DEF Timeout, Outcomes, upstream, books
<1>6. ASSUME NEW s \in Sessions, Serve(s) PROVE Begun'
  BY <1>6 DEF Serve, Interpreted, Outcomes, upstream, books
<1>7. ASSUME NEW s \in Sessions, Persist(s) PROVE Begun'
  BY <1>7 DEF Persist, Finish, upstream, books
<1>8. ASSUME NEW a \in Adjs, Reverse(a) PROVE Begun'
  BY <1>8 DEF Reverse, Record, upstream
<1>9. ASSUME NEW a \in Adjs, Void(a) PROVE Begun'
  BY <1>9 DEF Void, upstream
<1>10. CASE Link
  BY <1>10 DEF Link, upstream
<1>11. CASE Restart
  BY <1>11 DEF Restart, upstream
<1>12. CASE UNCHANGED vars
  BY <1>12 DEF vars
<1>. QED
  BY <1>1, <1>2, <1>3, <1>4, <1>5, <1>6, <1>7, <1>8, <1>9, <1>10, <1>11, <1>12
     DEF Next, Handle

\* The sync columns, the sessions and the calls stay well formed, and only
\* committed adjustments reach Zoho.
THEOREM SyncTypeCorrect == Spec => [](TypeOK /\ Begun)
<1>1. Init => TypeOK /\ Begun
  BY TypeInit DEF Init, Begun
<1>. QED
  BY <1>1, TypeStep, BegunStep, PTL DEF Spec

-----------------------------------------------------------------------------
(* Agreement with Zoho *)

LEMMA AppliedGrows == Next => applied \subseteq applied'
BY DEF Next, Submit, Handle, Load, CheckEligible, Push, Timeout, Persist, Serve, Interpreted, Reverse,
   Void, Link, Restart, upstream

\* Only an answer SYNCED leaves a status SYNCED behind.
LEMMA AfterSynced ==
    ASSUME NEW c \in Columns, NEW o \in Outcomes, After(c, o).status = "SYNCED"
    PROVE  o = "SYNCED"
<1>1. CASE o = "NOT_CONFIGURED"
  BY <1>1 DEF After, Columns
<1>2. CASE o # "NOT_CONFIGURED"
  <2>1. After(c, o).status = ToStatus(o)
    BY <1>2 DEF After
  <2>. QED
    BY <2>1 DEF ToStatus, Outcomes
<1>. QED
  BY <1>1, <1>2

LEMMA MergeStatus ==
    ASSUME NEW cur \in Columns, NEW old \in Columns, NEW new \in Columns
    PROVE  Merge(cur, old, new).status \in {cur.status, new.status}
BY DEF Merge, Columns

\* A status that becomes SYNCED was reported by an answer.
LEMMA RowStep ==
    ASSUME TypeOK, Begun, Next, NEW a \in Adjs, row'[a].status = "SYNCED"
    PROVE  \/ row[a].status = "SYNCED"
           \/ \E s \in Sessions : Target[s] = a /\ reply[s] = "SYNCED"
<1>1. CASE row' = row
  BY <1>1
<1>2. CASE \E b \in Adjs : Record(b)
  BY <1>2, InitialType DEF Record, TypeOK
<1>3. ASSUME NEW s \in Sessions, Persist(s)
      PROVE  \/ row[a].status = "SYNCED"
             \/ Target[s] = a /\ reply[s] = "SYNCED"
  <2>1. CASE Target[s] # a
    BY <1>3, <2>1 DEF Persist, TypeOK
  <2>2. CASE Target[s] = a
    <3>1. loaded[s] \in Columns /\ reply[s] \in Outcomes /\ row[a] \in Columns
      BY <1>3 DEF Persist, Begun, TypeOK
    <3>2. After(loaded[s], reply[s]) \in Columns
      BY <3>1, AfterType
    <3>3. row'[a] = Merge(row[a], loaded[s], After(loaded[s], reply[s]))
      BY <1>3, <2>2 DEF Persist, TypeOK
    <3>4. row'[a].status \in {row[a].status, After(loaded[s], reply[s]).status}
      BY <3>1, <3>2, <3>3, MergeStatus
    <3>. QED
      BY <2>2, <3>1, <3>4, AfterSynced
  <2>. QED
    BY <2>1, <2>2
<1>. QED
  BY <1>1, <1>2, <1>3, TargetType
     DEF Next, Submit, Handle, Load, CheckEligible, Push, Timeout, Serve, Interpreted, Reverse, Void,
         Link, Restart

\* What reaches Zoho was on the wire.
LEMMA AppliedStep ==
    ASSUME Next, NEW a \in applied'
    PROVE  a \in applied \/ \E s \in wire : Target[s] = a
BY DEF Next, Submit, Handle, Load, CheckEligible, Push, Timeout, Persist, Serve, Interpreted, Reverse,
   Void, Link, Restart, upstream

LEMMA ReportedStep ==
    ASSUME TypeOK, SyncInv, Next
    PROVE  ReportedIsApplied'
<1>. SUFFICES ASSUME NEW t \in Sessions
              PROVE  /\ loaded'[t].status = "SYNCED" => Target[t] \in applied'
                     /\ reply'[t] = "SYNCED" => Target[t] \in applied'
  BY DEF ReportedIsApplied
<1>1. applied \subseteq applied'
  BY AppliedGrows
<1>2. Target[t] \in Adjs
  BY TargetType
<1>3. loaded'[t] \in {loaded[t], Blank, row[Target[t]]}
  BY DEF TypeOK, Next, Submit, Handle, Load, CheckEligible, Push, Timeout, Persist, Serve, Interpreted,
     Reverse, Void, Link, Restart, Finish, session
<1>4. reply'[t] = "SYNCED" => reply[t] = "SYNCED" \/ Target[t] \in applied'
  <2>1. CASE \E s \in Sessions : Serve(s)
    BY <2>1 DEF Serve, Interpreted, TypeOK
  <2>2. CASE reply' = reply
    BY <2>2
  <2>0. None # "SYNCED"
    BY SyncAssumption DEF Outcomes
  <2>3. CASE \E s \in Sessions : Finish(s)
    BY <2>0, <2>3 DEF Finish, TypeOK
  <2>4. CASE Restart
    BY <2>0, <2>4 DEF Restart
  <2>5. ASSUME NEW s \in Sessions, Push(s)
        PROVE  reply'[t] = "SYNCED" => reply[t] = "SYNCED"
    <3>1. CASE Finish(s)
      BY <2>0, <3>1 DEF Finish, TypeOK
    <3>2. CASE reply' = [reply EXCEPT ![s] = IF config # "on" THEN "NOT_CONFIGURED" ELSE "SKIPPED"]
      BY <3>2 DEF TypeOK
    <3>3. CASE reply' = reply
      BY <3>3
    <3>. QED
      BY <2>5, <3>1, <3>2, <3>3 DEF Push, session
  <2>6. ASSUME NEW s \in Sessions, Timeout(s)
        PROVE  reply'[t] = "SYNCED" => reply[t] = "SYNCED"
    BY <2>6 DEF Timeout, TypeOK
  <2>. QED
    BY <2>1, <2>2, <2>3, <2>4, <2>5, <2>6 DEF Next, Submit, Handle, Load, CheckEligible,
       Persist, Reverse, Void, Link, session
<1>5. Blank.status # "SYNCED"
  BY DEF Blank
<1>. QED
  BY <1>1, <1>2, <1>3, <1>4, <1>5 DEF SyncInv, SyncedIsApplied, ReportedIsApplied

LEMMA OriginalStep ==
    ASSUME TypeOK, Begun, SyncInv, Next
    PROVE  OriginalFirst'
<1>. SUFFICES ASSUME NEW t \in Sessions, Target[t] \in Reversals,
                     pc'[t] = "eligible" \/ t \in wire'
              PROVE  OriginalOf[Target[t]] \in applied'
  BY DEF OriginalFirst
<1>1. applied \subseteq applied'
  BY AppliedGrows
<1>2. CASE pc[t] = "eligible" \/ t \in wire
  BY <1>1, <1>2 DEF SyncInv, OriginalFirst
<1>3. CASE pc[t] # "eligible" /\ t \notin wire
  <2>1. \/ Load(t) /\ pc[t] = "created"
        \/ CheckEligible(t) /\ ~Blocked(t)
    BY <1>3 DEF TypeOK, Next, Submit, Handle, Load, CheckEligible, Push, Timeout, Persist,
       Serve, Interpreted, Reverse, Void, Link, Restart, Finish, session, upstream
  <2>2. pc[t] # "created"
    BY SyncAssumption DEF Begun
  <2>3. row[OriginalOf[Target[t]]].status = "SYNCED"
    BY <2>1, <2>2 DEF Blocked
  <2>4. OriginalOf[Target[t]] \in Adjs
    BY SyncAssumption
  <2>. QED
    BY <1>1, <2>3, <2>4 DEF SyncInv, SyncedIsApplied
<1>. QED
  BY <1>2, <1>3

LEMMA SyncStep == TypeOK /\ Begun /\ SyncInv /\ [Next]_vars => SyncInv'
<1>1. ASSUME TypeOK, Begun, SyncInv, Next PROVE SyncInv'
  <2>1. applied \subseteq applied'
    BY <1>1, AppliedGrows
  <2>2. SyncedIsApplied'
    <3>. SUFFICES ASSUME NEW a \in Adjs, row'[a].status = "SYNCED" PROVE a \in applied'
      BY DEF SyncedIsApplied
    <3>. QED
      BY <1>1, <2>1, RowStep DEF SyncInv, SyncedIsApplied, ReportedIsApplied
  <2>3. NoLoneReversal'
    <3>. SUFFICES ASSUME NEW a \in Reversals, a \in applied' PROVE OriginalOf[a] \in applied'
      BY DEF NoLoneReversal
    <3>1. a \in applied \/ \E s \in wire : Target[s] = a
      BY <1>1, AppliedStep
    <3>. QED
      BY <1>1, <2>1, <3>1 DEF SyncInv, NoLoneReversal, OriginalFirst, TypeOK
  <2>. QED
    BY <1>1, <2>2, <2>3, ReportedStep, OriginalStep DEF SyncInv
<1>2. ASSUME SyncInv, UNCHANGED vars PROVE SyncInv'
  BY <1>2 DEF SyncInv, SyncedIsApplied, NoLoneReversal, ReportedIsApplied, OriginalFirst, vars
<1>. QED
  BY <1>1, <1>2

LEMMA SyncInit == Init => SyncInv
<1>. SUFFICES ASSUME Init PROVE SyncInv
  OBVIOUS
<1>1. None # "SYNCED"
  BY SyncAssumption DEF Outcomes
<1>2. /\ \A a \in Adjs : row[a].status # "SYNCED"
      /\ \A s \in Sessions : loaded[s].status # "SYNCED" /\ reply[s] # "SYNCED"
  BY <1>1 DEF Init, Blank
<1>3. applied = {} /\ wire = {} /\ \A s \in Sessions : pc[s] # "eligible"
  BY DEF Init
<1>. QED
  BY <1>2, <1>3 DEF SyncInv, SyncedIsApplied, NoLoneReversal, ReportedIsApplied, OriginalFirst

\* A row never claims SYNCED for an adjustment Zoho has not applied.
THEOREM SyncedRowsAreApplied == Spec => []SyncedIsApplied
<1>1. SyncInv => SyncedIsApplied
  BY DEF SyncInv
<1>. QED
  BY <1>1, SyncInit, SyncStep, SyncTypeCorrect, PTL DEF Spec

\* No interleaving of retries, reversals and late calls leaves a reversal in
\* Zoho without the adjustment it cancels.
THEOREM ReversalsFollowOriginals == Spec => []NoLoneReversal
<1>1. SyncInv => NoLoneReversal
  BY DEF SyncInv
<1>. QED
  BY <1>1, SyncInit, SyncStep, SyncTypeCorrect, PTL DEF Spec

-----------------------------------------------------------------------------
(* Adjustments at rest *)

LEMMA OnceStep == TypeOK /\ SubmittedOnce /\ [Next]_vars => SubmittedOnce'
<1>. SUFFICES ASSUME TypeOK, SubmittedOnce, [Next]_vars PROVE SubmittedOnce'
  OBVIOUS
<1>. USE DEF SubmittedOnce, TypeOK
<1>1. ASSUME NEW s \in Sessions, Submit(s) PROVE SubmittedOnce'
  <2>1. /\ ledger' = ledger \cup {Target[s]} /\ s \in Submitters
        /\ pc' = [pc EXCEPT ![s] = "created"]
    BY <1>1 DEF Submit, Record
  <2>2. \A t \in Submitters : t \in Sessions /\ (Target[t] = Target[s] => t = s)
    BY <2>1, SyncAssumption DEF Sessions
  <2>3. Target[s] \notin Reversals
    BY <2>1, SyncAssumption
  <2>. QED
    BY <2>1, <2>2, <2>3
<1>2. ASSUME NEW s \in Sessions, Handle(s) PROVE SubmittedOnce'
  <2>1. ledger' = ledger
    BY <1>2 DEF Handle, Load, CheckEligible, Push, Timeout, Persist, books
  <2>2. \A t \in Submitters : t \in Sessions /\ (pc[t] # "idle" => pc'[t] # "idle")
    BY <1>2 DEF Handle, Load, CheckEligible, Push, Timeout, Persist, Finish, Sessions, session
  <2>. QED
    BY <2>1, <2>2
<1>3. ASSUME NEW s \in Sessions, Serve(s) PROVE SubmittedOnce'
  BY <1>3 DEF Serve, books, Sessions
<1>4. ASSUME NEW a \in Adjs, Reverse(a) PROVE SubmittedOnce'
  <2>1. ledger' = ledger \cup {a} /\ a \in Reversals /\ OriginalOf[a] \in ledger /\ pc' = pc
    BY <1>4 DEF Reverse, Record
  <2>2. \A t \in Submitters : Target[t] # a
    BY <2>1, SyncAssumption
  <2>. QED
    BY <2>1, <2>2
<1>5. ASSUME NEW a \in Adjs, Void(a) PROVE SubmittedOnce'
  BY <1>5 DEF Void
<1>6. CASE Link
  BY <1>6 DEF Link
<1>7. CASE Restart
  BY <1>7 DEF Restart, Sessions
<1>8. CASE UNCHANGED vars
  BY <1>8 DEF vars
<1>. QED
  BY <1>1, <1>2, <1>3, <1>4, <1>5, <1>6, <1>7, <1>8 DEF Next

\* Rules 2 to 4 of the gate.
Refused(a) ==
    \/ KnownVoid(a)
    \/ Reversed(a)
    \/ a \in Reversals /\ row[OriginalOf[a]].status # "SYNCED"

\* What no request is beyond the gate about, and the gate refuses, stays as it is.
LEMMA RestKept ==
    ASSUME TypeOK, SubmittedOnce, NEW a \in Adjs, AtRest(a), Refused(a), [Next]_vars
    PROVE  AtRest(a)' /\ row'[a] = row[a] /\ (a \in applied' => a \in applied)
<1>. USE DEF AtRest, TypeOK
<1>0. \A s \in Submitters : Target[s] = a => pc[s] # "idle"
  BY DEF SubmittedOnce
<1>1. ASSUME NEW s \in Sessions, Submit(s)
      PROVE  AtRest(a)' /\ row'[a] = row[a] /\ (a \in applied' => a \in applied)
  <2>1. Target[s] # a
    BY <1>0, <1>1 DEF Submit
  <2>. QED
    BY <1>1, <2>1 DEF Submit, Record, upstream
<1>2. ASSUME NEW s \in Sessions, Load(s)
      PROVE  AtRest(a)' /\ row'[a] = row[a] /\ (a \in applied' => a \in applied)
  <2>1. Target[s] = a => pc'[s] = "loaded" /\ s \notin Submitters
    BY <1>2, SyncAssumption DEF Load
  <2>. QED
    BY <1>2, <2>1 DEF Load, books, upstream
<1>3. ASSUME NEW s \in Sessions, CheckEligible(s)
      PROVE  AtRest(a)' /\ row'[a] = row[a] /\ (a \in applied' => a \in applied)
  <2>1. Target[s] = a => Blocked(s)
    BY <1>3 DEF Refused, KnownVoid, Blocked, CheckEligible
  <2>2. Target[s] = a => pc'[s] = "done"
    BY <1>3, <2>1 DEF CheckEligible, Finish
  <2>3. \A t \in Sessions \ {s} : pc'[t] = pc[t]
    BY <1>3 DEF CheckEligible, Finish, session
  <2>. QED
    BY <1>3, <2>2, <2>3 DEF CheckEligible, books, upstream
<1>4. ASSUME NEW s \in Sessions, Push(s) \/ Timeout(s) \/ Persist(s)
      PROVE  AtRest(a)' /\ row'[a] = row[a] /\ (a \in applied' => a \in applied)
  <2>1. Target[s] # a
    BY <1>4 DEF Push, Timeout, Persist
  <2>2. \A t \in Sessions \ {s} : pc'[t] = pc[t] /\ (t \in wire' => t \in wire)
    BY <1>4 DEF Push, Timeout, Persist, Finish, session, upstream
  <2>3. ledger' = ledger /\ applied' = applied
    BY <1>4 DEF Push, Timeout, Persist, books, upstream
  <2>4. row'[a] = row[a]
    BY <1>4, <2>1, TargetType DEF Push, Timeout, Persist
  <2>. QED
    BY <2>1, <2>2, <2>3, <2>4
<1>5. ASSUME NEW s \in Sessions, Serve(s)
      PROVE  AtRest(a)' /\ row'[a] = row[a] /\ (a \in applied' => a \in applied)
  <2>1. Target[s] # a
    BY <1>5 DEF Serve
  <2>2. \A t \in Sessions \ {s} : pc'[t] = pc[t] /\ (t \in wire' => t \in wire)
    BY <1>5 DEF Serve
  <2>3. ledger' = ledger /\ row' = row /\ applied' \subseteq applied \cup {Target[s]}
    BY <1>5 DEF Serve, books
  <2>. QED
    BY <2>1, <2>2, <2>3
<1>6. ASSUME NEW b \in Adjs, Reverse(b)
      PROVE  AtRest(a)' /\ row'[a] = row[a] /\ (a \in applied' => a \in applied)
  <2>1. b # a
    BY <1>6 DEF Reverse
  <2>. QED
    BY <1>6, <2>1 DEF Reverse, Record, upstream
<1>7. ASSUME NEW b \in Adjs, Void(b)
      PROVE  AtRest(a)' /\ row'[a] = row[a] /\ (a \in applied' => a \in applied)
  BY <1>7 DEF Void, upstream
<1>8. CASE Link
  BY <1>8 DEF Link, upstream
<1>9. CASE Restart
  BY <1>9 DEF Restart, upstream
<1>10. CASE UNCHANGED vars
  BY <1>10 DEF vars
<1>. QED
  BY <1>1, <1>2, <1>3, <1>4, <1>5, <1>6, <1>7, <1>8, <1>9, <1>10 DEF Next, Handle

LEMMA BooksGrow == [Next]_vars => ledger \subseteq ledger' /\ voided \subseteq voided'
  BY DEF Next, vars, Submit, Record, Handle, Load, CheckEligible, Push, Timeout, Persist,
         Serve, Reverse, Void, Link, Restart, books

\* Whoever loads a voided row finds it voided.
LEMMA VoidKept ==
    ASSUME TypeOK, NEW a \in Adjs, KnownVoid(a), [Next]_vars
    PROVE  KnownVoid(a)'
<1>1. a \in voided'
  BY BooksGrow DEF KnownVoid
<1>2. SUFFICES ASSUME NEW t \in Sessions, Target[t] = a, pc'[t] = "loaded" PROVE voidSeen'[t]
  BY <1>1 DEF KnownVoid
<1>3. CASE Load(t)
  BY <1>2, <1>3 DEF Load, KnownVoid, TypeOK
<1>4. CASE ~Load(t)
  <2>1. pc[t] = "loaded" /\ voidSeen'[t] = voidSeen[t]
    <3>. USE DEF TypeOK
    <3>1. ASSUME NEW s \in Sessions, Submit(s) PROVE pc[t] = "loaded" /\ voidSeen'[t] = voidSeen[t]
      BY <1>2, <3>1 DEF Submit
    <3>2. ASSUME NEW s \in Sessions, s # t, Load(s)
          PROVE  pc[t] = "loaded" /\ voidSeen'[t] = voidSeen[t]
      BY <1>2, <3>2 DEF Load
    <3>3. ASSUME NEW s \in Sessions, CheckEligible(s) \/ Push(s)
          PROVE  pc[t] = "loaded" /\ voidSeen'[t] = voidSeen[t]
      BY <1>2, <3>3 DEF CheckEligible, Push, Finish, session
    <3>4. ASSUME NEW s \in Sessions, Timeout(s) \/ Persist(s) \/ Serve(s)
          PROVE  pc[t] = "loaded" /\ voidSeen'[t] = voidSeen[t]
      BY <1>2, <3>4 DEF Timeout, Persist, Serve, Finish
    <3>5. ASSUME NEW b \in Adjs, Reverse(b) \/ Void(b)
          PROVE  pc[t] = "loaded" /\ voidSeen'[t] = voidSeen[t]
      BY <1>2, <3>5 DEF Reverse, Void
    <3>6. CASE Link \/ UNCHANGED vars
      BY <1>2, <3>6 DEF Link, vars
    <3>7. CASE Restart
      BY <1>2, <3>7 DEF Restart
    <3>. QED
      BY <1>4, <3>1, <3>2, <3>3, <3>4, <3>5, <3>6, <3>7 DEF Next, Handle
  <2>. QED
    BY <1>2, <2>1 DEF KnownVoid
<1>. QED
  BY <1>3, <1>4

LEMMA DeadKept ==
    ASSUME TypeOK, SubmittedOnce, NEW a \in Adjs, Dead(a), [Next]_vars
    PROVE  Dead(a)'
<1>1. AtRest(a)' /\ row'[a] = row[a]
  BY RestKept DEF Dead, Refused
<1>2. Reversed(a)'
  BY BooksGrow DEF Dead, Reversed
<1>. QED
  BY <1>1, <1>2 DEF Dead

LEMMA BarredKept ==
    ASSUME TypeOK, SubmittedOnce, NEW a \in Adjs, Barred(a), [Next]_vars
    PROVE  Barred(a)' /\ (a \in applied' => a \in applied)
<1>1. AtRest(a) /\ Refused(a)
  BY DEF Barred, Refused, Dead
<1>2. AtRest(a)' /\ (a \in applied' => a \in applied)
  BY <1>1, RestKept
<1>3. KnownVoid(a) => KnownVoid(a)'
  BY VoidKept
<1>4. Reversed(a) => Reversed(a)'
  BY BooksGrow DEF Reversed
<1>5. a \in Reversals /\ Dead(OriginalOf[a]) => Dead(OriginalOf[a])'
  <2>1. a \in Reversals => OriginalOf[a] \in Adjs
    BY SyncAssumption
  <2>. QED
    BY <2>1, DeadKept
<1>. QED
  BY <1>2, <1>3, <1>4, <1>5 DEF Barred

-----------------------------------------------------------------------------
(* The page: no action is final *)

LEMMA DashboardSteps ==
    [DashboardNext]_allVars => [Next]_vars
  BY DEF DashboardNext, allVars, GrowStale, RecordSnapshot, ListExceptions,
         JudgeExceptions, Summarise, Abandon, UnchangedButPage

LEMMA QuietIsAtRest ==
    ASSUME TypeOK, SubmittedOnce, NEW a \in ledger, Quiet(a)
    PROVE  /\ AtRest(a)
           /\ a \in Reversals => /\ OriginalOf[a] \in ledger /\ AtRest(OriginalOf[a])
                                 /\ Reversed(OriginalOf[a])
<1>1. ASSUME NEW b \in ledger, b \in Family(a) PROVE AtRest(b)
  <2>1. \A s \in Sessions : Target[s] = b => pc[s] \in {"idle", "done"} /\ s \notin wire
    BY <1>1 DEF Quiet
  <2>2. \A s \in Submitters : Target[s] = b => pc[s] # "idle"
    BY DEF SubmittedOnce
  <2>. QED
    BY <2>1, <2>2 DEF AtRest
<1>2. a \in Family(a) /\ (a \in Reversals => OriginalOf[a] \in Family(a))
  BY DEF Family
<1>3. a \in Reversals => OriginalOf[a] \in ledger /\ Reversed(OriginalOf[a])
  BY DEF SubmittedOnce, Reversed
<1>. QED
  BY <1>1, <1>2, <1>3

\* The page is a record of its type.
PageTypes ==
    page \in [pc : {"idle", "listed", "judged"},
              listed : {page.listed}, voids : SUBSET Adjs, quiet : SUBSET Adjs,
              ledger : SUBSET Adjs, blocks : {page.blocks}]

LEMMA ListEffect ==
    ASSUME PageTypes, TypeOK, ListExceptions
    PROVE  /\ PageTypes' /\ page'.pc = "listed" /\ page'.listed = [a \in ExceptionRows |-> row[a].status]
           /\ page'.ledger = ledger /\ page'.quiet = {a \in ledger : Quiet(a)}
           /\ page'.voids = voided \cap ExceptionRows /\ page'.blocks = page.blocks
<1>. PICK r : r = page
  OBVIOUS
<1>. PICK ls : ls = [a \in ExceptionRows |-> row[a].status]
  OBVIOUS
<1>. PICK vs : vs = voided \cap ExceptionRows
  OBVIOUS
<1>. PICK qs : qs = {a \in ledger : Quiet(a)}
  OBVIOUS
<1>. PICK l : l = ledger
  OBVIOUS
<1>1. /\ r \in [pc : {"idle", "listed", "judged"},
                listed : {r.listed}, voids : SUBSET Adjs, quiet : SUBSET Adjs,
                ledger : SUBSET Adjs, blocks : {r.blocks}]
      /\ vs \subseteq Adjs /\ qs \subseteq Adjs /\ l \subseteq Adjs
  BY DEF PageTypes, TypeOK, ExceptionRows
<1>. DEFINE q == [r EXCEPT !.pc = "listed", !.listed = ls, !.voids = vs, !.ledger = l,
                        !.quiet = qs]
<1>2. /\ q \in [pc : {"idle", "listed", "judged"},
                listed : {q.listed}, voids : SUBSET Adjs, quiet : SUBSET Adjs,
                ledger : SUBSET Adjs, blocks : {q.blocks}]
      /\ q.pc = "listed" /\ q.listed = ls /\ q.voids = vs /\ q.ledger = l /\ q.quiet = qs
      /\ q.blocks = r.blocks
  BY <1>1
<1>3. page' = q
  BY DEF ListExceptions
<1>. HIDE DEF q
<1>. QED
  BY <1>2, <1>3 DEF PageTypes

LEMMA JudgeEffect ==
    ASSUME PageTypes, JudgeExceptions
    PROVE  /\ PageTypes' /\ page.pc = "listed" /\ page'.pc = "judged" /\ page'.listed = page.listed
           /\ page'.voids = {} /\ page'.ledger = page.ledger /\ page'.quiet = {}
           /\ page'.blocks = [a \in DOMAIN page.listed |-> Eligibility(a)]
<1>. PICK r : r = page
  OBVIOUS
<1>. PICK bs : bs = [a \in DOMAIN page.listed |-> Eligibility(a)]
  OBVIOUS
<1>1. r \in [pc : {"idle", "listed", "judged"},
             listed : {r.listed}, voids : SUBSET Adjs, quiet : SUBSET Adjs,
                ledger : SUBSET Adjs, blocks : {r.blocks}]
  BY DEF PageTypes
<1>. DEFINE q == [r EXCEPT !.pc = "judged", !.blocks = bs, !.voids = {}, !.quiet = {}]
<1>2. /\ q \in [pc : {"idle", "listed", "judged"},
                listed : {q.listed}, voids : SUBSET Adjs, quiet : SUBSET Adjs,
                ledger : SUBSET Adjs, blocks : {q.blocks}]
      /\ q.pc = "judged" /\ q.listed = r.listed /\ q.voids = {} /\ q.ledger = r.ledger /\ q.quiet = {}
      /\ q.blocks = bs
  BY <1>1
<1>3. page' = q
  BY DEF JudgeExceptions
<1>. HIDE DEF q
<1>. QED
  BY <1>2, <1>3 DEF PageTypes, JudgeExceptions

LEMMA PageUnchanged ==
    ASSUME PageTypes, UNCHANGED page
    PROVE  PageTypes'
  BY DEF PageTypes

LEMMA NoPageTyped ==
    ASSUME page' = NoPage
    PROVE  /\ PageTypes' /\ page'.pc = "idle" /\ page'.voids = {} /\ page'.quiet = {} /\ page'.ledger = {}
           /\ DOMAIN page'.listed = {} /\ DOMAIN page'.blocks = {}
  BY DEF NoPage, PageTypes

\* What the page calls "no action", and what is quiet, no retry gets to Zoho.
LEMMA ClosedIsBarred ==
    ASSUME TypeOK, SubmittedOnce, PageSound, page.voids \subseteq voided, page.pc = "listed",
           NEW a \in DOMAIN page.listed, a \in page.quiet, Quiet(a),
           RecommendedAction(a, Eligibility(a)) = "no action"
    PROVE  Barred(a)
<1>1. a \in ledger /\ page.listed[a] # "SYNCED"
  BY DEF PageSound
<1>2. Eligibility(a) # "none"
  BY DEF RecommendedAction
<1>3. a \in voided \/ Reversed(a) \/ (a \in Reversals /\ OriginalStatus(a) # "SYNCED")
  BY <1>1, <1>2 DEF Eligibility
<1>4. /\ AtRest(a)
      /\ a \in Reversals => /\ OriginalOf[a] \in ledger /\ AtRest(OriginalOf[a])
                            /\ Reversed(OriginalOf[a])
  BY <1>1, QuietIsAtRest
<1>5. CASE a \in voided \/ Reversed(a)
  <2>1. a \in voided => KnownVoid(a)
    BY DEF Quiet, Family, KnownVoid
  <2>. QED
    BY <1>4, <1>5, <2>1 DEF Barred
<1>6. CASE a \in Reversals /\ OriginalStatus(a) # "SYNCED"
  <2>1. CASE OriginalOf[a] \in DOMAIN page.listed
    BY <1>4, <1>6, <2>1 DEF Barred, PageSound
  <2>2. CASE OriginalOf[a] \notin DOMAIN page.listed
    BY <1>4, <1>6, <2>2 DEF Barred, Dead, OriginalStatus
  <2>. QED
    BY <2>1, <2>2
<1>. QED
  BY <1>3, <1>5, <1>6

LEMMA PageSoundStep ==
    ASSUME TypeOK, PageTypes, SubmittedOnce, PageSound, DOMAIN snapshot \subseteq Items,
           [DashboardNext]_allVars
    PROVE  PageSound'
<1>1. CASE ListExceptions
  <2>1. /\ UNCHANGED vars /\ page'.listed = [a \in ExceptionRows |-> row[a].status]
        /\ page'.quiet = {a \in ledger : Quiet(a)}
    BY <1>1, ListEffect DEF ListExceptions, UnchangedButPage
  <2>2. \A a \in ExceptionRows : a \in ledger /\ row[a].status # "SYNCED"
    BY DEF ExceptionRows
  <2>3. ASSUME NEW a \in ledger, Quiet(a), a \in Reversals, OriginalOf[a] \in ExceptionRows
        PROVE  Dead(OriginalOf[a])'
    <3>1. Dead(OriginalOf[a])
      BY <2>2, <2>3, QuietIsAtRest DEF Dead
    <3>2. OriginalOf[a] \in Adjs
      BY <2>3, SyncAssumption
    <3>. QED
      BY <2>1, <3>1, <3>2, DeadKept
  <2>. QED
    BY <2>1, <2>2, <2>3 DEF PageSound, vars
<1>2. CASE JudgeExceptions
  BY <1>2, JudgeEffect DEF PageSound
<1>3. CASE page' = NoPage
  BY <1>3, NoPageTyped DEF PageSound
<1>4. CASE UNCHANGED page
  <2>1. SUFFICES ASSUME page.pc = "listed", NEW a \in DOMAIN page.listed
                 PROVE  /\ a \in ledger' /\ page.listed[a] # "SYNCED"
                        /\ a \in page.quiet \cap Reversals /\ OriginalOf[a] \in DOMAIN page.listed =>
                              Dead(OriginalOf[a])'
    BY <1>4 DEF PageSound
  <2>2. [Next]_vars
    BY DashboardSteps
  <2>3. a \in Reversals => OriginalOf[a] \in Adjs
    BY SyncAssumption
  <2>. QED
    BY <2>1, <2>2, <2>3, BooksGrow, DeadKept DEF PageSound
<1>. QED
  BY <1>1, <1>2, <1>3, <1>4
     DEF DashboardNext, dashboard, allVars, GrowStale, RecordSnapshot, Summarise, Abandon

LEMMA AdvisedStep ==
    ASSUME TypeOK, PageTypes, page.voids \subseteq voided, SubmittedOnce, PageSound,
           AdvisedSound, [DashboardNext]_allVars
    PROVE  AdvisedSound'
<1>1. [Next]_vars
  BY DashboardSteps
<1>2. ASSUME NEW a \in Adjs, Barred(a), a \notin applied
      PROVE  a \notin applied' /\ Barred(a)'
  BY <1>1, <1>2, BarredKept
<1>3. \A a \in advised : a \in Adjs
  BY DEF AdvisedSound, Barred, AtRest, TypeOK
<1>4. CASE UNCHANGED advised
  BY <1>2, <1>3, <1>4 DEF AdvisedSound
<1>5. CASE JudgeExceptions
  <2>1. ASSUME NEW a \in advised', a \notin advised
        PROVE  a \in Adjs /\ Barred(a) /\ a \notin applied
    <3>1. /\ a \in DOMAIN page.listed /\ a \in page.quiet /\ Quiet(a) /\ a \notin applied
          /\ RecommendedAction(a, Eligibility(a)) = "no action"
          /\ page.pc = "listed"
      BY <1>5, <2>1 DEF JudgeExceptions
    <3>2. Barred(a)
      BY <3>1, ClosedIsBarred
    <3>. QED
      BY <3>1, <3>2 DEF PageTypes
  <2>. QED
    BY <1>2, <1>3, <2>1 DEF AdvisedSound
<1>. QED
  BY <1>4, <1>5 DEF DashboardNext, dashboard, allVars, GrowStale, RecordSnapshot,
                    ListExceptions, Summarise, Abandon

-----------------------------------------------------------------------------
(* Types of the dashboard *)

\* What Total counts.
Pieces(m) == UNION {{k} \X (1 .. m[k]) : k \in DOMAIN m}

LEMMA PieceOf ==
    ASSUME NEW D, NEW m \in [D -> Int], NEW x
    PROVE  x \in Pieces(m) <=> \E k \in D, n \in Int : n \in 1 .. m[k] /\ x = <<k, n>>
BY DEF Pieces

LEMMA PiecesFinite ==
    ASSUME NEW D, IsFiniteSet(D), NEW m \in [D -> Int]
    PROVE  IsFiniteSet(Pieces(m))
<1>. DEFINE P == {{k} \X (1 .. m[k]) : k \in D}
            f == [k \in D |-> {k} \X (1 .. m[k])]
<1>1. f \in Surjection(D, P)
  BY DEF Surjection
<1>2. IsFiniteSet(P)
  BY <1>1, FS_Surjection
<1>3. ASSUME NEW k \in D PROVE IsFiniteSet({k} \X (1 .. m[k]))
  <2>1. IsFiniteSet({k}) /\ IsFiniteSet(1 .. m[k])
    <3>1. m[k] \in Int /\ 1 \in Int
      OBVIOUS
    <3>. QED
      BY <3>1, FS_Singleton, FS_Interval
  <2>. QED
    BY <2>1, FS_Product, Zenon
<1>4. IsFiniteSet(UNION P)
  BY <1>2, <1>3, FS_UNION
<1>5. DOMAIN m = D
  OBVIOUS
<1>. QED
  BY <1>4, <1>5 DEF Pieces

LEMMA TotalType ==
    ASSUME NEW D, IsFiniteSet(D), NEW m \in [D -> Int]
    PROVE  Total(m) \in Nat
BY PiecesFinite, FS_CardinalityType DEF Total, Pieces

\* m is md on D and me on E.
Joined(m, D, md, E, me) ==
    /\ D \cap E = {}
    /\ m \in [D \cup E -> Int] /\ md \in [D -> Int] /\ me \in [E -> Int]
    /\ \A k \in D : md[k] = m[k]
    /\ \A k \in E : me[k] = m[k]

\* A sum over two disjoint sets is the sum of the sums.
LEMMA TotalSplits ==
    ASSUME NEW D, IsFiniteSet(D), NEW E, IsFiniteSet(E), NEW m, NEW md, NEW me,
           Joined(m, D, md, E, me)
    PROVE  Total(m) = Total(md) + Total(me)
<1>. USE DEF Joined
<1>1. IsFiniteSet(Pieces(md)) /\ IsFiniteSet(Pieces(me))
  BY PiecesFinite
<1>2. Pieces(m) = Pieces(md) \cup Pieces(me)
  <2>1. ASSUME NEW x, x \in Pieces(m) PROVE x \in Pieces(md) \cup Pieces(me)
    <3>1. PICK k \in D \cup E, n \in Int : n \in 1 .. m[k] /\ x = <<k, n>>
      BY <2>1, PieceOf
    <3>2. CASE k \in D
      BY <3>1, <3>2, PieceOf
    <3>3. CASE k \in E
      BY <3>1, <3>3, PieceOf
    <3>. QED
      BY <3>2, <3>3
  <2>2. ASSUME NEW x, x \in Pieces(md) PROVE x \in Pieces(m)
    <3>1. PICK k \in D, n \in Int : n \in 1 .. md[k] /\ x = <<k, n>>
      BY <2>2, PieceOf
    <3>2. n \in 1 .. m[k] /\ k \in D \cup E
      BY <3>1
    <3>. QED
      BY <3>1, <3>2, PieceOf
  <2>3. ASSUME NEW x, x \in Pieces(me) PROVE x \in Pieces(m)
    <3>1. PICK k \in E, n \in Int : n \in 1 .. me[k] /\ x = <<k, n>>
      BY <2>3, PieceOf
    <3>2. n \in 1 .. m[k] /\ k \in D \cup E
      BY <3>1
    <3>. QED
      BY <3>1, <3>2, PieceOf
  <2>. QED
    BY <2>1, <2>2, <2>3
<1>3. Pieces(md) \cap Pieces(me) = {}
  <2>. SUFFICES ASSUME NEW x, x \in Pieces(md), x \in Pieces(me) PROVE FALSE
    OBVIOUS
  <2>1. \E k \in D, n \in Int : n \in 1 .. md[k] /\ x = <<k, n>>
    BY PieceOf
  <2>2. \E k \in E, n \in Int : n \in 1 .. me[k] /\ x = <<k, n>>
    BY PieceOf
  <2>. QED
    BY <2>1, <2>2
<1>4. /\ Cardinality(Pieces(md)) \in Nat /\ Cardinality(Pieces(me)) \in Nat
      /\ Cardinality(Pieces(md) \cap Pieces(me)) = 0
  BY <1>1, <1>3, FS_CardinalityType, FS_EmptySet
<1>5. Cardinality(Pieces(m)) = Cardinality(Pieces(md)) + Cardinality(Pieces(me))
  <2>1. Cardinality(Pieces(md) \cup Pieces(me)) =
          Cardinality(Pieces(md)) + Cardinality(Pieces(me)) - Cardinality(Pieces(md) \cap Pieces(me))
    BY <1>1, FS_Union, Zenon
  <2>. QED
    BY <1>2, <1>4, <2>1
<1>. QED
  BY <1>5 DEF Total, Pieces

\* A sum stays the same when its terms are handed round.
LEMMA TotalPaired ==
    ASSUME NEW D, IsFiniteSet(D), NEW m \in [D -> Int], NEW n \in [D -> Int], NEW P \in [D -> D],
           \A k \in D : P[P[k]] = k /\ n[P[k]] = m[k]
    PROVE  Total(m) = Total(n)
<1>. DEFINE f == [x \in Pieces(m) |-> <<P[x[1]], x[2]>>]
<1>1. ASSUME NEW x \in Pieces(m) PROVE f[x] \in Pieces(n) /\ x = <<P[f[x][1]], f[x][2]>>
  <2>1. PICK k \in D, j \in Int : j \in 1 .. m[k] /\ x = <<k, j>>
    BY PieceOf
  <2>2. f[x] = <<P[k], j>>
    BY <2>1
  <2>. HIDE DEF f
  <2>3. P[k] \in D /\ j \in 1 .. n[P[k]] /\ P[P[k]] = k
    BY <2>1
  <2>4. f[x] \in Pieces(n)
    BY <2>2, <2>3, PieceOf
  <2>. QED
    BY <2>1, <2>2, <2>3, <2>4
<1>2. ASSUME NEW y \in Pieces(n) PROVE \E x \in Pieces(m) : f[x] = y
  <2>1. PICK k \in D, j \in Int : j \in 1 .. n[k] /\ y = <<k, j>>
    BY PieceOf
  <2>2. P[k] \in D /\ m[P[k]] = n[P[P[k]]] /\ P[P[k]] = k
    OBVIOUS
  <2>3. j \in 1 .. m[P[k]]
    BY <2>1, <2>2
  <2>4. <<P[k], j>> \in Pieces(m)
    BY <2>2, <2>3, PieceOf
  <2>5. f[<<P[k], j>>] = <<P[P[k]], j>>
    BY <2>4
  <2>. QED
    BY <2>1, <2>2, <2>4, <2>5
<1>3. f \in [Pieces(m) -> Pieces(n)]
  BY <1>1
<1>. HIDE DEF f
<1>4. \A x, y \in Pieces(m) : f[x] = f[y] => x = y
  BY <1>1
<1>5. f \in Bijection(Pieces(m), Pieces(n))
  <2>. PICK S : S = Pieces(m)
    OBVIOUS
  <2>. PICK T : T = Pieces(n)
    OBVIOUS
  <2>. QED
    BY <1>2, <1>3, <1>4 DEF Bijection, Injection, Surjection, IsInjective
<1>6. ExistsBijection(Pieces(m), Pieces(n))
  BY <1>5 DEF ExistsBijection
<1>7. IsFiniteSet(Pieces(m))
  BY PiecesFinite
<1>. QED
  BY <1>6, <1>7, FS_Bijection DEF Total, Pieces

LEMMA MovedType ==
    ASSUME NEW S \in SUBSET Adjs, IsFiniteSet(S), NEW i
    PROVE  Moved(S, i) \in Int
<1>. DEFINE about == {a \in S : ItemOf[a] = i}
<1>1. IsFiniteSet(about)
  BY FS_Subset
<1>2. \A a \in about : Delta[a] \in Int
  BY DashboardAssumption
<1>. HIDE DEF about
<1>3. [a \in about |-> Delta[a]] \in [about -> Int] /\ [a \in about |-> -Delta[a]] \in [about -> Int]
  BY <1>2
<1>4. Total([a \in about |-> Delta[a]]) \in Nat /\ Total([a \in about |-> -Delta[a]]) \in Nat
  BY <1>1, <1>3, TotalType
<1>. QED
  BY <1>4 DEF Moved, about

LEMMA FiniteStep == LedgerFinite /\ [Next]_vars => LedgerFinite'
<1>. SUFFICES ASSUME LedgerFinite, [Next]_vars PROVE LedgerFinite'
  OBVIOUS
<1>1. \E x : ledger' \subseteq ledger \cup {x}
  BY DEF Next, vars, Submit, Record, Handle, Load, CheckEligible, Push, Timeout, Persist,
         Serve, Reverse, Void, Link, Restart, books
<1>2. PICK x : ledger' \subseteq ledger \cup {x}
  BY <1>1
<1>3. IsFiniteSet(ledger \cup {x})
  BY FS_AddElement DEF LedgerFinite
<1>. QED
  BY <1>2, <1>3, FS_Subset DEF LedgerFinite

SnapshotTypes ==
    /\ DOMAIN snapshot \subseteq Items /\ snapshot \in [DOMAIN snapshot -> Snapshots]
    /\ \A i \in DOMAIN snapshot : snapshot[i].had \subseteq applied

PageParts ==
    /\ DOMAIN page.blocks \subseteq DOMAIN page.listed
    /\ DOMAIN page.listed \subseteq page.ledger
    /\ \A a \in DOMAIN page.listed : page.listed[a] \in Statuses
    /\ \A a \in DOMAIN page.blocks : page.blocks[a] \in Blocks
    /\ page.voids \subseteq voided /\ page.quiet \subseteq page.ledger
    /\ page.ledger \subseteq ledger

LEMMA DashboardParts ==
    DashboardTypeOK <=> TypeOK /\ SnapshotTypes /\ PageTypes /\ PageParts /\ advised \subseteq ledger
  BY DEF DashboardTypeOK, SnapshotTypes, PageTypes, PageParts

LEMMA SnapshotStep ==
    ASSUME TypeOK, LedgerFinite, SnapshotTypes, [DashboardNext]_allVars
    PROVE  SnapshotTypes'
<1>1. applied \subseteq applied'
  BY DashboardSteps, AppliedGrows DEF vars
<1>2. CASE UNCHANGED snapshot
  BY <1>1, <1>2 DEF SnapshotTypes, Snapshots
<1>3. ASSUME NEW i \in Items, GrowStale(i) PROVE SnapshotTypes'
  <2>. PICK r : r = snapshot[i]
    OBVIOUS
  <2>1. i \in DOMAIN snapshot /\ r \in Snapshots /\ r.had \subseteq applied
    BY <1>3 DEF GrowStale, SnapshotTypes
  <2>. DEFINE q == [r EXCEPT !.fresh = FALSE]
  <2>2. q \in Snapshots /\ q.had = r.had
    BY <2>1 DEF Snapshots
  <2>3. snapshot' = [snapshot EXCEPT ![i] = q] /\ applied' = applied
    BY <1>3 DEF GrowStale, vars
  <2>. HIDE DEF q
  <2>4. /\ DOMAIN snapshot' = DOMAIN snapshot /\ snapshot'[i] = q
        /\ \A j \in DOMAIN snapshot \ {i} : snapshot'[j] = snapshot[j]
    BY <2>1, <2>3 DEF SnapshotTypes
  <2>5. \A j \in DOMAIN snapshot' : snapshot'[j] \in Snapshots /\ snapshot'[j].had \subseteq applied'
    BY <2>1, <2>2, <2>3, <2>4 DEF SnapshotTypes
  <2>6. snapshot' = [j \in DOMAIN snapshot' |-> snapshot'[j]]
    BY <2>3 DEF SnapshotTypes
  <2>. QED
    BY <2>4, <2>5, <2>6 DEF SnapshotTypes, Snapshots
<1>4. ASSUME NEW S \in SUBSET Items, NEW had \in SUBSET applied, RecordSnapshot(S, had)
      PROVE  SnapshotTypes'
  <2>1. had \in SUBSET Adjs /\ IsFiniteSet(had)
    BY FS_Subset DEF TypeOK, LedgerFinite
  <2>. DEFINE new(i) == [qty |-> Moved(had, i), fresh |-> TRUE, had |-> had]
  <2>2. ASSUME NEW i \in S PROVE new(i) \in Snapshots /\ new(i).had = had
    BY <2>1, MovedType DEF Snapshots
  <2>3. /\ snapshot' = [i \in S \cup DOMAIN snapshot |-> IF i \in S THEN new(i) ELSE snapshot[i]]
        /\ applied' = applied
    BY <1>4 DEF RecordSnapshot, vars
  <2>. HIDE DEF new
  <2>4. /\ DOMAIN snapshot' = S \cup DOMAIN snapshot
        /\ \A i \in DOMAIN snapshot' : snapshot'[i] = IF i \in S THEN new(i) ELSE snapshot[i]
        /\ snapshot' = [i \in DOMAIN snapshot' |-> snapshot'[i]]
    BY <2>3
  <2>5. \A i \in DOMAIN snapshot' : snapshot'[i] \in Snapshots /\ snapshot'[i].had \subseteq applied'
    BY <2>2, <2>3, <2>4 DEF SnapshotTypes
  <2>. QED
    BY <2>4, <2>5 DEF SnapshotTypes, Snapshots
<1>. QED
  BY <1>2, <1>3, <1>4
     DEF DashboardNext, dashboard, allVars, ListExceptions, JudgeExceptions, Summarise,
         Abandon, UnchangedButPage

LEMMA PageStep ==
    ASSUME TypeOK, SnapshotTypes, PageTypes, PageParts, JudgedLast, [DashboardNext]_allVars
    PROVE  PageTypes' /\ PageParts' /\ JudgedLast'
<1>1. ledger \subseteq ledger' /\ voided \subseteq voided'
  BY DashboardSteps, BooksGrow
<1>2. CASE ListExceptions
  <2>0. UNCHANGED <<ledger, row, voided>>
    BY <1>2 DEF ListExceptions, UnchangedButPage, vars
  <2>1. /\ PageTypes' /\ page'.listed = [a \in ExceptionRows |-> row[a].status]
        /\ page'.ledger = ledger /\ page'.quiet = {a \in ledger : Quiet(a)}
        /\ page'.voids = voided \cap ExceptionRows /\ page'.blocks = page.blocks
    BY <1>2, ListEffect
  <2>2. /\ DOMAIN page'.listed = ExceptionRows /\ ExceptionRows \subseteq ledger
        /\ \A a \in ExceptionRows : page'.listed[a] = row[a].status
    BY <2>1 DEF ExceptionRows
  <2>3. \A a \in ledger : row[a].status \in Statuses
    BY DEF TypeOK, Columns
  <2>4. DOMAIN page.blocks = {}
    BY <1>2 DEF ListExceptions, JudgedLast
  <2>5. PageParts'
    BY <2>0, <2>1, <2>2, <2>3, <2>4 DEF PageParts, Statuses, Blocks
  <2>. QED
    BY <2>1, <2>4, <2>5 DEF JudgedLast
<1>3. CASE JudgeExceptions
  <2>1. /\ PageTypes' /\ page'.listed = page.listed /\ page'.pc = "judged"
        /\ page'.voids = {} /\ page'.ledger = page.ledger /\ page'.quiet = {}
        /\ page'.blocks = [a \in DOMAIN page.listed |-> Eligibility(a)]
    BY <1>3, JudgeEffect
  <2>2. \A a : Eligibility(a) \in Blocks
    BY DEF Eligibility, Blocks
  <2>. QED
    BY <1>1, <2>1, <2>2 DEF PageParts, JudgedLast, Statuses, Blocks
<1>4. CASE page' = NoPage
  <2>1. /\ PageTypes' /\ page'.voids = {} /\ page'.quiet = {} /\ page'.ledger = {}
        /\ DOMAIN page'.listed = {} /\ DOMAIN page'.blocks = {}
    BY <1>4, NoPageTyped
  <2>. QED
    BY <2>1 DEF PageParts, JudgedLast
<1>5. CASE UNCHANGED page
  BY <1>1, <1>5, PageUnchanged DEF PageParts, JudgedLast, Statuses, Blocks
<1>. QED
  BY <1>2, <1>3, <1>4, <1>5
     DEF DashboardNext, dashboard, allVars, GrowStale, RecordSnapshot, Summarise, Abandon

LEMMA AdvisedInLedger ==
    TypeOK /\ AdvisedSound => advised \subseteq ledger
  BY DEF AdvisedSound, Barred, AtRest

-----------------------------------------------------------------------------
(* Theorems about the dashboard *)

\* What every state of the dashboard satisfies, whatever runs beside it.
DashboardInv ==
    /\ TypeOK /\ Begun /\ SubmittedOnce /\ LedgerFinite
    /\ SnapshotTypes /\ PageTypes /\ PageParts /\ JudgedLast /\ PageSound /\ AdvisedSound

\* Pages, snapshots and advice stay sound together (build_dashboard).
THEOREM DashboardInductive == DashboardSpec => []DashboardInv
<1>1. DashboardInit => DashboardInv
  <2>. SUFFICES ASSUME DashboardInit PROVE DashboardInv
    OBVIOUS
  <2>1. TypeOK /\ Begun
    BY TypeInit DEF DashboardInit, Init, Begun
  <2>2. SubmittedOnce /\ LedgerFinite
    BY FS_EmptySet DEF DashboardInit, Init, SubmittedOnce, LedgerFinite
  <2>3. SnapshotTypes
    BY DEF DashboardInit, SnapshotTypes
  <2>4. PageTypes /\ PageParts /\ JudgedLast /\ PageSound
    BY DEF DashboardInit, NoPage, PageTypes, PageParts, JudgedLast, PageSound
  <2>5. AdvisedSound
    BY DEF DashboardInit, AdvisedSound
  <2>. QED
    BY <2>1, <2>2, <2>3, <2>4, <2>5 DEF DashboardInv
<1>2. DashboardInv /\ [DashboardNext]_allVars => DashboardInv'
  <2>. SUFFICES ASSUME DashboardInv, [DashboardNext]_allVars PROVE DashboardInv'
    OBVIOUS
  <2>. USE DEF DashboardInv
  <2>1. [Next]_vars
    BY DashboardSteps
  <2>2. TypeOK' /\ Begun' /\ SubmittedOnce' /\ LedgerFinite'
    BY <2>1, TypeStep, BegunStep, OnceStep, FiniteStep
  <2>3. SnapshotTypes' /\ PageTypes' /\ PageParts' /\ JudgedLast'
    BY SnapshotStep, PageStep
  <2>4. PageSound'
    BY PageSoundStep DEF SnapshotTypes
  <2>5. AdvisedSound'
    BY AdvisedStep DEF PageParts
  <2>. QED
    BY <2>2, <2>3, <2>4, <2>5
<1>. QED
  BY <1>1, <1>2, PTL DEF DashboardSpec

\* Snapshots hold only what Zoho had applied when they were read, and a page
\* is about committed adjustments (build_dashboard, sync_items).
THEOREM DashboardTypeCorrect == DashboardSpec => []DashboardTypeOK
<1>1. DashboardInv => DashboardTypeOK
  BY DashboardParts, AdvisedInLedger DEF DashboardInv
<1>. QED
  BY <1>1, DashboardInductive, PTL

\* What a page has called done with, quiet and not in Zoho, never gets there:
\* retries keep being refused, and none was past the gate
\* (recommended_exception_action, rules 2 to 4 of retry_eligibility).
THEOREM NoActionIsFinal == DashboardSpec => []AdvisedStayOut
<1>1. DashboardInv => AdvisedStayOut
  BY DEF DashboardInv, AdvisedSound, AdvisedStayOut
<1>. QED
  BY <1>1, DashboardInductive, PTL

\* A late failure writes the status its request had loaded, and so leaves a row
\* alone that another has made SYNCED since (_persist_outcome).
THEOREM FailedRetriesKeepSynced == Spec => FailedRetryKeepsSynced
<1>1. ASSUME TypeOK, NEW s \in Sessions, reply[s] \in {"timeout", "refused"},
             loaded[s].status = "FAILED", row[Target[s]].status = "SYNCED", Persist(s)
      PROVE  row'[Target[s]].status = "SYNCED"
  <2>. PICK a : a = Target[s]
    OBVIOUS
  <2>. PICK old : old = loaded[s]
    OBVIOUS
  <2>. PICK o : o = reply[s]
    OBVIOUS
  <2>1. /\ a \in Adjs /\ old \in Columns /\ o \in Outcomes /\ row[a] \in Columns
        /\ row' = [row EXCEPT ![a] = Merge(@, old, After(old, o))]
    BY <1>1, TargetType DEF TypeOK, Persist, Outcomes
  <2>2. After(old, o).status = "FAILED"
    BY <1>1 DEF After, ToStatus
  <2>3. After(old, o) \in Columns
    BY <2>1, AfterType
  <2>4. Merge(row[a], old, After(old, o)).status = row[a].status
    BY <1>1, <2>1, <2>2, <2>3 DEF Merge, Columns
  <2>. QED
    BY <1>1, <2>1, <2>4 DEF TypeOK
<1>. DEFINE Keeps == \A s \in Sessions :
                        /\ reply[s] \in {"timeout", "refused"}
                        /\ loaded[s].status = "FAILED" /\ row[Target[s]].status = "SYNCED"
                        /\ Persist(s)
                        => row'[Target[s]].status = "SYNCED"
<1>2. TypeOK => Keeps
  BY <1>1
<1>. HIDE DEF Keeps
<1>3. Spec => [][Keeps]_vars
  BY <1>2, SyncTypeCorrect, PTL
<1>. QED
  BY <1>3 DEF FailedRetryKeepsSynced, Keeps

-----------------------------------------------------------------------------
(* What several adjustments move *)

SumsAdd(u, D, E) ==
    /\ Total([a \in D \cup E |-> u[a]]) = Total([a \in D |-> u[a]]) + Total([a \in E |-> u[a]])
    /\ Total([a \in D |-> u[a]]) \in Nat /\ Total([a \in E |-> u[a]]) \in Nat

LEMMA DeltasSplit ==
    ASSUME NEW u \in [Adjs -> Int], NEW D \in SUBSET Adjs, IsFiniteSet(D),
           NEW E \in SUBSET Adjs, IsFiniteSet(E), D \cap E = {}
    PROVE  SumsAdd(u, D, E)
<1>. DEFINE f == [a \in D \cup E |-> u[a]]
            fd == [a \in D |-> u[a]]
            fe == [a \in E |-> u[a]]
<1>1. f \in [D \cup E -> Int] /\ fd \in [D -> Int] /\ fe \in [E -> Int]
  OBVIOUS
<1>2. (\A a \in D : fd[a] = f[a]) /\ (\A a \in E : fe[a] = f[a])
  OBVIOUS
<1>. HIDE DEF f, fd, fe
<1>3. Total(f) = Total(fd) + Total(fe)
  <2>1. Joined(f, D, fd, E, fe)
    BY <1>1, <1>2 DEF Joined
  <2>. QED
    BY <2>1, TotalSplits
<1>4. Total(fd) \in Nat /\ Total(fe) \in Nat
  BY <1>1, TotalType
<1>. QED
  BY <1>3, <1>4 DEF f, fd, fe, SumsAdd

LEMMA MovedSplits ==
    ASSUME NEW A \in SUBSET Adjs, IsFiniteSet(A), NEW B \in SUBSET Adjs, IsFiniteSet(B),
           A \cap B = {}, NEW i
    PROVE  Moved(A \cup B, i) = Moved(A, i) + Moved(B, i)
<1>. DEFINE D == {a \in A : ItemOf[a] = i}
            E == {a \in B : ItemOf[a] = i}
            up == [a \in Adjs |-> Delta[a]]
            down == [a \in Adjs |-> -Delta[a]]
<1>1. IsFiniteSet(D) /\ IsFiniteSet(E)
  BY FS_Subset
<1>2. D \cap E = {} /\ {a \in A \cup B : ItemOf[a] = i} = D \cup E
  OBVIOUS
<1>3. D \subseteq Adjs /\ E \subseteq Adjs
  OBVIOUS
<1>4. up \in [Adjs -> Int] /\ down \in [Adjs -> Int]
  BY DashboardAssumption
<1>5. ASSUME NEW S \in SUBSET Adjs
      PROVE  /\ [a \in S |-> Delta[a]] = [a \in S |-> up[a]]
             /\ [a \in S |-> -Delta[a]] = [a \in S |-> down[a]]
  OBVIOUS
<1>6. /\ Moved(A \cup B, i) = Total([a \in D \cup E |-> up[a]]) - Total([a \in D \cup E |-> down[a]])
      /\ Moved(A, i) = Total([a \in D |-> up[a]]) - Total([a \in D |-> down[a]])
      /\ Moved(B, i) = Total([a \in E |-> up[a]]) - Total([a \in E |-> down[a]])
  BY <1>2 DEF Moved
<1>. HIDE DEF D, E, up, down
<1>7. SumsAdd(up, D, E) /\ SumsAdd(down, D, E)
  BY <1>1, <1>2, <1>3, <1>4, DeltasSplit
<1>. QED
  BY <1>6, <1>7 DEF SumsAdd

\* Adjustments that come in pairs of opposites move nothing.
LEMMA MovedCancels ==
    ASSUME NEW S \in SUBSET Adjs, IsFiniteSet(S), NEW P \in [S -> S],
           \A a \in S : P[P[a]] = a /\ ItemOf[P[a]] = ItemOf[a] /\ Delta[P[a]] = -Delta[a],
           NEW i
    PROVE  Moved(S, i) = 0
<1>. PICK D : D = {a \in S : ItemOf[a] = i}
  OBVIOUS
<1>1. IsFiniteSet(D)
  BY FS_Subset
<1>2. \A a \in D : Delta[a] \in Int /\ -Delta[a] \in Int /\ P[a] \in D
  BY DashboardAssumption
<1>. PICK up : up = [a \in D |-> Delta[a]]
  OBVIOUS
<1>. PICK down : down = [a \in D |-> -Delta[a]]
  OBVIOUS
<1>. PICK Q : Q = [a \in D |-> P[a]]
  OBVIOUS
<1>3. up \in [D -> Int] /\ down \in [D -> Int] /\ Q \in [D -> D]
  BY <1>2
<1>4. ASSUME NEW a \in D PROVE Q[Q[a]] = a /\ down[Q[a]] = up[a]
  <2>1. Delta[a] \in Int /\ Delta[P[a]] = -Delta[a] /\ Q[a] = P[a] /\ P[a] \in D /\ P[P[a]] = a
    BY <1>2
  <2>. QED
    BY <2>1
<1>5. Total(up) = Total(down) /\ Total(up) \in Nat
  BY <1>1, <1>3, <1>4, TotalPaired, TotalType
<1>6. Moved(S, i) = Total(up) - Total(down)
  BY DEF Moved
<1>. QED
  BY <1>5, <1>6

-----------------------------------------------------------------------------
(* What a page that shows a variance rests on *)

LEMMA AddUpStep ==
    ASSUME SnapshotTypes, SnapshotsAddUp, [DashboardNext]_allVars
    PROVE  SnapshotsAddUp'
<1>1. CASE UNCHANGED snapshot
  BY <1>1 DEF SnapshotsAddUp
<1>2. ASSUME NEW i \in Items, GrowStale(i) PROVE SnapshotsAddUp'
  <2>. PICK r : r = snapshot[i]
    OBVIOUS
  <2>1. i \in DOMAIN snapshot /\ r \in Snapshots /\ r.qty = Moved(r.had, i)
    BY <1>2 DEF GrowStale, SnapshotTypes, SnapshotsAddUp
  <2>. DEFINE q == [r EXCEPT !.fresh = FALSE]
  <2>2. q.qty = r.qty /\ q.had = r.had
    BY <2>1 DEF Snapshots
  <2>3. snapshot' = [snapshot EXCEPT ![i] = q]
    BY <1>2 DEF GrowStale
  <2>. HIDE DEF q
  <2>4. /\ DOMAIN snapshot' = DOMAIN snapshot /\ snapshot'[i] = q
        /\ \A j \in DOMAIN snapshot \ {i} : snapshot'[j] = snapshot[j]
    BY <2>1, <2>3 DEF SnapshotTypes
  <2>5. ASSUME NEW j \in DOMAIN snapshot' PROVE snapshot'[j].qty = Moved(snapshot'[j].had, j)
    <3>1. CASE j = i
      BY <2>1, <2>2, <2>4, <3>1
    <3>2. CASE j # i
      BY <2>4, <3>2 DEF SnapshotsAddUp
    <3>. QED
      BY <3>1, <3>2
  <2>. QED
    BY <2>5 DEF SnapshotsAddUp
<1>3. ASSUME NEW S \in SUBSET Items, NEW had \in SUBSET applied, RecordSnapshot(S, had)
      PROVE  SnapshotsAddUp'
  <2>. DEFINE new(i) == [qty |-> Moved(had, i), fresh |-> TRUE, had |-> had]
  <2>1. \A i \in S : new(i).qty = Moved(new(i).had, i)
    OBVIOUS
  <2>2. snapshot' = [i \in S \cup DOMAIN snapshot |-> IF i \in S THEN new(i) ELSE snapshot[i]]
    BY <1>3 DEF RecordSnapshot
  <2>. HIDE DEF new
  <2>3. /\ DOMAIN snapshot' = S \cup DOMAIN snapshot
        /\ \A i \in DOMAIN snapshot' : snapshot'[i] = IF i \in S THEN new(i) ELSE snapshot[i]
    BY <2>2
  <2>4. ASSUME NEW j \in DOMAIN snapshot' PROVE snapshot'[j].qty = Moved(snapshot'[j].had, j)
    <3>1. CASE j \in S
      BY <2>1, <2>3, <3>1
    <3>2. CASE j \notin S
      BY <2>3, <3>2 DEF SnapshotsAddUp
    <3>. QED
      BY <3>1, <3>2
  <2>. QED
    BY <2>4 DEF SnapshotsAddUp
<1>. QED
  BY <1>1, <1>2, <1>3
     DEF DashboardNext, dashboard, allVars, ListExceptions, JudgeExceptions, Summarise,
         Abandon, UnchangedButPage

LEMMA ListedStep ==
    ASSUME TypeOK, PageTypes, SyncedIsApplied, DOMAIN snapshot \subseteq Items, ListedSound,
           [DashboardNext]_allVars
    PROVE  ListedSound'
<1>1. applied \subseteq applied'
  BY DashboardSteps, AppliedGrows DEF vars
<1>2. CASE ListExceptions
  <2>1. /\ page'.listed = [a \in ExceptionRows |-> row[a].status] /\ page'.ledger = ledger
        /\ applied' = applied
    BY <1>2, ListEffect DEF ListExceptions, UnchangedButPage, vars
  <2>2. /\ \A a \in ExceptionRows : row[a].status # "SYNCED"
        /\ \A a \in ledger \ ExceptionRows : a \in applied
    BY DEF ExceptionRows, SyncedIsApplied, TypeOK
  <2>. QED
    BY <2>1, <2>2 DEF ListedSound
<1>3. CASE JudgeExceptions
  BY <1>1, <1>3, JudgeEffect DEF ListedSound
<1>4. CASE page' = NoPage
  BY <1>4, NoPageTyped DEF ListedSound
<1>5. CASE UNCHANGED page
  BY <1>1, <1>5 DEF ListedSound
<1>. QED
  BY <1>2, <1>3, <1>4, <1>5
     DEF DashboardNext, dashboard, allVars, GrowStale, RecordSnapshot, Summarise, Abandon

LEMMA ReasonsStep ==
    ASSUME PageTypes, page.voids \subseteq voided, DOMAIN snapshot \subseteq Items, ListedSound,
           ReasonsRemain, [DashboardNext]_allVars
    PROVE  ReasonsRemain'
<1>1. voided \subseteq voided' /\ \A a : Reversed(a) => Reversed(a)'
  BY DashboardSteps, BooksGrow DEF Reversed
<1>2. CASE JudgeExceptions
  <2>1. /\ page.pc = "listed" /\ page'.blocks = [a \in DOMAIN page.listed |-> Eligibility(a)]
        /\ page'.listed = page.listed
    BY <1>2, JudgeEffect
  <2>2. ASSUME NEW a \in DOMAIN page.listed
        PROVE  \/ Eligibility(a) = "none"
               \/ Eligibility(a) = "voided_locally" /\ a \in voided
               \/ Eligibility(a) = "reversed_locally" /\ Reversed(a)
               \/ Eligibility(a) = "reversal_of_unsynced" /\ a \in Reversals
    <3>1. page.listed[a] # "SYNCED"
      BY <2>1 DEF ListedSound
    <3>. QED
      BY <3>1 DEF Eligibility
  <2>. QED
    BY <1>1, <2>1, <2>2 DEF ReasonsRemain
<1>3. CASE ListExceptions
  <2>1. page'.pc = "listed"
    BY <1>3 DEF ListExceptions, PageTypes
  <2>. QED
    BY <2>1 DEF ReasonsRemain
<1>4. CASE page' = NoPage
  BY <1>4, NoPageTyped DEF ReasonsRemain
<1>5. CASE UNCHANGED page
  BY <1>1, <1>5 DEF ReasonsRemain
<1>. QED
  BY <1>2, <1>3, <1>4, <1>5
     DEF DashboardNext, dashboard, allVars, GrowStale, RecordSnapshot, Summarise, Abandon

\* When all that is listed is blocked for good reasons, what Zoho lacks comes in
\* pairs of an adjustment and its reversal, which move nothing.
LEMMA VarianceHasRetry ==
    ASSUME TypeOK, SubmittedOnce, LedgerFinite, NoLoneReversal, SnapshotsAddUp, ListedSound,
           ReasonsRemain, page.pc = "judged", Undisturbed, ~BeyondRetry,
           NEW i \in DOMAIN snapshot, Variance(i) # 0
    PROVE  \E a \in DOMAIN page.blocks : page.blocks[a] = "none"
<1>. SUFFICES ASSUME \A a \in DOMAIN page.blocks : page.blocks[a] # "none" PROVE FALSE
  OBVIOUS
<1>. PICK L : L = ledger
  OBVIOUS
<1>. PICK A : A = applied
  OBVIOUS
<1>. DEFINE U == L \ A
<1>1. /\ L \in SUBSET Adjs /\ A \in SUBSET L /\ U \in SUBSET L
      /\ IsFiniteSet(L) /\ IsFiniteSet(A) /\ IsFiniteSet(U)
  BY FS_Subset DEF TypeOK, LedgerFinite
<1>2. /\ DOMAIN page.blocks = DOMAIN page.listed
      /\ \A a \in U : a \in DOMAIN page.listed /\ a \notin voided
  BY DEF Undisturbed, ListedSound, ReasonsRemain, BeyondRetry
<1>3. ASSUME NEW a \in U, a \in Reversals PROVE OriginalOf[a] \in U
  <2>1. OriginalOf[a] \in L
    BY <1>3 DEF SubmittedOnce
  <2>2. ~Reversed(a)
    BY <1>3, SyncAssumption DEF Reversed
  <2>3. page.blocks[a] = "reversal_of_unsynced"
    BY <1>2, <2>2 DEF ReasonsRemain
  <2>4. OriginalOf[a] \notin A
    BY <1>2, <2>3 DEF BeyondRetry
  <2>. QED
    BY <2>1, <2>4
<1>4. ASSUME NEW a \in U, a \notin Reversals
      PROVE  \E b \in U : b \in Reversals /\ OriginalOf[b] = a
  <2>1. Reversed(a)
    BY <1>2, <1>4 DEF ReasonsRemain
  <2>2. PICK b \in L \cap Reversals : OriginalOf[b] = a
    BY <2>1 DEF Reversed
  <2>3. b \notin A
    BY <2>2 DEF NoLoneReversal
  <2>. QED
    BY <2>2, <2>3
<1>5. \A a, b \in U : a \in Reversals /\ b \in Reversals /\ OriginalOf[a] = OriginalOf[b] => a = b
  BY <1>2 DEF BeyondRetry
<1>. HIDE DEF U
<1>. DEFINE Pairs(a, b) ==
              \/ a \in Reversals /\ b = OriginalOf[a]
              \/ a \notin Reversals /\ b \in Reversals /\ OriginalOf[b] = a
            P == [a \in U |-> CHOOSE b \in U : Pairs(a, b)]
<1>6. \A a \in U : \E b \in U : Pairs(a, b)
  BY <1>3, <1>4
<1>7. \A a \in U : P[a] \in U /\ Pairs(a, P[a])
  BY <1>6
<1>8. P \in [U -> U]
  BY <1>7
<1>. HIDE DEF P
<1>9. ASSUME NEW a \in U
      PROVE  P[P[a]] = a /\ ItemOf[P[a]] = ItemOf[a] /\ Delta[P[a]] = -Delta[a]
  <2>. PICK b : b = P[a]
    OBVIOUS
  <2>. PICK c : c = P[b]
    OBVIOUS
  <2>1. b \in U /\ c \in U /\ Pairs(a, b) /\ Pairs(b, c)
    BY <1>7
  <2>2. a \in Adjs /\ b \in Adjs /\ \A r \in Reversals : OriginalOf[r] \notin Reversals
    BY <1>1, <2>1, SyncAssumption
  <2>3. c = a
    BY <1>5, <2>1, <2>2
  <2>4. ItemOf[b] = ItemOf[a]
    BY <2>1, DashboardAssumption
  <2>5. Delta[a] \in Int /\ Delta[b] \in Int
    BY <2>2, DashboardAssumption
  <2>6. Delta[b] = -Delta[a]
    BY <2>1, <2>5, DashboardAssumption
  <2>. QED
    BY <2>3, <2>4, <2>6
<1>10. Moved(U, i) = 0
  BY <1>1, <1>8, <1>9, MovedCancels
<1>11. Moved(L, i) = Moved(A, i) + Moved(U, i)
  <2>1. A \cup U = L /\ A \cap U = {}
    BY <1>1 DEF U
  <2>2. A \in SUBSET Adjs /\ U \in SUBSET Adjs
    BY <1>1
  <2>. QED
    BY <1>1, <2>1, <2>2, MovedSplits
<1>12. Moved(A, i) \in Int
  BY <1>1, MovedType
<1>13. Variance(i) = Moved(L, i) - Moved(A, i)
  BY DEF Variance, CurrentStock, SnapshotsAddUp, Undisturbed
<1>. QED
  BY <1>10, <1>11, <1>12, <1>13

\* A row listed is counted by one of the four cards.
LEMMA ListedIsCounted ==
    ASSUME LedgerFinite, PageParts, ListedSound, page.pc = "judged", NEW a \in DOMAIN page.listed
    PROVE  ExceptionTotal(Summary) > 0
<1>1. IsFiniteSet(DOMAIN page.listed)
  BY FS_Subset DEF LedgerFinite, PageParts
<1>2. ASSUME NEW st
      PROVE  Listed(st) \in Nat /\ (page.listed[a] = st => Listed(st) > 0)
  <2>. PICK S : S = {b \in DOMAIN page.listed : page.listed[b] = st}
    OBVIOUS
  <2>1. IsFiniteSet(S)
    BY <1>1, FS_Subset
  <2>2. Cardinality(S) \in Nat /\ (S # {} => Cardinality(S) # 0)
    BY <2>1, FS_CardinalityType, FS_EmptySet
  <2>3. Listed(st) = Cardinality(S) /\ (page.listed[a] = st => a \in S)
    BY DEF Listed
  <2>. QED
    BY <2>2, <2>3
<1>3. page.listed[a] \in {"FAILED", "PENDING", "NOT_CONFIGURED", "SKIPPED"}
  BY DEF PageParts, ListedSound, Statuses
<1>4. ExceptionTotal(Summary) =
        Listed("FAILED") + Listed("PENDING") + Listed("NOT_CONFIGURED") + Listed("SKIPPED")
  BY DEF ExceptionTotal, Summary
<1>. HIDE DEF Listed
<1>. QED
  BY <1>2, <1>3, <1>4

RemedyInv ==
    DashboardInv /\ SyncInv /\ SnapshotsAddUp /\ ListedSound /\ ReasonsRemain

\* So do the sums in the snapshots, the list and the reasons against retries.
THEOREM RemedyInductive == DashboardSpec => []RemedyInv
<1>1. DashboardInit => SyncInv /\ SnapshotsAddUp /\ ListedSound /\ ReasonsRemain
  BY SyncInit DEF DashboardInit, SnapshotsAddUp, ListedSound, ReasonsRemain, NoPage
<1>. DEFINE Rest == SyncInv /\ SnapshotsAddUp /\ ListedSound /\ ReasonsRemain
<1>2. DashboardInv /\ Rest /\ [DashboardNext]_allVars => Rest'
  <2>. SUFFICES ASSUME DashboardInv, Rest, [DashboardNext]_allVars PROVE Rest'
    OBVIOUS
  <2>1. /\ TypeOK /\ Begun /\ PageTypes /\ SnapshotTypes /\ DOMAIN snapshot \subseteq Items
        /\ page.voids \subseteq voided /\ SyncedIsApplied
    BY DEF DashboardInv, SnapshotTypes, PageParts, SyncInv
  <2>2. SyncInv'
    BY <2>1, SyncStep, DashboardSteps
  <2>. QED
    BY <2>1, <2>2, AddUpStep, ListedStep, ReasonsStep
<1>. HIDE DEF Rest
<1>3. DashboardSpec => []Rest
  BY <1>1, <1>2, DashboardInductive, PTL DEF DashboardSpec, Rest
<1>. QED
  BY <1>3, DashboardInductive, PTL DEF RemedyInv, Rest

\* A variance that PackTrack made comes with a row that can be retried: with
\* everything Zoho has in the snapshots, what it lacks is either offered for a
\* retry or adds up to nothing (build_dashboard, retry_eligibility).
THEOREM DriftsHaveRemedies == DashboardSpec => DriftHasRemedy
<1>. DEFINE Remedied ==
              Summarise /\ Undisturbed /\ ~BeyondRetry /\ Summary.items_with_variance > 0 =>
                 /\ ExceptionTotal(Summary) > 0
                 /\ Exceptions("retryable_only") # {}
<1>1. RemedyInv => Remedied
  <2>. SUFFICES ASSUME RemedyInv, Summarise, Undisturbed, ~BeyondRetry,
                       Summary.items_with_variance > 0
                PROVE  /\ ExceptionTotal(Summary) > 0
                       /\ Exceptions("retryable_only") # {}
    OBVIOUS
  <2>1. page.pc = "judged"
    BY DEF Summarise
  <2>2. \E i \in DOMAIN snapshot : Variance(i) # 0
    <3>1. Cardinality({i \in DOMAIN snapshot : Variance(i) # 0}) > 0
      BY DEF Summary
    <3>2. {i \in DOMAIN snapshot : Variance(i) # 0} # {}
      BY <3>1, FS_EmptySet
    <3>. QED
      BY <3>2
  <2>3. \E a \in DOMAIN page.blocks : page.blocks[a] = "none"
    BY <2>1, <2>2, VarianceHasRetry DEF RemedyInv, DashboardInv, SyncInv
  <2>4. DOMAIN page.blocks = DOMAIN page.listed
    BY <2>1 DEF RemedyInv, ReasonsRemain
  <2>5. ExceptionTotal(Summary) > 0
    BY <2>1, <2>3, <2>4, ListedIsCounted DEF RemedyInv, DashboardInv
  <2>6. Exceptions("retryable_only") # {}
    BY <2>3, <2>4 DEF Exceptions
  <2>. QED
    BY <2>5, <2>6
<1>. HIDE DEF Remedied
<1>2. DashboardSpec => [][Remedied]_allVars
  BY <1>1, RemedyInductive, PTL
<1>. QED
  BY <1>2 DEF DriftHasRemedy, Remedied
=============================================================================
