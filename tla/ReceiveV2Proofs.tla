-------------------------- MODULE ReceiveV2Proofs --------------------------
(***************************************************************************)
(* Theorems of ReceiveV2, and of PackingList, which adds the expected      *)
(* lines to it, for any number of sessions, lines, cases and texts.        *)
(***************************************************************************)
EXTENDS PackingList, FiniteSetTheorems, SequenceTheorems, TLAPS

---------------------------------------------------------------------------
(* Least and greatest elements.                                            *)

LEMMA NatMin ==
    ASSUME NEW T \in SUBSET Nat, T # {}
    PROVE  \E x \in T : \A y \in T : x <= y
<1>. DEFINE R == {p \in Nat \X Nat : p[1] < p[2]}
<1>1. IsWellFoundedOn(R, Nat)
  BY NatLessThanWellFounded DEF OpToRel
<1>2. \A x, y \in Nat : y < x => <<y, x>> \in R
  OBVIOUS
<1>3. T \subseteq Nat
  OBVIOUS
<1>. HIDE DEF R
<1>4. \E x \in T : \A y \in T : ~ (<<y, x>> \in R)
  BY <1>1, <1>3, WFMin
<1>5. PICK x \in T : \A y \in T : ~ (<<y, x>> \in R)
  BY <1>4
<1>6. \A y \in T : x \in Nat /\ y \in Nat /\ ~ (y < x)
  BY <1>2, <1>3, <1>5
<1>7. \A y \in T : x <= y
  BY <1>6
<1>. QED
  BY <1>7

LEMMA MinOfNats ==
    ASSUME NEW T \in SUBSET Nat, T # {}
    PROVE  Min(T) \in T
BY NatMin DEF Min

LEMMA MaxOfCases ==
    ASSUME NEW T \in SUBSET Cases, T # {}
    PROVE  Max(T) \in T
<1>. USE ReceiveAssumption DEF Cases
<1>. DEFINE D == {MaxCases - x : x \in T}
<1>1. D \in SUBSET Nat /\ D # {}
  <2>1. \A x \in T : x \in Int /\ x <= MaxCases /\ MaxCases - x \in Nat
    OBVIOUS
  <2>. QED
    BY <2>1
<1>2. PICK d \in D : \A y \in D : d <= y
  BY <1>1, NatMin
<1>3. PICK m \in T : d = MaxCases - m
  OBVIOUS
<1>4. ASSUME NEW x \in T PROVE m >= x
  <2>1. d <= MaxCases - x /\ x \in Int /\ m \in Int
    BY <1>2
  <2>. QED
    BY <1>3, <2>1
<1>. QED
  BY <1>4 DEF Max

---------------------------------------------------------------------------
(* Places: the lines of a set, in order of their cases and ids, take the   *)
(* places from 1 on, each line one and each place a line.                  *)

CasesOk == caseOf \in [LineIds -> Nat]

LEMMA LinesFinite ==
    ASSUME NEW S \in SUBSET LineIds
    PROVE  IsFiniteSet(S) /\ Cardinality(S) \in Nat
<1>1. IsFiniteSet(LineIds)
  BY ReceiveAssumption, FS_Interval DEF LineIds
<1>. QED
  BY <1>1, FS_Subset, FS_CardinalityType

LEMMA BeforeOrders ==
    ASSUME CasesOk
    PROVE  /\ \A l \in LineIds : Before(l, l)
           /\ \A l, m \in LineIds : Before(l, m) \/ Before(m, l)
           /\ \A l, m \in LineIds : Before(l, m) /\ Before(m, l) => l = m
           /\ \A l, m, n \in LineIds : Before(l, m) /\ Before(m, n) => Before(l, n)
BY ReceiveAssumption DEF CasesOk, Before, LineIds

LEMMA PlaceInRange ==
    ASSUME CasesOk, NEW S \in SUBSET LineIds, NEW l \in S
    PROVE  PlaceIn(l, S) \in 1 .. Cardinality(S)
<1>. DEFINE P == {m \in S : Before(m, l)}
<1>1. l \in P
  BY BeforeOrders
<1>2. IsFiniteSet(S) /\ Cardinality(S) \in Nat /\ IsFiniteSet(P) /\ Cardinality(P) \in Nat
  BY LinesFinite
<1>3. Cardinality(P) <= Cardinality(S)
  BY <1>2, FS_Subset
<1>4. Cardinality(P) # 0
  BY <1>1, <1>2, FS_EmptySet
<1>. QED
  BY <1>2, <1>3, <1>4 DEF PlaceIn

LEMMA PlaceInOrders ==
    ASSUME CasesOk, NEW S \in SUBSET LineIds, NEW l \in S, NEW m \in S,
           Before(l, m), l # m
    PROVE  PlaceIn(l, S) < PlaceIn(m, S)
<1>. DEFINE P == {k \in S : Before(k, l)}
            Q == {k \in S : Before(k, m)}
<1>1. P \subseteq Q /\ m \in Q /\ m \notin P
  BY BeforeOrders
<1>2. IsFiniteSet(Q) /\ Cardinality(Q) \in Nat /\ Cardinality(P) \in Nat
  BY LinesFinite
<1>3. Cardinality(P) <= Cardinality(Q) /\ Cardinality(P) # Cardinality(Q)
  BY <1>1, <1>2, FS_Subset
<1>. QED
  BY <1>2, <1>3 DEF PlaceIn

LEMMA PlaceInInjective ==
    ASSUME CasesOk, NEW S \in SUBSET LineIds, NEW l \in S, NEW m \in S,
           PlaceIn(l, S) = PlaceIn(m, S)
    PROVE  l = m
<1>1. PlaceIn(l, S) \in Nat /\ PlaceIn(m, S) \in Nat
  BY PlaceInRange, LinesFinite
<1>2. Before(l, m) \/ Before(m, l)
  BY BeforeOrders
<1>. QED
  BY <1>1, <1>2, PlaceInOrders

LEMMA PlaceInOnto ==
    ASSUME CasesOk, NEW S \in SUBSET LineIds, NEW n \in 1 .. Cardinality(S)
    PROVE  \E l \in S : PlaceIn(l, S) = n
<1>. DEFINE N == 1 .. Cardinality(S)
            place == [l \in S |-> PlaceIn(l, S)]
<1>1. IsFiniteSet(S) /\ Cardinality(S) \in Nat
  BY LinesFinite
<1>2. IsFiniteSet(N) /\ Cardinality(N) = Cardinality(S)
  BY <1>1, FS_Interval
<1>3. place \in [S -> N]
  BY PlaceInRange
<1>4. place \in Injection(S, N)
  BY <1>3, PlaceInInjective DEF Injection, IsInjective
<1>5. place \in Surjection(S, N)
  BY <1>1, <1>2, <1>4, FS_Injection
<1>. QED
  BY <1>5 DEF Surjection

---------------------------------------------------------------------------
(* Types                                                                   *)

LEMMA MappingFacts ==
    ASSUME NEW S, NEW T, NEW f \in Mapping(S, T)
    PROVE  DOMAIN f \subseteq S /\ \A x \in DOMAIN f : f[x] \in T
BY DEF Mapping

LEMMA MappingIntro ==
    ASSUME NEW S, NEW T, NEW D \in SUBSET S, NEW f \in [D -> T]
    PROVE  f \in Mapping(S, T)
BY DEF Mapping

LEMMA MappingGrows ==
    ASSUME NEW S, NEW T, NEW U, NEW V, S \subseteq U, T \subseteq V, NEW f \in Mapping(S, T)
    PROVE  f \in Mapping(U, V)
<1>1. PICK D \in SUBSET S : f \in [D -> T]
  BY DEF Mapping
<1>2. D \in SUBSET U /\ f \in [D -> V]
  BY <1>1
<1>. QED
  BY <1>2, MappingIntro

LEMMA EmptyMapping ==
    /\ DOMAIN Empty = {}
    /\ \A S, T : Empty \in Mapping(S, T)
<1>1. DOMAIN Empty = {}
  BY DEF Empty
<1>2. ASSUME NEW S, NEW T PROVE Empty \in Mapping(S, T)
  <2>1. Empty \in [{} -> T] /\ {} \in SUBSET S
    BY DEF Empty
  <2>. QED
    BY <2>1, MappingIntro, Zenon
<1>. QED
  BY <1>1, <1>2

\* What the sessions hold, for boxes up to b.
SessionsOk(b) ==
    /\ pc \in [Sessions -> PCs]
    /\ seen \in [Sessions -> Statuses \cup {None}]
    /\ rows \in [Sessions -> Mapping(LineIds, 1 .. b \cup {0})]
    /\ view \in [Sessions -> Mapping(1 .. b, LumaStatuses)]
    /\ outcome \in [Sessions -> Mapping(1 .. b, LumaStatuses)]

LEMMA TypeParts ==
    TypeOK <=>
        /\ status \in Statuses
        /\ cases \subseteq Cases
        /\ lines \subseteq LineIds
        /\ caseOf \in [LineIds -> Cases \cup {0}]
        /\ boxes \in Seq(Box)
        /\ link \in [LineIds -> BoxIds \cup {0}]
        /\ luma \subseteq BoxIds
        /\ SessionsOk(Len(boxes))
BY DEF TypeOK, SessionsOk, BoxIds

LEMMA TypedPlaces ==
    ASSUME TypeOK
    PROVE  /\ CasesOk
           /\ Len(boxes) \in Nat
           /\ \A k \in BoxIds : boxes[k] \in Box
           /\ \A s \in Sessions : DOMAIN rows[s] \subseteq LineIds
<1>1. CasesOk
  BY ReceiveAssumption DEF TypeOK, CasesOk, Cases
<1>2. Len(boxes) \in Nat /\ \A k \in BoxIds : boxes[k] \in Box
  BY LenProperties, ElementOfSeq DEF TypeOK, BoxIds
<1>3. \A s \in Sessions : rows[s] \in Mapping(LineIds, BoxIds \cup {0})
  BY DEF TypeOK
<1>4. \A s \in Sessions : DOMAIN rows[s] \subseteq LineIds
  BY <1>3, MappingFacts, Zenon
<1>. QED
  BY <1>1, <1>2, <1>4

\* Sessions other than s keep what they hold.
Others(s) ==
    \A t \in Sessions \ {s} :
        pc'[t] = pc[t] /\ seen'[t] = seen[t] /\ rows'[t] = rows[t]
        /\ view'[t] = view[t] /\ outcome'[t] = outcome[t]

LEMMA FinishEffect ==
    ASSUME NEW s \in Sessions, NEW b, SessionsOk(b), Finish(s)
    PROVE  /\ SessionsOk(b)'
           /\ Others(s)
           /\ rows'[s] = Empty /\ view'[s] = Empty /\ outcome'[s] = Empty
<1>1. Others(s) /\ rows'[s] = Empty /\ view'[s] = Empty /\ outcome'[s] = Empty
  BY DEF SessionsOk, Finish, Others
<1>2. SessionsOk(b)'
  BY EmptyMapping DEF Finish, SessionsOk, PCs
<1>. QED
  BY <1>1, <1>2

\* A commit of a push changes nothing of a box but its status.
LEMMA SavedEffect ==
    ASSUME TypeOK, NEW s \in Sessions
    PROVE  /\ Saved(s) \in Seq(Box) /\ Len(Saved(s)) = Len(boxes)
           /\ \A k \in BoxIds :
                /\ Saved(s)[k].line = boxes[k].line /\ Saved(s)[k].index = boxes[k].index
                /\ \/ Saved(s)[k].push = boxes[k].push
                   \/ k \in DOMAIN outcome[s] /\ Saved(s)[k].push = outcome[s][k]
<1>. DEFINE Push(k) == IF k \in DOMAIN outcome[s] /\ outcome[s][k] # view[s][k]
                       THEN outcome[s][k] ELSE boxes[k].push
<1>1. Len(boxes) \in Nat /\ \A k \in BoxIds : boxes[k] \in Box
  BY TypedPlaces
<1>2. outcome[s] \in Mapping(BoxIds, LumaStatuses)
  BY DEF TypeOK
<1>3. \A k \in DOMAIN outcome[s] : outcome[s][k] \in LumaStatuses
  BY <1>2, MappingFacts, Zenon
<1>4. Saved(s) = [k \in BoxIds |-> [boxes[k] EXCEPT !.push = Push(k)]]
  BY DEF Saved
<1>5. ASSUME NEW k \in BoxIds
      PROVE  /\ [boxes[k] EXCEPT !.push = Push(k)] \in Box
             /\ [boxes[k] EXCEPT !.push = Push(k)].push = Push(k)
             /\ [boxes[k] EXCEPT !.push = Push(k)].line = boxes[k].line
             /\ [boxes[k] EXCEPT !.push = Push(k)].index = boxes[k].index
  <2>1. boxes[k] \in Box /\ Push(k) \in LumaStatuses
    BY <1>1, <1>3 DEF Box
  <2>. HIDE DEF Push
  <2>. QED
    BY <2>1 DEF Box
<1>6. \A k \in BoxIds : Push(k) = boxes[k].push \/ (k \in DOMAIN outcome[s] /\ Push(k) = outcome[s][k])
  OBVIOUS
<1>. HIDE DEF Push
<1>7. Saved(s) \in [1 .. Len(boxes) -> Box] /\ DOMAIN Saved(s) = 1 .. Len(boxes)
  BY <1>4, <1>5 DEF BoxIds
<1>8. Saved(s) \in Seq(Box)
  BY <1>1, <1>7, SeqDef
<1>9. Len(Saved(s)) = Len(boxes)
  BY <1>1, <1>7, <1>8, LenProperties
<1>. QED
  BY <1>4, <1>5, <1>6, <1>8, <1>9

\* What Materialize does: each line without a box gets one, in the order of
\* their places.
LEMMA MaterializeEffect ==
    ASSUME TypeOK, NEW f \in Sessions, Materialize(f)
    PROVE  LET n == Len(boxes)
               new == Unboxed(f)
           IN
           /\ boxes' \in Seq(Box) /\ Len(boxes') = n + Cardinality(new)
           /\ Cardinality(new) \in Nat
           /\ \A k \in 1 .. n : boxes'[k] = boxes[k]
           /\ \A l \in new :
                /\ n + PlaceIn(l, new) \in (n + 1) .. (n + Cardinality(new))
                /\ boxes'[n + PlaceIn(l, new)].line = l
                /\ boxes'[n + PlaceIn(l, new)].index = LineIndex(f, l)
           /\ \A k \in (n + 1) .. (n + Cardinality(new)) :
                /\ boxes'[k].push # "PUSHED"
                /\ \E l \in new : k = n + PlaceIn(l, new)
           /\ \A l \in new : link'[l] = n + PlaceIn(l, new)
           /\ \A l \in LineIds \ new : link'[l] = link[l]
           /\ link' \in [LineIds -> 1 .. Len(boxes') \cup {0}]
<1>. DEFINE n == Len(boxes)
            new == Unboxed(f)
            c == Cardinality(new)
            Nth(k) == CHOOSE l \in new : PlaceIn(l, new) = k
<1>1. /\ CasesOk /\ n \in Nat /\ DOMAIN rows[f] \in SUBSET LineIds
      /\ new \in SUBSET LineIds /\ new \subseteq DOMAIN rows[f]
  BY TypedPlaces DEF Unboxed
<1>2. c \in Nat
  BY <1>1, LinesFinite
<1>3. ASSUME NEW k \in 1 .. c
      PROVE  Nth(k) \in new /\ PlaceIn(Nth(k), new) = k
  BY <1>1, PlaceInOnto
<1>4. ASSUME NEW l \in new
      PROVE  PlaceIn(l, new) \in 1 .. c /\ Nth(PlaceIn(l, new)) = l
  <2>1. PlaceIn(l, new) \in 1 .. c
    BY <1>1, PlaceInRange
  <2>2. Nth(PlaceIn(l, new)) \in new /\ PlaceIn(Nth(PlaceIn(l, new)), new) = PlaceIn(l, new)
    BY <1>3, <2>1
  <2>. QED
    BY <1>1, <2>1, <2>2, PlaceInInjective
<1>. HIDE DEF Nth
<1>5. PICK waiting \in SUBSET new :
        boxes' = boxes \o
          [k \in 1 .. c |->
             [line  |-> Nth(k),
              index |-> LineIndex(f, Nth(k)),
              push  |-> IF Nth(k) \in waiting THEN "NOT_READY" ELSE "PENDING",
              batch |-> Len(boxes)]]
  BY DEF Materialize, Nth
<1>. DEFINE fresh == [k \in 1 .. c |->
                        [line  |-> Nth(k),
                         index |-> LineIndex(f, Nth(k)),
                         push  |-> IF Nth(k) \in waiting THEN "NOT_READY" ELSE "PENDING",
                         batch |-> Len(boxes)]]
<1>6. ASSUME NEW l \in new PROVE LineIndex(f, l) \in Nat \ {0}
  <2>1. PICK D \in SUBSET LineIds : D = DOMAIN rows[f] /\ l \in D
    BY <1>1
  <2>2. PlaceIn(l, D) \in 1 .. Cardinality(D) /\ Cardinality(D) \in Nat
    BY <1>1, <2>1, PlaceInRange, LinesFinite
  <2>. QED
    BY <2>1, <2>2 DEF LineIndex
<1>7. ASSUME NEW k \in 1 .. c
      PROVE  [line  |-> Nth(k),
              index |-> LineIndex(f, Nth(k)),
              push  |-> IF Nth(k) \in waiting THEN "NOT_READY" ELSE "PENDING",
              batch |-> Len(boxes)] \in Box
  <2>1. Nth(k) \in new /\ LineIndex(f, Nth(k)) \in Nat \ {0}
    BY <1>3, <1>6
  <2>. QED
    BY <1>1, <2>1 DEF Box, LumaStatuses
<1>8. fresh \in Seq(Box) /\ Len(fresh) = c
  <2>1. fresh \in [1 .. c -> Box]
    BY <1>7
  <2>2. fresh \in Seq(Box)
    BY <1>2, <2>1, SeqDef
  <2>. QED
    BY <1>2, <2>2
<1>. HIDE DEF fresh
<1>9. boxes \in Seq(Box) /\ boxes' = boxes \o fresh
  BY <1>5 DEF TypeOK, fresh
<1>10. /\ boxes' \in Seq(Box) /\ Len(boxes') = n + c
       /\ \A k \in 1 .. n + c : boxes'[k] = IF k <= n THEN boxes[k] ELSE fresh[k - n]
  BY <1>8, <1>9, ConcatProperties
<1>11. \A k \in 1 .. n : boxes'[k] = boxes[k]
  BY <1>1, <1>2, <1>10
<1>12. ASSUME NEW k \in (n + 1) .. (n + c)
       PROVE  /\ k - n \in 1 .. c
              /\ boxes'[k] = fresh[k - n]
              /\ boxes'[k].push # "PUSHED" /\ boxes'[k].line = Nth(k - n)
              /\ boxes'[k].index = LineIndex(f, Nth(k - n))
  <2>1. k - n \in 1 .. c /\ k \in 1 .. n + c /\ ~ (k <= n)
    BY <1>1, <1>2
  <2>2. boxes'[k] = fresh[k - n]
    BY <1>10, <2>1
  <2>. QED
    BY <2>1, <2>2 DEF fresh
<1>13. ASSUME NEW l \in new
       PROVE  /\ n + PlaceIn(l, new) \in (n + 1) .. (n + c)
              /\ boxes'[n + PlaceIn(l, new)].line = l
              /\ boxes'[n + PlaceIn(l, new)].index = LineIndex(f, l)
  <2>1. PlaceIn(l, new) \in 1 .. c /\ Nth(PlaceIn(l, new)) = l
    BY <1>4
  <2>2. n + PlaceIn(l, new) \in (n + 1) .. (n + c) /\ (n + PlaceIn(l, new)) - n = PlaceIn(l, new)
    BY <1>1, <1>2, <2>1
  <2>. QED
    BY <1>12, <2>1, <2>2
<1>14. ASSUME NEW k \in (n + 1) .. (n + c) PROVE \E l \in new : k = n + PlaceIn(l, new)
  <2>1. Nth(k - n) \in new /\ PlaceIn(Nth(k - n), new) = k - n
    BY <1>3, <1>12
  <2>2. k = n + (k - n)
    BY <1>1, <1>2
  <2>. QED
    BY <2>1, <2>2
<1>15. /\ \A l \in new : link'[l] = n + PlaceIn(l, new)
       /\ \A l \in LineIds \ new : link'[l] = link[l]
  BY <1>1 DEF Materialize
<1>16. link' \in [LineIds -> 1 .. Len(boxes') \cup {0}]
  <2>1. \A l \in LineIds : link'[l] \in 1 .. Len(boxes') \cup {0}
    BY <1>1, <1>2, <1>10, <1>13, <1>15 DEF TypeOK, BoxIds
  <2>2. link' = [l \in LineIds |-> link'[l]]
    BY DEF Materialize
  <2>. QED
    BY <2>1, <2>2
<1>. QED
  BY <1>2, <1>10, <1>11, <1>12, <1>13, <1>14, <1>15, <1>16

---------------------------------------------------------------------------
(* The actions, one by one: what they leave to the types.                  *)

Whole ==
    /\ TypeOK
    /\ BoxesKeepTheirLines
    /\ LinksAgree
    /\ IndicesDense

LEMMA EditEffect ==
    ASSUME TypeOK, NEW e \in Sessions, Edit(e)
    PROVE  /\ status' \in Statuses /\ SessionsOk(Len(boxes))' /\ Others(e)
           /\ UNCHANGED <<receipts, luma, rows, view, outcome>>
           /\ pc'[e] = "idle"
<1>1. status' \in Statuses
  BY DEF Edit, Bump, TypeOK, Statuses
<1>2. /\ pc' = [pc EXCEPT ![e] = "idle"] /\ seen' = [seen EXCEPT ![e] = None]
      /\ UNCHANGED <<receipts, luma, rows, view, outcome>>
  BY DEF Edit
<1>3. SessionsOk(Len(boxes))'
  BY <1>2, TypeParts DEF SessionsOk, PCs, receipts
<1>4. Others(e) /\ pc'[e] = "idle"
  BY <1>2 DEF Others, TypeOK
<1>. QED
  BY <1>1, <1>2, <1>3, <1>4

\* Of the edits, AddCase and AddLine add, the two deletions take away.
LEMMA EditingType ==
    ASSUME TypeOK, NEW e \in Sessions, Editing(e)
    PROVE  TypeOK'
<1>1. Edit(e)
  BY DEF Editing, Counting, AddCase, EditCase, DeleteCase, AddLine, EditLine, DeleteLine, EditExpected
<1>2. /\ status' \in Statuses /\ SessionsOk(Len(boxes))'
      /\ UNCHANGED <<receipts, luma>>
  BY <1>1, EditEffect
<1>3. cases' \subseteq Cases
  <2>1. CASE AddCase(e)
    <3>. DEFINE next == IF cases = {} THEN 1 ELSE Max(cases) + 1
    <3>1. next \in Nat \ {0}
      <4>1. cases # {} => Max(cases) \in Cases
        BY MaxOfCases DEF TypeOK
      <4>. QED
        BY <4>1, ReceiveAssumption DEF Cases
    <3>2. next <= MaxCases /\ cases' = cases \cup {next}
      BY <2>1 DEF AddCase
    <3>. HIDE DEF next
    <3>3. next \in Cases
      BY <3>1, <3>2, ReceiveAssumption DEF Cases
    <3>. QED
      BY <3>2, <3>3 DEF TypeOK
  <2>2. CASE cases' \subseteq cases
    BY <2>2 DEF TypeOK
  <2>. QED
    BY <2>1, <2>2 DEF Editing, Counting, EditCase, DeleteCase, AddLine, EditLine, DeleteLine, EditExpected
<1>4. lines' \subseteq LineIds /\ caseOf' \in [LineIds -> Cases \cup {0}]
  <2>1. CASE AddLine(e)
    BY <2>1 DEF AddLine, TypeOK
  <2>2. CASE lines' \subseteq lines /\ caseOf' = caseOf
    BY <2>2 DEF TypeOK
  <2>. QED
    BY <2>1, <2>2 DEF Editing, Counting, AddCase, EditCase, DeleteCase, EditLine, DeleteLine, EditExpected
<1>5. boxes' = boxes /\ link' = link /\ luma' = luma
  BY <1>2 DEF receipts
<1>. QED
  BY <1>2, <1>3, <1>4, <1>5, TypeParts DEF TypeOK, SessionsOk, BoxIds

\* Begin, on boxes that exist.
LEMMA BeginEffect ==
    ASSUME TypeOK, NEW s \in Sessions, NEW mine \in SUBSET BoxIds, Begin(s, mine)
    PROVE  /\ pc' \in [Sessions -> PCs] /\ view' \in [Sessions -> Mapping(BoxIds, LumaStatuses)]
           /\ pc'[s] = "pushing" /\ view'[s] = [k \in mine |-> boxes[k].push]
           /\ \A t \in Sessions \ {s} : pc'[t] = pc[t] /\ view'[t] = view[t]
<1>1. \A k \in BoxIds : boxes[k].push \in LumaStatuses
  BY TypedPlaces DEF Box
<1>2. [k \in mine |-> boxes[k].push] \in [mine -> LumaStatuses]
  BY <1>1
<1>3. [k \in mine |-> boxes[k].push] \in Mapping(BoxIds, LumaStatuses)
  BY <1>2, MappingIntro, Zenon
<1>. QED
  BY <1>3 DEF Begin, TypeOK, PCs

LEMMA RowsEffect ==
    ASSUME TypeOK, NEW f \in Sessions, Enumerate(f) \/ (Validate(f) /\ ~Blocked(f))
    PROVE  /\ rows' \in [Sessions -> Mapping(LineIds, BoxIds \cup {0})]
           /\ pc' \in [Sessions -> PCs] /\ pc'[f] # "saved" /\ Others(f)
           /\ UNCHANGED <<receive, receipts, luma, seen, view, outcome>>
           /\ DOMAIN rows'[f] = lines
           /\ \A l \in lines : rows'[f][l] = link[l]
                              \/ (l \in DOMAIN rows[f] /\ rows'[f][l] = rows[f][l])
<1>1. rows[f] \in Mapping(LineIds, BoxIds \cup {0}) /\ lines \in SUBSET LineIds
  BY DEF TypeOK
<1>2. \A l \in DOMAIN rows[f] : rows[f][l] \in BoxIds \cup {0}
  BY <1>1, MappingFacts, Zenon
<1>3. PICK g : /\ rows' = [rows EXCEPT ![f] = g]
               /\ g \in [lines -> BoxIds \cup {0}]
               /\ \A l \in lines : g[l] = link[l] \/ (l \in DOMAIN rows[f] /\ g[l] = rows[f][l])
  <2>1. CASE Enumerate(f)
    <3>. DEFINE g == [l \in lines |-> IF l \in DOMAIN rows[f] THEN rows[f][l] ELSE link[l]]
    <3>1. g \in [lines -> BoxIds \cup {0}]
      BY <1>1, <1>2 DEF TypeOK
    <3>2. \A l \in lines : g[l] = link[l] \/ (l \in DOMAIN rows[f] /\ g[l] = rows[f][l])
      OBVIOUS
    <3>3. rows' = [rows EXCEPT ![f] = g]
      BY <2>1 DEF Enumerate
    <3>. QED
      BY <3>1, <3>2, <3>3
  <2>2. CASE Validate(f) /\ ~Blocked(f)
    <3>. DEFINE g == [l \in lines |-> link[l]]
    <3>1. g \in [lines -> BoxIds \cup {0}]
      BY <1>1 DEF TypeOK
    <3>2. rows' = [rows EXCEPT ![f] = g]
      BY <2>2 DEF Validate
    <3>. QED
      BY <3>1, <3>2
  <2>. QED
    BY <2>1, <2>2
<1>4. g \in Mapping(LineIds, BoxIds \cup {0})
  BY <1>1, <1>3, MappingIntro, Zenon
<1>5. /\ pc' \in [Sessions -> PCs] /\ pc'[f] # "saved"
      /\ \A t \in Sessions \ {f} : pc'[t] = pc[t]
      /\ UNCHANGED <<receive, receipts, luma, seen, view, outcome>>
  BY DEF Enumerate, Validate, TypeOK, PCs
<1>6. rows' \in [Sessions -> Mapping(LineIds, BoxIds \cup {0})] /\ rows'[f] = g
  BY <1>3, <1>4 DEF TypeOK
<1>7. Others(f)
  BY <1>3, <1>5 DEF Others, TypeOK
<1>. QED
  BY <1>3, <1>5, <1>6, <1>7

LEMMA MaterializeType ==
    ASSUME Whole, NEW f \in Sessions, Materialize(f)
    PROVE  TypeOK'
<1>. USE DEF Whole
<1>. DEFINE n == Len(boxes)
            c == Cardinality(Unboxed(f))
<1>1. /\ boxes' \in Seq(Box) /\ Len(boxes') = n + c /\ c \in Nat /\ n \in Nat
      /\ link' \in [LineIds -> 1 .. Len(boxes') \cup {0}]
  BY MaterializeEffect, TypedPlaces
<1>2. 1 .. n \subseteq 1 .. Len(boxes')
  BY <1>1
<1>. HIDE DEF n, c
<1>3. [l \in DOMAIN rows[f] |-> link'[l]] \in Mapping(LineIds, 1 .. Len(boxes') \cup {0})
  <2>1. DOMAIN rows[f] \in SUBSET LineIds
    BY TypedPlaces
  <2>2. [l \in DOMAIN rows[f] |-> link'[l]] \in [DOMAIN rows[f] -> 1 .. Len(boxes') \cup {0}]
    BY <1>1, <2>1
  <2>. QED
    BY <2>1, <2>2, MappingIntro, Zenon
<1>4. rows' \in [Sessions -> Mapping(LineIds, 1 .. Len(boxes') \cup {0})]
  <2>1. \A s \in Sessions : rows[s] \in Mapping(LineIds, 1 .. Len(boxes') \cup {0})
    <3>1. ASSUME NEW s \in Sessions PROVE rows[s] \in Mapping(LineIds, 1 .. n \cup {0})
      BY DEF TypeOK, BoxIds, n
    <3>2. 1 .. n \cup {0} \subseteq 1 .. Len(boxes') \cup {0}
      BY <1>2
    <3>3. ASSUME NEW h \in Mapping(LineIds, 1 .. n \cup {0})
          PROVE  h \in Mapping(LineIds, 1 .. Len(boxes') \cup {0})
      <4>1. PICK D \in SUBSET LineIds : h \in [D -> 1 .. n \cup {0}]
        BY <3>3 DEF Mapping
      <4>2. h \in [D -> 1 .. Len(boxes') \cup {0}]
        BY <3>2, <4>1
      <4>. QED
        BY <4>2, MappingIntro, Zenon
    <3>. QED
      BY <3>1, <3>3, Zenon
  <2>. QED
    BY <1>3, <2>1 DEF Materialize, TypeOK
<1>5. ASSUME NEW g, g \in Mapping(1 .. n, LumaStatuses)
      PROVE  g \in Mapping(1 .. Len(boxes'), LumaStatuses)
  BY <1>2, <1>5, MappingGrows, Zenon
<1>6. view' \in [Sessions -> Mapping(1 .. Len(boxes'), LumaStatuses)]
  BY <1>5 DEF Materialize, TypeOK, BoxIds, n
<1>7. outcome' \in [Sessions -> Mapping(1 .. Len(boxes'), LumaStatuses)]
  BY <1>5 DEF Materialize, TypeOK, BoxIds, n
<1>8. /\ pc' \in [Sessions -> PCs]
      /\ seen' \in [Sessions -> Statuses \cup {None}]
      /\ status' \in Statuses
      /\ UNCHANGED <<cases, lines, caseOf, luma>>
  BY DEF Materialize, TypeOK, PCs, Statuses
<1>9. luma' \subseteq 1 .. Len(boxes')
  BY <1>2, <1>8 DEF TypeOK, BoxIds, n
<1>. QED
  BY <1>1, <1>4, <1>6, <1>7, <1>8, <1>9 DEF TypeOK, BoxIds

LEMMA PushLumaEffect ==
    ASSUME TypeOK, NEW s \in Sessions, PushLuma(s)
    PROVE  \E k \in DOMAIN view[s], push \in {"PUSHED", "FAILED"} :
              /\ k \in BoxIds /\ k \notin DOMAIN outcome[s]
              /\ outcome' \in [Sessions -> Mapping(BoxIds, LumaStatuses)]
              /\ \A t \in Sessions \ {s} : outcome'[t] = outcome[t]
              /\ DOMAIN outcome'[s] = DOMAIN outcome[s] \cup {k}
              /\ outcome'[s][k] = push
              /\ \A j \in DOMAIN outcome[s] : outcome'[s][j] = outcome[s][j]
              /\ luma \subseteq luma' /\ luma' \subseteq luma \cup {k}
              /\ push = "PUSHED" => k \in luma'
<1>. DEFINE todo == Eligible(s) \ DOMAIN outcome[s]
<1>1. view[s] \in Mapping(BoxIds, LumaStatuses) /\ outcome[s] \in Mapping(BoxIds, LumaStatuses)
  BY DEF TypeOK
<1>2. DOMAIN view[s] \subseteq BoxIds /\ DOMAIN outcome[s] \subseteq BoxIds
  BY <1>1, MappingFacts, Zenon
<1>3. \A k \in DOMAIN outcome[s] : outcome[s][k] \in LumaStatuses
  BY <1>1, MappingFacts, Zenon
<1>4. todo \in SUBSET Nat /\ todo # {}
  BY <1>2 DEF PushLuma, Eligible, BoxIds
<1>5. Min(todo) \in todo
  BY <1>4, MinOfNats
<1>6. PICK k : k = Min(todo)
  OBVIOUS
<1>7. k \in DOMAIN view[s] /\ k \in BoxIds /\ k \notin DOMAIN outcome[s]
  BY <1>2, <1>5, <1>6 DEF Eligible
<1>8. PICK accepted \in BOOLEAN, heard \in BOOLEAN, push \in {"PUSHED", "FAILED"} :
         /\ push = IF Acknowledged(accepted, heard) THEN "PUSHED" ELSE "FAILED"
         /\ luma' = IF accepted THEN luma \cup {k} ELSE luma
         /\ outcome' = [outcome EXCEPT ![s] = Settled(outcome[s], k, push)]
  BY <1>6 DEF PushLuma
<1>9. push \in {"PUSHED", "FAILED"} /\ (push = "PUSHED" => k \in luma')
  BY <1>8 DEF Acknowledged
<1>. DEFINE g == Settled(outcome[s], k, push)
<1>10. g \in Mapping(BoxIds, LumaStatuses)
  <2>1. DOMAIN outcome[s] \cup {k} \in SUBSET BoxIds
    BY <1>2, <1>7
  <2>2. g \in [DOMAIN outcome[s] \cup {k} -> LumaStatuses]
    BY <1>3, <1>9 DEF LumaStatuses, Settled
  <2>. HIDE DEF g
  <2>. QED
    BY <2>1, <2>2, MappingIntro, Zenon
<1>11. /\ DOMAIN g = DOMAIN outcome[s] \cup {k} /\ g[k] = push
       /\ \A j \in DOMAIN outcome[s] : g[j] = outcome[s][j]
  BY <1>7 DEF Settled
<1>12. outcome' = [outcome EXCEPT ![s] = g]
  BY <1>8
<1>. HIDE DEF g
<1>13. /\ outcome' \in [Sessions -> Mapping(BoxIds, LumaStatuses)]
       /\ outcome'[s] = g
       /\ \A t \in Sessions \ {s} : outcome'[t] = outcome[t]
  BY <1>10, <1>12 DEF TypeOK
<1>14. luma \subseteq luma' /\ luma' \subseteq luma \cup {k}
  BY <1>8
<1>. QED
  BY <1>7, <1>9, <1>11, <1>13, <1>14

LEMMA SweepEffect ==
    ASSUME TypeOK, NEW g \in Sessions, Sweep(g)
    PROVE  \E mine \in SUBSET BoxIds :
              /\ Begin(g, mine) /\ g \in Sweepers
              /\ \A t \in Sessions \ {g} : outcome'[t] = outcome[t]
              /\ outcome' \in [Sessions -> Mapping(BoxIds, LumaStatuses)]
              /\ \A k \in DOMAIN outcome'[g] : outcome'[g][k] = "DUPLICATE"
<1>1. PICK mine \in SUBSET BoxIds, D \in SUBSET BoxIds :
         /\ Begin(g, mine) /\ g \in Sweepers
         /\ outcome' = [outcome EXCEPT ![g] = [k \in D |-> "DUPLICATE"]]
  <2>. DEFINE mine == {k \in BoxIds : boxes[k].push \in {"FAILED", "NOT_READY"}}
              items == {ItemOf[boxes[k].line] : k \in mine}
  <2>1. PICK kept \in [items -> mine] :
           outcome' = [outcome EXCEPT ![g] =
                         [k \in mine \ {kept[i] : i \in items} |-> "DUPLICATE"]]
    BY DEF Sweep
  <2>2. Begin(g, mine) /\ g \in Sweepers
    BY DEF Sweep
  <2>3. mine \in SUBSET BoxIds /\ mine \ {kept[i] : i \in items} \in SUBSET BoxIds
    OBVIOUS
  <2>. HIDE DEF mine, items
  <2>. QED
    BY <2>1, <2>2, <2>3
<1>2. [k \in D |-> "DUPLICATE"] \in Mapping(BoxIds, LumaStatuses)
  <2>1. D \in SUBSET BoxIds /\ [k \in D |-> "DUPLICATE"] \in [D -> LumaStatuses]
    BY DEF LumaStatuses
  <2>. QED
    BY <2>1, MappingIntro, Zenon
<1>. QED
  BY <1>1, <1>2 DEF TypeOK

---------------------------------------------------------------------------
(* No line gets a second box: the lines a finalize has without a box take  *)
(* places beyond the indices given so far, so all the lines with a box are *)
(* among those it knows to have one.                                       *)

LEMMA IntervalSize ==
    ASSUME NEW n \in Nat
    PROVE  IsFiniteSet(1 .. n) /\ Cardinality(1 .. n) = n
<1>1. IsFiniteSet(1 .. n) /\ Cardinality(1 .. n) = IF 1 > n THEN 0 ELSE n - 1 + 1
  BY FS_Interval
<1>. QED
  BY <1>1

LEMMA MaterializeCounts ==
    ASSUME Whole, NEW f \in Sessions, Materialize(f), Unboxed(f) # {}
    PROVE  /\ \A l \in Unboxed(f) : link[l] = 0
           /\ \A i \in (Len(boxes) + 1) .. (Len(boxes) + Cardinality(Unboxed(f))) :
                 \E l \in Unboxed(f) : LineIndex(f, l) = i
<1>. USE DEF Whole
<1>. DEFINE n == Len(boxes)
            D == DOMAIN rows[f]
            new == Unboxed(f)
            B == {l \in LineIds : link[l] # 0}
            P == {l \in D : PlaceIn(l, D) <= n}
<1>1. /\ CasesOk /\ n \in Nat /\ D \in SUBSET LineIds /\ new \in SUBSET LineIds
      /\ new \in SUBSET D
      /\ IsFiniteSet(D) /\ Cardinality(D) \in Nat /\ Cardinality(new) \in Nat
  <2>1. CasesOk /\ n \in Nat /\ D \in SUBSET LineIds
    BY TypedPlaces
  <2>2. new \in SUBSET D
    BY DEF Unboxed
  <2>. QED
    BY <2>1, <2>2, LinesFinite
<1>2. IsFiniteSet(B) /\ Cardinality(B) \in Nat /\ Cardinality(B) <= n
  <2>. DEFINE lnk == [l \in B |-> link[l]]
  <2>1. lnk \in [B -> 1 .. n]
    <3>1. \A l \in B : l \in LineIds /\ link[l] # 0 /\ link[l] \in 1 .. n \cup {0}
      BY DEF TypeOK, BoxIds
    <3>. QED
      BY <3>1
  <2>2. \A l, m \in B : lnk[l] = lnk[m] => l = m
    BY DEF LinksAgree
  <2>3. lnk \in Injection(B, 1 .. n)
    BY <2>1, <2>2 DEF Injection, IsInjective
  <2>4. IsFiniteSet(1 .. n) /\ Cardinality(1 .. n) = n
    BY <1>1, IntervalSize
  <2>5. B \in SUBSET LineIds
    OBVIOUS
  <2>. QED
    BY <2>3, <2>4, <2>5, FS_Injection, LinesFinite
<1>3. \A l \in D : PlaceIn(l, D) \in 1 .. Cardinality(D)
  BY <1>1, PlaceInRange
<1>4. \A l \in new : PlaceIn(l, D) > n
  <2>1. ASSUME NEW l \in new PROVE PlaceIn(l, D) > n
    <3>1. ~ IndexTaken(PlaceIn(l, D))
      BY DEF Materialize, Refusable, LineIndex
    <3>2. PlaceIn(l, D) \notin 1 .. n
      BY <3>1 DEF IndicesDense, BoxIds
    <3>. QED
      BY <1>1, <1>3, <3>2
  <2>. QED
    BY <2>1
<1>5. D \ new \subseteq B
  BY <1>1 DEF Unboxed, LinksAgree
<1>6. P \subseteq D \ new
  BY <1>1, <1>3, <1>4
<1>7. n < Cardinality(D)
  <2>1. PICK l \in new : TRUE
    OBVIOUS
  <2>. QED
    BY <1>1, <1>3, <1>4, <2>1
<1>8. Cardinality(P) \in Nat /\ n <= Cardinality(P)
  <2>. DEFINE place == [l \in P |-> PlaceIn(l, D)]
  <2>1. place \in [P -> 1 .. n]
    BY <1>1, <1>3
  <2>2. ASSUME NEW i \in 1 .. n PROVE \E l \in P : place[l] = i
    <3>1. i \in 1 .. Cardinality(D)
      BY <1>1, <1>7
    <3>2. PICK l \in D : PlaceIn(l, D) = i
      BY <1>1, <3>1, PlaceInOnto
    <3>. QED
      BY <1>1, <3>2
  <2>3. place \in Surjection(P, 1 .. n)
    BY <2>1, <2>2 DEF Surjection
  <2>4. Cardinality(1 .. n) = n
    BY <1>1, IntervalSize
  <2>5. P \in SUBSET LineIds
    BY <1>1
  <2>6. IsFiniteSet(P) /\ Cardinality(P) \in Nat
    BY <2>5, LinesFinite
  <2>. HIDE DEF place, P
  <2>. QED
    BY <2>3, <2>4, <2>6, FS_Surjection
<1>. HIDE DEF P, B
<1>9. P = B /\ Cardinality(B) = n
  <2>1. P \in SUBSET B
    BY <1>5, <1>6
  <2>2. Cardinality(P) <= Cardinality(B)
    BY <1>2, <2>1, FS_Subset
  <2>3. Cardinality(P) = Cardinality(B) /\ Cardinality(B) = n
    BY <1>1, <1>2, <1>8, <2>2
  <2>. QED
    BY <1>2, <2>1, <2>3, FS_Subset
<1>10. D \ new = B
  BY <1>5, <1>6, <1>9
<1>11. Cardinality(D) = n + Cardinality(new)
  <2>1. D \cap new = new
    BY <1>1
  <2>2. Cardinality(D \ new) = Cardinality(D) - Cardinality(new)
    BY <1>1, <2>1, FS_Difference
  <2>3. Cardinality(B) = Cardinality(D) - Cardinality(new) /\ Cardinality(B) = n
    BY <1>9, <1>10, <2>2
  <2>. HIDE DEF D, new
  <2>. QED
    BY <1>1, <2>3
<1>12. \A l \in new : link[l] = 0
  BY <1>1, <1>10 DEF B
<1>13. ASSUME NEW i \in (n + 1) .. (n + Cardinality(new))
       PROVE  \E l \in new : LineIndex(f, l) = i
  <2>1. i \in 1 .. Cardinality(D) /\ i > n
    BY <1>1, <1>11
  <2>2. PICK l \in D : PlaceIn(l, D) = i
    BY <1>1, <2>1, PlaceInOnto
  <2>3. l \notin P
    BY <1>1, <2>1, <2>2 DEF P
  <2>. QED
    BY <1>9, <1>10, <2>2, <2>3 DEF LineIndex
<1>. QED
  BY <1>12, <1>13

\* A response leaves the types, whatever it commits to status and boxes.
LEMMA ResponseType ==
    ASSUME TypeOK, NEW s \in Sessions, Finish(s),
           cases' = cases, lines' = lines, caseOf' = caseOf, link' = link, luma' = luma,
           status' \in Statuses,
           boxes' \in Seq(Box), Len(boxes') = Len(boxes)
    PROVE  TypeOK'
<1>1. PICK b : b = Len(boxes)
  OBVIOUS
<1>2. SessionsOk(b)
  BY <1>1, TypeParts
<1>3. SessionsOk(b)'
  BY <1>2, FinishEffect
<1>4. b = Len(boxes')
  BY <1>1
<1>. QED
  BY <1>1, <1>3, <1>4, TypeParts DEF TypeOK, SessionsOk, BoxIds

LEMMA TypeKept ==
    ASSUME Whole, NEW s \in Sessions,
           LoadReceive(s) \/ Editing(s) \/ Finalizing(s) \/ Pushing(s)
    PROVE  TypeOK'
<1>. USE DEF Whole
<1>1. CASE LoadReceive(s)
  BY <1>1 DEF LoadReceive, receive, receipts, TypeOK, PCs, BoxIds
<1>2. CASE Editing(s)
  BY <1>2, EditingType
<1>3. CASE Validate(s)
  <2>1. CASE Blocked(s)
    <3>1. Finish(s) /\ UNCHANGED <<receive, receipts, luma>>
      BY <1>3, <2>1 DEF Validate
    <3>. QED
      BY <3>1, ResponseType DEF TypeOK, receive, receipts
  <2>2. CASE ~Blocked(s)
    <3>1. /\ rows' \in [Sessions -> Mapping(LineIds, BoxIds \cup {0})] /\ pc' \in [Sessions -> PCs]
          /\ UNCHANGED <<receive, receipts, luma, seen, view, outcome>>
      BY <1>3, <2>2, RowsEffect
    <3>. QED
      BY <3>1 DEF TypeOK, receive, receipts, BoxIds
  <2>. QED
    BY <2>1, <2>2
<1>4. CASE Enumerate(s)
  <2>1. /\ rows' \in [Sessions -> Mapping(LineIds, BoxIds \cup {0})] /\ pc' \in [Sessions -> PCs]
        /\ UNCHANGED <<receive, receipts, luma, seen, view, outcome>>
    BY <1>4, RowsEffect
  <2>. QED
    BY <2>1 DEF TypeOK, receive, receipts, BoxIds
<1>5. CASE Materialize(s)
  BY <1>5, MaterializeType
<1>6. CASE FailToMaterialize(s)
  <2>1. Finish(s) /\ UNCHANGED <<receive, receipts, luma>>
    BY <1>6 DEF FailToMaterialize
  <2>. QED
    BY <2>1, ResponseType DEF TypeOK, receive, receipts
<1>7. CASE Reload(s)
  <2>. DEFINE mine == {rows[s][l] : l \in DOMAIN rows[s]}
  <2>1. Begin(s, mine) /\ seen' = [seen EXCEPT ![s] = status]
        /\ UNCHANGED <<receive, receipts, luma, rows, outcome>>
    BY <1>7 DEF Reload
  <2>2. mine \in SUBSET BoxIds
    <3>1. \A l \in DOMAIN rows[s] : rows[s][l] \in BoxIds \cup {0}
      BY MappingFacts DEF TypeOK
    <3>2. \A l \in DOMAIN rows[s] : rows[s][l] # 0
      BY <1>7 DEF Reload, LinksAgree
    <3>. QED
      BY <3>1, <3>2
  <2>. HIDE DEF mine
  <2>3. pc' \in [Sessions -> PCs] /\ view' \in [Sessions -> Mapping(BoxIds, LumaStatuses)]
    BY <2>1, <2>2, BeginEffect
  <2>. QED
    BY <2>1, <2>3 DEF TypeOK, receive, receipts, BoxIds
<1>8. CASE Retry(s)
  <2>1. UNCHANGED <<receive, receipts, luma>>
    BY <1>8 DEF Retry
  <2>2. CASE Begin(s, BoxIds) /\ UNCHANGED <<seen, rows, outcome>>
    <3>1. pc' \in [Sessions -> PCs] /\ view' \in [Sessions -> Mapping(BoxIds, LumaStatuses)]
      <4>1. BoxIds \in SUBSET BoxIds
        OBVIOUS
      <4>. QED
        BY <2>2, <4>1, BeginEffect
    <3>. QED
      BY <2>1, <2>2, <3>1 DEF TypeOK, receive, receipts, BoxIds
  <2>3. CASE Finish(s)
    BY <2>1, <2>3, ResponseType DEF TypeOK, receive, receipts
  <2>. QED
    BY <1>8, <2>2, <2>3 DEF Retry
<1>9. CASE PushLuma(s)
  <2>1. PICK k \in DOMAIN view[s] :
          /\ k \in BoxIds
          /\ outcome' \in [Sessions -> Mapping(BoxIds, LumaStatuses)]
          /\ luma' \subseteq luma \cup {k}
    BY <1>9, PushLumaEffect, Zenon
  <2>2. UNCHANGED <<receive, receipts, pc, seen, rows, view>>
    BY <1>9 DEF PushLuma
  <2>. QED
    BY <2>1, <2>2 DEF TypeOK, receive, receipts, BoxIds
<1>10. CASE Conclude(s)
  <2>1. Finish(s) /\ UNCHANGED <<cases, lines, caseOf, link, luma>>
    BY <1>10 DEF Conclude
  <2>2. boxes' \in Seq(Box) /\ Len(boxes') = Len(boxes)
    <3>1. boxes' = boxes \/ boxes' = Saved(s)
      BY <1>10 DEF Conclude
    <3>2. Saved(s) \in Seq(Box) /\ Len(Saved(s)) = Len(boxes)
      BY SavedEffect
    <3>. QED
      BY <3>1, <3>2 DEF TypeOK
  <2>3. status' \in Statuses
    BY <1>10 DEF Conclude, TypeOK, Statuses
  <2>. QED
    BY <2>1, <2>2, <2>3, ResponseType
<1>11. CASE Sweep(s)
  <2>1. PICK mine \in SUBSET BoxIds :
          /\ Begin(s, mine)
          /\ outcome' \in [Sessions -> Mapping(BoxIds, LumaStatuses)]
    BY <1>11, SweepEffect, Zenon
  <2>2. pc' \in [Sessions -> PCs] /\ view' \in [Sessions -> Mapping(BoxIds, LumaStatuses)]
    BY <2>1, BeginEffect
  <2>3. UNCHANGED <<receive, receipts, luma, seen, rows>>
    BY <1>11 DEF Sweep
  <2>. QED
    BY <2>1, <2>2, <2>3 DEF TypeOK, receive, receipts, BoxIds
<1>12. CASE ConcludeSweep(s)
  <2>1. Finish(s) /\ UNCHANGED <<receive, link, luma>>
    BY <1>12 DEF ConcludeSweep
  <2>2. boxes' \in Seq(Box) /\ Len(boxes') = Len(boxes)
    BY <1>12, SavedEffect DEF ConcludeSweep
  <2>. QED
    BY <2>1, <2>2, ResponseType DEF receive, TypeOK
<1>. QED
  BY <1>1, <1>2, <1>3, <1>4, <1>5, <1>6, <1>7, <1>8, <1>9, <1>10, <1>11, <1>12 DEF Finalizing, Pushing

\* No action but Materialize adds a box or touches a link, and only the two
\* deletions take lines, none that has a box.
LEMMA BoxesStand ==
    ASSUME Whole, NEW s \in Sessions,
           LoadReceive(s) \/ Editing(s) \/ Finalizing(s) \/ Pushing(s), ~Materialize(s)
    PROVE  /\ link' = link /\ Len(boxes') = Len(boxes)
           /\ \A k \in BoxIds : boxes'[k].line = boxes[k].line /\ boxes'[k].index = boxes[k].index
           /\ \A k \in BoxIds : boxes[k].line \in lines' <=> boxes[k].line \in lines
<1>1. CASE Editing(s)
  <2>1. UNCHANGED receipts
    BY <1>1 DEF Editing, Counting, AddCase, EditCase, DeleteCase, AddLine, EditLine, DeleteLine,
       EditExpected, Edit
  <2>2. ASSUME NEW k \in BoxIds PROVE boxes[k].line \in lines' <=> boxes[k].line \in lines
    <3>1. boxes[k].line \in lines
      BY DEF Whole, BoxesKeepTheirLines
    <3>2. boxes[k].line \in lines'
      <4>1. CASE DeleteLine(s)
        BY <3>1, <4>1 DEF DeleteLine, Deletable
      <4>2. CASE DeleteCase(s)
        BY <3>1, <4>2 DEF DeleteCase, Deletable
      <4>3. CASE ~DeleteLine(s) /\ ~DeleteCase(s)
        <5>1. lines \subseteq lines'
          BY <1>1, <4>3 DEF Editing, Counting, AddCase, EditCase, AddLine, EditLine, EditExpected
        <5>. QED
          BY <3>1, <5>1
      <4>. QED
        BY <4>1, <4>2, <4>3
    <3>. QED
      BY <3>1, <3>2
  <2>. QED
    BY <2>1, <2>2 DEF receipts
<1>2. CASE Conclude(s) \/ ConcludeSweep(s)
  <2>1. link' = link /\ lines' = lines
    BY <1>2 DEF Conclude, ConcludeSweep, receive
  <2>2. boxes' = boxes \/ boxes' = Saved(s)
    BY <1>2 DEF Conclude, ConcludeSweep
  <2>. QED
    BY <2>1, <2>2, SavedEffect DEF Whole
<1>3. CASE ~Editing(s) /\ ~Conclude(s) /\ ~ConcludeSweep(s)
  <2>1. UNCHANGED receive /\ UNCHANGED receipts
    BY <1>3 DEF LoadReceive, Finalizing, Pushing, Validate, Enumerate, FailToMaterialize, Reload,
                Retry, PushLuma, Sweep, Materialize
  <2>. QED
    BY <2>1 DEF receive, receipts
<1>. QED
  BY <1>1, <1>2, <1>3

LEMMA BoxesKept ==
    ASSUME Whole, NEW s \in Sessions,
           LoadReceive(s) \/ Editing(s) \/ Finalizing(s) \/ Pushing(s)
    PROVE  BoxesKeepTheirLines' /\ IndicesDense'
<1>1. CASE ~Materialize(s)
  <2>1. /\ link' = link /\ Len(boxes') = Len(boxes)
        /\ \A k \in BoxIds : boxes'[k].line = boxes[k].line /\ boxes'[k].index = boxes[k].index
        /\ \A k \in BoxIds : boxes[k].line \in lines' <=> boxes[k].line \in lines
    BY <1>1, BoxesStand
  <2>. QED
    BY <2>1 DEF Whole, BoxesKeepTheirLines, IndicesDense, IndexTaken, BoxIds
<1>2. CASE Materialize(s)
  <2>. DEFINE n == Len(boxes)
              new == Unboxed(s)
              c == Cardinality(new)
  <2>1. /\ Len(boxes') = n + c
        /\ c \in Nat
        /\ \A k \in 1 .. n : boxes'[k] = boxes[k]
        /\ \A l \in new :
             /\ n + PlaceIn(l, new) \in (n + 1) .. (n + c)
             /\ boxes'[n + PlaceIn(l, new)].line = l
             /\ boxes'[n + PlaceIn(l, new)].index = LineIndex(s, l)
        /\ \A k \in (n + 1) .. (n + c) : \E l \in new : k = n + PlaceIn(l, new)
        /\ \A l \in new : link'[l] = n + PlaceIn(l, new)
        /\ \A l \in LineIds \ new : link'[l] = link[l]
    BY <1>2, MaterializeEffect DEF Whole
  <2>2. n \in Nat /\ \A k \in 1 .. n : boxes[k] \in Box
    BY TypedPlaces DEF Whole, BoxIds
  <2>3. /\ \A l \in new : link[l] = 0
        /\ \A i \in (n + 1) .. (n + c) : \E l \in new : LineIndex(s, l) = i
    <3>1. CASE new = {}
      <4>1. c = 0
        BY <3>1, FS_EmptySet
      <4>. QED
        BY <2>2, <3>1, <4>1
    <3>2. CASE new # {}
      BY <1>2, <3>2, MaterializeCounts
    <3>. QED
      BY <3>1, <3>2
  <2>4. new \subseteq lines /\ lines' = lines
    BY <1>2 DEF Materialize, Refusable
  <2>. HIDE DEF n, new, c
  <2>5. \A k \in BoxIds' : k \in 1 .. n \/ k \in (n + 1) .. (n + c)
    BY <2>1, <2>2 DEF BoxIds
  <2>6. ASSUME NEW k \in BoxIds' PROVE boxes'[k].line \in lines' /\ link'[boxes'[k].line] = k
    <3>1. CASE k \in 1 .. n
      <4>1. boxes[k].line \in lines /\ link[boxes[k].line] = k
        BY <3>1 DEF Whole, BoxesKeepTheirLines, BoxIds, n
      <4>2. boxes[k].line \notin new /\ boxes[k].line \in LineIds
        BY <2>2, <2>3, <3>1, <4>1 DEF Box
      <4>. QED
        BY <2>1, <2>4, <3>1, <4>1, <4>2
    <3>2. CASE k \in (n + 1) .. (n + c)
      <4>1. PICK l \in new : k = n + PlaceIn(l, new)
        BY <2>1, <3>2
      <4>. QED
        BY <2>1, <2>4, <4>1
    <3>. QED
      BY <2>5, <3>1, <3>2
  <2>7. ASSUME NEW i \in BoxIds' PROVE \E k \in BoxIds' : boxes'[k].index = i
    <3>1. CASE i \in 1 .. n
      <4>1. PICK k \in 1 .. n : boxes[k].index = i
        BY <3>1 DEF Whole, IndicesDense, IndexTaken, BoxIds, n
      <4>2. k \in BoxIds'
        BY <2>1, <2>2 DEF BoxIds
      <4>. QED
        BY <2>1, <4>1, <4>2
    <3>2. CASE i \in (n + 1) .. (n + c)
      <4>1. PICK l \in new : LineIndex(s, l) = i
        BY <2>3, <3>2
      <4>2. n + PlaceIn(l, new) \in BoxIds'
        BY <2>1, <2>2 DEF BoxIds
      <4>. QED
        BY <2>1, <4>1, <4>2
    <3>. QED
      BY <2>5, <3>1, <3>2
  <2>. QED
    BY <2>6, <2>7 DEF BoxesKeepTheirLines, IndicesDense, IndexTaken
<1>. QED
  BY <1>1, <1>2

\* Short of Materialize, the link a session knows of a line is the one it knew
\* or the one it reads now, and no session gets to "saved".
LEMMA RowsStand ==
    ASSUME Whole, NEW s \in Sessions,
           LoadReceive(s) \/ Editing(s) \/ Finalizing(s) \/ Pushing(s), ~Materialize(s),
           NEW t \in Sessions
    PROVE  /\ \A l \in DOMAIN rows'[t] :
                 rows'[t][l] = link[l] \/ (l \in DOMAIN rows[t] /\ rows'[t][l] = rows[t][l])
           /\ pc'[t] = "saved" => pc[t] = "saved" /\ rows'[t] = rows[t]
<1>. PICK b : b = Len(boxes)
  OBVIOUS
<1>1. SessionsOk(b)
  BY TypeParts DEF Whole
<1>2. CASE Enumerate(s) \/ (Validate(s) /\ ~Blocked(s))
  <2>1. /\ pc'[s] # "saved" /\ Others(s)
        /\ DOMAIN rows'[s] = lines
        /\ \A l \in lines : rows'[s][l] = link[l]
                            \/ (l \in DOMAIN rows[s] /\ rows'[s][l] = rows[s][l])
    BY <1>2, RowsEffect DEF Whole
  <2>. QED
    BY <2>1 DEF Others
<1>3. CASE Finish(s)
  <2>1. Others(s) /\ rows'[s] = Empty
    BY <1>1, <1>3, FinishEffect
  <2>2. pc'[s] = "done"
    BY <1>1, <1>3 DEF Finish, SessionsOk
  <2>. QED
    BY <2>1, <2>2, EmptyMapping DEF Others
<1>4. CASE rows' = rows /\ (\E p \in PCs \ {"saved"} : pc' = [pc EXCEPT ![s] = p])
  BY <1>1, <1>4 DEF SessionsOk
<1>5. CASE rows' = rows /\ pc' = pc
  BY <1>5
<1>6. LoadReceive(s) => rows' = rows /\ pc' = [pc EXCEPT ![s] = "loaded"]
  BY DEF LoadReceive
<1>7. Editing(s) => rows' = rows /\ pc' = [pc EXCEPT ![s] = "idle"]
  BY DEF Editing, Counting, AddCase, EditCase, DeleteCase, AddLine, EditLine, DeleteLine,
     EditExpected, Edit
<1>8. Finalizing(s) =>
        \/ Enumerate(s) \/ (Validate(s) /\ ~Blocked(s)) \/ Finish(s)
        \/ rows' = rows /\ pc' = [pc EXCEPT ![s] = "pushing"]
  BY DEF Finalizing, Validate, FailToMaterialize, Reload, Begin
<1>9. Pushing(s) =>
        \/ Finish(s)
        \/ rows' = rows /\ pc' = [pc EXCEPT ![s] = "pushing"]
        \/ rows' = rows /\ pc' = pc
  BY DEF Pushing, Retry, PushLuma, Conclude, Sweep, ConcludeSweep, Begin
<1>. QED
  BY <1>2, <1>3, <1>4, <1>5, <1>6, <1>7, <1>8, <1>9 DEF PCs

LEMMA LinksKept ==
    ASSUME Whole, NEW s \in Sessions,
           LoadReceive(s) \/ Editing(s) \/ Finalizing(s) \/ Pushing(s)
    PROVE  LinksAgree'
<1>1. CASE ~Materialize(s)
  <2>1. /\ link' = link /\ Len(boxes') = Len(boxes)
        /\ \A k \in BoxIds : boxes'[k].line = boxes[k].line
    BY <1>1, BoxesStand
  <2>2. \A l \in LineIds : link'[l] # 0 => boxes'[link'[l]].line = l
    BY <2>1 DEF Whole, TypeOK, LinksAgree
  <2>3. \A t \in Sessions : \A l \in DOMAIN rows'[t] : rows'[t][l] # 0 => link'[l] # 0
    BY <1>1, <2>1, RowsStand DEF Whole, LinksAgree
  <2>4. \A t \in Sessions : pc'[t] = "saved" => \A l \in DOMAIN rows'[t] : rows'[t][l] # 0
    BY <1>1, RowsStand DEF Whole, LinksAgree
  <2>. QED
    BY <2>2, <2>3, <2>4 DEF LinksAgree
<1>2. CASE Materialize(s)
  <2>. DEFINE n == Len(boxes)
              new == Unboxed(s)
              c == Cardinality(new)
  <2>1. /\ \A k \in 1 .. n : boxes'[k] = boxes[k]
        /\ \A l \in new :
             /\ n + PlaceIn(l, new) \in (n + 1) .. (n + c)
             /\ boxes'[n + PlaceIn(l, new)].line = l
        /\ \A l \in new : link'[l] = n + PlaceIn(l, new)
        /\ \A l \in LineIds \ new : link'[l] = link[l]
    BY <1>2, MaterializeEffect DEF Whole
  <2>2. n \in Nat
    BY TypedPlaces DEF Whole
  <2>3. c \in Nat
    BY <1>2, MaterializeEffect DEF Whole
  <2>4. \A l \in LineIds : link[l] \in 1 .. n \cup {0}
    BY DEF Whole, TypeOK, BoxIds
  <2>5. /\ \A l \in DOMAIN rows[s] \ new : rows[s][l] # 0
        /\ new \subseteq DOMAIN rows[s]
    BY DEF Unboxed
  <2>6. \A t \in Sessions : DOMAIN rows[t] \subseteq LineIds
    BY TypedPlaces DEF Whole
  <2>7. /\ pc' = [pc EXCEPT ![s] = "saved"]
        /\ rows' = [rows EXCEPT ![s] = [l \in DOMAIN rows[s] |-> link'[l]]]
    BY <1>2 DEF Materialize
  <2>. HIDE DEF n, new, c
  <2>8. \A l \in new : link'[l] # 0
    BY <2>1, <2>2, <2>3
  <2>9. \A l \in LineIds : link[l] # 0 => link'[l] # 0
    BY <2>1, <2>8
  <2>10. \A l \in LineIds : link'[l] # 0 => boxes'[link'[l]].line = l
    <3>1. TAKE l \in LineIds
    <3>2. CASE l \in new
      BY <2>1, <3>2
    <3>3. CASE l \notin new
      <4>1. link'[l] = link[l]
        BY <2>1, <3>3
      <4>2. link[l] # 0 => boxes'[link[l]] = boxes[link[l]]
        BY <2>1, <2>4
      <4>. QED
        BY <4>1, <4>2 DEF Whole, LinksAgree
    <3>. QED
      BY <3>2, <3>3
  <2>11. \A l \in DOMAIN rows[s] : link'[l] # 0
    <3>1. TAKE l \in DOMAIN rows[s]
    <3>2. CASE l \in new
      BY <2>8, <3>2
    <3>3. CASE l \notin new
      BY <2>5, <2>6, <2>9, <3>3 DEF Whole, LinksAgree
    <3>. QED
      BY <3>2, <3>3
  <2>12. /\ DOMAIN rows'[s] = DOMAIN rows[s]
         /\ \A l \in DOMAIN rows[s] : rows'[s][l] = link'[l]
         /\ \A t \in Sessions \ {s} : rows'[t] = rows[t] /\ pc'[t] = pc[t]
    BY <2>7 DEF Whole, TypeOK
  <2>13. \A t \in Sessions : \A l \in DOMAIN rows'[t] : rows'[t][l] # 0 => link'[l] # 0
    <3>1. TAKE t \in Sessions
    <3>2. CASE t = s
      BY <2>11, <2>12, <3>2
    <3>3. CASE t # s
      BY <2>6, <2>9, <2>12, <3>3 DEF Whole, LinksAgree
    <3>. QED
      BY <3>2, <3>3
  <2>14. \A t \in Sessions : pc'[t] = "saved" => \A l \in DOMAIN rows'[t] : rows'[t][l] # 0
    <3>1. TAKE t \in Sessions
    <3>2. CASE t = s
      BY <2>11, <2>12, <3>2
    <3>3. CASE t # s
      BY <2>12, <3>3 DEF Whole, LinksAgree
    <3>. QED
      BY <3>2, <3>3
  <2>. QED
    BY <2>10, <2>13, <2>14 DEF LinksAgree
<1>. QED
  BY <1>1, <1>2

---------------------------------------------------------------------------

LEMMA WholeInit == Init => Whole
<1>1. ASSUME Init PROVE SessionsOk(Len(boxes))
  BY <1>1, EmptyMapping DEF Init, SessionsOk, PCs
<1>2. ASSUME Init PROVE Len(boxes) = 0 /\ BoxIds = {}
  BY <1>2 DEF Init, BoxIds
<1>3. Init => TypeOK
  <2>1. HAVE Init
  <2>2. SessionsOk(Len(boxes))
    BY <1>1, <2>1
  <2>3. boxes \in Seq(Box)
    BY <2>1 DEF Init
  <2>. QED
    BY <2>1, <2>2, <2>3, TypeParts DEF Init, Statuses
<1>4. Init => BoxesKeepTheirLines /\ IndicesDense
  BY <1>2 DEF BoxesKeepTheirLines, IndicesDense
<1>5. Init => LinksAgree
  BY EmptyMapping DEF Init, LinksAgree
<1>. QED
  BY <1>3, <1>4, <1>5 DEF Whole

LEMMA WholeKept == Whole /\ [Next]_vars => Whole'
<1>1. SUFFICES ASSUME Whole, [Next]_vars PROVE Whole'
  OBVIOUS
<1>2. CASE Next
  <2>1. PICK s \in Sessions : LoadReceive(s) \/ Editing(s) \/ Finalizing(s) \/ Pushing(s)
    BY <1>2 DEF Next
  <2>. QED
    BY <1>1, <2>1, TypeKept, BoxesKept, LinksKept DEF Whole
<1>3. CASE UNCHANGED vars
  BY <1>1, <1>3 DEF vars, receive, receipts, session, Whole, TypeOK, BoxesKeepTheirLines, LinksAgree,
                    IndicesDense, IndexTaken, BoxIds
<1>. QED
  BY <1>1, <1>2, <1>3

LEMMA WholeAlways == Spec => []Whole
  BY WholeInit, WholeKept, PTL DEF Spec

\* The receive, its rows and what the sessions hold of them keep their types:
\* a session that reloads its lines after the commit finds a box for each.
THEOREM TypeCorrect == Spec => []TypeOK
<1>1. Whole => TypeOK
  BY DEF Whole
<1>. QED
  BY <1>1, WholeAlways, PTL

\* However finalize attempts, edits and failed pushes interleave, every box is
\* the one box of a line that exists (materialize_box_receipts).
THEOREM OneBoxPerLine == Spec => []BoxesKeepTheirLines
<1>1. Whole => BoxesKeepTheirLines
  BY DEF Whole
<1>. QED
  BY <1>1, WholeAlways, PTL

---------------------------------------------------------------------------
(* What a reported PUSHED_OK stands on.                                    *)

\* Boxes known as PUSHED to the database, and to a session.
BoxesAccepted == \A k \in BoxIds : boxes[k].push = "PUSHED" => k \in luma

KnownAccepted(s) ==
    /\ \A k \in DOMAIN view[s] : view[s][k] = "PUSHED" => k \in luma
    /\ \A k \in DOMAIN outcome[s] : outcome[s][k] = "PUSHED" => k \in luma
    /\ s \in Pushers => \A k \in DOMAIN outcome[s] : outcome[s][k] # "DUPLICATE"

LEMMA AcceptedParts ==
    PushedIsAccepted <=> BoxesAccepted /\ \A s \in Sessions : KnownAccepted(s)
  BY DEF PushedIsAccepted, BoxesAccepted, KnownAccepted

LEMMA LumaGrows ==
    ASSUME Whole, NEW s \in Sessions,
           LoadReceive(s) \/ Editing(s) \/ Finalizing(s) \/ Pushing(s)
    PROVE  luma \subseteq luma'
<1>1. CASE PushLuma(s)
  BY <1>1 DEF PushLuma
<1>2. CASE ~PushLuma(s)
  BY <1>2 DEF LoadReceive, Editing, Counting,
     Finalizing, Pushing, AddCase, EditCase, DeleteCase, AddLine, EditLine,
     DeleteLine, EditExpected, Edit, Validate, Enumerate, Materialize, FailToMaterialize, Reload,
     Retry, Conclude, Sweep, ConcludeSweep
<1>. QED
  BY <1>1, <1>2

LEMMA BoxesAcceptedKept ==
    ASSUME Whole, PushedIsAccepted, NEW s \in Sessions,
           LoadReceive(s) \/ Editing(s) \/ Finalizing(s) \/ Pushing(s)
    PROVE  BoxesAccepted'
<1>0. luma \subseteq luma'
  BY LumaGrows
<1>1. CASE Materialize(s)
  <2>. DEFINE n == Len(boxes)
              c == Cardinality(Unboxed(s))
  <2>1. /\ Len(boxes') = n + c /\ c \in Nat /\ n \in Nat
        /\ \A k \in 1 .. n : boxes'[k] = boxes[k]
        /\ \A k \in (n + 1) .. (n + c) : boxes'[k].push # "PUSHED"
    BY <1>1, MaterializeEffect, TypedPlaces DEF Whole
  <2>2. \A k \in 1 .. n : boxes[k].push = "PUSHED" => k \in luma
    BY DEF PushedIsAccepted, BoxIds
  <2>. HIDE DEF n, c
  <2>3. \A k \in BoxIds' : k \in 1 .. n \/ k \in (n + 1) .. (n + c)
    BY <2>1 DEF BoxIds
  <2>. QED
    BY <1>0, <2>1, <2>2, <2>3 DEF BoxesAccepted
<1>2. CASE Conclude(s) \/ ConcludeSweep(s)
  <2>1. boxes' = boxes \/ boxes' = Saved(s)
    BY <1>2 DEF Conclude, ConcludeSweep
  <2>2. /\ Len(Saved(s)) = Len(boxes)
        /\ \A k \in BoxIds :
             \/ Saved(s)[k].push = boxes[k].push
             \/ k \in DOMAIN outcome[s] /\ Saved(s)[k].push = outcome[s][k]
    BY SavedEffect DEF Whole
  <2>3. BoxIds' = BoxIds
    BY <2>1, <2>2 DEF BoxIds
  <2>. QED
    BY <1>0, <2>1, <2>2, <2>3 DEF BoxesAccepted, PushedIsAccepted
<1>3. CASE boxes' = boxes
  BY <1>0, <1>3 DEF BoxesAccepted, PushedIsAccepted, BoxIds
<1>4. Materialize(s) \/ Conclude(s) \/ ConcludeSweep(s) \/ boxes' = boxes
  BY DEF LoadReceive, Editing, Counting,
     Finalizing, Pushing, AddCase, EditCase, DeleteCase, AddLine, EditLine,
     DeleteLine, EditExpected, Edit, Validate, Enumerate, FailToMaterialize, Reload,
     Retry, PushLuma, Sweep, receipts
<1>. QED
  BY <1>1, <1>2, <1>3, <1>4

LEMMA KnownAcceptedKept ==
    ASSUME Whole, PushedIsAccepted, NEW s \in Sessions,
           LoadReceive(s) \/ Editing(s) \/ Finalizing(s) \/ Pushing(s), NEW t \in Sessions
    PROVE  KnownAccepted(t)'
<1>0. luma \subseteq luma' /\ KnownAccepted(t)
  BY LumaGrows, AcceptedParts
<1>1. CASE view'[t] = view[t] /\ outcome'[t] = outcome[t]
  BY <1>0, <1>1 DEF KnownAccepted
<1>2. CASE view'[t] = Empty /\ outcome'[t] = Empty
  BY <1>2, EmptyMapping DEF KnownAccepted
<1>3. CASE t = s /\ outcome'[t] = outcome[t] /\ (\E mine \in SUBSET BoxIds : Begin(s, mine))
  <2>1. PICK mine \in SUBSET BoxIds : Begin(s, mine)
    BY <1>3
  <2>2. view'[t] = [k \in mine |-> boxes[k].push]
    BY <1>3, <2>1, BeginEffect DEF Whole
  <2>3. \A k \in DOMAIN view'[t] : view'[t][k] = "PUSHED" => k \in luma
    BY <2>2 DEF PushedIsAccepted
  <2>. QED
    BY <1>0, <1>3, <2>3 DEF KnownAccepted
<1>4. CASE t # s /\ outcome'[t] = outcome[t] /\ (\E mine \in SUBSET BoxIds : Begin(s, mine))
  <2>1. view'[t] = view[t]
    BY <1>4, BeginEffect DEF Whole
  <2>. QED
    BY <1>1, <1>4, <2>1
<1>5. CASE PushLuma(s)
  <2>0. TypeOK
    BY DEF Whole
  <2>1. PICK k \in DOMAIN view[s], push \in {"PUSHED", "FAILED"} :
          /\ k \in BoxIds /\ k \notin DOMAIN outcome[s]
          /\ outcome' \in [Sessions -> Mapping(BoxIds, LumaStatuses)]
          /\ \A u \in Sessions \ {s} : outcome'[u] = outcome[u]
          /\ DOMAIN outcome'[s] = DOMAIN outcome[s] \cup {k}
          /\ outcome'[s][k] = push
          /\ \A j \in DOMAIN outcome[s] : outcome'[s][j] = outcome[s][j]
          /\ luma \subseteq luma' /\ luma' \subseteq luma \cup {k}
          /\ push = "PUSHED" => k \in luma'
    BY <1>5, <2>0, PushLumaEffect, Zenon
  <2>2. view' = view
    BY <1>5 DEF PushLuma
  <2>3. CASE t = s
    <3>1. \A j \in DOMAIN outcome'[t] : outcome'[t][j] = "PUSHED" => j \in luma'
      BY <1>0, <2>1, <2>3 DEF KnownAccepted
    <3>2. t \in Pushers => \A j \in DOMAIN outcome'[t] : outcome'[t][j] # "DUPLICATE"
      BY <1>0, <2>1, <2>3 DEF KnownAccepted
    <3>. QED
      BY <1>0, <2>2, <3>1, <3>2 DEF KnownAccepted
  <2>4. CASE t # s
    BY <1>1, <2>1, <2>2, <2>4
  <2>. QED
    BY <2>3, <2>4
<1>6. CASE Sweep(s)
  <2>1. PICK mine \in SUBSET BoxIds :
          /\ Begin(s, mine) /\ s \in Sweepers
          /\ \A u \in Sessions \ {s} : outcome'[u] = outcome[u]
          /\ \A k \in DOMAIN outcome'[s] : outcome'[s][k] = "DUPLICATE"
    <3>1. TypeOK
      BY DEF Whole
    <3>. QED
      BY <1>6, <3>1, SweepEffect, Zenon
  <2>2. CASE t = s
    <3>1. view'[t] = [k \in mine |-> boxes[k].push]
      BY <2>1, <2>2, BeginEffect DEF Whole
    <3>2. \A k \in DOMAIN view'[t] : view'[t][k] = "PUSHED" => k \in luma
      BY <3>1 DEF PushedIsAccepted
    <3>3. t \notin Pushers
      BY <2>1, <2>2, ReceiveAssumption
    <3>. QED
      BY <1>0, <2>1, <2>2, <3>2, <3>3 DEF KnownAccepted
  <2>3. CASE t # s
    BY <1>4, <2>1, <2>3
  <2>. QED
    BY <2>2, <2>3
<1>7. CASE Finish(s)
  <2>1. SessionsOk(Len(boxes))
    BY TypeParts DEF Whole
  <2>2. /\ view'[s] = Empty /\ outcome'[s] = Empty
        /\ Others(s)
    BY <1>7, <2>1, FinishEffect
  <2>. QED
    BY <1>1, <1>2, <2>2 DEF Others
<1>8. CASE Reload(s)
  <2>. DEFINE mine == {rows[s][l] : l \in DOMAIN rows[s]}
  <2>1. Begin(s, mine) /\ outcome' = outcome
    BY <1>8 DEF Reload
  <2>2. mine \in SUBSET BoxIds
    <3>1. \A l \in DOMAIN rows[s] : rows[s][l] \in BoxIds \cup {0}
      BY MappingFacts DEF Whole, TypeOK
    <3>2. \A l \in DOMAIN rows[s] : rows[s][l] # 0
      BY <1>8 DEF Reload, LinksAgree, Whole
    <3>. QED
      BY <3>1, <3>2
  <2>. HIDE DEF mine
  <2>. QED
    BY <1>3, <1>4, <2>1, <2>2
<1>9. LoadReceive(s) \/ Editing(s) => view' = view /\ outcome' = outcome
  BY DEF LoadReceive, Editing, Counting,
     AddCase, EditCase, DeleteCase, AddLine, EditLine,
         DeleteLine, EditExpected, Edit
<1>10. Finalizing(s) => Finish(s) \/ Reload(s) \/ (view' = view /\ outcome' = outcome)
  BY DEF Finalizing, Validate, Enumerate, Materialize, FailToMaterialize
<1>11. Pushing(s) => Finish(s) \/ PushLuma(s) \/ Sweep(s) \/ (Begin(s, BoxIds) /\ outcome' = outcome)
  BY DEF Pushing, Retry, Conclude, ConcludeSweep
<1>12. BoxIds \in SUBSET BoxIds
  OBVIOUS
<1>. QED
  BY <1>1, <1>3, <1>4, <1>5, <1>6, <1>7, <1>8, <1>9, <1>10, <1>11, <1>12

LEMMA AcceptedAlways == Spec => []PushedIsAccepted
<1>1. Init => PushedIsAccepted
  BY EmptyMapping DEF Init, PushedIsAccepted, BoxIds
<1>2. Whole /\ PushedIsAccepted /\ [Next]_vars => PushedIsAccepted'
  <2>1. SUFFICES ASSUME Whole, PushedIsAccepted, [Next]_vars PROVE PushedIsAccepted'
    OBVIOUS
  <2>2. CASE Next
    <3>1. PICK s \in Sessions : LoadReceive(s) \/ Editing(s) \/ Finalizing(s) \/ Pushing(s)
      BY <2>2 DEF Next
    <3>2. BoxesAccepted'
      BY <2>1, <3>1, BoxesAcceptedKept
    <3>3. \A t \in Sessions : KnownAccepted(t)'
      BY <2>1, <3>1, KnownAcceptedKept
    <3>. QED
      BY <3>2, <3>3 DEF PushedIsAccepted, BoxesAccepted, KnownAccepted
  <2>3. CASE UNCHANGED vars
    BY <2>1, <2>3 DEF vars, receipts, session, PushedIsAccepted, BoxIds
  <2>. QED
    BY <2>1, <2>2, <2>3
<1>. QED
  BY <1>1, <1>2, WholeAlways, PTL DEF Spec

\* A push that turns the receive PUSHED_OK has all the boxes it looked at in
\* Luma, except those the older retry retired (push_receive_to_integrations).
THEOREM PushedOkIsTrue == Spec => PushedOkReachedLuma
<1>. DEFINE ReachedAll(p) ==
              Conclude(p) /\ status # "PUSHED_OK" /\ status' = "PUSHED_OK" =>
                \A k \in DOMAIN view[p] : k \in luma \/ view[p][k] = "DUPLICATE"
<1>1. PushedIsAccepted => \A p \in Pushers : ReachedAll(p)
  <2>1. SUFFICES ASSUME PushedIsAccepted, NEW p \in Pushers, Conclude(p),
                        status # "PUSHED_OK", status' = "PUSHED_OK", NEW k \in DOMAIN view[p]
                 PROVE  k \in luma \/ view[p][k] = "DUPLICATE"
    OBVIOUS
  <2>2. AllGood(p)
    BY <2>1 DEF Conclude
  <2>3. p \in Sessions
    BY DEF Sessions
  <2>. QED
    BY <2>1, <2>2, <2>3 DEF AllGood, Good, PushedIsAccepted
<1>2. PushedIsAccepted => [\A p \in Pushers : ReachedAll(p)]_vars
  BY <1>1
<1>. QED
  BY <1>2, AcceptedAlways, PTL DEF PushedOkReachedLuma

---------------------------------------------------------------------------
(* The packing list.                                                       *)

LEMMA WriteSteps ==
    ASSUME NEW e \in Editors, NEW now, NEW brought, ListWrite(e, now, brought)
    PROVE  Next
BY DEF ListWrite, Editing, Next, Sessions

LEMMA ListSteps == [ListNext]_<<vars, listVars>> => [Next]_vars
<1>1. SUFFICES ASSUME ListNext PROVE [Next]_vars
  BY DEF vars
<1>2. ASSUME NEW s \in Sessions, Beside(s) PROVE Next
  BY <1>2 DEF Beside, Editing, Next
<1>3. ASSUME NEW e \in Editors, NEW line, AddExpected(e, line) PROVE Next
  BY <1>3, WriteSteps DEF AddExpected
<1>4. ASSUME NEW e \in Editors, NEW id, DeleteExpected(e, id) PROVE Next
  BY <1>4, WriteSteps DEF DeleteExpected
<1>5. ASSUME NEW e \in Editors, CommitImport(e) PROVE Next
  BY <1>5, WriteSteps DEF CommitImport
<1>6. ASSUME NEW e, NEW text, NEW replace, Rematch(e, text, replace) PROVE UNCHANGED vars
  BY <1>6 DEF Rematch
<1>7. ASSUME NEW c, Recatalog(c) PROVE UNCHANGED vars
  BY <1>7 DEF Recatalog
<1>. QED
  BY <1>1, <1>2, <1>3, <1>4, <1>5, <1>6, <1>7 DEF ListNext

\* The packing list is added to the receive, not changed into another: what
\* ReceiveV2 promises holds with its writes, too (routes/receiving_v2.py).
THEOREM ListedReceive == ListSpec => Spec
<1>1. ListInit => Init
  BY DEF ListInit
<1>. QED
  BY <1>1, ListSteps, PTL DEF ListSpec, Spec

---------------------------------------------------------------------------
(* Matching.                                                               *)

LEMMA HitsAreItems ==
    ASSUME NEW row
    PROVE  Hits(row) \subseteq DOMAIN catalog
<1>. DEFINE h == HitsByKey(row)
            deciding == {n \in DOMAIN h : h[n] # {}}
<1>1. DOMAIN h = 1..4
  BY DEF HitsByKey
<1>2. \A n \in 1..4 : h[n] \subseteq DOMAIN catalog
  BY DEF HitsByKey
<1>3. CASE deciding = {}
  BY <1>3 DEF Hits
<1>4. CASE deciding # {}
  <2>1. deciding \in SUBSET Nat
    BY <1>1
  <2>2. Min(deciding) \in deciding
    BY <1>4, <2>1, MinOfNats
  <2>3. Hits(row) = h[Min(deciding)]
    BY <1>4 DEF Hits
  <2>. QED
    BY <1>1, <1>2, <2>2, <2>3
<1>. QED
  BY <1>3, <1>4

LEMMA ReadyLinesType ==
    ASSUME catalog \in Catalogs, NEW text \in Texts
    PROVE  IsList(ReadyLines(text), Rows) /\ IsFiniteSet(DOMAIN ReadyLines(text))
<1>. DEFINE ready == {m \in DOMAIN text : RowStatus(text[m]) = "ready"}
<1>1. DOMAIN ReadyLines(text) = ready
  BY DEF ReadyLines
<1>2. ready \subseteq Rows
  BY DEF Rows
<1>3. IsFiniteSet(ready)
  <2>1. Len(text) \in Nat /\ DOMAIN text = 1..Len(text)
    BY PackingListAssumption DEF IsSeq
  <2>2. IsFiniteSet(DOMAIN text)
    BY <2>1, FS_Interval
  <2>. QED
    BY <2>2, FS_Subset
<1>4. ASSUME NEW n \in ready PROVE ReadyLines(text)[n] \in Line
  <2>. DEFINE item == CHOOSE i \in Hits(text[n]) : TRUE
  <2>1. ReadyLines(text)[n] = [item |-> item, qty |-> text[n].qty]
    BY DEF ReadyLines
  <2>2. Hits(text[n]) # {} /\ text[n].qty # 0
    BY DEF RowStatus
  <2>3. item \in Hits(text[n])
    BY <2>2
  <2>4. item \in Items
    BY <2>3, HitsAreItems DEF Items
  <2>5. text[n].qty \in Nat
    BY PackingListAssumption
  <2>. QED
    BY <2>1, <2>2, <2>4, <2>5 DEF Line
<1>. QED
  BY <1>1, <1>2, <1>3, <1>4 DEF IsList

---------------------------------------------------------------------------
(* Lists.                                                                  *)

LEMMA WithType ==
    ASSUME NEW old, NEW new, IsList(old, Ids), IsList(new, Rows \cup {1}), last + 1 \in 1..MaxWrites
    PROVE  IsList(With(old, new), Ids)
<1>1. DOMAIN With(old, new) = DOMAIN old \cup ({last + 1} \X DOMAIN new)
  BY DEF With
<1>2. {last + 1} \X DOMAIN new \subseteq Ids
  BY DEF IsList, Ids
<1>3. ASSUME NEW i \in DOMAIN With(old, new) PROVE With(old, new)[i] \in Line
  <2>1. CASE i \in DOMAIN old
    BY <1>1, <2>1 DEF With, IsList
  <2>2. CASE i \notin DOMAIN old
    <3>1. i[2] \in DOMAIN new
      BY <1>1, <2>2
    <3>2. With(old, new)[i] = new[i[2]]
      BY <1>1, <2>2 DEF With
    <3>. QED
      BY <3>1, <3>2 DEF IsList
  <2>. QED
    BY <2>1, <2>2
<1>. QED
  BY <1>1, <1>2, <1>3 DEF IsList

LEMMA WithFinite ==
    ASSUME NEW old, NEW new, IsFiniteSet(DOMAIN old), IsFiniteSet(DOMAIN new)
    PROVE  IsFiniteSet(DOMAIN With(old, new))
<1>. DEFINE added == {last + 1} \X DOMAIN new
<1>1. IsFiniteSet(added)
  BY FS_Singleton, FS_Product
<1>2. DOMAIN With(old, new) = DOMAIN old \cup added
  BY DEF With
<1>. HIDE DEF added
<1>3. IsFiniteSet(DOMAIN old \cup added)
  BY <1>1, FS_Union
<1>. QED
  BY <1>2, <1>3

LEMMA RestrictType ==
    ASSUME NEW m, NEW S, IsList(m, Ids), IsFiniteSet(DOMAIN m)
    PROVE  /\ IsList(Restrict(m, DOMAIN m \ S), Ids)
           /\ IsFiniteSet(DOMAIN Restrict(m, DOMAIN m \ S))
<1>. DEFINE r == Restrict(m, DOMAIN m \ S)
<1>1. DOMAIN r = DOMAIN m \ S
  BY DEF Restrict
<1>2. IsFiniteSet(DOMAIN r)
  BY <1>1, FS_Difference
<1>3. \A i \in DOMAIN r : i \in DOMAIN m /\ r[i] = m[i]
  BY <1>1 DEF Restrict
<1>. HIDE DEF r
<1>4. IsList(r, Ids)
  BY <1>3 DEF IsList
<1>. QED
  BY <1>2, <1>4 DEF r

---------------------------------------------------------------------------
(* What a write of the list leaves.                                        *)

\* A list that may be in the database.
Kind(m) == IsList(m, Ids) /\ IsFiniteSet(DOMAIN m)

\* An import that may be at hand.
Prepared(p) == IsPlan(p) /\ IsFiniteSet(DOMAIN p.new)

ListTyped ==
    /\ catalog \in Catalogs
    /\ last \in 0..MaxWrites
    /\ Kind(expected)
    /\ DOMAIN plan = Editors
    /\ \A e \in Editors : plan[e] = None \/ Prepared(plan[e])
    /\ IsList(frozen, Ids)
    /\ late \in BOOLEAN
    /\ listed = None \/ IsList(listed, Rows)

LEMMA ListTypedIs == ListTypeOK /\ ListsFinite <=> ListTyped
BY Zenon DEF ListTyped, Kind, Prepared, ListTypeOK, ListsFinite

LEMMA RememberType ==
    ASSUME NEW lateNow \in BOOLEAN, Remember(lateNow),
           Kind(expected'), IsList(frozen, Ids), late \in BOOLEAN
    PROVE  IsList(frozen', Ids) /\ late' \in BOOLEAN
<1>1. IsList(NoLines, Ids)
  BY DEF IsList, NoLines
<1>2. frozen' = NoLines \/ frozen' = expected' \/ frozen' = frozen
  BY DEF Remember
<1>. QED
  BY <1>1, <1>2 DEF Remember, Kind

LEMMA AlonePrepared ==
    ASSUME NEW p, Prepared(p)
    PROVE  /\ Prepared([p EXCEPT !.alone = FALSE])
           /\ [p EXCEPT !.alone = FALSE].alone = FALSE
<1>. DEFINE q == [p EXCEPT !.alone = FALSE]
<1>1. DOMAIN q = DOMAIN p /\ DOMAIN p = {"new", "replace", "existing", "alone"}
  BY DEF Prepared, IsPlan
<1>2. q.new = p.new /\ q.replace = p.replace /\ q.existing = p.existing /\ q.alone = FALSE
  BY <1>1
<1>. QED
  BY <1>1, <1>2 DEF Prepared, IsPlan

LEMMA WriteTypes ==
    ASSUME ListTyped, NEW e \in Editors, NEW now, NEW brought, ListWrite(e, now, brought),
           last' \in 0..MaxWrites, Kind(now), brought = None \/ IsList(brought, Rows)
    PROVE  ListTyped'
<1>1. expected' = now /\ listed' = brought /\ catalog' = catalog /\ Remember(seen[e] \notin Closed)
  BY DEF ListWrite
<1>2. DOMAIN plan' = Editors
  BY DEF ListWrite
<1>3. ASSUME NEW d \in Editors PROVE plan'[d] = None \/ Prepared(plan'[d])
  <2>1. plan'[d] = None \/ (plan[d] # None /\ plan'[d] = [plan[d] EXCEPT !.alone = FALSE])
    BY DEF ListWrite
  <2>. QED
    BY <2>1, AlonePrepared DEF ListTyped
<1>4. IsList(frozen', Ids) /\ late' \in BOOLEAN
  <2>1. (seen[e] \notin Closed) \in BOOLEAN
    OBVIOUS
  <2>. QED
    BY <1>1, <2>1, RememberType DEF ListTyped
<1>. QED
  BY <1>1, <1>2, <1>3, <1>4 DEF ListTyped

\* No import but the writer's own was at hand alone.
LEMMA WritePlans ==
    ASSUME ListTyped, NEW e \in Editors, NEW now, NEW brought, ListWrite(e, now, brought)
    PROVE  PlansCurrent'
<1>1. SUFFICES ASSUME NEW d \in Editors, plan'[d] # None PROVE ~plan'[d].alone
  BY DEF PlansCurrent
<1>2. plan[d] # None /\ plan'[d] = [plan[d] EXCEPT !.alone = FALSE]
  BY <1>1 DEF ListWrite
<1>3. Prepared(plan[d])
  BY <1>2 DEF ListTyped
<1>. QED
  BY <1>2, <1>3, AlonePrepared

LEMMA WriteFrozen ==
    ASSUME FrozenWhenFinalized, NEW e \in Editors, NEW now, NEW brought, ListWrite(e, now, brought)
    PROVE  FrozenWhenFinalized'
<1>1. seen[e] \notin Closed /\ Remember(seen[e] \notin Closed)
  BY DEF ListWrite, EditExpected, Editable
<1>2. SUFFICES ASSUME status' \in Closed, ~late' PROVE expected' = frozen'
  BY DEF FrozenWhenFinalized
<1>3. status \notin Closed
  BY <1>1, <1>2 DEF Remember
<1>. QED
  BY <1>1, <1>2, <1>3 DEF Remember

\* A step that leaves the list alone.
LEMMA BesideFrozen ==
    ASSUME FrozenWhenFinalized, Remember(FALSE), expected' = expected
    PROVE  FrozenWhenFinalized'
BY DEF FrozenWhenFinalized, Remember

---------------------------------------------------------------------------
(* The invariant.                                                          *)

ListWhole == ListTyped /\ FrozenWhenFinalized /\ BroughtLast /\ PlansCurrent

LEMMA AddKept ==
    ASSUME ListWhole, NEW e \in Editors, NEW item \in Items,
           AddExpected(e, [item |-> item, qty |-> 1])
    PROVE  ListWhole'
<1>. DEFINE new == [n \in {1} |-> [item |-> item, qty |-> 1]]
<1>1. last' = last + 1 /\ last < MaxWrites /\ last \in 0..MaxWrites /\ MaxWrites \in Nat
  BY PackingListAssumption DEF AddExpected, ListWhole, ListTyped
<1>2. ListWrite(e, With(expected, new), None)
  BY DEF AddExpected
<1>3. IsList(new, Rows \cup {1}) /\ IsFiniteSet(DOMAIN new)
  <2>1. new[1] \in Line /\ DOMAIN new = {1}
    BY DEF Line
  <2>. QED
    BY <2>1, FS_Singleton DEF IsList
<1>4. last' \in 0..MaxWrites /\ last + 1 \in 1..MaxWrites
  BY <1>1
<1>5. Kind(expected)
  BY DEF ListWhole, ListTyped
<1>. HIDE DEF new
<1>6. Kind(With(expected, new))
  BY <1>3, <1>4, <1>5, WithType, WithFinite DEF Kind
<1>7. ListTyped'
  BY <1>2, <1>4, <1>6, WriteTypes DEF ListWhole
<1>8. PlansCurrent' /\ FrozenWhenFinalized'
  BY <1>2, WritePlans, WriteFrozen DEF ListWhole
<1>9. BroughtLast'
  BY <1>2 DEF ListWrite, BroughtLast
<1>. QED
  BY <1>7, <1>8, <1>9 DEF ListWhole

LEMMA DeleteKept ==
    ASSUME ListWhole, NEW e \in Editors, NEW id \in Ids, DeleteExpected(e, id)
    PROVE  ListWhole'
<1>. DEFINE now == Restrict(expected, DOMAIN expected \ {id})
<1>1. last' = last /\ ListWrite(e, now, None)
  BY DEF DeleteExpected
<1>2. Kind(now)
  BY RestrictType DEF ListWhole, ListTyped, Kind
<1>3. last' \in 0..MaxWrites
  BY <1>1 DEF ListWhole, ListTyped
<1>. HIDE DEF now
<1>4. ListTyped'
  BY <1>1, <1>2, <1>3, WriteTypes DEF ListWhole
<1>5. PlansCurrent' /\ FrozenWhenFinalized'
  BY <1>1, WritePlans, WriteFrozen DEF ListWhole
<1>6. BroughtLast'
  BY <1>1 DEF ListWrite, BroughtLast
<1>. QED
  BY <1>4, <1>5, <1>6 DEF ListWhole

\* An import that had the list to itself leaves nothing of it.
LEMMA CommitKept ==
    ASSUME ListWhole, NEW e \in Editors, CommitImport(e)
    PROVE  ListWhole'
<1>. DEFINE p == plan[e]
            now == With(Kept(e), p.new)
            brought == IF p.replace /\ p.alone THEN p.new ELSE None
<1>1. last' = last + 1 /\ last < MaxWrites /\ last \in 0..MaxWrites /\ MaxWrites \in Nat
  BY PackingListAssumption DEF CommitImport, ListWhole, ListTyped
<1>2. p # None /\ ListWrite(e, now, brought)
  BY DEF CommitImport
<1>3. last' \in 0..MaxWrites /\ last + 1 \in 1..MaxWrites
  BY <1>1
<1>4. Prepared(p)
  BY <1>2 DEF ListWhole, ListTyped
<1>5. IsList(p.new, Rows) /\ IsList(p.new, Rows \cup {1}) /\ IsFiniteSet(DOMAIN p.new)
  BY <1>4 DEF Prepared, IsPlan, IsList
<1>6. Kind(expected)
  BY DEF ListWhole, ListTyped
<1>7. Kind(Kept(e))
  BY <1>6, RestrictType DEF Kept, Kind
<1>8. Kind(now)
  BY <1>3, <1>5, <1>7, WithType, WithFinite DEF Kind
<1>9. brought = None \/ IsList(brought, Rows)
  BY <1>5
<1>10. ASSUME brought # None PROVE Brought(last)'
  <2>1. p.replace /\ p.alone /\ brought = p.new
    BY <1>10
  <2>2. p.existing = DOMAIN expected
    BY <1>2, <2>1 DEF ListWhole, PlansCurrent
  <2>3. DOMAIN Kept(e) = {}
    BY <2>2 DEF Kept, Restrict
  <2>4. DOMAIN now = {last + 1} \X DOMAIN p.new
    BY <2>3 DEF With
  <2>5. \A n \in DOMAIN p.new : now[<<last + 1, n>>] = p.new[n]
    BY <2>3 DEF With
  <2>6. expected' = now /\ listed' = p.new
    BY <1>2, <2>1 DEF ListWrite
  <2>7. DOMAIN expected' = {last'} \X DOMAIN listed'
    BY <1>1, <2>4, <2>6
  <2>8. \A n \in DOMAIN listed' : expected'[<<last', n>>] = listed'[n]
    BY <1>1, <2>5, <2>6
  <2>. QED
    BY <2>7, <2>8 DEF Brought
<1>. HIDE DEF now, brought, p
<1>11. ListTyped'
  BY <1>2, <1>3, <1>8, <1>9, WriteTypes DEF ListWhole
<1>12. PlansCurrent' /\ FrozenWhenFinalized'
  BY <1>2, WritePlans, WriteFrozen DEF ListWhole
<1>13. BroughtLast'
  <2>1. listed' = brought
    BY <1>2 DEF ListWrite
  <2>2. last' \in 1..MaxWrites
    BY <1>1, <1>3
  <2>. QED
    BY <1>10, <2>1, <2>2 DEF BroughtLast
<1>. QED
  BY <1>11, <1>12, <1>13 DEF ListWhole

LEMMA RematchKept ==
    ASSUME ListWhole, NEW e \in Editors, NEW text \in Texts, NEW replace \in BOOLEAN,
           Rematch(e, text, replace)
    PROVE  ListWhole'
<1>. DEFINE p == [new      |-> ReadyLines(text),
                  replace  |-> replace,
                  existing |-> IF replace THEN DOMAIN expected ELSE {},
                  alone    |-> TRUE]
<1>1. /\ plan' = [plan EXCEPT ![e] = p]
      /\ UNCHANGED <<vars, catalog, expected, last, frozen, late, listed>>
  BY DEF Rematch
<1>2. catalog \in Catalogs /\ DOMAIN plan = Editors /\ IsList(expected, Ids)
  BY DEF ListWhole, ListTyped, Kind
<1>3. IsList(p.new, Rows) /\ IsFiniteSet(DOMAIN p.new)
  BY <1>2, ReadyLinesType
<1>4. p.existing \subseteq Ids /\ (p.replace => p.existing = DOMAIN expected)
  BY <1>2 DEF IsList
<1>5. Prepared(p)
  BY <1>3, <1>4 DEF Prepared, IsPlan
<1>. HIDE DEF p
<1>6. DOMAIN plan' = Editors /\ \A d \in Editors : plan'[d] = IF d = e THEN p ELSE plan[d]
  BY <1>1, <1>2
<1>7. ListTyped'
  BY <1>1, <1>5, <1>6 DEF ListWhole, ListTyped, Kind
<1>8. PlansCurrent'
  BY <1>1, <1>4, <1>6 DEF ListWhole, PlansCurrent
<1>9. FrozenWhenFinalized' /\ BroughtLast'
  BY <1>1 DEF ListWhole, FrozenWhenFinalized, BroughtLast, Brought, vars, receive
<1>. QED
  BY <1>7, <1>8, <1>9 DEF ListWhole

LEMMA BesideKept ==
    ASSUME ListWhole, NEW s \in Sessions, Beside(s)
    PROVE  ListWhole'
<1>1. Remember(FALSE) /\ UNCHANGED <<catalog, expected, last, plan, listed>>
  BY DEF Beside
<1>2. Kind(expected') /\ IsList(frozen, Ids) /\ late \in BOOLEAN
  BY <1>1 DEF ListWhole, ListTyped
<1>3. IsList(frozen', Ids) /\ late' \in BOOLEAN
  BY <1>1, <1>2, RememberType
<1>4. ListTyped'
  BY <1>1, <1>2, <1>3 DEF ListWhole, ListTyped
<1>5. PlansCurrent' /\ BroughtLast'
  BY <1>1 DEF ListWhole, PlansCurrent, BroughtLast, Brought
<1>6. FrozenWhenFinalized'
  BY <1>1, BesideFrozen DEF ListWhole
<1>. QED
  BY <1>4, <1>5, <1>6 DEF ListWhole

LEMMA ListStutters ==
    ASSUME ListWhole, UNCHANGED <<vars, listVars>>
    PROVE  ListWhole'
BY DEF ListWhole, ListTyped, Kind, FrozenWhenFinalized, BroughtLast, Brought, PlansCurrent,
       vars, receive, listVars

LEMMA RecatalogKept ==
    ASSUME ListWhole, NEW c \in Catalogs, Recatalog(c)
    PROVE  ListWhole'
BY DEF Recatalog, ListWhole, ListTyped, Kind, FrozenWhenFinalized, BroughtLast, Brought, PlansCurrent,
       vars, receive

LEMMA ListWholeInit == ListInit => ListWhole
<1>1. SUFFICES ASSUME ListInit PROVE ListWhole
  OBVIOUS
<1>2. Kind(NoLines) /\ IsList(NoLines, Ids)
  <2>1. DOMAIN NoLines = {}
    BY DEF NoLines
  <2>. QED
    BY <2>1, FS_EmptySet DEF Kind, IsList
<1>3. ListTyped
  <2>1. 0 \in 0..MaxWrites
    BY PackingListAssumption
  <2>2. Kind(expected) /\ IsList(frozen, Ids)
    BY <1>1, <1>2 DEF ListInit
  <2>3. DOMAIN plan = Editors /\ \A e \in Editors : plan[e] = None
    BY <1>1 DEF ListInit
  <2>. QED
    BY <1>1, <2>1, <2>2, <2>3 DEF ListInit, ListTyped
<1>4. FrozenWhenFinalized
  BY <1>1 DEF ListInit, Init, FrozenWhenFinalized, Closed
<1>5. BroughtLast /\ PlansCurrent
  BY <1>1 DEF ListInit, BroughtLast, PlansCurrent
<1>. QED
  BY <1>3, <1>4, <1>5 DEF ListWhole

LEMMA ListWholeKept == ListWhole /\ [ListNext]_<<vars, listVars>> => ListWhole'
<1>1. SUFFICES ASSUME ListWhole, ListNext PROVE ListWhole'
  BY ListStutters
<1>. QED
  BY <1>1, AddKept, DeleteKept, CommitKept, RematchKept, BesideKept, RecatalogKept DEF ListNext

LEMMA ListWholeAlways == ListSpec => []ListWhole
  BY ListWholeInit, ListWholeKept, PTL DEF ListSpec

\* Catalog, expected lines, and the imports at hand keep their types: a row
\* becomes an expected line only with an item of the order and a quantity
\* (build_preview).
THEOREM ListTypeCorrect == ListSpec => []ListTypeOK
<1>1. ListWhole => ListTypeOK
  BY ListTypedIs DEF ListWhole
<1>. QED
  BY <1>1, ListWholeAlways, PTL

\* Only a session that had loaded the open receive changes the list of a
\* finalized one (_expected_lines_editable).
THEOREM ListStaysFrozen == ListSpec => []FrozenWhenFinalized
<1>1. ListWhole => FrozenWhenFinalized
  BY DEF ListWhole
<1>. QED
  BY <1>1, ListWholeAlways, PTL

\* A replacing import nobody wrote beside leaves exactly what it brought
\* (commit_expected_lines_import).
THEOREM ImportReplaces == ListSpec => []ReplaceReplaces
<1>1. ListWhole => ReplaceReplaces
  BY DEF ListWhole, BroughtLast, ReplaceReplaces
<1>. QED
  BY <1>1, ListWholeAlways, PTL

---------------------------------------------------------------------------
(* Sums, counted piece by piece, and the report that compares them.        *)

LEMMA TotalOfPositive ==
    ASSUME NEW D, IsFiniteSet(D), NEW m \in [D -> Nat \ {0}]
    PROVE  Total(m) \in Nat /\ (Total(m) = 0 <=> D = {})
<1>. DEFINE pieces == UNION {{k} \X (1..m[k]) : k \in DOMAIN m}
            P == {{k} \X (1..m[k]) : k \in D}
            f == [k \in D |-> {k} \X (1..m[k])]
<1>1. f \in Surjection(D, P)
  BY DEF Surjection
<1>2. IsFiniteSet(P)
  BY <1>1, FS_Surjection
<1>3. ASSUME NEW k \in D PROVE IsFiniteSet({k} \X (1..m[k]))
  <2>1. m[k] \in Int /\ 1 \in Int
    OBVIOUS
  <2>2. IsFiniteSet({k}) /\ IsFiniteSet(1..m[k])
    BY <2>1, FS_Singleton, FS_Interval
  <2>. QED
    BY <2>2, FS_Product, Zenon
<1>4. IsFiniteSet(UNION P)
  BY <1>2, <1>3, FS_UNION
<1>5. pieces = UNION P
  OBVIOUS
<1>6. D = {} => pieces = {}
  OBVIOUS
<1>7. ASSUME NEW k \in D PROVE <<k, 1>> \in pieces
  <2>1. 1 \in 1..m[k] /\ k \in DOMAIN m
    OBVIOUS
  <2>. QED
    BY <2>1
<1>. HIDE DEF pieces
<1>8. IsFiniteSet(pieces)
  BY <1>4, <1>5
<1>9. Cardinality(pieces) \in Nat /\ (Cardinality(pieces) = 0 <=> pieces = {})
  BY <1>8, FS_CardinalityType, FS_EmptySet
<1>10. Total(m) = Cardinality(pieces)
  BY DEF Total, pieces
<1>. QED
  BY <1>6, <1>7, <1>9, <1>10

LEMMA ExpectedSum ==
    ASSUME Kind(expected), NEW item
    PROVE  ExpectedOf(item) \in Nat /\ (ExpectedOf(item) = 0 <=> ~IsExpected(item))
<1>. DEFINE D == OfItem(expected, item)
            m == [k \in D |-> expected[k].qty]
<1>1. D \subseteq DOMAIN expected
  BY DEF OfItem
<1>2. IsFiniteSet(D)
  BY <1>1, FS_Subset DEF Kind
<1>3. m \in [D -> Nat \ {0}]
  BY <1>1 DEF Kind, IsList, Line
<1>4. ExpectedOf(item) = Total(m) /\ (IsExpected(item) <=> D # {})
  BY DEF ExpectedOf, IsExpected
<1>. HIDE DEF D, m
<1>. QED
  BY <1>2, <1>3, <1>4, TotalOfPositive

LEMMA CountedSum ==
    ASSUME NEW count \in Counts, NEW item
    PROVE  /\ CountedOf(count, item) \in Nat
           /\ CountedOf(count, item) = 0 <=> ~IsCounted(count, item)
<1>. DEFINE D == OfItem(count, item)
            m == [n \in D |-> count[n].declared]
<1>1. D \subseteq DOMAIN count
  BY DEF OfItem
<1>2. IsFiniteSet(D)
  <2>1. Len(count) \in Nat /\ DOMAIN count = 1..Len(count)
    BY PackingListAssumption DEF IsSeq
  <2>2. IsFiniteSet(DOMAIN count)
    BY <2>1, FS_Interval
  <2>. QED
    BY <1>1, <2>2, FS_Subset
<1>3. m \in [D -> Nat \ {0}]
  BY <1>1, PackingListAssumption
<1>4. CountedOf(count, item) = Total(m) /\ (IsCounted(count, item) <=> D # {})
  BY DEF CountedOf, IsCounted
<1>. HIDE DEF D, m
<1>. QED
  BY <1>2, <1>3, <1>4, TotalOfPositive

\* An item is reported as different exactly if its sums are.
LEMMA DifferenceIs ==
    ASSUME Kind(expected), NEW count \in Counts, NEW i \in Items
    PROVE  i \notin Differences(count) <=> CountedOf(count, i) = ExpectedOf(i)
<1>1. ExpectedOf(i) \in Nat /\ (ExpectedOf(i) = 0 <=> ~IsExpected(i))
  BY ExpectedSum
<1>2. CountedOf(count, i) \in Nat /\ (CountedOf(count, i) = 0 <=> ~IsCounted(count, i))
  BY CountedSum
<1>3. i \in Differences(count) <=>
        (IsExpected(i) \/ IsCounted(count, i)) /\ ReconcileStatus(count, i) # "match"
  BY DEF Differences, Reported
<1>4. CASE ~IsExpected(i)
  <2>1. ReconcileStatus(count, i) # "match"
    BY <1>4 DEF ReconcileStatus
  <2>. QED
    BY <1>1, <1>2, <1>3, <1>4, <2>1
<1>5. CASE IsExpected(i)
  <2>1. ReconcileStatus(count, i) = "match" <=>
          CountedOf(count, i) # 0 /\ CountedOf(count, i) = ExpectedOf(i)
    BY <1>1, <1>5 DEF ReconcileStatus
  <2>. QED
    BY <1>1, <1>2, <1>3, <1>5, <2>1
<1>. QED
  BY <1>4, <1>5

LEMMA CountsAsDeclared ==
    ASSUME NEW count \in Counts, \A n \in DOMAIN count : count[n].counted \in {None, count[n].declared},
           NEW item
    PROVE  TotalOf(count, item) = CountedOf(count, item)
<1>1. \A n \in OfItem(count, item) :
        (IF count[n].counted = None THEN count[n].declared ELSE count[n].counted) = count[n].declared
  BY DEF OfItem
<1>2. [n \in OfItem(count, item) |->
         IF count[n].counted = None THEN count[n].declared ELSE count[n].counted]
        = [n \in OfItem(count, item) |-> count[n].declared]
  BY <1>1
<1>. QED
  BY <1>2 DEF TotalOf, CountedOf

LEMMA QuietIsEqual == Kind(expected) => QuietReportIsEqual
<1>1. SUFFICES ASSUME Kind(expected), NEW count \in Counts,
                      \A n \in DOMAIN count : count[n].counted \in {None, count[n].declared}
               PROVE  Differences(count) = {} <=>
                        \A i \in Items : TotalOf(count, i) = ExpectedOf(i)
  BY DEF QuietReportIsEqual, ExpectedOf
<1>2. \A i \in Items : i \notin Differences(count) <=> TotalOf(count, i) = ExpectedOf(i)
  BY <1>1, DifferenceIs, CountsAsDeclared
<1>3. Differences(count) \subseteq Items
  BY DEF Differences, Reported
<1>. QED
  BY <1>2, <1>3

\* A report without differences and equal sums are the same, whatever was
\* imported and counted (build_reconciliation_report).
THEOREM QuietReports == ListSpec => []QuietReportIsEqual
<1>1. ListWhole => QuietReportIsEqual
  BY QuietIsEqual DEF ListWhole, ListTyped
<1>. QED
  BY <1>1, ListWholeAlways, PTL
=============================================================================
