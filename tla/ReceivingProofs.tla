--------------------------- MODULE ReceivingProofs ---------------------------
(***************************************************************************)
(* Theorems of Receiving for any number of lines, forms, posts and boxes.  *)
(***************************************************************************)
EXTENDS Receiving, FiniteSetTheorems, TLAPS

---------------------------------------------------------------------------
(* Sums, counted piece by piece                                            *)

Pieces(m) == UNION {{k} \X (1 .. m[k]) : k \in DOMAIN m}

LEMMA PiecesAre ==
    ASSUME NEW D, NEW m \in [D -> Nat]
    PROVE  \A x : x \in Pieces(m) <=> \E k \in D : \E n \in 1 .. m[k] : x = <<k, n>>
  BY DEF Pieces

LEMMA PiecesFinite ==
    ASSUME NEW D, IsFiniteSet(D), NEW m \in [D -> Nat]
    PROVE  IsFiniteSet(Pieces(m)) /\ Total(m) \in Nat
<1>. DEFINE P == {{k} \X (1 .. m[k]) : k \in D}
            f == [k \in D |-> {k} \X (1 .. m[k])]
<1>1. f \in Surjection(D, P)
  BY DEF Surjection
<1>2. IsFiniteSet(P)
  BY <1>1, FS_Surjection
<1>3. ASSUME NEW k \in D PROVE IsFiniteSet({k} \X (1 .. m[k]))
  <2>1. IsFiniteSet({k}) /\ IsFiniteSet(1 .. m[k])
    <3>1. m[k] \in Int /\ 1 \in Int
      OBVIOUS
    <3>. QED
      BY <3>1, FS_Singleton, FS_Interval
  <2>. QED
    BY <2>1, FS_Product, Zenon
<1>4. IsFiniteSet(UNION P)
  BY <1>2, <1>3, FS_UNION
<1>5. Pieces(m) = UNION P
  BY DEF Pieces
<1>. QED
  BY <1>4, <1>5, FS_CardinalityType DEF Total, Pieces

LEMMA TotalGrows ==
    ASSUME NEW D, NEW E, D \subseteq E, IsFiniteSet(E),
           NEW m \in [D -> Nat], NEW r \in [E -> Nat], \A k \in D : m[k] <= r[k]
    PROVE  Total(m) <= Total(r)
<1>1. Pieces(m) \subseteq Pieces(r)
  <2>1. ASSUME NEW x \in Pieces(m) PROVE x \in Pieces(r)
    <3>1. PICK k \in D, n \in Nat : n \in 1 .. m[k] /\ x = <<k, n>>
      BY <2>1, PiecesAre
    <3>2. k \in E /\ n \in 1 .. r[k]
      BY <3>1
    <3>. QED
      BY <3>1, <3>2, PiecesAre
  <2>. QED
    BY <2>1
<1>2. IsFiniteSet(Pieces(r))
  BY PiecesFinite
<1>. QED
  BY <1>1, <1>2, FS_Subset DEF Total, Pieces

LEMMA TotalAdds ==
    ASSUME NEW D, IsFiniteSet(D), NEW k, k \notin D,
           NEW m \in [D -> Nat], NEW r \in [D \cup {k} -> Nat], \A j \in D : m[j] = r[j]
    PROVE  Total(r) = Total(m) + r[k]
<1>. DEFINE P == {k} \X (1 .. r[k])
<1>1. r[k] \in Nat
  OBVIOUS
<1>2. IsFiniteSet(P) /\ Cardinality(P) = r[k]
  <2>1. IsFiniteSet({k}) /\ Cardinality({k}) = 1
    BY FS_Singleton
  <2>2. IsFiniteSet(1 .. r[k]) /\ Cardinality(1 .. r[k]) = r[k]
    BY <1>1, FS_Interval
  <2>3. IsFiniteSet(P) /\ Cardinality(P) = Cardinality({k}) * Cardinality(1 .. r[k])
    BY <2>1, <2>2, FS_Product, Zenon
  <2>. QED
    BY <1>1, <2>1, <2>2, <2>3
<1>3. Pieces(r) = Pieces(m) \cup P /\ Pieces(m) \cap P = {}
  <2>1. \A x : x \in P <=> \E n \in 1 .. r[k] : x = <<k, n>>
    OBVIOUS
  <2>2. \A x : x \in Pieces(m) <=> \E j \in D : \E n \in 1 .. m[j] : x = <<j, n>>
    BY PiecesAre
  <2>3. \A x : x \in Pieces(r) <=> \E j \in D \cup {k} : \E n \in 1 .. r[j] : x = <<j, n>>
    BY PiecesAre
  <2>. HIDE DEF P
  <2>4. Pieces(r) = Pieces(m) \cup P
    <3>1. \A x : x \in Pieces(r) <=> x \in Pieces(m) \/ x \in P
      BY <2>1, <2>2, <2>3
    <3>. QED
      BY <3>1
  <2>5. Pieces(m) \cap P = {}
    BY <2>1, <2>2
  <2>. QED
    BY <2>4, <2>5
<1>4. IsFiniteSet(Pieces(m))
  BY PiecesFinite
<1>5. Cardinality(Pieces(m) \cup P) = Cardinality(Pieces(m)) + Cardinality(P) - Cardinality({})
  BY <1>2, <1>3, <1>4, FS_Union
<1>6. Cardinality({}) = 0 /\ Cardinality(Pieces(m)) \in Nat
  BY <1>4, FS_EmptySet, FS_CardinalityType
<1>. HIDE DEF P
<1>. QED
  BY <1>1, <1>2, <1>3, <1>5, <1>6 DEF Total, Pieces

---------------------------------------------------------------------------
(* Types, in parts                                                         *)

IsPost(q) ==
    /\ q \in [pc : {"idle", "body", "adopting", "lines", "saved"}, form : Submissions,
              stale : BOOLEAN, seen : {"none", "shipped", "received"},
              next : 1 .. NumLines + 1, staged : {q.staged}]
    /\ IsStaged(q.staged)

PostTypes ==
    /\ post = [p \in Posts |-> post[p]]
    /\ \A p \in Posts : IsPost(post[p])

JobTypes ==
    /\ job \in [pc : {"idle", "synced", "looked", "lines", "down"},
               seen : {"none", "shipped", "received"},
               next : 1 .. NumLines + 1, staged : {job.staged}]
    /\ IsStaged(job.staged)

BoxTypes ==
    /\ DOMAIN boxes \subseteq Sources \X Lines
    /\ \A k \in DOMAIN boxes : boxes[k] \in Box

CountTypes ==
    /\ Units(zoho) /\ Units(direct)
    /\ \A l \in Lines : direct[l] <= zoho[l] /\ direct[l] <= MaxDirect
    /\ mirror = NoRow \/ Units(mirror)

HistoryTypes ==
    /\ luma \in [Submissions \X Lines -> Nat]
    /\ recorded \in [Submissions -> Nat]

LEMMA TypeParts ==
    TypeOK <=>
        /\ order \in {"none", "shipped", "received"}
        /\ BoxTypes /\ CountTypes /\ HistoryTypes /\ PostTypes /\ JobTypes
        /\ Cardinality(OnLoop) <= 1
<1>. DEFINE S == {post[p].staged : p \in Posts}
            R(T) == [pc : {"idle", "body", "adopting", "lines", "saved"}, form : Submissions,
                     stale : BOOLEAN, seen : {"none", "shipped", "received"},
                     next : 1 .. NumLines + 1, staged : T]
<1>1. (post \in [Posts -> R(S)] /\ \A p \in Posts : IsStaged(post[p].staged)) <=> PostTypes
  <2>1. ASSUME post \in [Posts -> R(S)], \A p \in Posts : IsStaged(post[p].staged)
        PROVE  PostTypes
    BY <2>1 DEF PostTypes, IsPost
  <2>2. ASSUME PostTypes
        PROVE  post \in [Posts -> R(S)] /\ \A p \in Posts : IsStaged(post[p].staged)
    <3>1. ASSUME NEW p \in Posts PROVE post[p] \in R(S) /\ IsStaged(post[p].staged)
      BY <2>2 DEF PostTypes, IsPost
    <3>. HIDE DEF R, S
    <3>. QED
      BY <2>2, <3>1 DEF PostTypes
  <2>. QED
    BY <2>1, <2>2
<1>. QED
  BY <1>1 DEF TypeOK, BoxTypes, CountTypes, HistoryTypes, JobTypes

LEMMA NothingStaged ==
    /\ IsStaged(Nothing) /\ DOMAIN Nothing = {}
    /\ \A m : IsStaged(m) => (m = Nothing <=> DOMAIN m = {})
<1>1. DOMAIN Nothing = {} /\ IsStaged(Nothing)
  BY DEF Nothing, IsStaged
<1>2. ASSUME NEW m, IsStaged(m), DOMAIN m = {} PROVE m = Nothing
  BY <1>2 DEF IsStaged, Nothing
<1>. QED
  BY <1>1, <1>2

LEMMA IdleIsPost ==
    ASSUME ReceivingAssumption
    PROVE  IsPost(Idle) /\ Idle.pc = "idle" /\ Idle.staged = Nothing
<1>1. (CHOOSE s \in Submissions : TRUE) \in Submissions
  BY DEF ReceivingAssumption
<1>2. 1 \in 1 .. NumLines + 1
  BY DEF ReceivingAssumption
<1>. QED
  BY <1>1, <1>2, NothingStaged DEF IsPost, Idle

LEMMA AsleepIsJob ==
    ASSUME ReceivingAssumption, job' = Asleep \/ job' = Down
    PROVE  JobTypes' /\ job'.pc \in {"idle", "down"} /\ job'.staged = Nothing
<1>1. 1 \in 1 .. NumLines + 1
  BY DEF ReceivingAssumption
<1>. QED
  BY <1>1, NothingStaged DEF JobTypes, Asleep, Down

LEMMA FilledIsBox ==
    ASSUME ReceivingAssumption, NEW f \in Fills \cup Typed
    PROVE  NewBox(f) \in Box /\ NewBox(f).declared \in Nat
<1>1. f[1] \in Nat /\ Accepted(f) \in Nat
  BY DEF ReceivingAssumption, Accepted
<1>. QED
  BY <1>1 DEF NewBox, Box

---------------------------------------------------------------------------
(* One post takes a step                                                   *)

Stepped(p, q) == PostTypes' /\ post'[p] = q /\ \A r \in Posts \ {p} : post'[r] = post[r]

LEMMA PostSteps ==
    ASSUME PostTypes, NEW p \in Posts, NEW q, IsPost(q), post' = [post EXCEPT ![p] = q]
    PROVE  Stepped(p, q)
<1>1. post'[p] = q /\ \A r \in Posts \ {p} : post'[r] = post[r]
  BY DEF PostTypes
<1>2. post' = [r \in Posts |-> post'[r]]
  BY DEF PostTypes
<1>3. \A r \in Posts : IsPost(post'[r])
  BY <1>1 DEF PostTypes
<1>. QED
  BY <1>1, <1>2, <1>3 DEF Stepped, PostTypes, IsPost, IsStaged, Box, Lines

LEMMA PostStops ==
    ASSUME ReceivingAssumption, PostTypes, NEW p \in Posts, Stop(p)
    PROVE  Stepped(p, Idle)
  BY IdleIsPost, PostSteps DEF Stop

LEMMA ArriveEffect ==
    ASSUME ReceivingAssumption, PostTypes, NEW p \in Posts, NEW s \in Submissions, Arrive(p, s)
    PROVE  \E q : /\ Stepped(p, q) /\ post[p].pc = "idle" /\ q.pc = "body"
                  /\ q.staged = post[p].staged /\ OnLoop = {}
<1>. PICK r : r = post[p]
  OBVIOUS
<1>. DEFINE q == [r EXCEPT !.pc = "body", !.form = s]
<1>1. IsPost(r)
  BY DEF PostTypes
<1>2. IsPost(q) /\ q.pc = "body" /\ q.staged = r.staged
  BY <1>1 DEF IsPost
<1>3. post' = [post EXCEPT ![p] = q]
  BY DEF Arrive
<1>. HIDE DEF q
<1>4. Stepped(p, q)
  BY <1>2, <1>3, PostSteps
<1>. QED
  BY <1>2, <1>4 DEF Arrive, LoopFree

LEMMA JudgeEffect ==
    ASSUME ReceivingAssumption, PostTypes, order \in {"none", "shipped", "received"},
           NEW p \in Posts, Judge(p)
    PROVE  /\ post[p].pc = "body" /\ OnLoop = {}
           /\ \/ Stepped(p, Idle)
              \/ /\ Unboxed(post[p].form)
                 /\ \E q : /\ Stepped(p, q) /\ q.pc = "adopting" /\ q.form = post[p].form
                           /\ q.staged = post[p].staged /\ q.next \in Lines
<1>1. CASE Stop(p)
  BY <1>1, PostStops DEF Judge, LoopFree
<1>2. ASSUME NEW l \in Lines, ~AlreadyProcessed(post[p].form),
             post' = [post EXCEPT ![p].pc = "adopting", ![p].seen = order, ![p].next = l]
      PROVE  /\ Unboxed(post[p].form)
             /\ \E q : /\ Stepped(p, q) /\ q.pc = "adopting" /\ q.form = post[p].form
                       /\ q.staged = post[p].staged /\ q.next \in Lines
  <2>. PICK r : r = post[p]
    OBVIOUS
  <2>. PICK o \in {"none", "shipped", "received"} : o = order
    OBVIOUS
  <2>. DEFINE q == [r EXCEPT !.pc = "adopting", !.seen = o, !.next = l]
  <2>1. IsPost(r) /\ l \in 1 .. NumLines + 1
    BY DEF PostTypes, Lines, ReceivingAssumption
  <2>2. IsPost(q) /\ q.pc = "adopting" /\ q.form = r.form /\ q.staged = r.staged /\ q.next = l
    BY <2>1 DEF IsPost
  <2>3. post' = [post EXCEPT ![p] = q]
    BY <1>2
  <2>. HIDE DEF q
  <2>4. Stepped(p, q)
    BY <2>2, <2>3, PostSteps
  <2>. QED
    BY <1>2, <2>2, <2>4 DEF AlreadyProcessed, Unboxed
<1>. QED
  BY <1>1, <1>2 DEF Judge, LoopFree

LEMMA AdoptEffect ==
    ASSUME ReceivingAssumption, PostTypes, order \in {"none", "shipped", "received"},
           NEW p \in Posts, Adopt(p)
    PROVE  /\ post[p].pc = "adopting" /\ order' \in {"none", "shipped", "received"}
           /\ \/ Stepped(p, Idle)
              \/ \E q : /\ Stepped(p, q) /\ q.pc = "lines" /\ q.form = post[p].form
                        /\ q.staged = post[p].staged /\ q.next = post[p].next
<1>0. post[p].pc = "adopting" /\ order' \in {"none", "shipped", "received"}
  BY DEF Adopt, AfterAdopting
<1>1. CASE Stop(p)
  BY <1>0, <1>1, PostStops
<1>2. CASE post' = [post EXCEPT ![p].pc = "lines", ![p].seen = "none"]
  <2>. PICK r : r = post[p]
    OBVIOUS
  <2>. DEFINE q == [r EXCEPT !.pc = "lines", !.seen = "none"]
  <2>1. IsPost(r)
    BY DEF PostTypes
  <2>2. IsPost(q) /\ q.pc = "lines" /\ q.form = r.form /\ q.staged = r.staged /\ q.next = r.next
    BY <2>1 DEF IsPost
  <2>3. post' = [post EXCEPT ![p] = q]
    BY <1>2
  <2>. HIDE DEF q
  <2>4. Stepped(p, q)
    BY <2>2, <2>3, PostSteps
  <2>. QED
    BY <1>0, <2>2, <2>4
<1>. QED
  BY <1>1, <1>2 DEF Adopt

LEMMA BoxLineEffect ==
    ASSUME ReceivingAssumption, PostTypes, NEW p \in Posts, BoxLine(p)
    PROVE  LET r == post[p]
               l == r.next IN
           /\ r.pc = "lines" /\ l \in Lines /\ r.form \in Submissions
           /\ luma' = [luma EXCEPT ![<<r.form, l>>] = @ + 1]
           /\ \E q : /\ Stepped(p, q) /\ q.pc = "lines" /\ q.form = r.form /\ q.next = l + 1
                     /\ DOMAIN q.staged = DOMAIN r.staged \cup {l} /\ q.staged # Nothing
<1>. PICK r : r = post[p]
  OBVIOUS
<1>1. IsPost(r) /\ r.form \in Submissions /\ IsStaged(r.staged) /\ r.next \in Lines /\ r.pc = "lines"
  BY DEF PostTypes, IsPost, BoxLine
<1>2. PICK l \in Lines : l = r.next
  BY <1>1
<1>. DEFINE new(f) == Staging(r.staged, l, NewBox(f))
<1>3. PICK f \in Fills : post' = [post EXCEPT ![p].staged = new(f), ![p].next = l + 1]
  BY <1>2 DEF BoxLine
<1>4. IsStaged(new(f)) /\ DOMAIN new(f) = DOMAIN r.staged \cup {l}
  BY <1>1, FilledIsBox DEF IsStaged, Staging
<1>5. new(f) # Nothing
  BY <1>4, NothingStaged
<1>6. l + 1 \in 1 .. NumLines + 1
  BY DEF Lines, ReceivingAssumption
<1>. HIDE DEF new
<1>. DEFINE q == [r EXCEPT !.staged = new(f), !.next = l + 1]
<1>7. IsPost(q) /\ q.pc = "lines" /\ q.form = r.form /\ q.next = l + 1 /\ q.staged = new(f)
  BY <1>1, <1>4, <1>6 DEF IsPost
<1>9. post' = [post EXCEPT ![p] = q]
  BY <1>3
<1>. HIDE DEF q
<1>10. Stepped(p, q)
  BY <1>7, <1>9, PostSteps
<1>11. luma' = [luma EXCEPT ![<<r.form, l>>] = @ + 1]
  BY <1>2 DEF BoxLine
<1>. QED
  BY <1>1, <1>2, <1>4, <1>5, <1>7, <1>10, <1>11

LEMMA SkipLineEffect ==
    ASSUME ReceivingAssumption, PostTypes, NEW p \in Posts, SkipLine(p)
    PROVE  /\ post[p].pc = "lines" /\ post[p].next \in Lines /\ post[p].staged # Nothing
           /\ \E q : /\ Stepped(p, q) /\ q.pc = "lines" /\ q.form = post[p].form
                     /\ q.next = post[p].next + 1 /\ q.staged = post[p].staged
<1>. PICK r : r = post[p]
  OBVIOUS
<1>. DEFINE q == [r EXCEPT !.next = r.next + 1]
<1>1. IsPost(r) /\ r.next \in Lines /\ r.pc = "lines"
  BY DEF PostTypes, IsPost, SkipLine
<1>2. r.next + 1 \in 1 .. NumLines + 1
  BY <1>1 DEF Lines, ReceivingAssumption
<1>3. IsPost(q) /\ q.pc = "lines" /\ q.form = r.form /\ q.next = r.next + 1 /\ q.staged = r.staged
  BY <1>1, <1>2 DEF IsPost
<1>4. post' = [post EXCEPT ![p] = q]
  BY DEF SkipLine
<1>. HIDE DEF q
<1>5. Stepped(p, q)
  BY <1>3, <1>4, PostSteps
<1>. QED
  BY <1>1, <1>3, <1>5 DEF SkipLine

LEMMA SaveEffect ==
    ASSUME ReceivingAssumption, PostTypes, NEW p \in Posts, Save(p)
    PROVE  LET r == post[p] IN
           /\ r.pc = "lines" /\ r.next = NumLines + 1 /\ r.form \in Submissions /\ IsStaged(r.staged)
           /\ boxes' = WithBoxes(r.form, DOMAIN r.staged, r.staged)
           /\ recorded' = [recorded EXCEPT ![r.form] = @ + 1]
           /\ \E q : /\ Stepped(p, q) /\ q.pc = "saved" /\ q.form = r.form
                     /\ q.next = 1 /\ q.staged = r.staged
<1>. PICK r : r = post[p]
  OBVIOUS
<1>. DEFINE q == [r EXCEPT !.pc = "saved", !.next = 1]
<1>1. IsPost(r) /\ r.form \in Submissions /\ IsStaged(r.staged) /\ 1 \in 1 .. NumLines + 1
  BY DEF PostTypes, IsPost, ReceivingAssumption
<1>2. IsPost(q) /\ q.pc = "saved" /\ q.form = r.form /\ q.next = 1 /\ q.staged = r.staged
  BY <1>1 DEF IsPost
<1>3. post' = [post EXCEPT ![p] = q]
  BY DEF Save
<1>. HIDE DEF q
<1>4. Stepped(p, q)
  BY <1>2, <1>3, PostSteps
<1>. QED
  BY <1>1, <1>2, <1>4 DEF Save, LinesOf

LEMMA TellEffect ==
    ASSUME ReceivingAssumption, PostTypes, NEW p \in Posts, TellZoho(p)
    PROVE  LET r == post[p] IN
           /\ r.pc = "saved"
           /\ \E l \in Untold(r) :
                /\ l \in Lines /\ r.staged[l] \in Box
                /\ zoho' = zoho \/ zoho' = [zoho EXCEPT ![l] = @ + r.staged[l].declared]
                /\ \E q : /\ Stepped(p, q) /\ q.pc = "saved" /\ q.form = r.form
                          /\ q.next = l + 1 /\ q.staged = r.staged
<1>. PICK r : r = post[p]
  OBVIOUS
<1>1. IsPost(r) /\ r.form \in Submissions /\ IsStaged(r.staged) /\ r.pc = "saved"
  BY DEF PostTypes, IsPost, TellZoho
<1>2. PICK l \in Untold(r) :
         /\ \E applied \in UNION {Applied(a) : a \in Answers} :
              zoho' = IF applied THEN [zoho EXCEPT ![l] = @ + r.staged[l].declared] ELSE zoho
         /\ post' = [post EXCEPT ![p].next = l + 1]
  BY DEF TellZoho
<1>3. zoho' = zoho \/ zoho' = [zoho EXCEPT ![l] = @ + r.staged[l].declared]
  BY <1>2
<1>4. l \in Lines /\ r.staged[l] \in Box /\ l + 1 \in 1 .. NumLines + 1
  BY <1>1 DEF Untold, IsStaged, Lines, ReceivingAssumption
<1>. DEFINE q == [r EXCEPT !.next = l + 1]
<1>5. IsPost(q) /\ q.pc = "saved" /\ q.form = r.form /\ q.next = l + 1 /\ q.staged = r.staged
  BY <1>1, <1>4 DEF IsPost
<1>6. post' = [post EXCEPT ![p] = q]
  BY <1>2
<1>. HIDE DEF q
<1>7. Stepped(p, q)
  BY <1>5, <1>6, PostSteps
<1>. QED
  BY <1>1, <1>3, <1>4, <1>5, <1>7

LEMMA StoppedEffect ==
    ASSUME ReceivingAssumption, PostTypes, NEW p \in Posts, LineFails(p) \/ Answer(p)
    PROVE  Stepped(p, Idle) /\ post[p].pc \in {"lines", "saved"}
  BY PostStops DEF LineFails, Answer

\* What the properties tell of a post.
Kept(r) ==
    /\ post'[r].pc = post[r].pc /\ post'[r].form = post[r].form
    /\ post'[r].next = post[r].next /\ post'[r].staged = post[r].staged

PostsKept == PostTypes' /\ \A r \in Posts : Kept(r)

LEMMA PostUnchanged ==
    ASSUME PostTypes, UNCHANGED post
    PROVE  PostsKept
<1>1. post' = [r \in Posts |-> post'[r]]
  BY DEF PostTypes
<1>. QED
  BY <1>1 DEF PostsKept, PostTypes, Kept, IsPost, IsStaged, Box, Lines

LEMMA ReplaceEffect ==
    ASSUME PostTypes, NEW row, Replace(row)
    PROVE  PostsKept
<1>1. ASSUME NEW r \in Posts PROVE IsPost(post'[r]) /\ Kept(r)
  <2>. PICK x : x = post[r]
    OBVIOUS
  <2>1. IsPost(x)
    BY DEF PostTypes
  <2>. DEFINE q == [x EXCEPT !.stale = TRUE]
  <2>2. /\ IsPost(q) /\ q.pc = x.pc /\ q.form = x.form /\ q.next = x.next /\ q.staged = x.staged
    BY <2>1 DEF IsPost
  <2>3. post'[r] = x \/ post'[r] = q
    BY DEF Replace
  <2>. HIDE DEF q
  <2>. QED
    BY <2>1, <2>2, <2>3 DEF Kept
<1>2. post' = [r \in Posts |-> post'[r]]
  BY DEF Replace
<1>. QED
  BY <1>1, <1>2 DEF PostsKept, PostTypes, IsPost, IsStaged, Box, Lines

LEMMA CrashEffect ==
    ASSUME ReceivingAssumption, Crash
    PROVE  /\ PostTypes' /\ \A r \in Posts : post'[r] = Idle
           /\ JobTypes' /\ job'.pc \in {"idle", "down"} /\ job'.staged = Nothing
<1>1. post' = [r \in Posts |-> post'[r]] /\ \A r \in Posts : post'[r] = Idle
  BY DEF Crash
<1>. QED
  BY <1>1, IdleIsPost, AsleepIsJob DEF Crash, PostTypes, IsPost, IsStaged, Box, Lines

---------------------------------------------------------------------------
(* The job takes a step                                                    *)

\* The job moves on, with what it has staged.
JobMoves(pcs) == JobTypes' /\ job'.pc \in pcs /\ job'.staged = job.staged

JobRests == JobTypes' /\ job'.pc \in {"idle", "down"} /\ job'.staged = Nothing

LEMMA JobUnchanged ==
    ASSUME JobTypes, UNCHANGED job
    PROVE  JobMoves({job.pc})
  BY DEF JobTypes, JobMoves, IsStaged, Box, Lines

LEMMA StartEffect ==
    ASSUME JobTypes, job' = [job EXCEPT !.pc = "synced"]
    PROVE  JobMoves({"synced"})
<1>. PICK j : j = job
  OBVIOUS
<1>1. j \in [pc : {"idle", "synced", "looked", "lines", "down"},
             seen : {"none", "shipped", "received"},
             next : 1 .. NumLines + 1, staged : {j.staged}] /\ IsStaged(j.staged)
  BY DEF JobTypes
<1>. DEFINE q == [j EXCEPT !.pc = "synced"]
<1>2. /\ q \in [pc : {"idle", "synced", "looked", "lines", "down"},
                seen : {"none", "shipped", "received"},
                next : 1 .. NumLines + 1, staged : {q.staged}]
      /\ IsStaged(q.staged) /\ q.pc = "synced" /\ q.staged = j.staged
  BY <1>1
<1>3. job' = q
  OBVIOUS
<1>. HIDE DEF q
<1>. QED
  BY <1>2, <1>3 DEF JobMoves, JobTypes, IsStaged, Box, Lines

LEMMA LookEffect ==
    ASSUME ReceivingAssumption, JobTypes, order \in {"none", "shipped", "received"}, Look
    PROVE  JobRests \/ (JobMoves({"looked"}) /\ mirror # NoRow)
<1>1. CASE job' = Asleep
  BY <1>1, AsleepIsJob DEF JobRests
<1>2. CASE mirror # NoRow /\ job' = [job EXCEPT !.pc = "looked", !.seen = order]
  <2>. PICK j : j = job
    OBVIOUS
  <2>. PICK o \in {"none", "shipped", "received"} : o = order
    OBVIOUS
  <2>1. j \in [pc : {"idle", "synced", "looked", "lines", "down"},
               seen : {"none", "shipped", "received"},
               next : 1 .. NumLines + 1, staged : {j.staged}] /\ IsStaged(j.staged)
    BY DEF JobTypes
  <2>. DEFINE q == [j EXCEPT !.pc = "looked", !.seen = o]
  <2>2. /\ q \in [pc : {"idle", "synced", "looked", "lines", "down"},
                  seen : {"none", "shipped", "received"},
                  next : 1 .. NumLines + 1, staged : {q.staged}]
        /\ IsStaged(q.staged) /\ q.pc = "looked" /\ q.staged = j.staged
    BY <2>1
  <2>3. job' = q
    BY <1>2
  <2>. HIDE DEF q
  <2>. QED
    BY <1>2, <2>2, <2>3 DEF JobMoves, JobTypes, IsStaged, Box, Lines
<1>. QED
  BY <1>1, <1>2 DEF Look

LEMMA JobAdoptsEffect ==
    ASSUME ReceivingAssumption, JobTypes, order \in {"none", "shipped", "received"}, JobAdopts
    PROVE  /\ order' \in {"none", "shipped", "received"} /\ job.pc = "looked"
           /\ JobRests \/ JobMoves({"lines"})
<1>1. CASE job' = Asleep /\ UNCHANGED order
  BY <1>1, AsleepIsJob DEF JobRests, JobAdopts
<1>2. CASE order' = AfterAdopting(job.seen) /\ job' = [job EXCEPT !.pc = "lines", !.seen = "none"]
  <2>. PICK j : j = job
    OBVIOUS
  <2>1. j \in [pc : {"idle", "synced", "looked", "lines", "down"},
               seen : {"none", "shipped", "received"},
               next : 1 .. NumLines + 1, staged : {j.staged}] /\ IsStaged(j.staged)
    BY DEF JobTypes
  <2>. DEFINE q == [j EXCEPT !.pc = "lines", !.seen = "none"]
  <2>2. /\ q \in [pc : {"idle", "synced", "looked", "lines", "down"},
                  seen : {"none", "shipped", "received"},
                  next : 1 .. NumLines + 1, staged : {q.staged}]
        /\ IsStaged(q.staged) /\ q.pc = "lines" /\ q.staged = j.staged
    BY <2>1
  <2>3. job' = q
    BY <1>2
  <2>4. order' \in {"none", "shipped", "received"}
    BY <1>2 DEF AfterAdopting
  <2>. HIDE DEF q
  <2>. QED
    BY <2>2, <2>3, <2>4 DEF JobMoves, JobTypes, IsStaged, Box, Lines, JobAdopts
<1>. QED
  BY <1>1, <1>2 DEF JobAdopts

\* A line is missed by its mirror row less what its boxes cover.
MissedOn(l, box) ==
    /\ mirror[l] > Covered(l)
    /\ box = [declared |-> mirror[l] - Covered(l), accepted |-> mirror[l] - Covered(l)]

LEMMA CatchUpLineEffect ==
    ASSUME ReceivingAssumption, JobTypes, Units(mirror), \A l \in Lines : Covered(l) \in Nat,
           CatchUpLine
    PROVE  /\ job.pc = "lines" /\ JobTypes' /\ job'.pc = "lines"
           /\ \/ job'.staged = job.staged
              \/ \E l \in Lines : \E box \in Box :
                    MissedOn(l, box) /\ job'.staged = Staging(job.staged, l, box)
<1>. PICK j : j = job
  OBVIOUS
<1>1. j \in [pc : {"idle", "synced", "looked", "lines", "down"},
             seen : {"none", "shipped", "received"},
             next : 1 .. NumLines + 1, staged : {j.staged}] /\ IsStaged(j.staged)
      /\ j.pc = "lines" /\ j.next \in Lines
  BY DEF JobTypes, CatchUpLine
<1>2. PICK l \in Lines : l = j.next
  BY <1>1
<1>3. l + 1 \in 1 .. NumLines + 1
  BY DEF Lines, ReceivingAssumption
<1>. PICK c : c = Covered(l)
  OBVIOUS
<1>. PICK n : n = mirror[l]
  OBVIOUS
<1>4. c \in Nat /\ n \in Nat
  BY DEF Units
<1>. DEFINE box == [declared |-> n - c, accepted |-> n - c]
            keep == [j EXCEPT !.next = l + 1, !.staged = j.staged]
            add == [j EXCEPT !.next = l + 1, !.staged = Staging(j.staged, l, box)]
<1>5. job' = keep \/ (n > c /\ job' = add)
  <2>1. CASE Missing(l)
    BY <1>1, <1>2, <2>1 DEF CatchUpLine, Missing
  <2>2. CASE ~Missing(l)
    BY <1>1, <1>2, <2>2 DEF CatchUpLine
  <2>. QED
    BY <2>1, <2>2
<1>6. CASE job' = keep
  <2>1. /\ keep \in [pc : {"idle", "synced", "looked", "lines", "down"},
                     seen : {"none", "shipped", "received"},
                     next : 1 .. NumLines + 1, staged : {keep.staged}]
        /\ IsStaged(keep.staged) /\ keep.pc = "lines" /\ keep.staged = j.staged
    BY <1>1, <1>3
  <2>. HIDE DEF keep
  <2>. QED
    BY <1>1, <1>6, <2>1 DEF JobTypes, IsStaged, Box, Lines
<1>7. CASE n > c /\ job' = add
  <2>1. box \in Box /\ MissedOn(l, box)
    BY <1>4, <1>7 DEF Box, MissedOn
  <2>. HIDE DEF box
  <2>2. IsStaged(Staging(j.staged, l, box))
    BY <1>1, <2>1 DEF IsStaged, Staging
  <2>3. /\ add \in [pc : {"idle", "synced", "looked", "lines", "down"},
                    seen : {"none", "shipped", "received"},
                    next : 1 .. NumLines + 1, staged : {add.staged}]
        /\ IsStaged(add.staged) /\ add.pc = "lines" /\ add.staged = Staging(j.staged, l, box)
    BY <1>1, <1>3, <2>2
  <2>. HIDE DEF add
  <2>4. job'.staged = Staging(job.staged, l, box)
    BY <1>7, <2>3
  <2>. QED
    BY <1>1, <1>7, <2>1, <2>3, <2>4 DEF JobTypes, IsStaged, Box, Lines
<1>. QED
  BY <1>5, <1>6, <1>7

---------------------------------------------------------------------------
(* Boxes are added                                                         *)

\* Boxes of the source for the lines, and no others.
Gained(s, ls, staged) ==
    /\ DOMAIN boxes' = DOMAIN boxes \cup ({s} \X ls)
    /\ \A m \in ls : boxes'[<<s, m>>] = staged[m]
    /\ \A k \in DOMAIN boxes : k \notin {s} \X ls => boxes'[k] = boxes[k]

LEMMA BoxesAdded ==
    ASSUME BoxTypes, NEW s \in Sources, NEW ls, ls \subseteq Lines, NEW staged,
           \A m \in ls : staged[m] \in Box, boxes' = WithBoxes(s, ls, staged)
    PROVE  BoxTypes' /\ Gained(s, ls, staged)
<1>1. DOMAIN boxes' = DOMAIN boxes \cup ({s} \X ls)
  BY DEF WithBoxes
<1>2. \A m \in ls : boxes'[<<s, m>>] = staged[m]
  BY DEF WithBoxes
<1>3. \A k \in DOMAIN boxes : ~(k[1] = s /\ k[2] \in ls) => boxes'[k] = boxes[k]
  BY DEF WithBoxes
<1>4. DOMAIN boxes' \subseteq Sources \X Lines
  BY <1>1 DEF BoxTypes
<1>5. ASSUME NEW k \in DOMAIN boxes' PROVE boxes'[k] \in Box
  <2>1. CASE k[1] = s /\ k[2] \in ls
    <3>1. boxes'[k] = staged[k[2]]
      BY <1>5, <2>1 DEF WithBoxes
    <3>. QED
      BY <2>1, <3>1
  <2>2. CASE ~(k[1] = s /\ k[2] \in ls)
    <3>1. k \in DOMAIN boxes
      BY <1>1, <1>5, <2>2
    <3>. QED
      BY <1>3, <2>2, <3>1 DEF BoxTypes
  <2>. QED
    BY <2>1, <2>2
<1>6. BoxTypes'
  BY <1>4, <1>5 DEF BoxTypes, Sources, Lines, Box
<1>7. \A k \in DOMAIN boxes : k = <<k[1], k[2]>>
  BY DEF BoxTypes
<1>. QED
  BY <1>1, <1>2, <1>3, <1>6, <1>7 DEF Gained

LEMMA LinesFinite ==
    ASSUME ReceivingAssumption, NEW ls, ls \subseteq Lines
    PROVE  IsFiniteSet(ls)
<1>1. IsFiniteSet(1 .. NumLines)
  BY FS_Interval DEF ReceivingAssumption
<1>. QED
  BY <1>1, FS_Subset DEF Lines

LEMMA AddedFinite ==
    ASSUME ReceivingAssumption, BoxesFinite, NEW s, NEW ls, ls \subseteq Lines, NEW staged,
           Gained(s, ls, staged)
    PROVE  BoxesFinite'
<1>1. IsFiniteSet({s}) /\ IsFiniteSet(ls)
  BY FS_Singleton, LinesFinite
<1>2. IsFiniteSet({s} \X ls)
  BY <1>1, FS_Product, Zenon
<1>3. IsFiniteSet(DOMAIN boxes \cup ({s} \X ls))
  BY <1>2, FS_Union DEF BoxesFinite
<1>. QED
  BY <1>3 DEF BoxesFinite, Gained

LEMMA CartonEffect ==
    ASSUME ReceivingAssumption, BoxTypes, BoxesFinite,
           NEW c \in Cartons, NEW l \in Lines, AddCarton(c, l)
    PROVE  BoxTypes' /\ BoxesFinite' /\ \E staged : Gained(c, {l}, staged)
<1>1. PICK f \in Typed : boxes' = WithBoxes(c, {l}, [m \in {l} |-> NewBox(f)])
  BY DEF AddCarton, CreateBox
<1>. DEFINE staged == [m \in {l} |-> NewBox(f)]
<1>2. \A m \in {l} : staged[m] \in Box
  BY FilledIsBox
<1>3. c \in Sources /\ {l} \subseteq Lines /\ boxes' = WithBoxes(c, {l}, staged)
  BY <1>1 DEF Sources
<1>. HIDE DEF staged
<1>4. BoxTypes' /\ Gained(c, {l}, staged)
  BY <1>2, <1>3, BoxesAdded
<1>5. BoxesFinite'
  BY <1>3, <1>4, AddedFinite
<1>. QED
  BY <1>4, <1>5

LEMMA CatchUpEffect ==
    ASSUME ReceivingAssumption, BoxTypes, BoxesFinite, JobTypes,
           order \in {"none", "shipped", "received"}, CatchUp
    PROVE  /\ BoxTypes' /\ BoxesFinite' /\ order' \in {"none", "shipped", "received"} /\ JobRests
           /\ DOMAIN job.staged \subseteq Lines
           /\ Gained(Backfill, DOMAIN job.staged, job.staged)
<1>. PICK staged : staged = job.staged
  OBVIOUS
<1>1. DOMAIN staged \subseteq Lines /\ \A m \in DOMAIN staged : staged[m] \in Box
  BY DEF JobTypes, IsStaged
<1>2. boxes' = WithBoxes(Backfill, DOMAIN staged, staged) /\ Backfill \in Sources
  BY DEF CatchUp, Sources
<1>3. BoxTypes' /\ Gained(Backfill, DOMAIN staged, staged)
  BY <1>1, <1>2, BoxesAdded
<1>4. BoxesFinite'
  BY <1>1, <1>3, AddedFinite
<1>5. JobRests
  BY AsleepIsJob DEF CatchUp, JobRests
<1>6. order' \in {"none", "shipped", "received"}
  BY DEF CatchUp
<1>. QED
  BY <1>1, <1>3, <1>4, <1>5, <1>6

LEMMA SavedBoxes ==
    ASSUME ReceivingAssumption, BoxTypes, BoxesFinite, PostTypes, NEW p \in Posts, Save(p)
    PROVE  /\ BoxTypes' /\ BoxesFinite' /\ DOMAIN post[p].staged \subseteq Lines
           /\ Gained(post[p].form, DOMAIN post[p].staged, post[p].staged)
<1>. PICK r : r = post[p]
  OBVIOUS
<1>1. /\ r.form \in Submissions /\ IsStaged(r.staged)
      /\ boxes' = WithBoxes(r.form, DOMAIN r.staged, r.staged)
  BY SaveEffect
<1>2. /\ DOMAIN r.staged \subseteq Lines /\ \A m \in DOMAIN r.staged : r.staged[m] \in Box
      /\ r.form \in Sources
  BY <1>1 DEF IsStaged, Sources
<1>3. BoxTypes' /\ Gained(r.form, DOMAIN r.staged, r.staged)
  BY <1>1, <1>2, BoxesAdded
<1>4. BoxesFinite'
  BY <1>2, <1>3, AddedFinite
<1>. QED
  BY <1>2, <1>3, <1>4

---------------------------------------------------------------------------
(* What the boxes of a line sum to                                         *)

LEMMA BoxesOnFinite ==
    ASSUME BoxesFinite, NEW l
    PROVE  IsFiniteSet(BoxesOn(l)) /\ IsFiniteSet(FormBoxesOn(l)) /\ FormBoxesOn(l) \subseteq BoxesOn(l)
  BY FS_Subset DEF BoxesFinite, BoxesOn, FormBoxesOn

LEMMA SumsAreNat ==
    ASSUME BoxTypes, BoxesFinite, NEW l
    PROVE  Covered(l) \in Nat /\ DeclaredOn(l) \in Nat
<1>1. [k \in BoxesOn(l) |-> Worth(boxes[k])] \in [BoxesOn(l) -> Nat]
  BY DEF BoxTypes, Box, BoxesOn, Worth
<1>2. [k \in FormBoxesOn(l) |-> boxes[k].declared] \in [FormBoxesOn(l) -> Nat]
  BY DEF BoxTypes, Box, BoxesOn, FormBoxesOn
<1>. QED
  BY <1>1, <1>2, BoxesOnFinite, PiecesFinite DEF Covered, DeclaredOn

\* Counted in full, the boxes cover what those of the form declare.
LEMMA CoveredInFull ==
    ASSUME BoxTypes, BoxesFinite, NEW l, ~ShortCount(l)
    PROVE  DeclaredOn(l) <= Covered(l)
<1>1. [k \in BoxesOn(l) |-> Worth(boxes[k])] \in [BoxesOn(l) -> Nat]
  BY DEF BoxTypes, Box, BoxesOn, Worth
<1>2. [k \in FormBoxesOn(l) |-> boxes[k].declared] \in [FormBoxesOn(l) -> Nat]
  BY DEF BoxTypes, Box, BoxesOn, FormBoxesOn
<1>3. \A k \in FormBoxesOn(l) : boxes[k].declared <= Worth(boxes[k])
  BY DEF ShortCount, BoxTypes, Box, BoxesOn, FormBoxesOn, Worth
<1>. DEFINE m == [k \in FormBoxesOn(l) |-> boxes[k].declared]
            r == [k \in BoxesOn(l) |-> Worth(boxes[k])]
<1>4. \A k \in FormBoxesOn(l) : m[k] <= r[k]
  BY <1>3, BoxesOnFinite
<1>5. Total(m) <= Total(r)
  <2>. HIDE DEF m, r
  <2>. QED
    BY <1>1, <1>2, <1>4, BoxesOnFinite, TotalGrows DEF m, r
<1>. QED
  BY <1>5 DEF DeclaredOn, Covered

---------------------------------------------------------------------------
(* Types, and the posts that have the event loop                           *)

LEMMA LoopIsOne ==
    ASSUME LoopHeldOnce
    PROVE  Cardinality(OnLoop) <= 1
<1>1. CASE OnLoop = {}
  BY <1>1, FS_EmptySet
<1>2. CASE OnLoop # {}
  <2>1. PICK p : OnLoop = {p}
    BY <1>2 DEF LoopHeldOnce
  <2>2. Cardinality({p}) = 1
    BY FS_Singleton
  <2>3. Cardinality(OnLoop) = 1
    BY <2>1, <2>2, Zenon
  <2>. QED
    BY <2>3
<1>. QED
  BY <1>1, <1>2

LEMMA LoopStepped ==
    ASSUME LoopHeldOnce, NEW p \in Posts, NEW q, Stepped(p, q),
           p \in OnLoop \/ OnLoop = {} \/ q.pc \in {"idle", "body"}
    PROVE  LoopHeldOnce'
<1>1. \A r \in Posts \ {p} : r \in OnLoop' <=> r \in OnLoop
  BY DEF Stepped, OnLoop
<1>2. p \in OnLoop' => q.pc \notin {"idle", "body"}
  BY DEF Stepped, OnLoop
<1>3. OnLoop \subseteq Posts /\ OnLoop' \subseteq Posts
  BY DEF OnLoop
<1>. QED
  BY <1>1, <1>2, <1>3 DEF LoopHeldOnce

LEMMA LoopKept ==
    ASSUME LoopHeldOnce, PostsKept
    PROVE  LoopHeldOnce'
<1>1. OnLoop' = OnLoop
  BY DEF PostsKept, Kept, OnLoop
<1>. QED
  BY <1>1 DEF LoopHeldOnce

\* What type correctness needs of the other variables.
TypesInv ==
    /\ order \in {"none", "shipped", "received"}
    /\ BoxTypes /\ BoxesFinite /\ CountTypes /\ HistoryTypes /\ PostTypes /\ JobTypes
    /\ LoopHeldOnce /\ (job.pc \in {"looked", "lines"} => mirror # NoRow)

LEMMA TypesInvGives ==
    TypesInv => TypeOK
  BY TypeParts, LoopIsOne DEF TypesInv

LEMMA BoxTypesFrame ==
    ASSUME BoxTypes, UNCHANGED boxes
    PROVE  BoxTypes' /\ (BoxesFinite => BoxesFinite')
  BY DEF BoxTypes, BoxesFinite, Box, Sources, Lines

LEMMA CountTypesFrame ==
    ASSUME CountTypes, UNCHANGED <<zoho, direct, mirror>>
    PROVE  CountTypes'
  BY DEF CountTypes, Units, Lines, NoRow, Nothing

LEMMA HistoryTypesFrame ==
    ASSUME HistoryTypes, UNCHANGED <<luma, recorded>>
    PROVE  HistoryTypes'
  BY DEF HistoryTypes, Lines

LEMMA MirrorUnits ==
    ASSUME TypesInv, mirror # NoRow
    PROVE  Units(mirror)
  BY DEF TypesInv, CountTypes

\* A step of a post that leaves boxes and Zoho alone.
LEMMA TypesStepped ==
    ASSUME TypesInv, NEW p \in Posts, NEW q, Stepped(p, q),
           p \in OnLoop \/ OnLoop = {} \/ q.pc \in {"idle", "body"},
           order' \in {"none", "shipped", "received"}, HistoryTypes',
           UNCHANGED <<boxes, zoho, direct, mirror, job>>
    PROVE  TypesInv'
<1>1. BoxTypes' /\ BoxesFinite'
  BY BoxTypesFrame DEF TypesInv
<1>2. CountTypes'
  BY CountTypesFrame DEF TypesInv
<1>3. LoopHeldOnce'
  BY LoopStepped DEF TypesInv
<1>4. JobTypes' /\ (job'.pc \in {"looked", "lines"} => mirror' # NoRow)
  <2>1. NoRow' = NoRow
    BY DEF NoRow, Nothing
  <2>2. JobTypes'
    BY JobUnchanged DEF TypesInv, JobMoves
  <2>. QED
    BY <2>1, <2>2 DEF TypesInv
<1>. QED
  BY <1>1, <1>2, <1>3, <1>4 DEF TypesInv, Stepped

\* A step of the job, or of somebody else, that keeps the posts.
LEMMA TypesKept ==
    ASSUME TypesInv, PostsKept, order' \in {"none", "shipped", "received"}, HistoryTypes',
           BoxTypes', BoxesFinite', CountTypes', JobTypes',
           job'.pc \in {"looked", "lines"} => mirror' # NoRow
    PROVE  TypesInv'
<1>1. LoopHeldOnce'
  BY LoopKept DEF TypesInv
<1>2. NoRow' = NoRow
  BY DEF NoRow, Nothing
<1>. QED
  BY <1>1, <1>2 DEF TypesInv, PostsKept

LEMMA TypesInit ==
    ASSUME ReceivingAssumption, Init
    PROVE  TypesInv
<1>1. order \in {"none", "shipped", "received"}
  BY DEF Init
<1>2. BoxTypes /\ BoxesFinite
  BY NothingStaged, FS_EmptySet DEF Init, BoxTypes, BoxesFinite
<1>3. CountTypes
  BY DEF Init, CountTypes, Units, ReceivingAssumption
<1>4. HistoryTypes
  BY DEF Init, HistoryTypes
<1>5. PostTypes /\ \A p \in Posts : post[p] = Idle
  BY IdleIsPost DEF Init, PostTypes
<1>6. LoopHeldOnce
  BY <1>5, IdleIsPost DEF LoopHeldOnce, OnLoop
<1>7. JobTypes /\ job.pc = "idle"
  <2>1. 1 \in 1 .. NumLines + 1
    BY DEF ReceivingAssumption
  <2>. QED
    BY <2>1, NothingStaged DEF Init, JobTypes, Asleep
<1>. QED
  BY <1>1, <1>2, <1>3, <1>4, <1>5, <1>6, <1>7 DEF TypesInv

LEMMA TypesHandle ==
    ASSUME ReceivingAssumption, TypesInv, NEW p \in Posts, Handle(p)
    PROVE  TypesInv'
<1>. USE DEF OnLoop
<1>0. PostTypes /\ BoxTypes /\ BoxesFinite /\ HistoryTypes /\ CountTypes /\ JobTypes
      /\ LoopHeldOnce /\ order \in {"none", "shipped", "received"}
  BY DEF TypesInv
<1>1. CASE Judge(p)
  <2>1. UNCHANGED <<order, boxes, zoho, direct, mirror, luma, job, recorded>>
    BY <1>1 DEF Judge
  <2>2. \E q : Stepped(p, q) /\ OnLoop = {}
    BY <1>0, <1>1, JudgeEffect
  <2>. QED
    BY <1>0, <2>1, <2>2, TypesStepped, HistoryTypesFrame
<1>2. CASE Adopt(p)
  <2>1. UNCHANGED <<boxes, zoho, direct, mirror, luma, job, recorded>>
    BY <1>2 DEF Adopt
  <2>2. /\ order' \in {"none", "shipped", "received"} /\ p \in OnLoop
        /\ \E q : Stepped(p, q)
    BY <1>0, <1>2, AdoptEffect
  <2>. QED
    BY <1>0, <2>1, <2>2, TypesStepped, HistoryTypesFrame
<1>3. CASE LineFails(p) \/ Answer(p)
  <2>1. UNCHANGED <<order, boxes, zoho, direct, mirror, job, recorded>>
    BY <1>3 DEF LineFails, Answer
  <2>2. Stepped(p, Idle) /\ p \in OnLoop
    BY <1>0, <1>3, StoppedEffect
  <2>3. HistoryTypes'
    <3>1. luma' \in [Submissions \X Lines -> Nat]
      BY <1>0, <1>3 DEF LineFails, Answer, RolledBack, HistoryTypes
    <3>. QED
      BY <1>0, <2>1, <3>1 DEF HistoryTypes, Lines
  <2>. QED
    BY <1>0, <2>1, <2>2, <2>3, TypesStepped
<1>4. CASE BoxLine(p)
  <2>1. UNCHANGED <<order, boxes, zoho, direct, mirror, job, recorded>>
    BY <1>4 DEF BoxLine
  <2>2. /\ p \in OnLoop /\ post[p].form \in Submissions /\ post[p].next \in Lines
        /\ luma' = [luma EXCEPT ![<<post[p].form, post[p].next>>] = @ + 1]
        /\ \E q : Stepped(p, q)
    BY <1>0, <1>4, BoxLineEffect
  <2>3. HistoryTypes'
    BY <1>0, <2>1, <2>2 DEF HistoryTypes, Lines
  <2>. QED
    BY <1>0, <2>1, <2>2, <2>3, TypesStepped
<1>5. CASE SkipLine(p)
  <2>1. UNCHANGED <<order, boxes, zoho, direct, mirror, luma, job, recorded>>
    BY <1>5 DEF SkipLine
  <2>2. p \in OnLoop /\ \E q : Stepped(p, q)
    BY <1>0, <1>5, SkipLineEffect
  <2>. QED
    BY <1>0, <2>1, <2>2, TypesStepped, HistoryTypesFrame
<1>6. CASE Save(p)
  <2>1. UNCHANGED <<order, zoho, direct, mirror, luma, job>>
    BY <1>6 DEF Save
  <2>2. /\ p \in OnLoop /\ post[p].form \in Submissions
        /\ recorded' = [recorded EXCEPT ![post[p].form] = @ + 1]
        /\ \E q : Stepped(p, q)
    BY <1>0, <1>6, SaveEffect
  <2>3. HistoryTypes'
    BY <1>0, <2>1, <2>2 DEF HistoryTypes, Lines
  <2>4. BoxTypes' /\ BoxesFinite'
    BY <1>0, <1>6, SavedBoxes
  <2>5. CountTypes'
    BY <1>0, <2>1, CountTypesFrame
  <2>6. LoopHeldOnce'
    BY <1>0, <2>2, LoopStepped
  <2>7. JobTypes' /\ job' = job /\ mirror' = mirror /\ NoRow' = NoRow
    BY <1>0, <2>1, JobUnchanged DEF JobMoves, NoRow, Nothing
  <2>. QED
    BY <2>1, <2>2, <2>3, <2>4, <2>5, <2>6, <2>7 DEF TypesInv, Stepped
<1>7. CASE TellZoho(p)
  <2>1. UNCHANGED <<order, boxes, direct, mirror, luma, job, recorded>>
    BY <1>7 DEF TellZoho
  <2>2. p \in OnLoop /\ \E q : Stepped(p, q)
    BY <1>0, <1>7, TellEffect
  <2>3. CountTypes'
    <3>1. PICK l \in Lines, d \in Nat : zoho' = zoho \/ zoho' = [zoho EXCEPT ![l] = @ + d]
      BY <1>0, <1>7, TellEffect DEF Box
    <3>2. Units(zoho)' /\ \A m \in Lines : zoho[m] <= zoho'[m]
      <4>1. zoho \in [Lines -> Nat]
        BY <1>0 DEF CountTypes, Units
      <4>2. zoho' \in [Lines -> Nat] /\ \A m \in Lines : zoho[m] <= zoho'[m]
        BY <3>1, <4>1
      <4>. QED
        BY <4>2 DEF Units, Lines
    <3>3. Units(direct)' /\ (mirror' = NoRow' \/ Units(mirror)')
      BY <1>0, <2>1 DEF CountTypes, Units, Lines, NoRow, Nothing
    <3>4. ASSUME NEW m \in Lines PROVE direct'[m] <= zoho'[m] /\ direct'[m] <= MaxDirect
      BY <1>0, <2>1, <3>2 DEF CountTypes, Units
    <3>. QED
      BY <3>2, <3>3, <3>4 DEF CountTypes, Lines
  <2>4. LoopHeldOnce'
    BY <1>0, <2>2, LoopStepped
  <2>5. JobTypes' /\ job' = job /\ mirror' = mirror /\ NoRow' = NoRow
    BY <1>0, <2>1, JobUnchanged DEF JobMoves, NoRow, Nothing
  <2>6. BoxTypes' /\ BoxesFinite' /\ HistoryTypes'
    BY <1>0, <2>1, BoxTypesFrame, HistoryTypesFrame
  <2>. QED
    BY <2>1, <2>2, <2>3, <2>4, <2>5, <2>6 DEF TypesInv, Stepped
<1>. QED
  BY <1>1, <1>2, <1>3, <1>4, <1>5, <1>6, <1>7 DEF Handle

LEMMA TypesJob ==
    ASSUME ReceivingAssumption, TypesInv, RunJob \/ SyncFails
    PROVE  TypesInv'
<1>0. PostTypes /\ BoxTypes /\ BoxesFinite /\ HistoryTypes /\ CountTypes /\ JobTypes
      /\ order \in {"none", "shipped", "received"}
  BY DEF TypesInv
<1>1. UNCHANGED <<zoho, direct, mirror, luma, post, recorded>>
  BY DEF RunJob, SyncFails, Look, JobAdopts, CatchUpLine, CatchUp
<1>2. PostsKept /\ HistoryTypes' /\ CountTypes'
  BY <1>0, <1>1, PostUnchanged, HistoryTypesFrame, CountTypesFrame
<1>3. CASE SyncFails
  <2>1. JobMoves({"synced"})
    BY <1>0, <1>3, StartEffect DEF SyncFails
  <2>2. UNCHANGED <<order, boxes>>
    BY <1>3 DEF SyncFails
  <2>. QED
    BY <1>0, <1>2, <2>1, <2>2, BoxTypesFrame, TypesKept DEF JobMoves
<1>4. CASE Look
  <2>1. JobRests \/ (JobMoves({"looked"}) /\ mirror # NoRow)
    BY <1>0, <1>4, LookEffect
  <2>2. UNCHANGED <<order, boxes, mirror>> /\ NoRow' = NoRow
    BY <1>4 DEF Look, NoRow, Nothing
  <2>. QED
    BY <1>0, <1>2, <2>1, <2>2, BoxTypesFrame, TypesKept DEF JobMoves, JobRests
<1>5. CASE JobAdopts
  <2>1. /\ order' \in {"none", "shipped", "received"} /\ mirror # NoRow
        /\ JobRests \/ JobMoves({"lines"})
    BY <1>0, <1>5, JobAdoptsEffect DEF TypesInv
  <2>2. UNCHANGED <<boxes, mirror>> /\ NoRow' = NoRow
    BY <1>5 DEF JobAdopts, NoRow, Nothing
  <2>. QED
    BY <1>0, <1>2, <2>1, <2>2, BoxTypesFrame, TypesKept DEF JobMoves, JobRests
<1>6. CASE CatchUpLine
  <2>1. mirror # NoRow
    BY <1>6 DEF CatchUpLine, TypesInv
  <2>2. JobTypes'
    BY <1>0, <1>6, <2>1, MirrorUnits, SumsAreNat, CatchUpLineEffect
  <2>3. UNCHANGED <<order, boxes, mirror>> /\ NoRow' = NoRow
    BY <1>6 DEF CatchUpLine, NoRow, Nothing
  <2>. QED
    BY <1>0, <1>2, <2>1, <2>2, <2>3, BoxTypesFrame, TypesKept
<1>7. CASE CatchUp
  <2>1. BoxTypes' /\ BoxesFinite' /\ order' \in {"none", "shipped", "received"} /\ JobRests
    BY <1>0, <1>7, CatchUpEffect
  <2>. QED
    BY <1>2, <2>1, TypesKept DEF JobRests
<1>. QED
  BY <1>3, <1>4, <1>5, <1>6, <1>7 DEF RunJob

LEMMA TypesNext ==
    ASSUME ReceivingAssumption, TypesInv, [Next]_vars
    PROVE  TypesInv'
<1>0. PostTypes /\ BoxTypes /\ BoxesFinite /\ HistoryTypes /\ CountTypes /\ JobTypes
      /\ order \in {"none", "shipped", "received"}
  BY DEF TypesInv
<1>1. ASSUME NEW p \in Posts, NEW s \in Submissions, Arrive(p, s)
      PROVE  TypesInv'
  <2>1. UNCHANGED <<order, boxes, zoho, direct, mirror, luma, job, recorded>>
    BY <1>1 DEF Arrive
  <2>2. OnLoop = {} /\ \E q : Stepped(p, q)
    BY <1>0, <1>1, ArriveEffect
  <2>. QED
    BY <1>0, <2>1, <2>2, TypesStepped, HistoryTypesFrame
<1>2. ASSUME NEW p \in Posts, Handle(p)
      PROVE  TypesInv'
  BY <1>2, TypesHandle
<1>3. ASSUME NEW c \in Cartons, NEW l \in Lines, AddCarton(c, l)
      PROVE  TypesInv'
  <2>1. UNCHANGED <<order, zoho, direct, mirror, luma, post, job, recorded>>
    BY <1>3 DEF AddCarton
  <2>2. BoxTypes' /\ BoxesFinite'
    BY <1>0, <1>3, CartonEffect
  <2>3. PostsKept /\ HistoryTypes' /\ CountTypes' /\ JobTypes'
    BY <1>0, <2>1, PostUnchanged, HistoryTypesFrame, CountTypesFrame, JobUnchanged DEF JobMoves
  <2>4. job'.pc \in {"looked", "lines"} => mirror' # NoRow
    BY <2>1 DEF TypesInv
  <2>. QED
    BY <1>0, <2>1, <2>2, <2>3, <2>4, TypesKept
<1>4. ASSUME NEW l \in Lines, ReceiveInZoho(l)
      PROVE  TypesInv'
  <2>1. UNCHANGED <<order, boxes, mirror, luma, post, job, recorded>>
    BY <1>4 DEF ReceiveInZoho
  <2>2. PostsKept /\ HistoryTypes' /\ JobTypes' /\ BoxTypes' /\ BoxesFinite'
    BY <1>0, <2>1, PostUnchanged, HistoryTypesFrame, BoxTypesFrame, JobUnchanged DEF JobMoves
  <2>3. CountTypes'
    <3>0. zoho \in [Lines -> Nat] /\ direct \in [Lines -> Nat]
      BY <1>0 DEF CountTypes, Units
    <3>1. Units(zoho)' /\ Units(direct)' /\ (mirror' = NoRow' \/ Units(mirror)')
      <4>1. zoho' \in [Lines -> Nat] /\ direct' \in [Lines -> Nat]
        BY <1>4, <3>0 DEF ReceiveInZoho
      <4>2. mirror' = NoRow' \/ Units(mirror)'
        BY <1>0, <2>1 DEF CountTypes, Units, Lines, NoRow, Nothing
      <4>. QED
        BY <4>1, <4>2 DEF Units, Lines
    <3>2. ASSUME NEW m \in Lines PROVE direct'[m] <= zoho'[m] /\ direct'[m] <= MaxDirect
      BY <1>0, <1>4, ReceivingAssumption DEF CountTypes, Units, ReceiveInZoho, ReceivingAssumption
    <3>. QED
      BY <3>1, <3>2 DEF CountTypes, Lines
  <2>4. job'.pc \in {"looked", "lines"} => mirror' # NoRow
    BY <2>1 DEF TypesInv
  <2>. QED
    BY <1>0, <2>1, <2>2, <2>3, <2>4, TypesKept
<1>5. ASSUME NEW row, row = zoho \/ row = NoRow, Replace(row)
      PROVE  TypesInv'
  <2>1. UNCHANGED <<order, boxes, zoho, direct, luma, recorded>> /\ mirror' = row
    BY <1>5 DEF Replace
  <2>2. JobMoves({"synced"})
    BY <1>0, <1>5, StartEffect DEF Replace
  <2>3. PostsKept
    BY <1>0, <1>5, ReplaceEffect
  <2>4. CountTypes'
    BY <1>0, <1>5, <2>1 DEF CountTypes, Units, Lines, NoRow, Nothing
  <2>. QED
    BY <1>0, <2>1, <2>2, <2>3, <2>4, BoxTypesFrame, HistoryTypesFrame, TypesKept DEF JobMoves
<1>6. CASE RunJob \/ SyncFails
  BY <1>6, TypesJob
<1>7. CASE Crash
  <2>1. UNCHANGED <<order, boxes, zoho, direct, mirror, recorded>>
    BY <1>7 DEF Crash
  <2>2. PostTypes' /\ JobTypes' /\ job'.pc \in {"idle", "down"}
    BY <1>7, CrashEffect
  <2>3. LoopHeldOnce'
    BY <1>7, CrashEffect, IdleIsPost DEF LoopHeldOnce, OnLoop
  <2>4. HistoryTypes'
    BY <1>0, <1>7, <2>1 DEF HistoryTypes, Crash, Lines
  <2>. QED
    BY <1>0, <2>1, <2>2, <2>3, <2>4, BoxTypesFrame, CountTypesFrame DEF TypesInv
<1>8. CASE Restart
  <2>1. UNCHANGED <<order, boxes, zoho, direct, mirror, luma, post, recorded>>
    BY <1>8 DEF Restart
  <2>2. JobRests
    BY <1>8, AsleepIsJob DEF Restart, JobRests
  <2>. QED
    BY <1>0, <2>1, <2>2, PostUnchanged, HistoryTypesFrame, CountTypesFrame, BoxTypesFrame, TypesKept
       DEF JobRests
<1>9. CASE UNCHANGED vars
  <2>1. UNCHANGED <<order, boxes, zoho, direct, mirror, luma, post, job, recorded>>
    BY <1>9 DEF vars
  <2>2. JobTypes' /\ (job'.pc \in {"looked", "lines"} => mirror' # NoRow)
    BY <1>0, <2>1, JobUnchanged DEF TypesInv, JobMoves
  <2>. QED
    BY <1>0, <2>1, <2>2, PostUnchanged, HistoryTypesFrame, CountTypesFrame, BoxTypesFrame, TypesKept
<1>. QED
  BY <1>1, <1>2, <1>3, <1>4, <1>5, <1>6, <1>7, <1>8, <1>9 DEF Next, Sync, MissDetail

---------------------------------------------------------------------------
(* The boxes of forms                                                      *)

\* A step that makes no box of a form.
FormsKept ==
    \A l \in Lines : /\ FormBoxesOn(l)' = FormBoxesOn(l)
                     /\ \A k \in FormBoxesOn(l) : boxes'[k] = boxes[k]

LEMMA FormsUntouched ==
    ASSUME UNCHANGED boxes
    PROVE  FormsKept
  BY DEF FormsKept, FormBoxesOn, BoxesOn

LEMMA FormsBesides ==
    ASSUME NEW s, s \notin Submissions, NEW ls, NEW staged, Gained(s, ls, staged)
    PROVE  FormsKept
<1>1. ASSUME NEW l \in Lines, NEW k
      PROVE  /\ k \in FormBoxesOn(l)' <=> k \in FormBoxesOn(l)
             /\ k \in FormBoxesOn(l) => boxes'[k] = boxes[k]
  <2>1. k \in FormBoxesOn(l)' <=> k \in DOMAIN boxes' /\ k[2] = l /\ k[1] \in Submissions
    BY DEF FormBoxesOn, BoxesOn
  <2>2. k \in FormBoxesOn(l) <=> k \in DOMAIN boxes /\ k[2] = l /\ k[1] \in Submissions
    BY DEF FormBoxesOn, BoxesOn
  <2>3. k \in {s} \X ls => k[1] \notin Submissions
    OBVIOUS
  <2>. QED
    BY <2>1, <2>2, <2>3 DEF Gained
<1>. QED
  BY <1>1 DEF FormsKept

LEMMA FormsFrame ==
    ASSUME FormsKept
    PROVE  /\ \A l \in Lines : DeclaredOn(l)' = DeclaredOn(l) /\ ShortCount(l)' = ShortCount(l)
           /\ \A s \in Submissions, l \in Lines : <<s, l>> \in DOMAIN boxes' <=> <<s, l>> \in DOMAIN boxes
           /\ \A s \in Submissions : Unboxed(s)' <=> Unboxed(s)
<1>1. ASSUME NEW l \in Lines PROVE DeclaredOn(l)' = DeclaredOn(l)
  <2>1. [k \in FormBoxesOn(l)' |-> boxes'[k].declared] = [k \in FormBoxesOn(l) |-> boxes[k].declared]
    BY DEF FormsKept
  <2>. QED
    BY <2>1 DEF DeclaredOn, Total
<1>2. ASSUME NEW l \in Lines PROVE ShortCount(l)' = ShortCount(l)
  BY DEF FormsKept, ShortCount, Worth
<1>3. ASSUME NEW s \in Submissions, NEW l \in Lines
      PROVE  <<s, l>> \in DOMAIN boxes' <=> <<s, l>> \in DOMAIN boxes
  <2>1. <<s, l>> \in FormBoxesOn(l)' <=> <<s, l>> \in DOMAIN boxes'
    BY DEF FormBoxesOn, BoxesOn
  <2>2. <<s, l>> \in FormBoxesOn(l) <=> <<s, l>> \in DOMAIN boxes
    BY DEF FormBoxesOn, BoxesOn
  <2>. QED
    BY <2>1, <2>2 DEF FormsKept
<1>4. ASSUME NEW s \in Submissions PROVE Unboxed(s)' <=> Unboxed(s)
  BY <1>3 DEF Unboxed, Lines
<1>. QED
  BY <1>1, <1>2, <1>3, <1>4

\* What a recorded post adds.
FormBoxed(s, staged) ==
    /\ s \in Submissions /\ Unboxed(s) /\ ~Unboxed(s)' /\ Gained(s, DOMAIN staged, staged)
    /\ DOMAIN staged \subseteq Lines
    /\ \A l \in Lines :
         /\ FormBoxesOn(l)' = FormBoxesOn(l) \cup (IF l \in DOMAIN staged THEN {<<s, l>>} ELSE {})
         /\ \A k \in FormBoxesOn(l) : boxes'[k] = boxes[k]
         /\ l \in DOMAIN staged => boxes'[<<s, l>>] = staged[l] /\ <<s, l>> \notin FormBoxesOn(l)

LEMMA FormRecorded ==
    ASSUME ReceivingAssumption, TypesInv, PostsSound, NEW p \in Posts, Save(p)
    PROVE  FormBoxed(post[p].form, post[p].staged)
<1>. PICK r : r = post[p]
  OBVIOUS
<1>. PICK s : s = r.form
  OBVIOUS
<1>. PICK staged : staged = r.staged
  OBVIOUS
<1>. DEFINE ls == DOMAIN staged
<1>0. PostTypes /\ BoxTypes /\ BoxesFinite
  BY DEF TypesInv
<1>1. ls \subseteq Lines /\ Gained(s, ls, staged)
  BY <1>0, SavedBoxes
<1>2. s \in Submissions /\ r.pc = "lines" /\ r.next = NumLines + 1 /\ IsStaged(staged)
  BY <1>0, SaveEffect
<1>3. Unboxed(s) /\ staged # Nothing
  <2>1. Unboxed(s) /\ (staged = Nothing => r.next \in Lines)
    BY <1>2 DEF PostsSound, PostSound
  <2>. QED
    BY <1>2, <2>1 DEF Lines, ReceivingAssumption
<1>4. ls # {}
  BY <1>2, <1>3, NothingStaged
<1>5. ~Unboxed(s)'
  BY <1>1, <1>4 DEF Unboxed, Gained, Lines
<1>6. ASSUME NEW l \in Lines
      PROVE  /\ FormBoxesOn(l)' = FormBoxesOn(l) \cup (IF l \in ls THEN {<<s, l>>} ELSE {})
             /\ \A k \in FormBoxesOn(l) : boxes'[k] = boxes[k]
             /\ l \in ls => boxes'[<<s, l>>] = staged[l] /\ <<s, l>> \notin FormBoxesOn(l)
  <2>1. \A k : k \in FormBoxesOn(l) <=> k \in DOMAIN boxes /\ k[2] = l /\ k[1] \in Submissions
    BY DEF FormBoxesOn, BoxesOn
  <2>2. \A k : k \in FormBoxesOn(l)' <=> k \in DOMAIN boxes' /\ k[2] = l /\ k[1] \in Submissions
    BY DEF FormBoxesOn, BoxesOn
  <2>3. \A k \in {s} \X ls : k \notin DOMAIN boxes
    BY <1>1, <1>3 DEF Unboxed
  <2>4. \A k : k \in {s} \X ls /\ k[2] = l <=> k = <<s, l>> /\ l \in ls
    OBVIOUS
  <2>5. \A k \in FormBoxesOn(l) : boxes'[k] = boxes[k]
    BY <1>1, <2>1, <2>3 DEF Gained
  <2>6. FormBoxesOn(l)' = FormBoxesOn(l) \cup (IF l \in ls THEN {<<s, l>>} ELSE {})
    <3>1. ASSUME NEW k
          PROVE  k \in FormBoxesOn(l)' <=> k \in FormBoxesOn(l) \/ (k = <<s, l>> /\ l \in ls)
      BY <1>1, <1>2, <2>1, <2>2, <2>4 DEF Gained
    <3>. QED
      BY <3>1
  <2>7. l \in ls => boxes'[<<s, l>>] = staged[l] /\ <<s, l>> \notin FormBoxesOn(l)
    BY <1>1, <2>1, <2>3 DEF Gained
  <2>. QED
    BY <2>5, <2>6, <2>7
<1>7. FormBoxed(s, staged)
  BY <1>1, <1>2, <1>3, <1>5, <1>6 DEF FormBoxed
<1>. QED
  BY <1>7

---------------------------------------------------------------------------
(* A form takes effect once                                                *)

FormsInv == PostsSound /\ LumaSound /\ RecordSound

LEMMA SoundFrame ==
    ASSUME FormsKept, NEW x, x.form \in Submissions, PostSound(x)
    PROVE  PostSound(x)'
<1>1. Unboxed(x.form)' <=> Unboxed(x.form)
  BY FormsFrame
<1>2. Nothing' = Nothing /\ Lines' = Lines
  BY DEF Nothing, Lines
<1>. QED
  BY <1>1, <1>2 DEF PostSound

LEMMA FormTyped ==
    PostTypes => \A r \in Posts : post[r].form \in Submissions
  BY DEF PostTypes, IsPost

LEMMA PostsStepped ==
    ASSUME PostsSound, PostTypes, FormsKept, NEW p \in Posts, NEW q, Stepped(p, q), PostSound(q),
           q.form \in Submissions
    PROVE  PostsSound'
<1>1. ASSUME NEW r \in Posts PROVE PostSound(post[r])'
  <2>1. PICK x : x = post'[r]
    OBVIOUS
  <2>2. PostSound(x) /\ x.form \in Submissions
    BY <2>1, FormTyped DEF Stepped, PostsSound
  <2>3. PostSound(x)'
    BY <2>2, SoundFrame
  <2>. QED
    BY <2>1, <2>3 DEF PostSound
<1>. QED
  BY <1>1 DEF PostsSound

LEMMA PostsFrame ==
    ASSUME PostsSound, PostTypes, FormsKept, PostsKept
    PROVE  PostsSound'
<1>1. ASSUME NEW r \in Posts PROVE PostSound(post[r])'
  <2>1. PICK x : x = post[r]
    OBVIOUS
  <2>2. PostSound(x) /\ x.form \in Submissions /\ Kept(r)
    BY <2>1, FormTyped DEF PostsSound, PostsKept
  <2>3. PostSound(x)'
    BY <2>2, SoundFrame
  <2>. QED
    BY <2>1, <2>2, <2>3 DEF PostSound, Kept
<1>. QED
  BY <1>1 DEF PostsSound

LEMMA SteppedForm ==
    ASSUME NEW p \in Posts, NEW q, Stepped(p, q)
    PROVE  q.form \in Submissions
  BY DEF Stepped, PostTypes, IsPost

\* Luma's history goes with the boxes and the post at work.
LEMMA LumaStepped ==
    ASSUME LumaSound, UNCHANGED luma, NEW p \in Posts, NEW q, Stepped(p, q),
           DOMAIN boxes \subseteq DOMAIN boxes',
           \A l \in DOMAIN post[p].staged :
              post[p].pc = "lines" =>
                 \/ q.pc = "lines" /\ q.form = post[p].form /\ l \in DOMAIN q.staged
                 \/ <<post[p].form, l>> \in DOMAIN boxes'
    PROVE  LumaSound'
<1>1. ASSUME NEW s \in Submissions, NEW l \in Lines PROVE LumaTold(s, l)'
  <2>1. LumaTold(s, l)
    BY DEF LumaSound
  <2>2. ASSUME NEW r \in Posts,
               post[r].pc = "lines", post[r].form = s, l \in DOMAIN post[r].staged
        PROVE  \/ <<s, l>> \in DOMAIN boxes'
               \/ \E x \in Posts : /\ post'[x].pc = "lines" /\ post'[x].form = s
                                   /\ l \in DOMAIN post'[x].staged
    BY <2>2 DEF Stepped
  <2>. QED
    BY <2>1, <2>2 DEF LumaTold
<1>. QED
  BY <1>1 DEF LumaSound, Lines

LEMMA LumaFrame ==
    ASSUME LumaSound, UNCHANGED luma, PostsKept, DOMAIN boxes \subseteq DOMAIN boxes'
    PROVE  LumaSound'
<1>1. ASSUME NEW s \in Submissions, NEW l \in Lines PROVE LumaTold(s, l)'
  <2>1. LumaTold(s, l)
    BY DEF LumaSound
  <2>. QED
    BY <2>1 DEF LumaTold, PostsKept, Kept
<1>. QED
  BY <1>1 DEF LumaSound, Lines

LEMMA RecordFrame ==
    ASSUME RecordSound, UNCHANGED recorded, FormsKept
    PROVE  RecordSound'
  BY FormsFrame DEF RecordSound

\* A step that makes no box of a form and tells Luma nothing.
LEMMA FormsStepped ==
    ASSUME TypesInv, FormsInv, FormsKept, UNCHANGED <<luma, recorded>>,
           DOMAIN boxes \subseteq DOMAIN boxes', NEW p \in Posts, NEW q, Stepped(p, q), PostSound(q),
           post[p].pc = "lines" =>
              \/ post[p].staged = Nothing
              \/ q.pc = "lines" /\ q.form = post[p].form /\ q.staged = post[p].staged
    PROVE  FormsInv'
<1>1. PostsSound'
  BY SteppedForm, PostsStepped DEF FormsInv, TypesInv
<1>2. LumaSound'
  BY LumaStepped, NothingStaged DEF FormsInv
<1>. QED
  BY <1>1, <1>2, RecordFrame DEF FormsInv

LEMMA FormsElsewhere ==
    ASSUME TypesInv, FormsInv, FormsKept, UNCHANGED <<luma, recorded>>,
           DOMAIN boxes \subseteq DOMAIN boxes', PostsKept
    PROVE  FormsInv'
  BY PostsFrame, LumaFrame, RecordFrame DEF FormsInv, TypesInv

LEMMA FormsInit ==
    ASSUME ReceivingAssumption, Init
    PROVE  FormsInv
<1>1. PostsSound
  BY IdleIsPost DEF Init, PostsSound, PostSound
<1>2. LumaSound
  BY DEF Init, LumaSound, LumaTold
<1>3. RecordSound
  BY DEF Init, RecordSound
<1>. QED
  BY <1>1, <1>2, <1>3 DEF FormsInv

LEMMA IdleSound ==
    ASSUME ReceivingAssumption
    PROVE  PostSound(Idle)
  BY IdleIsPost DEF PostSound

LEMMA FormsBoxLine ==
    ASSUME ReceivingAssumption, TypesInv, FormsInv, NEW p \in Posts, BoxLine(p)
    PROVE  FormsInv'
<1>0. PostTypes /\ HistoryTypes /\ LoopHeldOnce
  BY DEF TypesInv
<1>1. UNCHANGED <<order, boxes, zoho, direct, mirror, job, recorded>>
  BY DEF BoxLine
<1>. PICK r : r = post[p]
  OBVIOUS
<1>. PICK l : l = r.next
  OBVIOUS
<1>2. /\ r.pc = "lines" /\ l \in Lines /\ r.form \in Submissions
      /\ luma' = [luma EXCEPT ![<<r.form, l>>] = @ + 1]
  BY <1>0, BoxLineEffect
<1>3. PICK q : /\ Stepped(p, q) /\ q.pc = "lines" /\ q.form = r.form /\ q.next = l + 1
               /\ DOMAIN q.staged = DOMAIN r.staged \cup {l} /\ q.staged # Nothing
  BY <1>0, BoxLineEffect
<1>4. PostSound(r) /\ DOMAIN r.staged \subseteq Lines
  BY <1>0 DEF FormsInv, PostsSound, PostTypes, IsPost, IsStaged
<1>5. Unboxed(r.form) /\ \A m \in DOMAIN r.staged : m < l
  BY <1>2, <1>4 DEF PostSound
<1>6. PostSound(q)
  <2>1. \A m \in DOMAIN q.staged : m < q.next
    BY <1>2, <1>3, <1>4, <1>5 DEF Lines
  <2>. QED
    BY <1>3, <1>5, <2>1 DEF PostSound
<1>7. PostsSound'
  BY <1>0, <1>1, <1>3, <1>6, SteppedForm, FormsUntouched, PostsStepped DEF FormsInv
<1>8. \A x \in Posts : post[x].pc = "lines" => x = p
  BY <1>0, <1>2 DEF LoopHeldOnce, OnLoop
<1>9. luma[<<r.form, l>>] = 0
  <2>1. LumaTold(r.form, l)
    BY <1>2 DEF FormsInv, LumaSound
  <2>2. l \notin DOMAIN r.staged
    BY <1>2, <1>4, <1>5 DEF Lines
  <2>. QED
    BY <1>2, <1>5, <1>8, <2>1, <2>2 DEF LumaTold, Unboxed
<1>10. ASSUME NEW s \in Submissions, NEW m \in Lines PROVE LumaTold(s, m)'
  <2>0. post'[p] = q
    BY <1>3 DEF Stepped
  <2>1. CASE s = r.form /\ m = l
    <3>1. luma'[<<s, m>>] = 1
      BY <1>0, <1>2, <1>9, <2>1 DEF HistoryTypes
    <3>2. post'[p].pc = "lines" /\ post'[p].form = s /\ m \in DOMAIN post'[p].staged
      BY <1>3, <2>0, <2>1
    <3>. QED
      BY <3>1, <3>2 DEF LumaTold
  <2>2. CASE ~(s = r.form /\ m = l)
    <3>1. luma'[<<s, m>>] = luma[<<s, m>>] /\ LumaTold(s, m)
      BY <1>0, <1>2, <2>2 DEF HistoryTypes, FormsInv, LumaSound
    <3>2. r.form = s /\ m \in DOMAIN r.staged =>
            post'[p].pc = "lines" /\ post'[p].form = s /\ m \in DOMAIN post'[p].staged
      BY <1>3, <2>0
    <3>. QED
      BY <1>1, <1>8, <3>1, <3>2 DEF LumaTold
  <2>. QED
    BY <2>1, <2>2
<1>11. LumaSound'
  BY <1>10 DEF LumaSound, Lines
<1>12. RecordSound'
  BY <1>1, FormsUntouched, RecordFrame DEF FormsInv
<1>. QED
  BY <1>7, <1>11, <1>12 DEF FormsInv

LEMMA FormsSave ==
    ASSUME ReceivingAssumption, TypesInv, FormsInv, NEW p \in Posts, Save(p)
    PROVE  FormsInv'
<1>0. PostTypes /\ HistoryTypes /\ LoopHeldOnce
  BY DEF TypesInv
<1>1. UNCHANGED <<order, zoho, direct, mirror, luma, job>>
  BY DEF Save
<1>. PICK r : r = post[p]
  OBVIOUS
<1>2. r.pc = "lines" /\ r.form \in Submissions /\ recorded' = [recorded EXCEPT ![r.form] = @ + 1]
  BY <1>0, SaveEffect
<1>3. PICK q : /\ Stepped(p, q) /\ q.pc = "saved" /\ q.form = r.form
               /\ q.next = 1 /\ q.staged = r.staged
  BY <1>0, SaveEffect
<1>4. FormBoxed(r.form, r.staged)
  BY FormRecorded DEF FormsInv
<1>5. /\ DOMAIN boxes' = DOMAIN boxes \cup ({r.form} \X DOMAIN r.staged)
      /\ Unboxed(r.form) /\ ~Unboxed(r.form)'
  BY <1>4 DEF FormBoxed, Gained
<1>6. \A x \in Posts \ {p} : post'[x] = post[x] /\ post[x].pc \notin {"adopting", "lines"}
  BY <1>0, <1>2, <1>3 DEF LoopHeldOnce, OnLoop, Stepped
<1>7. PostsSound'
  <2>1. ASSUME NEW x \in Posts PROVE PostSound(post[x])'
    <3>1. CASE x = p
      <4>1. post'[x].pc = "saved"
        BY <1>3, <3>1 DEF Stepped
      <4>. QED
        BY <4>1 DEF PostSound
    <3>2. CASE x # p
      <4>1. post'[x] = post[x] /\ post[x].pc \notin {"adopting", "lines"} /\ PostSound(post[x])
        BY <1>6, <3>2 DEF FormsInv, PostsSound
      <4>. QED
        BY <4>1 DEF PostSound, Nothing
    <3>. QED
      BY <3>1, <3>2
  <2>. QED
    BY <2>1 DEF PostsSound
<1>8. LumaSound'
  BY <1>1, <1>3, <1>5, LumaStepped DEF FormsInv
<1>9. RecordSound'
  <2>1. recorded[r.form] = 0
    BY <1>2, <1>5 DEF FormsInv, RecordSound
  <2>2. \A s \in Submissions : ~Unboxed(s) => ~Unboxed(s)'
    BY <1>5 DEF Unboxed, Lines
  <2>3. ASSUME NEW s \in Submissions, recorded'[s] # 0
        PROVE  recorded'[s] = 1 /\ ~Unboxed(s)'
    <3>1. CASE s = r.form
      BY <1>0, <1>2, <1>5, <2>1, <3>1 DEF HistoryTypes
    <3>2. CASE s # r.form
      <4>1. recorded'[s] = recorded[s]
        BY <1>0, <1>2, <3>2 DEF HistoryTypes
      <4>. QED
        BY <2>2, <2>3, <4>1 DEF FormsInv, RecordSound
    <3>. QED
      BY <3>1, <3>2
  <2>. QED
    BY <2>3 DEF RecordSound
<1>. QED
  BY <1>7, <1>8, <1>9 DEF FormsInv

LEMMA FormsCrash ==
    ASSUME ReceivingAssumption, TypesInv, FormsInv, Crash
    PROVE  FormsInv'
<1>1. UNCHANGED <<boxes, recorded>>
  BY DEF Crash
<1>2. \A r \in Posts : post'[r] = Idle
  BY CrashEffect
<1>3. PostsSound'
  <2>1. ASSUME NEW r \in Posts PROVE PostSound(post[r])'
    <3>1. post'[r] = Idle /\ Idle.pc = "idle" /\ Idle.staged = Nothing /\ Nothing' = Nothing
      BY <1>2, IdleIsPost DEF Nothing
    <3>. QED
      BY <3>1 DEF PostSound
  <2>. QED
    BY <2>1 DEF PostsSound
<1>4. LumaSound'
  <2>1. ASSUME NEW s \in Submissions, NEW l \in Lines PROVE LumaTold(s, l)'
    <3>1. luma'[<<s, l>>] = IF <<s, l>> \in DOMAIN boxes THEN luma[<<s, l>>] ELSE 0
      BY DEF Crash
    <3>2. LumaTold(s, l)
      BY DEF FormsInv, LumaSound
    <3>. QED
      BY <1>1, <3>1, <3>2 DEF LumaTold
  <2>. QED
    BY <2>1 DEF LumaSound, Lines
<1>5. RecordSound'
  BY <1>1, FormsUntouched, RecordFrame DEF FormsInv
<1>. QED
  BY <1>3, <1>4, <1>5 DEF FormsInv

\* A post that fails is forgotten with what it told Luma.
LEMMA FormsFail ==
    ASSUME ReceivingAssumption, TypesInv, FormsInv, NEW p \in Posts, LineFails(p)
    PROVE  FormsInv'
<1>1. UNCHANGED <<boxes, recorded>> /\ RolledBack(post[p])
  BY DEF LineFails
<1>2. PostTypes /\ Stepped(p, Idle)
  BY StoppedEffect DEF TypesInv
<1>3. PostsSound'
  BY <1>1, <1>2, IdleSound, FormsUntouched, PostsStepped, SteppedForm DEF FormsInv
<1>4. LumaSound'
  <2>1. ASSUME NEW s \in Submissions, NEW l \in Lines PROVE LumaTold(s, l)'
    <3>. DEFINE own == s = post[p].form /\ l \in DOMAIN post[p].staged
    <3>1. luma'[<<s, l>>] = IF own THEN 0 ELSE luma[<<s, l>>]
      BY <1>1 DEF RolledBack
    <3>2. LumaTold(s, l)
      BY DEF FormsInv, LumaSound
    <3>3. ASSUME ~own, NEW r \in Posts,
                 post[r].pc = "lines", post[r].form = s, l \in DOMAIN post[r].staged
          PROVE  post'[r] = post[r]
      BY <1>2, <3>3 DEF Stepped
    <3>. QED
      BY <1>1, <3>1, <3>2, <3>3 DEF LumaTold
  <2>. QED
    BY <2>1 DEF LumaSound, Lines
<1>5. RecordSound'
  BY <1>1, FormsUntouched, RecordFrame DEF FormsInv
<1>. QED
  BY <1>3, <1>4, <1>5 DEF FormsInv

LEMMA FormsHandle ==
    ASSUME ReceivingAssumption, TypesInv, FormsInv, NEW p \in Posts, Handle(p)
    PROVE  FormsInv'
<1>0. PostTypes /\ order \in {"none", "shipped", "received"} /\ PostSound(Idle) /\ PostSound(post[p])
  BY IdleSound DEF TypesInv, FormsInv, PostsSound
<1>1. CASE Judge(p)
  <2>1. UNCHANGED <<order, boxes, zoho, direct, mirror, luma, job, recorded>>
    BY <1>1 DEF Judge
  <2>2. PICK q : /\ Stepped(p, q) /\ post[p].pc = "body"
                 /\ \/ q = Idle
                    \/ /\ Unboxed(post[p].form) /\ q.pc = "adopting" /\ q.form = post[p].form
                       /\ q.staged = post[p].staged /\ q.next \in Lines
    BY <1>0, <1>1, JudgeEffect
  <2>3. PostSound(q)
    BY <1>0, <2>2 DEF PostSound
  <2>. QED
    BY <2>1, <2>2, <2>3, FormsUntouched, FormsStepped
<1>2. CASE Adopt(p)
  <2>1. UNCHANGED <<boxes, zoho, direct, mirror, luma, job, recorded>>
    BY <1>2 DEF Adopt
  <2>2. PICK q : /\ Stepped(p, q) /\ post[p].pc = "adopting"
                 /\ \/ q = Idle
                    \/ /\ q.pc = "lines" /\ q.form = post[p].form
                       /\ q.staged = post[p].staged /\ q.next = post[p].next
    BY <1>0, <1>2, AdoptEffect
  <2>3. PostSound(q)
    BY <1>0, <2>2, NothingStaged DEF PostSound
  <2>. QED
    BY <2>1, <2>2, <2>3, FormsUntouched, FormsStepped
<1>3. CASE LineFails(p)
  BY <1>3, FormsFail
<1>8. CASE Answer(p)
  <2>1. UNCHANGED <<boxes, luma, recorded>> /\ post[p].pc = "saved"
    BY <1>8 DEF Answer
  <2>2. Stepped(p, Idle)
    BY <1>0, <1>8, StoppedEffect
  <2>. QED
    BY <1>0, <2>1, <2>2, FormsUntouched, FormsStepped
<1>4. CASE BoxLine(p)
  BY <1>4, FormsBoxLine
<1>5. CASE SkipLine(p)
  <2>1. UNCHANGED <<order, boxes, zoho, direct, mirror, luma, job, recorded>>
    BY <1>5 DEF SkipLine
  <2>2. PICK q : /\ Stepped(p, q) /\ q.pc = "lines" /\ q.form = post[p].form
                 /\ q.next = post[p].next + 1 /\ q.staged = post[p].staged
    BY <1>0, <1>5, SkipLineEffect
  <2>3. post[p].pc = "lines" /\ post[p].next \in Lines /\ post[p].staged # Nothing
    BY <1>0, <1>5, SkipLineEffect
  <2>4. DOMAIN post[p].staged \subseteq Lines
    BY <1>0 DEF PostTypes, IsPost, IsStaged
  <2>5. PostSound(q)
    BY <1>0, <2>2, <2>3, <2>4 DEF PostSound, Lines
  <2>. QED
    BY <2>1, <2>2, <2>5, FormsUntouched, FormsStepped
<1>6. CASE Save(p)
  BY <1>6, FormsSave
<1>7. CASE TellZoho(p)
  <2>1. UNCHANGED <<order, boxes, direct, mirror, luma, job, recorded>>
    BY <1>7 DEF TellZoho
  <2>2. PICK q : Stepped(p, q) /\ q.pc = "saved" /\ post[p].pc = "saved"
    BY <1>0, <1>7, TellEffect
  <2>3. PostSound(q)
    BY <2>2 DEF PostSound
  <2>. QED
    BY <2>1, <2>2, <2>3, FormsUntouched, FormsStepped
<1>. QED
  BY <1>1, <1>2, <1>3, <1>4, <1>5, <1>6, <1>7, <1>8 DEF Handle

LEMMA FormsNext ==
    ASSUME ReceivingAssumption, TypesInv, FormsInv, [Next]_vars
    PROVE  FormsInv'
<1>0. PostTypes /\ BoxTypes /\ BoxesFinite /\ JobTypes /\ order \in {"none", "shipped", "received"}
  BY DEF TypesInv
<1>1. ASSUME NEW p \in Posts, NEW s \in Submissions, Arrive(p, s)
      PROVE  FormsInv'
  <2>1. UNCHANGED <<order, boxes, zoho, direct, mirror, luma, job, recorded>>
    BY <1>1 DEF Arrive
  <2>2. PICK q : /\ Stepped(p, q) /\ post[p].pc = "idle" /\ q.pc = "body"
                 /\ q.staged = post[p].staged
    BY <1>0, <1>1, ArriveEffect
  <2>3. PostSound(q)
    BY <2>2 DEF PostSound, FormsInv, PostsSound
  <2>. QED
    BY <2>1, <2>2, <2>3, FormsUntouched, FormsStepped
<1>2. ASSUME NEW p \in Posts, Handle(p)
      PROVE  FormsInv'
  BY <1>2, FormsHandle
<1>3. ASSUME NEW c \in Cartons, NEW l \in Lines, AddCarton(c, l)
      PROVE  FormsInv'
  <2>1. UNCHANGED <<order, zoho, direct, mirror, luma, post, job, recorded>>
    BY <1>3 DEF AddCarton
  <2>2. PICK staged : Gained(c, {l}, staged)
    BY <1>0, <1>3, CartonEffect
  <2>3. c \notin Submissions
    BY DEF ReceivingAssumption
  <2>4. FormsKept
    BY <2>2, <2>3, FormsBesides
  <2>5. DOMAIN boxes \subseteq DOMAIN boxes'
    BY <2>2 DEF Gained
  <2>. QED
    BY <1>0, <2>1, <2>4, <2>5, PostUnchanged, FormsElsewhere
<1>4. ASSUME NEW row, Replace(row)
      PROVE  FormsInv'
  <2>1. UNCHANGED <<order, boxes, zoho, direct, luma, recorded>>
    BY <1>4 DEF Replace
  <2>2. PostsKept
    BY <1>0, <1>4, ReplaceEffect
  <2>3. FormsKept
    BY <2>1, FormsUntouched
  <2>. QED
    BY <2>1, <2>2, <2>3, FormsElsewhere
<1>5. CASE CatchUp
  <2>1. UNCHANGED <<zoho, direct, mirror, luma, post, recorded>>
    BY <1>5 DEF CatchUp
  <2>2. Gained(Backfill, DOMAIN job.staged, job.staged)
    BY <1>0, <1>5, CatchUpEffect
  <2>3. Backfill \notin Submissions
    BY DEF ReceivingAssumption
  <2>4. FormsKept
    BY <2>2, <2>3, FormsBesides
  <2>5. DOMAIN boxes \subseteq DOMAIN boxes'
    BY <2>2 DEF Gained
  <2>. QED
    BY <1>0, <2>1, <2>4, <2>5, PostUnchanged, FormsElsewhere
<1>6. CASE Crash
  BY <1>6, FormsCrash
<1>7. CASE (\E l \in Lines : ReceiveInZoho(l)) \/ SyncFails \/ Look \/ JobAdopts \/ CatchUpLine
           \/ Restart \/ UNCHANGED vars
  <2>1. UNCHANGED <<boxes, luma, post, recorded>>
    BY <1>7 DEF ReceiveInZoho, SyncFails, Look, JobAdopts, CatchUpLine, Restart, vars
  <2>. QED
    BY <1>0, <2>1, PostUnchanged, FormsUntouched, FormsElsewhere
<1>. QED
  BY <1>1, <1>2, <1>3, <1>4, <1>5, <1>6, <1>7 DEF Next, Sync, MissDetail, RunJob

---------------------------------------------------------------------------
(* Zoho and the boxes                                                      *)

ZohoInv == MirrorBehind /\ ToldIsDeclared /\ StagedIsDirect /\ BackfillIsDirect

\* The boxes declare what Zoho has, and what the post is about to tell it.
CoversTelling(q) ==
    \A l \in Lines :
        q.pc = "saved" /\ l \in Untold(q) =>
            zoho[l] + q.staged[l].declared <= direct[l] + DeclaredOn(l)

LEMMA ToldParts ==
    ToldIsDeclared <=> /\ \A l \in Lines : zoho[l] <= direct[l] + DeclaredOn(l)
                       /\ \A p \in Posts : CoversTelling(post[p])
  BY DEF ToldIsDeclared, CoversTelling

LEMMA BackfillFrame ==
    ASSUME BackfillIsDirect, UNCHANGED <<boxes, direct>>
    PROVE  BackfillIsDirect'
  BY FormsUntouched, FormsFrame DEF BackfillIsDirect

\* Nothing the catch-up has made, or is about to make, is taken back.
LEMMA StagedFrame ==
    ASSUME TypesInv, StagedIsDirect, FormsKept, JobTypes',
           \A l \in Lines : direct[l] <= direct'[l] /\ direct'[l] \in Nat,
           job'.staged = job.staged \/ job'.staged = Nothing
    PROVE  StagedIsDirect'
<1>1. ASSUME NEW l \in DOMAIN job'.staged
      PROVE  ShortCount(l)' \/ job'.staged[l].declared <= direct'[l]
  <2>1. job'.staged = job.staged /\ l \in DOMAIN job.staged
    BY <1>1, NothingStaged
  <2>2. l \in Lines /\ job.staged[l].declared \in Nat /\ direct[l] \in Nat
    BY <2>1 DEF TypesInv, JobTypes, IsStaged, Box, CountTypes, Units
  <2>3. ShortCount(l) \/ job.staged[l].declared <= direct[l]
    BY <2>1 DEF StagedIsDirect
  <2>4. ShortCount(l)' <=> ShortCount(l)
    BY <2>2, FormsFrame
  <2>5. direct[l] <= direct'[l] /\ direct'[l] \in Nat
    BY <2>2
  <2>. QED
    BY <2>1, <2>2, <2>3, <2>4, <2>5
<1>. QED
  BY <1>1 DEF StagedIsDirect

LEMMA BackfillGrows ==
    ASSUME TypesInv, BackfillIsDirect, FormsKept,
           \A l \in Lines : direct[l] <= direct'[l] /\ direct'[l] \in Nat,
           \A l \in Lines : /\ <<Backfill, l>> \in DOMAIN boxes' => <<Backfill, l>> \in DOMAIN boxes
                            /\ <<Backfill, l>> \in DOMAIN boxes =>
                                  boxes'[<<Backfill, l>>] = boxes[<<Backfill, l>>]
    PROVE  BackfillIsDirect'
<1>1. ASSUME NEW l \in Lines, <<Backfill, l>> \in DOMAIN boxes'
      PROVE  ShortCount(l)' \/ boxes'[<<Backfill, l>>].declared <= direct'[l]
  <2>1. <<Backfill, l>> \in DOMAIN boxes /\ boxes'[<<Backfill, l>>] = boxes[<<Backfill, l>>]
    BY <1>1
  <2>2. boxes[<<Backfill, l>>].declared \in Nat /\ direct[l] \in Nat
    BY <2>1 DEF TypesInv, BoxTypes, Box, CountTypes, Units
  <2>3. ShortCount(l) \/ boxes[<<Backfill, l>>].declared <= direct[l]
    BY <2>1 DEF BackfillIsDirect
  <2>4. ShortCount(l)' <=> ShortCount(l)
    BY FormsFrame
  <2>5. direct[l] <= direct'[l] /\ direct'[l] \in Nat
    OBVIOUS
  <2>. QED
    BY <2>1, <2>2, <2>3, <2>4, <2>5
<1>. QED
  BY <1>1 DEF BackfillIsDirect, Lines

\* Telling goes on as before where nothing that it depends on changes.
LEMMA TellingFrame ==
    ASSUME FormsKept, UNCHANGED <<zoho, direct>>, NEW q, CoversTelling(q)
    PROVE  CoversTelling(q)'
<1>1. ASSUME NEW l \in Lines PROVE DeclaredOn(l)' = DeclaredOn(l)
  BY FormsFrame
<1>2. Untold(q)' = Untold(q)
  BY DEF Untold
<1>. QED
  BY <1>1, <1>2 DEF CoversTelling, Lines

LEMMA TellingKept ==
    ASSUME NEW q, NEW r, CoversTelling(q),
           r.pc = q.pc, r.next = q.next, r.staged = q.staged
    PROVE  CoversTelling(r)
  BY DEF CoversTelling, Untold

LEMMA ToldFrame ==
    ASSUME ToldIsDeclared, FormsKept, UNCHANGED <<zoho, direct>>,
           \A p \in Posts : CoversTelling(post'[p])
    PROVE  ToldIsDeclared'
<1>1. \A l \in Lines : (zoho[l] <= direct[l] + DeclaredOn(l))'
  BY FormsFrame DEF ToldIsDeclared
<1>2. ASSUME NEW p \in Posts PROVE CoversTelling(post[p])'
  <2>1. PICK q : q = post'[p]
    OBVIOUS
  <2>2. CoversTelling(q)'
    BY <2>1, TellingFrame
  <2>. QED
    BY <2>1, <2>2 DEF CoversTelling, Untold
<1>. QED
  BY <1>1, <1>2 DEF ToldIsDeclared, CoversTelling, Lines

LEMMA MirrorFrame ==
    ASSUME TypesInv, MirrorBehind, UNCHANGED mirror, Units(zoho)',
           \A l \in Lines : zoho[l] <= zoho'[l],
           job'.pc \in {"looked", "lines"} => mirror' # NoRow
    PROVE  MirrorBehind'
<1>0. NoRow' = NoRow
  BY DEF NoRow, Nothing
<1>1. ASSUME mirror # NoRow, NEW l \in Lines PROVE mirror'[l] <= zoho'[l]
  <2>1. mirror[l] \in Nat /\ zoho[l] \in Nat /\ zoho'[l] \in Nat
    BY <1>1 DEF TypesInv, CountTypes, Units, Lines
  <2>2. mirror[l] <= zoho[l] /\ zoho[l] <= zoho'[l]
    BY <1>1 DEF MirrorBehind
  <2>. QED
    BY <2>1, <2>2
<1>. QED
  BY <1>0, <1>1 DEF MirrorBehind, Lines

\* A step of a post, of the job or of the process that leaves the goods alone.
LEMMA ZohoElsewhere ==
    ASSUME TypesInv, TypesInv', ZohoInv, UNCHANGED <<boxes, zoho, direct, mirror>>,
           job'.staged = job.staged \/ job'.staged = Nothing,
           \A p \in Posts : CoversTelling(post'[p])
    PROVE  ZohoInv'
<1>1. FormsKept
  BY FormsUntouched
<1>2. BackfillIsDirect'
  BY BackfillFrame DEF ZohoInv
<1>3. \A l \in Lines : /\ zoho[l] \in Nat /\ direct[l] \in Nat
                       /\ zoho[l] <= zoho'[l] /\ direct[l] <= direct'[l] /\ direct'[l] \in Nat
  BY DEF TypesInv, CountTypes, Units
<1>4. StagedIsDirect'
  BY <1>1, <1>3, StagedFrame DEF ZohoInv, TypesInv
<1>5. MirrorBehind'
  BY <1>3, MirrorFrame DEF ZohoInv, TypesInv, CountTypes
<1>6. ToldIsDeclared'
  BY <1>1, ToldFrame DEF ZohoInv
<1>. QED
  BY <1>2, <1>4, <1>5, <1>6 DEF ZohoInv

LEMMA TellingStepped ==
    ASSUME ToldIsDeclared, NEW p \in Posts, NEW q, Stepped(p, q), q.pc # "saved"
    PROVE  \A r \in Posts : CoversTelling(post'[r])
<1>1. ASSUME NEW r \in Posts PROVE CoversTelling(post'[r])
  <2>1. CASE r = p
    BY <2>1 DEF Stepped, CoversTelling
  <2>2. CASE r # p
    BY <2>2, ToldParts DEF Stepped
  <2>. QED
    BY <2>1, <2>2
<1>. QED
  BY <1>1

LEMMA TellingPosts ==
    ASSUME ToldIsDeclared, PostsKept
    PROVE  \A r \in Posts : CoversTelling(post'[r])
<1>1. ASSUME NEW r \in Posts PROVE CoversTelling(post'[r])
  BY ToldParts, TellingKept DEF PostsKept, Kept
<1>. QED
  BY <1>1

LEMMA ZohoInit ==
    ASSUME ReceivingAssumption, Init
    PROVE  ZohoInv
<1>1. MirrorBehind
  BY DEF Init, MirrorBehind, Asleep, Lines, ReceivingAssumption
<1>2. TypesInv
  BY TypesInit
<1>3. ToldIsDeclared
  <2>1. ASSUME NEW l \in Lines PROVE zoho[l] <= direct[l] + DeclaredOn(l)
    <3>1. zoho[l] = 0 /\ direct[l] = 0 /\ DeclaredOn(l) \in Nat
      BY <1>2, SumsAreNat DEF Init, TypesInv
    <3>. QED
      BY <3>1
  <2>2. ASSUME NEW p \in Posts PROVE CoversTelling(post[p])
    BY IdleIsPost DEF Init, CoversTelling
  <2>. QED
    BY <2>1, <2>2, ToldParts
<1>4. StagedIsDirect
  BY NothingStaged DEF Init, StagedIsDirect, Asleep
<1>5. BackfillIsDirect
  BY NothingStaged DEF Init, BackfillIsDirect
<1>. QED
  BY <1>1, <1>3, <1>4, <1>5 DEF ZohoInv

---------------------------------------------------------------------------
(* A post is recorded, and Zoho is told                                    *)

LEMMA DeclaredAdds ==
    ASSUME TypesInv, BoxTypes', NEW s, NEW staged, FormBoxed(s, staged), NEW l \in Lines
    PROVE  DeclaredOn(l)' = DeclaredOn(l) + (IF l \in DOMAIN staged THEN staged[l].declared ELSE 0)
<1>1. IsFiniteSet(FormBoxesOn(l)) /\ DeclaredOn(l) \in Nat
  BY BoxesOnFinite, SumsAreNat DEF TypesInv
<1>. PICK D : D = FormBoxesOn(l)
  OBVIOUS
<1>. DEFINE m == [k \in D |-> boxes[k].declared]
<1>2. m \in [D -> Nat]
  BY DEF TypesInv, BoxTypes, Box, BoxesOn, FormBoxesOn
<1>3. DeclaredOn(l) = Total(m)
  BY DEF DeclaredOn
<1>. DEFINE r == [k \in FormBoxesOn(l)' |-> boxes'[k].declared]
<1>4. DeclaredOn(l)' = Total(r)
  BY DEF DeclaredOn, Total
<1>5. CASE l \notin DOMAIN staged
  <2>1. FormBoxesOn(l)' = D /\ \A k \in D : boxes'[k] = boxes[k]
    BY <1>5 DEF FormBoxed
  <2>2. r = m
    BY <2>1
  <2>. QED
    BY <1>1, <1>3, <1>4, <1>5, <2>2
<1>6. CASE l \in DOMAIN staged
  <2>. PICK k : k = <<s, l>>
    OBVIOUS
  <2>1. /\ FormBoxesOn(l)' = D \cup {k} /\ k \notin D
        /\ \A j \in D : boxes'[j] = boxes[j]
        /\ boxes'[k] = staged[l]
    BY <1>6 DEF FormBoxed
  <2>2. k \in DOMAIN boxes'
    BY <2>1 DEF FormBoxesOn, BoxesOn
  <2>3. boxes'[k].declared \in Nat
    BY <2>2 DEF BoxTypes, Box
  <2>4. r \in [D \cup {k} -> Nat] /\ \A j \in D : m[j] = r[j]
    <3>1. \A j \in D : boxes'[j].declared = m[j] /\ m[j] \in Nat
      <4>1. \A j \in D : m[j] = boxes[j].declared /\ m[j] \in Nat
        BY <1>2
      <4>. QED
        BY <2>1, <4>1
    <3>2. r = [j \in D \cup {k} |-> boxes'[j].declared]
      BY <2>1
    <3>3. \A j \in D \cup {k} : boxes'[j].declared \in Nat
      BY <2>3, <3>1
    <3>4. r \in [D \cup {k} -> Nat] /\ \A j \in D \cup {k} : r[j] = boxes'[j].declared
      BY <3>2, <3>3
    <3>. QED
      BY <3>1, <3>4
  <2>5. r[k] = staged[l].declared
    BY <2>1
  <2>6. Total(r) = Total(m) + r[k]
    <3>1. IsFiniteSet(D) /\ k \notin D
      BY <1>1, <2>1
    <3>. HIDE DEF m, r
    <3>. QED
      BY <1>2, <2>4, <3>1, TotalAdds
  <2>. QED
    BY <1>3, <1>4, <1>6, <2>5, <2>6
<1>. QED
  BY <1>5, <1>6

LEMMA ZohoSave ==
    ASSUME ReceivingAssumption, TypesInv, TypesInv', FormsInv, ZohoInv, NEW p \in Posts, Save(p)
    PROVE  ZohoInv'
<1>0. /\ PostTypes /\ LoopHeldOnce
      /\ \A l \in Lines : zoho[l] \in Nat /\ direct[l] \in Nat /\ DeclaredOn(l) \in Nat
  BY SumsAreNat DEF TypesInv, CountTypes, Units
<1>1. UNCHANGED <<order, zoho, direct, mirror, luma, job>>
  BY DEF Save
<1>. PICK r : r = post[p]
  OBVIOUS
<1>2. r.pc = "lines" /\ r.form \in Submissions /\ IsStaged(r.staged)
  BY <1>0, SaveEffect
<1>3. PICK q : Stepped(p, q) /\ q.pc = "saved" /\ q.next = 1 /\ q.staged = r.staged
  BY <1>0, SaveEffect
<1>4. FormBoxed(r.form, r.staged)
  BY FormRecorded DEF FormsInv
<1>5. \A x \in Posts \ {p} : post'[x] = post[x] /\ post[x].pc # "saved"
  BY <1>0, <1>2, <1>3 DEF LoopHeldOnce, OnLoop, Stepped
<1>6. \A l \in Lines :
         DeclaredOn(l)' = DeclaredOn(l) + (IF l \in DOMAIN r.staged THEN r.staged[l].declared ELSE 0)
  BY <1>4, DeclaredAdds DEF TypesInv
<1>7. \A l \in DOMAIN r.staged : r.staged[l].declared \in Nat /\ l \in Lines
  BY <1>2 DEF IsStaged, Box
<1>8. MirrorBehind'
  BY <1>0, <1>1, MirrorFrame DEF ZohoInv, TypesInv, CountTypes
<1>9. ToldIsDeclared'
  <2>1. ASSUME NEW l \in Lines PROVE zoho'[l] <= direct'[l] + DeclaredOn(l)'
    <3>1. zoho[l] <= direct[l] + DeclaredOn(l)
      BY DEF ZohoInv, ToldIsDeclared
    <3>. QED
      BY <1>0, <1>1, <1>6, <1>7, <3>1
  <2>2. ASSUME NEW x \in Posts, NEW l \in Lines, post'[x].pc = "saved", l \in Untold(post'[x])
        PROVE  zoho'[l] + post'[x].staged[l].declared <= direct'[l] + DeclaredOn(l)'
    <3>1. x = p /\ post'[x] = q
      BY <1>3, <1>5, <2>2 DEF Stepped
    <3>2. l \in DOMAIN r.staged
      BY <1>3, <2>2, <3>1 DEF Untold
    <3>3. zoho[l] <= direct[l] + DeclaredOn(l)
      BY DEF ZohoInv, ToldIsDeclared
    <3>4. zoho[l] + r.staged[l].declared <= direct[l] + (DeclaredOn(l) + r.staged[l].declared)
      BY <1>0, <1>7, <3>2, <3>3
    <3>5. DeclaredOn(l)' = DeclaredOn(l) + r.staged[l].declared
      BY <1>6, <3>2
    <3>. QED
      BY <1>1, <1>3, <3>1, <3>4, <3>5
  <2>. QED
    BY <2>1, <2>2 DEF ToldIsDeclared, Lines, Untold
<1>10. ASSUME NEW l \in Lines, ShortCount(l) PROVE ShortCount(l)'
  <2>1. PICK k \in FormBoxesOn(l) : Worth(boxes[k]) < boxes[k].declared
    BY <1>10 DEF ShortCount
  <2>2. /\ FormBoxesOn(l) \subseteq FormBoxesOn(l)'
        /\ \A j \in FormBoxesOn(l) : boxes'[j] = boxes[j]
    <3>1. /\ FormBoxesOn(l)'
               = FormBoxesOn(l) \cup (IF l \in DOMAIN r.staged THEN {<<r.form, l>>} ELSE {})
          /\ \A j \in FormBoxesOn(l) : boxes'[j] = boxes[j]
      BY <1>4 DEF FormBoxed
    <3>. QED
      BY <3>1
  <2>. QED
    BY <2>1, <2>2 DEF ShortCount, Worth
<1>11. StagedIsDirect'
  <2>1. DOMAIN job.staged \subseteq Lines
    BY DEF TypesInv, JobTypes, IsStaged
  <2>2. ASSUME NEW l \in DOMAIN job.staged
        PROVE  ShortCount(l)' \/ job.staged[l].declared <= direct[l]
    BY <1>10, <2>1 DEF ZohoInv, StagedIsDirect
  <2>. QED
    BY <1>1, <2>2 DEF StagedIsDirect
<1>12. BackfillIsDirect'
  <2>1. ASSUME NEW l \in Lines, <<Backfill, l>> \in DOMAIN boxes'
        PROVE  ShortCount(l)' \/ boxes'[<<Backfill, l>>].declared <= direct'[l]
    <3>1. <<Backfill, l>> \notin {r.form} \X DOMAIN r.staged
      BY <1>2 DEF ReceivingAssumption
    <3>2. Gained(r.form, DOMAIN r.staged, r.staged)
      BY <1>4 DEF FormBoxed
    <3>3. <<Backfill, l>> \in DOMAIN boxes /\ boxes'[<<Backfill, l>>] = boxes[<<Backfill, l>>]
      BY <2>1, <3>1, <3>2 DEF Gained
    <3>. QED
      BY <1>1, <1>10, <3>3 DEF ZohoInv, BackfillIsDirect
  <2>. QED
    BY <2>1 DEF BackfillIsDirect, Lines
<1>. QED
  BY <1>8, <1>9, <1>11, <1>12 DEF ZohoInv

LEMMA ZohoTell ==
    ASSUME ReceivingAssumption, TypesInv, TypesInv', ZohoInv, NEW p \in Posts, TellZoho(p)
    PROVE  ZohoInv'
<1>0. /\ PostTypes /\ LoopHeldOnce /\ zoho \in [Lines -> Nat]
      /\ \A l \in Lines : zoho[l] \in Nat /\ direct[l] \in Nat /\ DeclaredOn(l) \in Nat
  BY SumsAreNat DEF TypesInv, CountTypes, Units
<1>1. UNCHANGED <<order, boxes, direct, mirror, luma, job, recorded>>
  BY DEF TellZoho
<1>. PICK r : r = post[p]
  OBVIOUS
<1>2. r.pc = "saved" /\ IsStaged(r.staged)
  BY <1>0, TellEffect DEF PostTypes, IsPost
<1>3. PICK l \in Untold(r) :
         /\ l \in Lines /\ r.staged[l] \in Box
         /\ zoho' = zoho \/ zoho' = [zoho EXCEPT ![l] = @ + r.staged[l].declared]
         /\ \E q : Stepped(p, q) /\ q.pc = "saved" /\ q.next = l + 1 /\ q.staged = r.staged
  BY <1>0, TellEffect
<1>4. PICK q : Stepped(p, q) /\ q.pc = "saved" /\ q.next = l + 1 /\ q.staged = r.staged
  BY <1>3
<1>5. PICK d : d = r.staged[l].declared /\ d \in Nat
  BY <1>3 DEF Box
<1>6. /\ \A m \in Lines \ {l} : zoho'[m] = zoho[m]
      /\ zoho'[l] = zoho[l] \/ zoho'[l] = zoho[l] + d
  BY <1>0, <1>3, <1>5
<1>7. zoho[l] + d <= direct[l] + DeclaredOn(l)
  BY <1>2, <1>3, <1>5 DEF ZohoInv, ToldIsDeclared
<1>8. FormsKept /\ \A m \in Lines : DeclaredOn(m)' = DeclaredOn(m)
  BY <1>1, FormsUntouched, FormsFrame
<1>9. \A m \in Lines : zoho[m] <= zoho'[m]
  BY <1>0, <1>3, <1>5, <1>6
<1>10. MirrorBehind'
  BY <1>1, <1>9, MirrorFrame DEF ZohoInv, TypesInv, CountTypes
<1>11. StagedIsDirect'
  BY <1>0, <1>1, <1>8, StagedFrame DEF ZohoInv, TypesInv
<1>12. BackfillIsDirect'
  BY <1>1, BackfillFrame DEF ZohoInv
<1>13. ASSUME NEW m \in Lines PROVE zoho'[m] <= direct'[m] + DeclaredOn(m)'
  <2>1. zoho[m] <= direct[m] + DeclaredOn(m)
    BY DEF ZohoInv, ToldIsDeclared
  <2>2. zoho'[m] <= direct[m] + DeclaredOn(m)
    BY <1>0, <1>3, <1>5, <1>6, <1>7, <2>1
  <2>. QED
    BY <1>1, <1>8, <2>2
<1>14. ASSUME NEW x \in Posts, NEW m \in Lines, post'[x].pc = "saved", m \in Untold(post'[x])
       PROVE  zoho'[m] + post'[x].staged[m].declared <= direct'[m] + DeclaredOn(m)'
  <2>1. x = p
    <3>1. x # p => post[x].pc = "saved"
      BY <1>4, <1>14 DEF Stepped
    <3>. QED
      BY <1>0, <1>2, <3>1 DEF LoopHeldOnce, OnLoop
  <2>2. post'[x] = q
    BY <1>4, <2>1 DEF Stepped
  <2>3. m \in DOMAIN r.staged /\ m >= l + 1
    BY <1>4, <1>14, <2>2 DEF Untold
  <2>4. m \in Untold(r) /\ m # l
    <3>1. l >= r.next /\ r.next \in Nat /\ l \in Nat /\ m \in Nat
      BY <1>0, <1>3 DEF Untold, PostTypes, IsPost, Lines
    <3>. QED
      BY <2>3, <3>1 DEF Untold
  <2>5. zoho[m] + r.staged[m].declared <= direct[m] + DeclaredOn(m)
    BY <1>2, <2>4 DEF ZohoInv, ToldIsDeclared
  <2>. QED
    BY <1>1, <1>4, <1>6, <1>8, <2>2, <2>4, <2>5
<1>15. ToldIsDeclared'
  BY <1>13, <1>14 DEF ToldIsDeclared, Lines, Untold
<1>. QED
  BY <1>10, <1>11, <1>12, <1>15 DEF ZohoInv

LEMMA ZohoDirect ==
    ASSUME ReceivingAssumption, TypesInv, TypesInv', ZohoInv, NEW l \in Lines, ReceiveInZoho(l)
    PROVE  ZohoInv'
<1>0. /\ zoho \in [Lines -> Nat] /\ direct \in [Lines -> Nat]
      /\ \A m \in Lines : DeclaredOn(m) \in Nat /\ zoho[m] \in Nat /\ direct[m] \in Nat
  BY SumsAreNat DEF TypesInv, CountTypes, Units
<1>1. UNCHANGED <<order, boxes, mirror, luma, post, job, recorded>>
  BY DEF ReceiveInZoho
<1>2. \A m \in Lines : \/ zoho'[m] = zoho[m] /\ direct'[m] = direct[m]
                       \/ zoho'[m] = zoho[m] + 1 /\ direct'[m] = direct[m] + 1
  BY <1>0 DEF ReceiveInZoho
<1>3. FormsKept /\ \A m \in Lines : DeclaredOn(m)' = DeclaredOn(m)
  BY <1>1, FormsUntouched, FormsFrame
<1>4. \A m \in Lines : zoho[m] <= zoho'[m] /\ direct[m] <= direct'[m] /\ direct'[m] \in Nat
  BY <1>0, <1>2
<1>5. MirrorBehind'
  BY <1>1, <1>4, MirrorFrame DEF ZohoInv, TypesInv, CountTypes
<1>6. StagedIsDirect'
  BY <1>1, <1>3, <1>4, StagedFrame DEF ZohoInv, TypesInv
<1>7. BackfillIsDirect'
  BY <1>1, <1>3, <1>4, BackfillGrows DEF ZohoInv
<1>8. ASSUME NEW m \in Lines PROVE zoho'[m] <= direct'[m] + DeclaredOn(m)'
  <2>1. zoho[m] <= direct[m] + DeclaredOn(m)
    BY DEF ZohoInv, ToldIsDeclared
  <2>. QED
    BY <1>0, <1>2, <1>3, <2>1
<1>9. ASSUME NEW x \in Posts, NEW m \in Lines, post'[x].pc = "saved", m \in Untold(post'[x])
      PROVE  zoho'[m] + post'[x].staged[m].declared <= direct'[m] + DeclaredOn(m)'
  <2>1. post'[x] = post[x]
    BY <1>1
  <2>2. zoho[m] + post[x].staged[m].declared <= direct[m] + DeclaredOn(m)
    BY <1>9, <2>1 DEF ZohoInv, ToldIsDeclared
  <2>3. post[x].staged[m].declared \in Nat
    BY <1>9, <2>1 DEF TypesInv, PostTypes, IsPost, IsStaged, Untold, Box
  <2>. QED
    BY <1>0, <1>2, <1>3, <2>1, <2>2, <2>3
<1>10. ToldIsDeclared'
  BY <1>8, <1>9 DEF ToldIsDeclared, Lines, Untold
<1>. QED
  BY <1>5, <1>6, <1>7, <1>10 DEF ZohoInv

LEMMA ZohoReplace ==
    ASSUME ReceivingAssumption, TypesInv, TypesInv', ZohoInv,
           NEW row, row = zoho \/ row = NoRow, Replace(row)
    PROVE  ZohoInv'
<1>0. /\ PostTypes /\ JobTypes
      /\ \A m \in Lines : zoho[m] \in Nat /\ direct[m] \in Nat
  BY DEF TypesInv, CountTypes, Units
<1>1. UNCHANGED <<order, boxes, zoho, direct, luma, recorded>> /\ mirror' = row
  BY DEF Replace
<1>2. JobMoves({"synced"}) /\ PostsKept
  BY <1>0, StartEffect, ReplaceEffect DEF Replace
<1>3. FormsKept
  BY <1>1, FormsUntouched
<1>4. MirrorBehind'
  BY <1>0, <1>1, <1>2 DEF MirrorBehind, JobMoves, Lines, NoRow, Nothing
<1>5. StagedIsDirect'
  BY <1>0, <1>1, <1>2, <1>3, StagedFrame DEF ZohoInv, JobMoves
<1>6. BackfillIsDirect'
  BY <1>1, BackfillFrame DEF ZohoInv
<1>7. ToldIsDeclared'
  BY <1>1, <1>2, <1>3, TellingPosts, ToldFrame DEF ZohoInv
<1>. QED
  BY <1>4, <1>5, <1>6, <1>7 DEF ZohoInv

LEMMA ZohoCarton ==
    ASSUME ReceivingAssumption, TypesInv, TypesInv', ZohoInv,
           NEW c \in Cartons, NEW l \in Lines, AddCarton(c, l)
    PROVE  ZohoInv'
<1>0. /\ PostTypes /\ BoxTypes /\ BoxesFinite
      /\ \A m \in Lines : zoho[m] \in Nat /\ direct[m] \in Nat
  BY DEF TypesInv, CountTypes, Units
<1>1. UNCHANGED <<order, zoho, direct, mirror, luma, post, job, recorded>>
  BY DEF AddCarton
<1>2. PICK staged : Gained(c, {l}, staged)
  BY <1>0, CartonEffect
<1>3. c \notin Submissions /\ c # Backfill
  BY DEF ReceivingAssumption
<1>4. FormsKept
  BY <1>2, <1>3, FormsBesides
<1>5. ASSUME NEW m \in Lines
      PROVE  /\ <<Backfill, m>> \in DOMAIN boxes' => <<Backfill, m>> \in DOMAIN boxes
             /\ <<Backfill, m>> \in DOMAIN boxes =>
                   boxes'[<<Backfill, m>>] = boxes[<<Backfill, m>>]
  BY <1>2, <1>3 DEF Gained
<1>6. \A m \in Lines : zoho[m] <= zoho'[m] /\ direct[m] <= direct'[m] /\ direct'[m] \in Nat
  BY <1>0, <1>1
<1>7. BackfillIsDirect'
  BY <1>4, <1>5, <1>6, BackfillGrows DEF ZohoInv
<1>8. StagedIsDirect'
  BY <1>1, <1>4, <1>6, StagedFrame DEF ZohoInv, TypesInv
<1>9. MirrorBehind'
  BY <1>1, <1>6, MirrorFrame DEF ZohoInv, TypesInv, CountTypes
<1>10. ToldIsDeclared'
  BY <1>0, <1>1, <1>4, PostUnchanged, TellingPosts, ToldFrame DEF ZohoInv
<1>. QED
  BY <1>7, <1>8, <1>9, <1>10 DEF ZohoInv

---------------------------------------------------------------------------
(* The catch-up                                                            *)

\* A line counted in full is missed by no more than Zoho received itself.
LEMMA MissedIsDirect ==
    ASSUME TypesInv, ZohoInv, mirror # NoRow,
           NEW l \in Lines, NEW box, MissedOn(l, box), ~ShortCount(l)
    PROVE  box.declared <= direct[l]
<1>1. /\ zoho[l] \in Nat /\ direct[l] \in Nat /\ mirror[l] \in Nat
      /\ DeclaredOn(l) \in Nat /\ Covered(l) \in Nat
  BY SumsAreNat, MirrorUnits DEF TypesInv, CountTypes, Units
<1>2. mirror[l] <= zoho[l] /\ zoho[l] <= direct[l] + DeclaredOn(l)
  BY DEF ZohoInv, MirrorBehind, ToldIsDeclared
<1>3. DeclaredOn(l) <= Covered(l)
  BY CoveredInFull DEF TypesInv
<1>4. box.declared = mirror[l] - Covered(l)
  BY DEF MissedOn
<1>. QED
  BY <1>1, <1>2, <1>3, <1>4

LEMMA ZohoCatchUpLine ==
    ASSUME ReceivingAssumption, TypesInv, TypesInv', ZohoInv, CatchUpLine
    PROVE  ZohoInv'
<1>0. /\ PostTypes /\ JobTypes /\ JobTypes' /\ \A l \in Lines : Covered(l) \in Nat
      /\ \A l \in Lines : zoho[l] \in Nat /\ direct[l] \in Nat
      /\ mirror # NoRow
  BY SumsAreNat DEF TypesInv, CountTypes, Units, CatchUpLine
<1>1. UNCHANGED <<order, boxes, zoho, direct, mirror, luma, post, recorded>>
  BY DEF CatchUpLine
<1>2. \/ job'.staged = job.staged
      \/ \E l \in Lines : \E box \in Box :
            MissedOn(l, box) /\ job'.staged = Staging(job.staged, l, box)
  BY <1>0, MirrorUnits, CatchUpLineEffect
<1>3. FormsKept
  BY <1>1, FormsUntouched
<1>4. \A l \in Lines : zoho[l] <= zoho'[l] /\ direct[l] <= direct'[l] /\ direct'[l] \in Nat
  BY <1>0, <1>1
<1>5. BackfillIsDirect'
  BY <1>1, BackfillFrame DEF ZohoInv
<1>6. MirrorBehind'
  BY <1>1, <1>4, MirrorFrame DEF ZohoInv, TypesInv, CountTypes
<1>7. ToldIsDeclared'
  BY <1>0, <1>1, <1>3, PostUnchanged, TellingPosts, ToldFrame DEF ZohoInv
<1>8. StagedIsDirect'
  <2>1. CASE job'.staged = job.staged
    BY <1>0, <1>3, <1>4, <2>1, StagedFrame DEF ZohoInv
  <2>2. ASSUME NEW l \in Lines, NEW box \in Box, MissedOn(l, box),
               job'.staged = Staging(job.staged, l, box)
        PROVE  StagedIsDirect'
    <3>1. ASSUME NEW m \in DOMAIN job'.staged
          PROVE  ShortCount(m)' \/ job'.staged[m].declared <= direct'[m]
      <4>0. m \in Lines
        BY <1>0 DEF JobTypes, IsStaged
      <4>1. ShortCount(m)' <=> ShortCount(m)
        BY <1>3, <4>0, FormsFrame
      <4>2. CASE m = l
        <5>1. job'.staged[m] = box
          BY <2>2, <4>2 DEF Staging
        <5>2. ShortCount(m) \/ box.declared <= direct[m]
          BY <1>0, <2>2, <4>2, MissedIsDirect
        <5>. QED
          BY <1>1, <4>1, <5>1, <5>2
      <4>3. CASE m # l
        <5>1. m \in DOMAIN job.staged /\ job'.staged[m] = job.staged[m]
          BY <2>2, <3>1, <4>3 DEF Staging
        <5>2. ShortCount(m) \/ job.staged[m].declared <= direct[m]
          BY <5>1 DEF ZohoInv, StagedIsDirect
        <5>. QED
          BY <1>1, <4>1, <5>1, <5>2
      <4>. QED
        BY <4>2, <4>3
    <3>. QED
      BY <3>1 DEF StagedIsDirect
  <2>. QED
    BY <1>2, <2>1, <2>2
<1>. QED
  BY <1>5, <1>6, <1>7, <1>8 DEF ZohoInv

LEMMA ZohoCatchUp ==
    ASSUME ReceivingAssumption, TypesInv, TypesInv', ZohoInv, CatchUp
    PROVE  ZohoInv'
<1>0. /\ PostTypes /\ BoxTypes /\ BoxesFinite /\ JobTypes /\ JobTypes'
      /\ order \in {"none", "shipped", "received"}
      /\ \A l \in Lines : zoho[l] \in Nat /\ direct[l] \in Nat
  BY DEF TypesInv, CountTypes, Units
<1>1. UNCHANGED <<zoho, direct, mirror, luma, post, recorded>>
  BY DEF CatchUp
<1>2. JobRests /\ Gained(Backfill, DOMAIN job.staged, job.staged)
  BY <1>0, CatchUpEffect
<1>3. Backfill \notin Submissions
  BY DEF ReceivingAssumption
<1>4. FormsKept
  BY <1>2, <1>3, FormsBesides
<1>5. \A l \in Lines : zoho[l] <= zoho'[l] /\ direct[l] <= direct'[l] /\ direct'[l] \in Nat
  BY <1>0, <1>1
<1>6. MirrorBehind'
  BY <1>1, <1>5, MirrorFrame DEF ZohoInv, TypesInv, CountTypes
<1>7. ToldIsDeclared'
  BY <1>0, <1>1, <1>4, PostUnchanged, TellingPosts, ToldFrame DEF ZohoInv
<1>8. StagedIsDirect'
  BY <1>0, <1>2, <1>4, <1>5, StagedFrame DEF ZohoInv, JobRests
<1>9. ASSUME NEW l \in Lines, <<Backfill, l>> \in DOMAIN boxes'
      PROVE  ShortCount(l)' \/ boxes'[<<Backfill, l>>].declared <= direct'[l]
  <2>1. ShortCount(l)' <=> ShortCount(l)
    BY <1>4, FormsFrame
  <2>2. CASE l \in DOMAIN job.staged
    <3>1. boxes'[<<Backfill, l>>] = job.staged[l]
      BY <1>2, <2>2 DEF Gained
    <3>2. ShortCount(l) \/ job.staged[l].declared <= direct[l]
      BY <2>2 DEF ZohoInv, StagedIsDirect
    <3>. QED
      BY <1>1, <2>1, <3>1, <3>2
  <2>3. CASE l \notin DOMAIN job.staged
    <3>1. <<Backfill, l>> \notin {Backfill} \X DOMAIN job.staged
      BY <2>3
    <3>2. <<Backfill, l>> \in DOMAIN boxes /\ boxes'[<<Backfill, l>>] = boxes[<<Backfill, l>>]
      BY <1>2, <1>9, <3>1 DEF Gained
    <3>3. ShortCount(l) \/ boxes[<<Backfill, l>>].declared <= direct[l]
      BY <3>2 DEF ZohoInv, BackfillIsDirect
    <3>. QED
      BY <1>1, <2>1, <3>2, <3>3
  <2>. QED
    BY <2>2, <2>3
<1>10. BackfillIsDirect'
  BY <1>9 DEF BackfillIsDirect, Lines
<1>. QED
  BY <1>6, <1>7, <1>8, <1>10 DEF ZohoInv

LEMMA ZohoHandle ==
    ASSUME ReceivingAssumption, TypesInv, TypesInv', FormsInv, ZohoInv, NEW p \in Posts, Handle(p)
    PROVE  ZohoInv'
<1>0. PostTypes /\ order \in {"none", "shipped", "received"} /\ ToldIsDeclared
  BY DEF TypesInv, ZohoInv
<1>1. CASE Save(p)
  BY <1>1, ZohoSave
<1>2. CASE TellZoho(p)
  BY <1>2, ZohoTell
<1>3. CASE Judge(p) \/ Adopt(p) \/ LineFails(p) \/ Answer(p) \/ BoxLine(p) \/ SkipLine(p)
  <2>1. UNCHANGED <<boxes, zoho, direct, mirror, job>>
    BY <1>3 DEF Judge, Adopt, LineFails, Answer, BoxLine, SkipLine
  <2>2. \E q : Stepped(p, q) /\ q.pc # "saved"
    <3>1. CASE Judge(p)
      BY <1>0, <3>1, JudgeEffect, IdleIsPost
    <3>2. CASE Adopt(p)
      BY <1>0, <3>2, AdoptEffect, IdleIsPost
    <3>3. CASE LineFails(p) \/ Answer(p)
      BY <1>0, <3>3, StoppedEffect, IdleIsPost
    <3>4. CASE BoxLine(p)
      BY <1>0, <3>4, BoxLineEffect
    <3>5. CASE SkipLine(p)
      BY <1>0, <3>5, SkipLineEffect
    <3>. QED
      BY <1>3, <3>1, <3>2, <3>3, <3>4, <3>5
  <2>. QED
    BY <1>0, <2>1, <2>2, TellingStepped, ZohoElsewhere
<1>. QED
  BY <1>1, <1>2, <1>3 DEF Handle

LEMMA ZohoNext ==
    ASSUME ReceivingAssumption, TypesInv, TypesInv', FormsInv, ZohoInv, [Next]_vars
    PROVE  ZohoInv'
<1>0. /\ PostTypes /\ JobTypes /\ order \in {"none", "shipped", "received"} /\ ToldIsDeclared
  BY DEF TypesInv, ZohoInv
<1>1. ASSUME NEW p \in Posts, NEW s \in Submissions, Arrive(p, s)
      PROVE  ZohoInv'
  <2>1. UNCHANGED <<order, boxes, zoho, direct, mirror, luma, job, recorded>>
    BY <1>1 DEF Arrive
  <2>2. \E q : Stepped(p, q) /\ q.pc # "saved"
    BY <1>0, <1>1, ArriveEffect
  <2>. QED
    BY <1>0, <2>1, <2>2, TellingStepped, ZohoElsewhere
<1>2. ASSUME NEW p \in Posts, Handle(p)
      PROVE  ZohoInv'
  BY <1>2, ZohoHandle
<1>3. ASSUME NEW c \in Cartons, NEW l \in Lines, AddCarton(c, l)
      PROVE  ZohoInv'
  BY <1>3, ZohoCarton
<1>4. ASSUME NEW l \in Lines, ReceiveInZoho(l)
      PROVE  ZohoInv'
  BY <1>4, ZohoDirect
<1>5. ASSUME NEW row, row = zoho \/ row = NoRow, Replace(row)
      PROVE  ZohoInv'
  BY <1>5, ZohoReplace
<1>6. CASE SyncFails \/ Look \/ JobAdopts \/ Restart
  <2>1. UNCHANGED <<boxes, zoho, direct, mirror, post>>
    BY <1>6 DEF SyncFails, Look, JobAdopts, Restart
  <2>2. job'.staged = job.staged \/ job'.staged = Nothing
    <3>1. CASE SyncFails
      BY <1>0, <3>1, StartEffect DEF SyncFails, JobMoves
    <3>2. CASE Look
      BY <1>0, <3>2, LookEffect DEF JobMoves, JobRests
    <3>3. CASE JobAdopts
      BY <1>0, <3>3, JobAdoptsEffect DEF JobMoves, JobRests
    <3>4. CASE Restart
      BY <3>4, AsleepIsJob DEF Restart
    <3>. QED
      BY <1>6, <3>1, <3>2, <3>3, <3>4
  <2>. QED
    BY <1>0, <2>1, <2>2, PostUnchanged, TellingPosts, ZohoElsewhere
<1>7. CASE CatchUpLine
  BY <1>7, ZohoCatchUpLine
<1>8. CASE CatchUp
  BY <1>8, ZohoCatchUp
<1>9. CASE Crash
  <2>1. UNCHANGED <<order, boxes, zoho, direct, mirror, recorded>>
    BY <1>9 DEF Crash
  <2>2. job'.staged = Nothing /\ \A r \in Posts : post'[r].pc = "idle"
    BY <1>9, CrashEffect, IdleIsPost
  <2>3. \A r \in Posts : CoversTelling(post'[r])
    BY <2>2 DEF CoversTelling
  <2>. QED
    BY <2>1, <2>2, <2>3, ZohoElsewhere
<1>10. CASE UNCHANGED vars
  <2>1. UNCHANGED <<boxes, zoho, direct, mirror, post, job>>
    BY <1>10 DEF vars
  <2>. QED
    BY <1>0, <2>1, PostUnchanged, TellingPosts, ZohoElsewhere
<1>. QED
  BY <1>1, <1>2, <1>3, <1>4, <1>5, <1>6, <1>7, <1>8, <1>9, <1>10 DEF Next, Sync, MissDetail, RunJob

---------------------------------------------------------------------------
(* Theorems                                                                *)

ReceivingInv == TypesInv /\ FormsInv /\ ZohoInv

THEOREM Inductive == Spec => []ReceivingInv
<1>1. Init => ReceivingInv
  BY ReceivingAssumption, TypesInit, FormsInit, ZohoInit DEF ReceivingInv
<1>2. ReceivingInv /\ [Next]_vars => ReceivingInv'
  BY ReceivingAssumption, TypesNext, FormsNext, ZohoNext DEF ReceivingInv
<1>. QED
  BY <1>1, <1>2, PTL DEF Spec

\* The variables keep their types, Zoho has what it received itself, and no two
\* posts have the event loop at a time (submit_receiving).
THEOREM TypeCorrect == Spec => []TypeOK
<1>1. ReceivingInv => TypeOK
  BY TypesInvGives DEF ReceivingInv
<1>. QED
  BY <1>1, Inductive, PTL

\* However often and from however many posts a form is sent, and whatever a
\* crash or an exception cuts off, it is recorded once, and Luma has been told
\* of its lines by one post, apart from those rolled back (submit_receiving,
\* submission_id).
THEOREM FormsTakeEffectOnce == Spec => []FormTakesEffectOnce
<1>1. ReceivingInv => FormTakesEffectOnce
  <2>1. ASSUME ReceivingInv, NEW s \in Submissions
        PROVE  recorded[s] <= 1 /\ \A l \in Lines : luma[<<s, l>>] <= 1
    <3>1. recorded[s] = 0 \/ recorded[s] = 1
      BY <2>1 DEF ReceivingInv, FormsInv, RecordSound
    <3>2. \A l \in Lines : luma[<<s, l>>] = 0 \/ luma[<<s, l>>] = 1
      BY <2>1 DEF ReceivingInv, FormsInv, LumaSound, LumaTold
    <3>. QED
      BY <3>1, <3>2
  <2>. QED
    BY <2>1 DEF FormTakesEffectOnce
<1>. QED
  BY <1>1, Inductive, PTL

\* Zoho has no more from forms than the boxes on record declare: what is told
\* has been committed before (submit_receiving, submit_zoho_receives).
THEOREM ZohoComesAfterPackTrack == Spec => []ZohoAfterPackTrack
<1>1. ReceivingInv => ZohoAfterPackTrack
  <2>1. ASSUME ReceivingInv, NEW l \in Lines
        PROVE  zoho[l] - direct[l] <= DeclaredOn(l)
    <3>1. zoho[l] \in Nat /\ direct[l] \in Nat /\ DeclaredOn(l) \in Nat
      BY <2>1, SumsAreNat DEF ReceivingInv, TypesInv, CountTypes, Units
    <3>2. zoho[l] <= direct[l] + DeclaredOn(l)
      BY <2>1 DEF ReceivingInv, ZohoInv, ToldIsDeclared
    <3>. QED
      BY <3>1, <3>2
  <2>. QED
    BY <2>1 DEF ZohoAfterPackTrack
<1>. QED
  BY <1>1, Inductive, PTL

\* A catch-up box holds no more than Zoho received itself, a line counted
\* short apart (catchup_zoho_receives).
THEOREM CatchUpIsDirect == Spec => []BackfillIsDirect
<1>1. ReceivingInv => BackfillIsDirect
  BY DEF ReceivingInv, ZohoInv
<1>. QED
  BY <1>1, Inductive, PTL
=============================================================================
