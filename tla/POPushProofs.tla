---------------------------- MODULE POPushProofs ----------------------------
(***************************************************************************)
(* Theorems of POPush for any orders, scheduler processes and window.      *)
(***************************************************************************)
EXTENDS POPush, FiniteSetTheorems, SequenceTheorems, TLAPS

---------------------------------------------------------------------------
(* The orders a retry run selects: places in the book, counted.            *)

CountIn(places, i) == Cardinality({j \in places : j <= i})

LEMMA PlacesFinite ==
    ASSUME NEW n \in Nat, NEW S \in SUBSET (1 .. n)
    PROVE  IsFiniteSet(S) /\ Cardinality(S) \in Nat
<1>1. IsFiniteSet(1 .. n)
  BY FS_Interval
<1>. QED
  BY <1>1, FS_Subset, FS_CardinalityType

LEMMA CountsOnce ==
    ASSUME NEW n \in Nat, NEW S \in SUBSET (1 .. n), NEW i \in S, NEW k \in S
    PROVE  /\ CountIn(S, i) \in 1 .. Cardinality(S)
           /\ i < k => CountIn(S, i) < CountIn(S, k)
<1>. DEFINE P == {j \in S : j <= i}
            Q == {j \in S : j <= k}
<1>1. P \in SUBSET (1 .. n) /\ Q \in SUBSET (1 .. n) /\ i \in P /\ P \subseteq S
  <2>1. P \subseteq S /\ Q \subseteq S
    OBVIOUS
  <2>2. i \in Int /\ i <= i
    OBVIOUS
  <2>3. i \in P
    BY <2>2
  <2>. QED
    BY <2>1, <2>3
<1>2. IsFiniteSet(S) /\ Cardinality(S) \in Nat /\ IsFiniteSet(P) /\ Cardinality(P) \in Nat
      /\ IsFiniteSet(Q) /\ Cardinality(Q) \in Nat
  BY <1>1, PlacesFinite
<1>3. Cardinality(P) <= Cardinality(S) /\ Cardinality(P) # 0
  BY <1>1, <1>2, FS_Subset, FS_EmptySet
<1>4. ASSUME i < k PROVE Cardinality(P) < Cardinality(Q)
  <2>0. i \in Int /\ k \in Int /\ \A j \in S : j \in Int
    OBVIOUS
  <2>1. P \subseteq Q /\ k \in Q /\ k \notin P
    <3>1. k <= k /\ ~ (k <= i) /\ \A j \in S : j <= i => j <= k
      BY <1>4, <2>0
    <3>. QED
      BY <3>1
  <2>2. Cardinality(P) <= Cardinality(Q) /\ Cardinality(P) # Cardinality(Q)
    BY <1>2, <2>1, FS_Subset
  <2>. QED
    BY <1>2, <2>2
<1>. QED
  BY <1>2, <1>3, <1>4 DEF CountIn

LEMMA CountsAll ==
    ASSUME NEW n \in Nat, NEW S \in SUBSET (1 .. n), NEW m \in 1 .. Cardinality(S)
    PROVE  \E i \in S : CountIn(S, i) = m
<1>. DEFINE N == 1 .. Cardinality(S)
            count == [i \in S |-> CountIn(S, i)]
<1>1. IsFiniteSet(S) /\ Cardinality(S) \in Nat
  BY PlacesFinite
<1>2. IsFiniteSet(N) /\ Cardinality(N) = Cardinality(S)
  BY <1>1, FS_Interval
<1>3. count \in [S -> N]
  BY CountsOnce
<1>4. ASSUME NEW i \in S, NEW k \in S, CountIn(S, i) = CountIn(S, k) PROVE i = k
  <2>1. CountIn(S, i) \in 1 .. Cardinality(S) /\ (i < k => CountIn(S, i) < CountIn(S, k))
    BY CountsOnce
  <2>2. k < i => CountIn(S, k) < CountIn(S, i)
    BY CountsOnce
  <2>3. ~ (i < k) /\ ~ (k < i)
    BY <1>1, <1>4, <2>1, <2>2
  <2>. QED
    BY <2>3
<1>5. count \in Injection(S, N)
  BY <1>3, <1>4 DEF Injection, IsInjective
<1>6. count \in Surjection(S, N)
  BY <1>1, <1>2, <1>5, FS_Injection
<1>. QED
  BY <1>6 DEF Surjection

LEMMA OldestOrders ==
    ASSUME PushAssumption, book \in Seq(Orders), NEW places \in SUBSET DOMAIN book
    PROVE  Oldest(places) \in Seq(Orders)
<1>. DEFINE c == Cardinality(places)
            k == IF c < Window THEN c ELSE Window
            The(m) == CHOOSE i \in places : CountIn(places, i) = m
            run == [m \in 1 .. k |-> book[The(m)]]
<1>1. DOMAIN book = 1 .. Len(book) /\ Len(book) \in Nat /\ \A i \in DOMAIN book : book[i] \in Orders
  BY LenProperties
<1>2. c \in Nat
  BY <1>1, PlacesFinite
<1>3. k \in Nat /\ k <= c
  BY <1>2 DEF PushAssumption
<1>. HIDE DEF c, k
<1>4. ASSUME NEW m \in 1 .. k PROVE book[The(m)] \in Orders
  <2>1. m \in 1 .. c
    BY <1>2, <1>3
  <2>2. \E i \in places : CountIn(places, i) = m
    BY <1>1, <2>1, CountsAll DEF c
  <2>3. The(m) \in places
    BY <2>2
  <2>. QED
    BY <1>1, <2>3
<1>5. run \in [1 .. k -> Orders]
  BY <1>4
<1>6. Oldest(places) = run
  BY DEF Oldest, CountIn, c, k
<1>. HIDE DEF run
<1>7. run \in Seq(Orders)
  BY <1>3, <1>5, SeqDef
<1>. QED
  BY <1>6, <1>7

LEMMA RunSelects ==
    ASSUME PushAssumption, book \in Seq(Orders)
    PROVE  Unpushed \in Seq(Orders)
<1>1. {i \in DOMAIN book : zid[book[i]] = 0 /\ book[i] \notin cancelled} \in SUBSET DOMAIN book
  OBVIOUS
<1>. QED
  BY <1>1, OldestOrders DEF Unpushed

---------------------------------------------------------------------------
(* Types, in parts                                                         *)

Known == [zid : Ids \cup {0}, number : Ids \cup {0}, status : {"none", "success", "failed"}]
Reply == [ok : BOOLEAN, id : Ids \cup {0}, num : Ids \cup {0}]

BookTypes == book \in Seq(Orders) /\ cancelled \subseteq Created

LinkTypes ==
    /\ zid \in [Orders -> Ids \cup {0}]
    /\ number \in [Orders -> Ids \cup {0}]
    /\ status \in [Orders -> {"none", "success", "failed"}]

ZohoTypes ==
    /\ zoho \in Seq(Orders)
    /\ unnumbered \subseteq Ids
    /\ adopted \subseteq Ids
    /\ scan \subseteq Ids

PusherTypes ==
    /\ pc \in [Pushers -> {"idle", "next", "loaded", "waiting", "answered"}]
    /\ todo \in [Pushers -> Seq(Orders)]
    /\ \A p \in Pushers : (pc[p] = "idle") <=> (todo[p] = <<>>)
    /\ row \in [Orders -> Pushers \cup {None}]
    /\ jobLock \in Jobs \cup {None}
    /\ \A j \in Jobs : jobLock = j <=> pc[j] # "idle"

MishapTypes ==
    /\ mishap \in [Orders -> SUBSET {"lost", "garbled", "overlap"}]
    /\ mishaps \in 0 .. MaxMishaps

LEMMA TypeParts ==
    TypeOK <=>
        /\ BookTypes /\ LinkTypes /\ ZohoTypes /\ PusherTypes /\ MishapTypes
        /\ known \in [Pushers -> Known] /\ reply \in [Pushers -> Reply]
  BY DEF TypeOK, BookTypes, LinkTypes, ZohoTypes, PusherTypes, MishapTypes, Known, Reply

LEMMA TodoFacts ==
    ASSUME PusherTypes, NEW p \in Pushers, pc[p] # "idle"
    PROVE  /\ todo[p] \in Seq(Orders) /\ todo[p] # <<>>
           /\ Current(p) \in Orders
           /\ Tail(todo[p]) \in Seq(Orders)
           /\ Len(todo[p]) \in Nat \ {0}
           /\ Tail(todo[p]) = <<>> <=> Len(todo[p]) = 1
<1>1. todo[p] \in Seq(Orders) /\ todo[p] # <<>>
  BY DEF PusherTypes
<1>2. /\ Head(todo[p]) \in Orders /\ Tail(todo[p]) \in Seq(Orders)
      /\ Len(Tail(todo[p])) = Len(todo[p]) - 1
  BY <1>1, HeadTailProperties
<1>3. Len(todo[p]) \in Nat \ {0}
  BY <1>1, EmptySeq
<1>4. Tail(todo[p]) = <<>> <=> Len(Tail(todo[p])) = 0
  BY <1>2, EmptySeq
<1>. QED
  BY <1>1, <1>2, <1>3, <1>4 DEF Current

\* Of the retry jobs one runs at a time.
LEMMA OneJob ==
    ASSUME PusherTypes, NEW p \in Pushers, NEW q \in Pushers, p # q, pc[p] # "idle", pc[q] # "idle"
    PROVE  Web \in {p, q}
  BY DEF PusherTypes, Pushers

LEMMA IdsGrow ==
    ASSUME ZohoTypes, NEW o \in Orders, zoho' = Append(zoho, o)
    PROVE  /\ zoho' \in Seq(Orders) /\ Len(zoho) \in Nat /\ Len(zoho') = Len(zoho) + 1
           /\ Ids \subseteq Ids' /\ Len(zoho) + 1 \in Ids' /\ Len(zoho) + 1 \notin Ids
           /\ Len(zoho) + 1 # 0
           /\ \A k \in Ids : zoho'[k] = zoho[k]
           /\ zoho'[Len(zoho) + 1] = o
           /\ \A k \in Ids' : k \in Ids \/ k = Len(zoho) + 1
<1>1. zoho \in Seq(Orders) /\ Len(zoho) \in Nat
  BY LenProperties DEF ZohoTypes
<1>2. Len(zoho') = Len(zoho) + 1 /\ zoho' \in Seq(Orders)
  BY <1>1
<1>3. \A k \in 1 .. Len(zoho) : zoho'[k] = zoho[k]
  BY <1>1
<1>4. zoho'[Len(zoho) + 1] = o
  BY <1>1
<1>. QED
  BY <1>1, <1>2, <1>3, <1>4 DEF Ids

LEMMA NumbersStayIds ==
    ASSUME Ids \subseteq Ids'
    PROVE  /\ LinkTypes /\ UNCHANGED links => LinkTypes'
           /\ \A f \in [Pushers -> Known] : f \in [Pushers -> Known']
           /\ \A f \in [Pushers -> Reply] : f \in [Pushers -> Reply']
<1>1. LinkTypes /\ UNCHANGED links => LinkTypes'
  BY DEF LinkTypes, links
<1>2. Known \subseteq Known' /\ Reply \subseteq Reply'
  BY DEF Known, Reply
<1>. QED
  BY <1>1, <1>2

\* A pusher p with nothing loaded takes the orders os.
LEMMA LoadTypes ==
    ASSUME TypeOK, NEW p \in Pushers, NEW os \in Seq(Orders), os # <<>>, LoadFirstOf(p, os),
           links' = links, zoho' = zoho, row' = row, mishaps' = mishaps,
           jobLock' \in Jobs \cup {None},
           \A j \in Jobs : jobLock' = j <=> pc[j] # "idle" \/ j = p
    PROVE  /\ PusherTypes' /\ MishapTypes' /\ LinkTypes'
           /\ known' \in [Pushers -> Known']
<1>. DEFINE o == Head(os)
            k == [zid |-> zid[o], number |-> number[o], status |-> status[o]]
<1>1. o \in Orders
  BY HeadTailProperties
<1>2. k \in Known
  BY <1>1 DEF TypeOK, Known
<1>3. /\ todo' = [todo EXCEPT ![p] = os] /\ known' = [known EXCEPT ![p] = k]
      /\ pc' = [pc EXCEPT ![p] = "loaded"]
      /\ mishap' = mishap \/ mishap' = [mishap EXCEPT ![o] = @ \cup {"overlap"}]
  BY DEF LoadFirstOf
<1>. HIDE DEF o, k
<1>4. PusherTypes /\ MishapTypes /\ LinkTypes /\ known \in [Pushers -> Known]
  BY TypeParts
<1>5. PusherTypes'
  <2>1. /\ pc' \in [Pushers -> {"idle", "next", "loaded", "waiting", "answered"}]
        /\ todo' \in [Pushers -> Seq(Orders)]
    BY <1>3, <1>4 DEF PusherTypes
  <2>2. \A q \in Pushers : (pc'[q] = "idle") <=> (todo'[q] = <<>>)
    BY <1>3, <1>4 DEF PusherTypes
  <2>3. \A j \in Jobs : jobLock' = j <=> pc'[j] # "idle"
    BY <1>3, <1>4 DEF PusherTypes, Pushers
  <2>. QED
    BY <1>4, <2>1, <2>2, <2>3 DEF PusherTypes
<1>6. MishapTypes'
  BY <1>1, <1>3, <1>4 DEF MishapTypes
<1>7. known' \in [Pushers -> Known']
  BY <1>2, <1>3, <1>4 DEF Known, Ids
<1>. QED
  BY <1>4, <1>5, <1>6, <1>7 DEF LinkTypes, links, Ids

\* The commit that ends a push.
LEMMA CommitTypes ==
    ASSUME TypeOK, NEW p \in Pushers, pc[p] \notin {"idle", "next"},
           NEW id \in Ids \cup {0}, NEW num \in Ids \cup {0}, NEW result \in {"success", "failed"},
           Commit(p, id, num, result)
    PROVE  TypeOK'
<1>. DEFINE o == Current(p)
<1>1. PusherTypes /\ MishapTypes /\ LinkTypes /\ ZohoTypes /\ BookTypes
      /\ known \in [Pushers -> Known] /\ reply \in [Pushers -> Reply]
  BY TypeParts
<1>2. /\ todo[p] \in Seq(Orders) /\ todo[p] # <<>>
      /\ o \in Orders
      /\ Tail(todo[p]) \in Seq(Orders)
      /\ Tail(todo[p]) = <<>> <=> Len(todo[p]) = 1
  BY <1>1, TodoFacts
<1>3. UNCHANGED <<book, cancelled, zoho, unnumbered, adopted, scan, mishap, mishaps>>
  BY DEF Commit, orders, sync
<1>4. BookTypes' /\ ZohoTypes' /\ MishapTypes' /\ Ids' = Ids
  BY <1>1, <1>3 DEF BookTypes, ZohoTypes, MishapTypes, Ids, Created
<1>5. LinkTypes'
  BY <1>1, <1>2, <1>4 DEF Commit, Merged, LinkTypes
<1>6. known' \in [Pushers -> Known'] /\ reply' \in [Pushers -> Reply']
  BY <1>1, <1>4 DEF Commit, Known, Reply, Unknown, Failure
<1>7. PusherTypes'
  <2>. DEFINE last == Len(todo[p]) = 1
  <2>1. /\ todo' = [todo EXCEPT ![p] = Tail(todo[p])]
        /\ pc' = [pc EXCEPT ![p] = IF last THEN "idle" ELSE "next"]
        /\ jobLock' = IF jobLock = p /\ last THEN None ELSE jobLock
        /\ row' = [row EXCEPT ![o] = None]
    BY DEF Commit
  <2>2. last <=> Tail(todo[p]) = <<>>
    BY <1>2
  <2>. HIDE DEF last
  <2>3. /\ pc' \in [Pushers -> {"idle", "next", "loaded", "waiting", "answered"}]
        /\ todo' \in [Pushers -> Seq(Orders)]
        /\ row' \in [Orders -> Pushers \cup {None}]
    BY <1>1, <1>2, <2>1 DEF PusherTypes
  <2>4. \A q \in Pushers : (pc'[q] = "idle") <=> (todo'[q] = <<>>)
    BY <1>1, <1>2, <2>1, <2>2 DEF PusherTypes
  <2>5. jobLock' \in Jobs \cup {None}
    BY <1>1, <2>1 DEF PusherTypes
  <2>6. \A j \in Jobs : jobLock' = j <=> pc'[j] # "idle"
    <3>1. None \notin Jobs
      BY PushAssumption DEF Pushers
    <3>. QED
      BY <1>1, <2>1, <3>1 DEF PusherTypes, Pushers
  <2>. QED
    BY <2>3, <2>4, <2>5, <2>6 DEF PusherTypes
<1>. QED
  BY <1>4, <1>5, <1>6, <1>7, TypeParts DEF BookTypes, LinkTypes, ZohoTypes, PusherTypes, MishapTypes, TypeOK,
                                           Known, Reply

\* The call to Zoho returns, and Zoho has made the order or not.
LEMMA ReturnTypes ==
    ASSUME TypeOK, NEW p \in Pushers, NEW r, Return(p, r), r \in Reply', New(p) \/ zoho' = zoho,
           unnumbered' \subseteq Ids', MishapTypes'
    PROVE  TypeOK'
<1>1. PusherTypes /\ MishapTypes /\ LinkTypes /\ ZohoTypes /\ BookTypes
      /\ known \in [Pushers -> Known] /\ reply \in [Pushers -> Reply]
  BY TypeParts
<1>2. Current(p) \in Orders
  BY <1>1, TodoFacts DEF Return
<1>3. /\ reply' = [reply EXCEPT ![p] = r]
      /\ pc' = [pc EXCEPT ![p] = "answered"] /\ pc[p] = "waiting"
      /\ UNCHANGED <<book, cancelled, links, adopted, scan, todo, known, row, jobLock>>
  BY DEF Return, orders, sync
<1>4. zoho' \in Seq(Orders) /\ Ids \subseteq Ids'
  BY <1>1, <1>2, IdsGrow DEF New, ZohoTypes, Ids
<1>5. BookTypes' /\ ZohoTypes'
  BY <1>1, <1>3, <1>4 DEF BookTypes, ZohoTypes, Created
<1>6. LinkTypes' /\ known' \in [Pushers -> Known'] /\ reply \in [Pushers -> Reply']
  BY <1>1, <1>3, <1>4, NumbersStayIds
<1>7. reply' \in [Pushers -> Reply']
  BY <1>3, <1>6
<1>8. PusherTypes'
  BY <1>1, <1>3 DEF PusherTypes, Pushers
<1>. QED
  BY <1>5, <1>6, <1>7, <1>8, TypeParts DEF BookTypes, LinkTypes, ZohoTypes, PusherTypes, MishapTypes, TypeOK,
                                           Known, Reply

---------------------------------------------------------------------------
(* Type correctness                                                        *)

LEMMA InitTypes ==
    ASSUME PushAssumption, Init
    PROVE  TypeOK
<1>1. None \notin Jobs /\ zoho = <<>> /\ Ids \cup {0} = {0}
  BY PushAssumption, EmptySeq DEF Init, Ids, Pushers
<1>2. /\ <<>> \in Seq(Orders)
      /\ book \in Seq(Orders) /\ zoho \in Seq(Orders)
      /\ todo \in [Pushers -> Seq(Orders)]
      /\ mishaps \in 0 .. MaxMishaps
  BY PushAssumption DEF Init, PushAssumption
<1>3. BookTypes /\ LinkTypes /\ ZohoTypes
  BY <1>1, <1>2 DEF Init, BookTypes, LinkTypes, ZohoTypes
<1>4. PusherTypes
  BY <1>1, <1>2 DEF Init, PusherTypes, Pushers
<1>5. MishapTypes
  BY <1>2 DEF Init, MishapTypes
<1>6. known \in [Pushers -> Known] /\ reply \in [Pushers -> Reply]
  BY DEF Init, Known, Reply, Unknown, Failure
<1>. QED
  BY <1>3, <1>4, <1>5, <1>6, TypeParts

LEMMA OwnerTypes ==
    ASSUME PushAssumption, TypeOK, NEW o \in Orders, Create(o) \/ Cancel(o)
    PROVE  TypeOK'
<1>1. PusherTypes /\ MishapTypes /\ LinkTypes /\ ZohoTypes /\ BookTypes
      /\ known \in [Pushers -> Known] /\ reply \in [Pushers -> Reply]
  BY TypeParts
<1>2. UNCHANGED <<links, zoho, unnumbered, sync, known, reply, row, jobLock, mishap, mishaps>>
  BY DEF Create, Cancel
<1>3. LinkTypes' /\ ZohoTypes' /\ MishapTypes' /\ known' \in [Pushers -> Known'] /\ reply' \in [Pushers -> Reply']
  BY <1>1, <1>2 DEF LinkTypes, ZohoTypes, MishapTypes, links, sync, Ids, Known, Reply
<1>4. BookTypes' /\ PusherTypes'
  <2>1. CASE Create(o)
    <3>1. /\ book' = Append(book, o) /\ cancelled' = cancelled
          /\ pc' = [pc EXCEPT ![Web] = "next"] /\ todo' = [todo EXCEPT ![Web] = <<o>>]
          /\ row' = row /\ jobLock' = jobLock
      BY <2>1 DEF Create
    <3>2. book' \in Seq(Orders) /\ Created \subseteq Created'
      <4>1. /\ book' \in Seq(Orders) /\ Len(book) \in Nat
            /\ \A i \in 1 .. Len(book) : i \in 1 .. Len(book') /\ book'[i] = book[i]
        BY <1>1, <3>1 DEF BookTypes
      <4>2. DOMAIN book = 1 .. Len(book) /\ DOMAIN book' = 1 .. Len(book')
        BY <1>1, <4>1 DEF BookTypes
      <4>. QED
        BY <4>1, <4>2 DEF Created
    <3>3. Web \notin Jobs
      BY DEF PushAssumption
    <3>4. <<o>> \in Seq(Orders) /\ <<o>> # <<>>
      OBVIOUS
    <3>5. /\ pc' \in [Pushers -> {"idle", "next", "loaded", "waiting", "answered"}]
          /\ todo' \in [Pushers -> Seq(Orders)]
      BY <1>1, <3>1, <3>4 DEF PusherTypes
    <3>6. \A q \in Pushers : (pc'[q] = "idle") <=> (todo'[q] = <<>>)
      BY <1>1, <3>1, <3>4 DEF PusherTypes
    <3>. QED
      BY <1>1, <3>1, <3>2, <3>3, <3>5, <3>6 DEF BookTypes, PusherTypes, Pushers
  <2>2. CASE Cancel(o)
    BY <1>1, <2>2 DEF Cancel, BookTypes, PusherTypes, Created
  <2>. QED
    BY <2>1, <2>2
<1>. QED
  BY <1>3, <1>4, TypeParts DEF BookTypes, LinkTypes, ZohoTypes, PusherTypes, MishapTypes, TypeOK, Known, Reply

LEMMA StartTypes ==
    ASSUME PushAssumption, TypeOK, NEW p \in Pushers, Load(p) \/ (p \in Jobs /\ StartJob(p))
    PROVE  TypeOK'
<1>1. PusherTypes /\ MishapTypes /\ LinkTypes /\ ZohoTypes /\ BookTypes
      /\ known \in [Pushers -> Known] /\ reply \in [Pushers -> Reply]
  BY TypeParts
<1>2. UNCHANGED <<orders, links, zoho, unnumbered, sync, reply, row, mishaps>>
  BY DEF Load, StartJob
<1>3. PusherTypes' /\ MishapTypes' /\ LinkTypes' /\ known' \in [Pushers -> Known']
  <2>1. CASE Load(p)
    <3>1. /\ todo[p] \in Seq(Orders) /\ todo[p] # <<>> /\ LoadFirstOf(p, todo[p]) /\ jobLock' = jobLock /\ pc[p] # "idle"
      BY <1>1, <2>1, TodoFacts DEF Load
    <3>2. jobLock' \in Jobs \cup {None} /\ \A j \in Jobs : jobLock' = j <=> pc[j] # "idle" \/ j = p
      BY <1>1, <3>1 DEF PusherTypes
    <3>3. PICK os : os = todo[p]
      OBVIOUS
    <3>. QED
      BY <1>2, <3>1, <3>2, <3>3, LoadTypes
  <2>2. CASE p \in Jobs /\ StartJob(p)
    <3>1. PICK os : os = Unpushed
      OBVIOUS
    <3>2. os \in Seq(Orders) /\ os # <<>> /\ LoadFirstOf(p, os) /\ jobLock = None /\ jobLock' = p
      BY <1>1, <2>2, <3>1, RunSelects DEF StartJob, JobLockFree, BookTypes
    <3>3. jobLock' \in Jobs \cup {None} /\ \A j \in Jobs : jobLock' = j <=> pc[j] # "idle" \/ j = p
      BY <1>1, <2>2, <3>2 DEF PusherTypes, PushAssumption, Pushers
    <3>. QED
      BY <1>2, <3>2, <3>3, LoadTypes
  <2>. QED
    BY <2>1, <2>2
<1>4. BookTypes' /\ ZohoTypes' /\ reply' \in [Pushers -> Reply']
  BY <1>1, <1>2 DEF orders, sync, BookTypes, ZohoTypes, Ids, Reply, Created
<1>. QED
  BY <1>3, <1>4, TypeParts DEF BookTypes, LinkTypes, ZohoTypes, PusherTypes, MishapTypes, TypeOK, Known, Reply

LEMMA EndTypes ==
    ASSUME PushAssumption, TypeOK, NEW p \in Pushers,
           AlreadyLinked(p) \/ NothingToSend(p) \/ PushOk(p) \/ PushFailed(p)
    PROVE  TypeOK'
<1>1. /\ known[p].zid \in Ids \cup {0} /\ known[p].number \in Ids \cup {0}
      /\ reply[p].id \in Ids \cup {0} /\ reply[p].num \in Ids \cup {0}
  BY DEF TypeOK
<1>2. pc[p] \notin {"idle", "next"}
  BY DEF AlreadyLinked, NothingToSend, PushOk, PushFailed, AtFreeRow
<1>3. \E id \in Ids \cup {0}, num \in Ids \cup {0}, result \in {"success", "failed"} : Commit(p, id, num, result)
  BY <1>1 DEF AlreadyLinked, NothingToSend, PushOk, PushFailed, Agreed
<1>. QED
  BY <1>2, <1>3, CommitTypes

LEMMA ZohoStepTypes ==
    ASSUME PushAssumption, TypeOK, NEW p \in Pushers, Zoho(p)
    PROVE  TypeOK'
<1>1. ZohoTypes /\ MishapTypes /\ PusherTypes
  BY TypeParts
<1>2. Current(p) \in Orders
  BY <1>1, TodoFacts DEF Zoho, Answer, Refuse, Lose, Garble, Return
<1>3. New(p) => Len(zoho) + 1 \in Ids'
  BY <1>1, <1>2, IdsGrow DEF New
<1>4. MishapTypes'
  <2>1. \/ UNCHANGED <<mishap, mishaps>>
        \/ Mishap(Current(p), "lost") \/ Mishap(Current(p), "garbled")
    BY DEF Zoho, Answer, Refuse, Lose, Garble
  <2>2. ASSUME NEW kind \in {"lost", "garbled"}, Mishap(Current(p), kind)
        PROVE  MishapTypes'
    BY <1>1, <1>2, <2>2 DEF MishapTypes, Mishap, PushAssumption
  <2>. QED
    BY <1>1, <2>1, <2>2 DEF MishapTypes
<1>5. PICK k : k = Len(zoho) + 1
  OBVIOUS
<1>6. \E r : Return(p, r) /\ r \in Reply' /\ (New(p) \/ zoho' = zoho)
  <2>1. CASE Answer(p)
    BY <1>3, <2>1 DEF Answer, Reply
  <2>2. CASE Refuse(p)
    BY <2>2 DEF Refuse, Reply, Failure
  <2>3. CASE Lose(p)
    BY <2>3 DEF Lose, Reply, Failure
  <2>4. CASE Garble(p)
    BY <1>3, <2>4 DEF Garble, Reply
  <2>. QED
    BY <2>1, <2>2, <2>3, <2>4 DEF Zoho
<1>7. unnumbered' \subseteq Ids'
  <2>1. unnumbered \subseteq Ids /\ (zoho' = zoho \/ New(p))
    BY <1>1 DEF ZohoTypes, Zoho, Answer, Refuse, Lose, Garble
  <2>2. unnumbered \subseteq Ids'
    BY <1>1, <1>2, <2>1, IdsGrow DEF New, Ids
  <2>. QED
    BY <1>3, <2>2 DEF Zoho, Answer, Refuse, Lose, Garble
<1>. QED
  BY <1>4, <1>6, <1>7, ReturnTypes

LEMMA SendTypes ==
    ASSUME PushAssumption, TypeOK, NEW p \in Pushers, Send(p)
    PROVE  TypeOK'
<1>1. PusherTypes /\ MishapTypes /\ LinkTypes /\ ZohoTypes /\ BookTypes
      /\ known \in [Pushers -> Known] /\ reply \in [Pushers -> Reply]
  BY TypeParts
<1>2. /\ UNCHANGED <<orders, links, zoho, unnumbered, sync, todo, known, reply, jobLock, mishap, mishaps>>
      /\ row' = [row EXCEPT ![Current(p)] = p] /\ pc' = [pc EXCEPT ![p] = "waiting"] /\ pc[p] = "loaded"
  BY DEF Send, AtFreeRow
<1>3. PusherTypes'
  BY <1>1, <1>2 DEF PusherTypes, Pushers
<1>. QED
  BY <1>1, <1>2, <1>3, TypeParts DEF BookTypes, LinkTypes, ZohoTypes, PusherTypes, MishapTypes, TypeOK, Known, Reply,
                                     orders, links, sync, Ids, Created

LEMMA RollBackTypes ==
    ASSUME PushAssumption, TypeOK, NEW P \in SUBSET Pushers, RollBack(P)
    PROVE  TypeOK'
<1>1. PusherTypes /\ MishapTypes /\ LinkTypes /\ ZohoTypes /\ BookTypes
      /\ known \in [Pushers -> Known] /\ reply \in [Pushers -> Reply]
  BY TypeParts
<1>2. UNCHANGED <<orders, links, zoho, unnumbered, sync>>
  BY DEF RollBack
<1>3. BookTypes' /\ LinkTypes' /\ ZohoTypes' /\ Ids' = Ids
  BY <1>1, <1>2 DEF BookTypes, LinkTypes, ZohoTypes, Ids, orders, links, sync, Created
<1>4. MishapTypes'
  <2>1. mishaps' \in 0 .. MaxMishaps
    BY <1>1 DEF MishapTypes, RollBack, PushAssumption
  <2>2. mishap' \in [Orders -> SUBSET {"lost", "garbled", "overlap"}]
    BY <1>1 DEF MishapTypes, RollBack
  <2>. QED
    BY <2>1, <2>2 DEF MishapTypes
<1>5. known' \in [Pushers -> Known'] /\ reply' \in [Pushers -> Reply']
  <2>1. Unknown \in Known /\ Failure \in Reply
    BY DEF Unknown, Failure, Known, Reply
  <2>2. known' \in [Pushers -> Known] /\ reply' \in [Pushers -> Reply]
    BY <1>1, <2>1 DEF RollBack
  <2>. QED
    BY <1>3, <2>2 DEF Known, Reply
<1>6. PusherTypes'
  <2>1. /\ pc' \in [Pushers -> {"idle", "next", "loaded", "waiting", "answered"}]
        /\ todo' \in [Pushers -> Seq(Orders)]
        /\ row' \in [Orders -> Pushers \cup {None}]
    <3>1. <<>> \in Seq(Orders)
      OBVIOUS
    <3>. QED
      BY <1>1, <3>1 DEF PusherTypes, RollBack
  <2>2. \A p \in Pushers : (pc'[p] = "idle") <=> (todo'[p] = <<>>)
    BY <1>1 DEF PusherTypes, RollBack
  <2>3. jobLock' \in Jobs \cup {None}
    BY <1>1 DEF PusherTypes, RollBack
  <2>4. \A j \in Jobs : jobLock' = j <=> pc'[j] # "idle"
    <3>1. Jobs \subseteq Pushers /\ None \notin Jobs /\ Web \notin Jobs
      BY DEF PushAssumption, Pushers
    <3>2. \A j \in Jobs : pc'[j] = IF j \in P THEN "idle" ELSE pc[j]
      BY <3>1 DEF RollBack
    <3>. QED
      BY <1>1, <3>1, <3>2 DEF PusherTypes, RollBack
  <2>. QED
    BY <2>1, <2>2, <2>3, <2>4 DEF PusherTypes
<1>. QED
  BY <1>3, <1>4, <1>5, <1>6, TypeParts DEF BookTypes, LinkTypes, ZohoTypes, PusherTypes, MishapTypes, TypeOK,
                                           Known, Reply

\* A process that dies, or a number taken meanwhile, ends runs.
LEMMA Broken ==
    ASSUME PushAssumption,
           (\E j \in Jobs : Crash(j)) \/ (\E p \in Pushers : PushCollides(p))
    PROVE  \E P \in SUBSET Pushers : RollBack(P)
<1>1. \A j \in Jobs : Runs(j) \subseteq Pushers
  BY DEF PushAssumption, Pushers, Runs
<1>. QED
  BY <1>1 DEF Crash, PushCollides

LEMMA SyncTypes ==
    ASSUME PushAssumption, TypeOK, Snapshot \/ \E k \in scan : CatchUp(k)
    PROVE  TypeOK'
<1>1. UNCHANGED <<orders, number, status, zoho, unnumbered, pc, todo, known, reply, row, jobLock, mishap, mishaps>>
  BY DEF Snapshot, CatchUp, SkipLinked, LinkByNumber, Adopt, AdoptionCollides, ScanOnly, links
<1>2. /\ zid' \in [Orders -> Ids \cup {0}] /\ adopted' \subseteq Ids /\ scan' \subseteq Ids
  <2>1. CASE Snapshot
    BY <2>1 DEF Snapshot, links, TypeOK
  <2>2. ASSUME NEW k \in scan, CatchUp(k)
        PROVE  /\ zid' \in [Orders -> Ids \cup {0}] /\ adopted' \subseteq Ids /\ scan' \subseteq Ids
    <3>1. k \in Ids /\ zid \in [Orders -> Ids \cup {0}] /\ adopted \subseteq Ids /\ scan \subseteq Ids
      BY DEF TypeOK
    <3>2. /\ scan' \subseteq scan
          /\ adopted' = adopted \/ adopted' = adopted \cup {k}
          /\ zid' = zid \/ \E o \in HoldersOf(k) : zid' = [zid EXCEPT ![o] = k]
      BY <2>2 DEF CatchUp, SkipLinked, LinkByNumber, Adopt, AdoptionCollides, Looked
    <3>. QED
      BY <3>1, <3>2
  <2>. QED
    BY <2>1, <2>2
<1>. QED
  BY <1>1, <1>2 DEF TypeOK, orders, Ids, Created

LEMMA NextTypes ==
    ASSUME PushAssumption, TypeOK, [Next]_vars
    PROVE  TypeOK'
<1>1. CASE UNCHANGED vars
  BY <1>1 DEF vars, orders, links, sync, TypeOK, Ids, Created
<1>2. CASE Next
  BY <1>2, OwnerTypes, StartTypes, EndTypes, ZohoStepTypes, SendTypes, RollBackTypes, Broken, SyncTypes
     DEF Next, Step, Pushers
<1>. QED
  BY <1>1, <1>2

\* Every variable keeps its type.
THEOREM TypeCorrect == Spec => []TypeOK
<1>1. Init => TypeOK
  BY InitTypes, PushAssumption
<1>2. TypeOK /\ [Next]_vars => TypeOK'
  BY NextTypes, PushAssumption
<1>. QED
  BY <1>1, <1>2, PTL DEF Spec

---------------------------------------------------------------------------
(* Who holds a row, and what an answer says                                *)

\* What any step leaves alone for the pushers other than p.
Others(p) ==
    \A q \in Pushers \ {p} :
        pc'[q] = pc[q] /\ todo'[q] = todo[q] /\ known'[q] = known[q] /\ reply'[q] = reply[q]

\* Zoho's orders stay, and what went wrong stays on record.
HistoryGrows ==
    /\ Ids \subseteq Ids' /\ \A k \in Ids : zoho'[k] = zoho[k]
    /\ \A o \in Orders : mishap[o] \subseteq mishap'[o]
    /\ unnumbered \subseteq unnumbered'

LEMMA LoadEffect ==
    ASSUME PushAssumption, TypeOK, NEW p \in Pushers, Load(p) \/ (p \in Jobs /\ StartJob(p))
    PROVE  /\ pc[p] \in {"idle", "next"} /\ pc'[p] = "loaded" /\ Others(p)
           /\ UNCHANGED <<orders, links, zoho, unnumbered, sync, reply, row>>
           /\ Current(p)' \in Orders
           /\ LET o == Current(p)' IN
                /\ known'[p] = [zid |-> zid[o], number |-> number[o], status |-> status[o]]
                /\ \A x \in Orders \ {o} : mishap'[x] = mishap[x]
                /\ mishap[o] \subseteq mishap'[o] /\ mishap'[o] \subseteq mishap[o] \cup {"overlap"}
                /\ \A q \in Pushers \ {p} : Has(q, o) /\ Web \in {p, q} => "overlap" \in mishap'[o]
<1>1. /\ pc \in [Pushers -> {"idle", "next", "loaded", "waiting", "answered"}]
      /\ todo \in [Pushers -> Seq(Orders)] /\ known \in [Pushers -> Known]
      /\ mishap \in [Orders -> SUBSET {"lost", "garbled", "overlap"}]
      /\ PusherTypes /\ BookTypes
  BY TypeParts DEF PusherTypes, MishapTypes
<1>2. /\ pc[p] \in {"idle", "next"}
      /\ UNCHANGED <<orders, links, zoho, unnumbered, sync, reply, row>>
  BY DEF Load, StartJob
<1>3. PICK os : os = IF pc[p] = "next" THEN todo[p] ELSE Unpushed
  OBVIOUS
<1>4. os \in Seq(Orders) /\ os # <<>> /\ LoadFirstOf(p, os)
  <2>1. CASE Load(p)
    BY <1>1, <1>3, <2>1 DEF Load, PusherTypes
  <2>2. CASE p \in Jobs /\ StartJob(p)
    BY <1>1, <1>3, <2>2, RunSelects DEF StartJob, BookTypes
  <2>. QED
    BY <2>1, <2>2
<1>5. Head(os) \in Orders
  BY <1>4, HeadTailProperties
<1>6. PICK o : o = Head(os)
  OBVIOUS
<1>7. /\ todo' = [todo EXCEPT ![p] = os]
      /\ known' = [known EXCEPT ![p] = [zid |-> zid[o], number |-> number[o], status |-> status[o]]]
      /\ pc' = [pc EXCEPT ![p] = "loaded"]
      /\ mishap' = IF \E q \in Pushers \ {p} : Has(q, o) /\ Web \in {p, q}
                   THEN [mishap EXCEPT ![o] = @ \cup {"overlap"}]
                   ELSE mishap
  BY <1>4, <1>6 DEF LoadFirstOf
<1>8. Current(p)' = o /\ o \in Orders
  BY <1>1, <1>5, <1>6, <1>7 DEF Current
<1>9. pc'[p] = "loaded" /\ Others(p)
  BY <1>1, <1>2, <1>7 DEF Others
<1>10. known'[p] = [zid |-> zid[o], number |-> number[o], status |-> status[o]]
  BY <1>1, <1>7
<1>11. /\ \A x \in Orders \ {o} : mishap'[x] = mishap[x]
       /\ mishap[o] \subseteq mishap'[o] /\ mishap'[o] \subseteq mishap[o] \cup {"overlap"}
       /\ \A q \in Pushers \ {p} : Has(q, o) /\ Web \in {p, q} => "overlap" \in mishap'[o]
  BY <1>1, <1>7, <1>8
<1>. QED
  BY <1>2, <1>8, <1>9, <1>10, <1>11

\* One of the four commits that end a push.
End(p) == AlreadyLinked(p) \/ NothingToSend(p) \/ PushOk(p) \/ PushFailed(p)

LEMMA EndEffect ==
    ASSUME PushAssumption, TypeOK, NEW p \in Pushers, End(p)
    PROVE  /\ pc[p] \in {"loaded", "answered"} /\ pc'[p] \in {"idle", "next"} /\ Others(p)
           /\ Current(p) \in Orders
           /\ UNCHANGED <<orders, zoho, unnumbered, sync, mishap>>
           /\ pc[p] = "loaded" => row[Current(p)] = None
           /\ row'[Current(p)] = None
           /\ \A x \in Orders \ {Current(p)} : row'[x] = row[x] /\ zid'[x] = zid[x]
                                              /\ number'[x] = number[x] /\ status'[x] = status[x]
<1>1. PusherTypes /\ LinkTypes /\ known \in [Pushers -> Known] /\ reply \in [Pushers -> Reply]
  BY TypeParts
<1>2. pc[p] \in {"loaded", "answered"} /\ (pc[p] = "loaded" => row[Current(p)] = None)
  BY DEF End, AlreadyLinked, NothingToSend, PushOk, PushFailed, AtFreeRow
<1>3. Current(p) \in Orders
  BY <1>1, <1>2, TodoFacts
<1>4. \E id, num, result : Commit(p, id, num, result)
  BY DEF End, AlreadyLinked, NothingToSend, PushOk, PushFailed
<1>5. PICK id, num, result : Commit(p, id, num, result)
  BY <1>4
<1>6. pc'[p] \in {"idle", "next"} /\ Others(p)
  BY <1>1, <1>5 DEF Commit, Others, PusherTypes
<1>7. row'[Current(p)] = None /\ \A x \in Orders \ {Current(p)} : row'[x] = row[x]
  BY <1>1, <1>3, <1>5 DEF Commit, PusherTypes
<1>8. \A x \in Orders \ {Current(p)} : zid'[x] = zid[x] /\ number'[x] = number[x] /\ status'[x] = status[x]
  BY <1>1, <1>3, <1>5 DEF Commit, Merged, LinkTypes
<1>. QED
  BY <1>2, <1>3, <1>5, <1>6, <1>7, <1>8 DEF Commit

LEMMA SendEffect ==
    ASSUME PushAssumption, TypeOK, NEW p \in Pushers, Send(p)
    PROVE  /\ pc[p] = "loaded" /\ pc'[p] = "waiting" /\ Others(p)
           /\ Current(p) \in Orders /\ row[Current(p)] = None /\ known[p].zid = 0
           /\ UNCHANGED <<orders, links, zoho, unnumbered, sync, todo, known, reply, mishap>>
           /\ row'[Current(p)] = p
           /\ \A x \in Orders \ {Current(p)} : row'[x] = row[x]
<1>1. PusherTypes
  BY TypeParts
<1>2. pc[p] = "loaded" /\ row[Current(p)] = None /\ known[p].zid = 0
      /\ row' = [row EXCEPT ![Current(p)] = p] /\ pc' = [pc EXCEPT ![p] = "waiting"]
      /\ UNCHANGED <<orders, links, zoho, unnumbered, sync, todo, known, reply, mishap>>
  BY DEF Send, AtFreeRow
<1>3. Current(p) \in Orders
  BY <1>1, <1>2, TodoFacts
<1>. QED
  BY <1>1, <1>2, <1>3 DEF PusherTypes, Others

LEMMA ZohoEffect ==
    ASSUME PushAssumption, TypeOK, NEW p \in Pushers, Zoho(p)
    PROVE  /\ pc[p] = "waiting" /\ pc'[p] = "answered" /\ Others(p)
           /\ Current(p) \in Orders
           /\ UNCHANGED <<orders, links, sync, todo, known, row>>
           /\ HistoryGrows
           /\ \A x \in Orders \ {Current(p)} : mishap'[x] = mishap[x] /\ Made(x)' = Made(x)
           /\ \/ /\ ~ reply'[p].ok /\ zoho' = zoho /\ mishap' = mishap
              \/ /\ ~ reply'[p].ok /\ "lost" \in mishap'[Current(p)]
              \/ /\ reply'[p].ok /\ mishap' = mishap
                 /\ reply'[p].id = Len(zoho) + 1
                 /\ \/ reply'[p].num = Len(zoho) + 1
                    \/ reply'[p].num = 0 /\ Len(zoho) + 1 \in unnumbered'
                 /\ New(p)
              \/ /\ reply'[p].ok /\ "garbled" \in mishap'[Current(p)]
                 /\ reply'[p].id = 0 /\ reply'[p].num \in {0, Len(zoho) + 1}
                 /\ New(p)
<1>. DEFINE n == Len(zoho) + 1
            o == Current(p)
<1>1. PusherTypes /\ ZohoTypes /\ MishapTypes /\ reply \in [Pushers -> Reply]
  BY TypeParts
<1>2. /\ pc[p] = "waiting" /\ pc' = [pc EXCEPT ![p] = "answered"]
      /\ UNCHANGED <<orders, links, sync, todo, known, row>>
      /\ reply' = [reply EXCEPT ![p] = reply'[p]]
  BY <1>1 DEF Zoho, Answer, Refuse, Lose, Garble, Return
<1>3. o \in Orders
  BY <1>1, <1>2, TodoFacts
<1>4. /\ zoho' = zoho \/ New(p)
      /\ unnumbered \subseteq unnumbered'
      /\ mishap' = mishap \/ \E kind \in {"lost", "garbled"} : mishap' = [mishap EXCEPT ![o] = @ \cup {kind}]
  BY DEF Zoho, Answer, Refuse, Lose, Garble, Mishap
<1>5. HistoryGrows
  <2>1. Ids \subseteq Ids' /\ \A k \in Ids : zoho'[k] = zoho[k]
    BY <1>1, <1>3, <1>4, IdsGrow DEF New, Ids
  <2>2. \A x \in Orders : mishap[x] \subseteq mishap'[x]
    BY <1>1, <1>3, <1>4 DEF MishapTypes
  <2>. QED
    BY <1>4, <2>1, <2>2 DEF HistoryGrows
<1>6. ASSUME NEW x \in Orders \ {o} PROVE mishap'[x] = mishap[x] /\ Made(x)' = Made(x)
  <2>1. mishap'[x] = mishap[x]
    BY <1>1, <1>3, <1>4 DEF MishapTypes
  <2>2. CASE zoho' = zoho
    BY <2>1, <2>2 DEF Made, Ids
  <2>3. CASE New(p)
    <3>1. \A k \in Ids' : k \in Ids \/ zoho'[k] = o
      BY <1>1, <1>3, <2>3, IdsGrow DEF New
    <3>. QED
      BY <1>5, <2>1, <3>1 DEF Made, HistoryGrows
  <2>. QED
    BY <1>4, <2>2, <2>3
<1>7. \/ ~ reply'[p].ok /\ zoho' = zoho /\ mishap' = mishap
      \/ ~ reply'[p].ok /\ "lost" \in mishap'[o]
      \/ /\ reply'[p].ok /\ mishap' = mishap /\ reply'[p].id = n /\ New(p)
         /\ reply'[p].num = n \/ (reply'[p].num = 0 /\ n \in unnumbered')
      \/ reply'[p].ok /\ "garbled" \in mishap'[o] /\ reply'[p].id = 0 /\ reply'[p].num \in {0, n} /\ New(p)
  <2>1. CASE Answer(p)
    BY <1>1, <2>1 DEF Answer, Return
  <2>2. CASE Refuse(p)
    BY <1>1, <2>2 DEF Refuse, Return, Failure
  <2>3. CASE Lose(p)
    <3>1. ~ reply'[p].ok
      BY <1>1, <2>3 DEF Lose, Return, Failure
    <3>2. "lost" \in mishap'[o]
      BY <1>1, <1>3, <2>3 DEF Lose, Mishap, MishapTypes
    <3>. QED
      BY <3>1, <3>2
  <2>4. CASE Garble(p)
    <3>1. reply'[p].ok /\ reply'[p].id = 0 /\ reply'[p].num \in {0, n} /\ New(p)
      BY <1>1, <2>4 DEF Garble, Return
    <3>2. "garbled" \in mishap'[o]
      BY <1>1, <1>3, <2>4 DEF Garble, Mishap, MishapTypes
    <3>. QED
      BY <3>1, <3>2
  <2>. QED
    BY <2>1, <2>2, <2>3, <2>4 DEF Zoho
<1>8. Others(p) /\ pc'[p] = "answered"
  BY <1>1, <1>2 DEF Others, PusherTypes
<1>. QED
  BY <1>2, <1>3, <1>5, <1>6, <1>7, <1>8

LEMMA RollBackEffect ==
    ASSUME PushAssumption, TypeOK, NEW P \in SUBSET Pushers, RollBack(P)
    PROVE  /\ UNCHANGED <<orders, links, zoho, unnumbered, sync>>
           /\ \A q \in Pushers : q \in P => pc'[q] = "idle"
           /\ \A q \in Pushers : q \notin P =>
                pc'[q] = pc[q] /\ todo'[q] = todo[q] /\ known'[q] = known[q] /\ reply'[q] = reply[q]
           /\ \A o \in Orders : row'[o] = row[o] \/ row[o] \in P
           /\ \A o \in Orders : mishap'[o] = mishap[o] \/ mishap'[o] = mishap[o] \cup {"lost"}
           /\ \A o \in Orders, q \in Pushers :
                q \in P /\ Has(q, o) /\ pc[q] = "answered" /\ reply[q].ok => "lost" \in mishap'[o]
  BY DEF RollBack

LEMMA SyncEffect ==
    ASSUME PushAssumption, TypeOK, Snapshot \/ \E k \in scan : CatchUp(k)
    PROVE  /\ UNCHANGED <<orders, number, status, zoho, unnumbered, pc, todo, known, reply, row, mishap>>
           /\ adopted \subseteq adopted'
           /\ \A o \in Orders : zid'[o] = zid[o] \/ (zid[o] = 0 /\ zid'[o] # 0 /\ zid'[o] = number[o])
<1>1. zid \in [Orders -> Ids \cup {0}] /\ scan \subseteq Ids /\ ~ (0 \in Ids)
  BY DEF TypeOK, Ids
<1>2. CASE Snapshot
  BY <1>2 DEF Snapshot, links
<1>3. ASSUME NEW k \in scan, CatchUp(k)
      PROVE  /\ UNCHANGED <<orders, number, status, zoho, unnumbered, pc, todo, known, reply, row, mishap>>
             /\ adopted \subseteq adopted'
             /\ \A o \in Orders : zid'[o] = zid[o] \/ (zid[o] = 0 /\ zid'[o] # 0 /\ zid'[o] = number[o])
  <2>1. UNCHANGED <<orders, number, status, zoho, unnumbered, pc, todo, known, reply, row, mishap>> /\ adopted \subseteq adopted'
    BY <1>3 DEF CatchUp, SkipLinked, LinkByNumber, Adopt, AdoptionCollides, ScanOnly
  <2>2. zid' = zid \/ \E o \in HoldersOf(k) : zid[o] = 0 /\ zid' = [zid EXCEPT ![o] = k]
    BY <1>3 DEF CatchUp, SkipLinked, LinkByNumber, Adopt, AdoptionCollides
  <2>. QED
    BY <1>1, <2>1, <2>2 DEF HoldersOf
<1>. QED
  BY <1>2, <1>3

LEMMA OwnerEffect ==
    ASSUME PushAssumption, TypeOK, NEW o \in Orders, Create(o) \/ Cancel(o)
    PROVE  /\ UNCHANGED <<links, zoho, unnumbered, sync, known, reply, row, mishap>>
           /\ \A q \in Pushers : /\ pc'[q] = pc[q] \/ (pc[q] = "idle" /\ pc'[q] = "next")
                                 /\ pc[q] # "idle" => todo'[q] = todo[q]
  BY DEF Create, Cancel, TypeOK

---------------------------------------------------------------------------
(* RowsHeld and AnswersAreTheirs are kept                                  *)

\* A pusher the step leaves where it was, or moves to where it holds nothing.
Untouched(q) ==
    \/ pc'[q] \notin {"waiting", "answered"}
    \/ pc'[q] = pc[q] /\ todo'[q] = todo[q] /\ known'[q] = known[q] /\ reply'[q] = reply[q]

LEMMA AnswerStands ==
    ASSUME TypeOK, AnswersAreTheirs, HistoryGrows,
           NEW q \in Pushers, Untouched(q), pc'[q] = "answered", reply'[q].ok
    PROVE  AnswerIsTheirs(q)'
<1>1. pc[q] = "answered" /\ todo'[q] = todo[q] /\ known'[q] = known[q] /\ reply'[q] = reply[q]
  BY DEF Untouched
<1>2. PusherTypes /\ reply \in [Pushers -> Reply]
  BY TypeParts
<1>3. Current(q) \in Orders /\ Current(q)' = Current(q)
  BY <1>1, <1>2, TodoFacts DEF Current
<1>4. AnswerIsTheirs(q)
  BY <1>1 DEF AnswersAreTheirs
<1>5. reply[q].id \in Ids \cup {0} /\ reply[q].num \in Ids \cup {0}
  BY <1>2 DEF Reply
<1>. QED
  BY <1>1, <1>3, <1>4, <1>5 DEF AnswerIsTheirs, HistoryGrows

LEMMA ZohoStepAnswers ==
    ASSUME PushAssumption, TypeOK, AnswersAreTheirs, NEW p \in Pushers, Zoho(p)
    PROVE  AnswersAreTheirs'
<1>. DEFINE n == Len(zoho) + 1
            o == Current(p)
<1>1. /\ pc[p] = "waiting" /\ pc'[p] = "answered" /\ Others(p) /\ o \in Orders
      /\ UNCHANGED <<orders, links, sync, todo, known, row>> /\ HistoryGrows
  BY ZohoEffect
<1>2. known[p].number \in Ids \cup {0} /\ n # 0 /\ n \notin Ids
      /\ (New(p) => zoho'[n] = o)
  <2>1. ZohoTypes /\ known \in [Pushers -> Known]
    BY TypeParts
  <2>2. Len(zoho) \in Nat
    BY <2>1, LenProperties DEF ZohoTypes
  <2>. QED
    BY <1>1, <2>1, <2>2, IdsGrow DEF Known, Ids, New
<1>3. ASSUME reply'[p].ok PROVE AnswerIsTheirs(p)'
  <2>1. Current(p)' = o /\ known'[p] = known[p]
    BY <1>1 DEF Current
  <2>2. CASE /\ reply'[p].id = n /\ New(p)
             /\ reply'[p].num = n \/ (reply'[p].num = 0 /\ n \in unnumbered')
    BY <1>2, <2>1, <2>2 DEF AnswerIsTheirs
  <2>3. CASE "garbled" \in mishap'[o] /\ reply'[p].id = 0 /\ reply'[p].num \in {0, n} /\ New(p)
    BY <1>2, <2>1, <2>3 DEF AnswerIsTheirs
  <2>. QED
    BY <1>3, <2>2, <2>3, ZohoEffect
<1>4. ASSUME NEW q \in Pushers, pc'[q] = "answered", reply'[q].ok PROVE AnswerIsTheirs(q)'
  <2>1. CASE q = p
    BY <1>3, <1>4, <2>1
  <2>2. CASE q # p
    BY <1>1, <1>4, <2>2, AnswerStands DEF Others, Untouched
  <2>. QED
    BY <2>1, <2>2
<1>. QED
  BY <1>4 DEF AnswersAreTheirs

LEMMA NextAnswers ==
    ASSUME PushAssumption, TypeOK, AnswersAreTheirs, [Next]_vars
    PROVE  AnswersAreTheirs'
<1>1. ASSUME HistoryGrows, \A q \in Pushers : Untouched(q)
      PROVE  AnswersAreTheirs'
  BY <1>1, AnswerStands DEF AnswersAreTheirs
<1>2. mishap \in [Orders -> SUBSET {"lost", "garbled", "overlap"}] /\ zoho \in Seq(Orders)
  BY DEF TypeOK
<1>3. UNCHANGED <<zoho, unnumbered>> /\ (\A o \in Orders : mishap[o] \subseteq mishap'[o]) => HistoryGrows
  BY DEF HistoryGrows, Ids
<1>4. CASE UNCHANGED vars
  BY <1>1, <1>3, <1>4 DEF vars, Untouched
<1>5. ASSUME NEW o \in Orders, Create(o) \/ Cancel(o) PROVE AnswersAreTheirs'
  <2>1. \A q \in Pushers : Untouched(q)
    BY <1>5, OwnerEffect DEF Untouched
  <2>. QED
    BY <1>1, <1>3, <1>5, <2>1, OwnerEffect
<1>6. ASSUME NEW P \in SUBSET Pushers, RollBack(P) PROVE AnswersAreTheirs'
  <2>1. \A q \in Pushers : Untouched(q)
    BY <1>6, RollBackEffect DEF Untouched
  <2>2. UNCHANGED <<zoho, unnumbered>> /\ (\A o \in Orders : mishap[o] \subseteq mishap'[o])
    BY <1>6, RollBackEffect
  <2>. QED
    BY <1>1, <1>3, <2>1, <2>2
<1>7. ASSUME NEW p \in Pushers, Load(p) \/ (p \in Jobs /\ StartJob(p)) PROVE AnswersAreTheirs'
  <2>1. pc'[p] = "loaded" /\ Others(p) /\ UNCHANGED <<zoho, unnumbered, reply, row>>
    BY <1>7, LoadEffect
  <2>2. \A q \in Pushers : Untouched(q)
    BY <2>1 DEF Untouched, Others
  <2>3. \A o \in Orders : mishap[o] \subseteq mishap'[o]
    BY <1>7, LoadEffect
  <2>. QED
    BY <1>1, <1>3, <2>1, <2>2, <2>3
<1>8. ASSUME NEW p \in Pushers, End(p) PROVE AnswersAreTheirs'
  <2>1. pc'[p] \in {"idle", "next"} /\ Others(p) /\ UNCHANGED <<zoho, unnumbered, mishap>>
    BY <1>8, EndEffect
  <2>2. \A q \in Pushers : Untouched(q)
    BY <2>1 DEF Untouched, Others
  <2>. QED
    BY <1>1, <1>3, <2>1, <2>2
<1>9. ASSUME NEW p \in Pushers, Send(p) PROVE AnswersAreTheirs'
  <2>1. pc'[p] = "waiting" /\ Others(p) /\ UNCHANGED <<zoho, unnumbered, mishap>>
    BY <1>9, SendEffect
  <2>2. \A q \in Pushers : pc'[q] = "answered" => Untouched(q)
    BY <2>1 DEF Untouched, Others
  <2>. QED
    BY <1>3, <2>1, <2>2, AnswerStands DEF AnswersAreTheirs
<1>10. CASE Snapshot \/ \E k \in scan : CatchUp(k)
  <2>1. UNCHANGED <<zoho, unnumbered, pc, todo, known, reply, mishap>>
    BY <1>10, SyncEffect
  <2>2. \A q \in Pushers : Untouched(q)
    BY <2>1 DEF Untouched
  <2>. QED
    BY <1>1, <1>3, <2>1, <2>2
<1>. QED
  BY <1>4, <1>5, <1>6, <1>7, <1>8, <1>9, <1>10, ZohoStepAnswers, Broken
     DEF Next, Step, End, Pushers

LEMMA NextRows ==
    ASSUME PushAssumption, TypeOK, RowsHeld, [Next]_vars
    PROVE  RowsHeld'
<1>0. \A q \in Pushers : pc[q] # "idle" => Current(q) \in Orders
  BY TypeParts, TodoFacts
<1>1. ASSUME \A q \in Pushers : Untouched(q),
             \A q \in Pushers : pc'[q] \in {"waiting", "answered"} => row'[Current(q)] = row[Current(q)]
      PROVE  RowsHeld'
  BY <1>1 DEF RowsHeld, Untouched, Current
<1>2. CASE UNCHANGED vars
  BY <1>1, <1>2 DEF vars, Untouched
<1>3. ASSUME NEW o \in Orders, Create(o) \/ Cancel(o) PROVE RowsHeld'
  <2>1. \A q \in Pushers : Untouched(q)
    BY <1>3, OwnerEffect DEF Untouched
  <2>. QED
    BY <1>1, <1>3, <2>1, OwnerEffect
<1>4. ASSUME NEW P \in SUBSET Pushers, RollBack(P) PROVE RowsHeld'
  <2>1. \A q \in Pushers : Untouched(q)
    BY <1>4, RollBackEffect DEF Untouched
  <2>2. ASSUME NEW q \in Pushers, pc'[q] \in {"waiting", "answered"} PROVE row'[Current(q)] = row[Current(q)]
    <3>1. q \notin P /\ pc[q] = pc'[q]
      BY <1>4, <2>2, RollBackEffect
    <3>2. row[Current(q)] = q /\ Current(q) \in Orders
      BY <1>0, <2>2, <3>1 DEF RowsHeld
    <3>. QED
      BY <1>4, <3>1, <3>2, RollBackEffect
  <2>. QED
    BY <1>1, <2>1, <2>2
<1>5. ASSUME NEW p \in Pushers, Load(p) \/ (p \in Jobs /\ StartJob(p)) PROVE RowsHeld'
  <2>1. pc'[p] = "loaded" /\ Others(p) /\ UNCHANGED <<zoho, unnumbered, reply, row>>
    BY <1>5, LoadEffect
  <2>2. \A q \in Pushers : Untouched(q)
    BY <2>1 DEF Untouched, Others
  <2>. QED
    BY <1>1, <2>1, <2>2
<1>6. ASSUME NEW p \in Pushers, End(p) PROVE RowsHeld'
  <2>1. /\ pc'[p] \in {"idle", "next"} /\ Others(p) /\ pc[p] \in {"loaded", "answered"}
        /\ pc[p] = "loaded" => row[Current(p)] = None
        /\ \A x \in Orders \ {Current(p)} : row'[x] = row[x]
    BY <1>6, EndEffect
  <2>2. \A q \in Pushers : Untouched(q)
    BY <2>1 DEF Untouched, Others
  <2>3. ASSUME NEW q \in Pushers, pc'[q] \in {"waiting", "answered"} PROVE row'[Current(q)] = row[Current(q)]
    <3>1. q # p /\ pc[q] = pc'[q]
      BY <2>1, <2>3 DEF Others
    <3>2. row[Current(q)] = q /\ q # None /\ Current(q) \in Orders
      BY <1>0, <2>3, <3>1 DEF RowsHeld, PushAssumption
    <3>3. Current(q) # Current(p)
      BY <2>1, <3>1, <3>2 DEF RowsHeld
    <3>. QED
      BY <2>1, <3>2, <3>3
  <2>. QED
    BY <1>1, <2>2, <2>3
<1>7. ASSUME NEW p \in Pushers, Send(p) PROVE RowsHeld'
  <2>1. /\ pc'[p] = "waiting" /\ Others(p) /\ row[Current(p)] = None /\ known[p].zid = 0
        /\ UNCHANGED <<todo, known>> /\ row'[Current(p)] = p
        /\ \A x \in Orders \ {Current(p)} : row'[x] = row[x]
    BY <1>7, SendEffect
  <2>2. ASSUME NEW q \in Pushers \ {p}, pc'[q] \in {"waiting", "answered"}
        PROVE  row'[Current(q)] = q /\ known[q].zid = 0
    <3>1. row[Current(q)] = q /\ known[q].zid = 0 /\ q # None /\ Current(q) \in Orders
      BY <1>0, <2>1, <2>2 DEF RowsHeld, PushAssumption, Others
    <3>. QED
      BY <2>1, <3>1
  <2>. QED
    BY <2>1, <2>2 DEF RowsHeld, Current
<1>8. ASSUME NEW p \in Pushers, Zoho(p) PROVE RowsHeld'
  <2>1. /\ pc[p] = "waiting" /\ Others(p) /\ UNCHANGED <<todo, known, row>>
    BY <1>8, ZohoEffect
  <2>. QED
    BY <2>1 DEF RowsHeld, Current, Others
<1>9. CASE Snapshot \/ \E k \in scan : CatchUp(k)
  <2>1. UNCHANGED <<pc, todo, known, reply, row>>
    BY <1>9, SyncEffect
  <2>. QED
    BY <1>1, <2>1 DEF Untouched
<1>. QED
  BY <1>2, <1>3, <1>4, <1>5, <1>6, <1>7, <1>8, <1>9, Broken DEF Next, Step, End, Pushers

---------------------------------------------------------------------------
(* Counting an order's Zoho orders and pushers                             *)

LEMMA ThreeAreTooMany ==
    ASSUME PusherTypes, NEW p \in Pushers, NEW q \in Pushers, NEW r \in Pushers,
           pc[p] # "idle", pc[q] # "idle", pc[r] # "idle", p # q, p # r
    PROVE  q = r
  BY OneJob

LEMMA Sizes ==
    Cardinality({}) = 0 /\ Cardinality({"overlap"}) = 1
  BY FS_EmptySet, FS_Singleton, Zenon

LEMMA Countable ==
    ASSUME TypeOK, NEW o \in Orders
    PROVE  /\ IsFiniteSet(Made(o)) /\ Cardinality(Made(o)) \in Nat
           /\ IsFiniteSet(Sending(o)) /\ Cardinality(Sending(o)) \in 0 .. 2
           /\ \A q \in Sending(o) : q \in Pushers /\ pc[q] # "idle"
           /\ mishap[o] \subseteq {"overlap"} => 
                \/ mishap[o] = {} /\ Cardinality(mishap[o]) = 0
                \/ mishap[o] = {"overlap"} /\ Cardinality(mishap[o]) = 1
<1>1. ZohoTypes /\ PusherTypes /\ MishapTypes
  BY TypeParts
<1>2. Len(zoho) \in Nat
  BY <1>1, LenProperties DEF ZohoTypes
<1>3. IsFiniteSet(Made(o)) /\ Cardinality(Made(o)) \in Nat
  <2>1. IsFiniteSet(1 .. Len(zoho))
    BY <1>2, FS_Interval
  <2>2. Made(o) \subseteq 1 .. Len(zoho)
    BY DEF Made, Ids
  <2>. QED
    BY <2>1, <2>2, FS_Subset, FS_CardinalityType
<1>4. \A q \in Sending(o) : q \in Pushers /\ pc[q] # "idle"
  BY DEF Sending, Has
<1>5. Sending(o) \subseteq {Web, jobLock}
  BY <1>1, <1>4 DEF PusherTypes, Pushers
<1>6. IsFiniteSet({Web, jobLock}) /\ Cardinality({Web, jobLock}) \in 0 .. 2
  <2>1. IsFiniteSet({jobLock}) /\ Cardinality({jobLock}) = 1
    BY FS_Singleton
  <2>2. {jobLock} \cup {Web} = {Web, jobLock}
    OBVIOUS
  <2>3. /\ IsFiniteSet({jobLock} \cup {Web})
        /\ Cardinality({jobLock} \cup {Web}) = Cardinality({jobLock}) + 1
           \/ Cardinality({jobLock} \cup {Web}) = Cardinality({jobLock})
    BY <2>1, FS_AddElement
  <2>. QED
    BY <2>1, <2>2, <2>3
<1>7. IsFiniteSet(Sending(o)) /\ Cardinality(Sending(o)) <= Cardinality({Web, jobLock})
  BY <1>5, <1>6, FS_Subset
<1>8. Cardinality(Sending(o)) \in 0 .. 2
  BY <1>6, <1>7, FS_CardinalityType
<1>9. ASSUME mishap[o] \subseteq {"overlap"}
      PROVE  \/ mishap[o] = {} /\ Cardinality(mishap[o]) = 0
             \/ mishap[o] = {"overlap"} /\ Cardinality(mishap[o]) = 1
  <2>1. mishap[o] = {} \/ mishap[o] = {"overlap"}
    BY <1>9
  <2>. QED
    BY <2>1, Sizes, Zenon
<1>. QED
  BY <1>3, <1>4, <1>7, <1>8, <1>9

---------------------------------------------------------------------------
(* A step that leaves an order's book entry as it was                      *)

\* No pusher comes to o, and those that stay keep what they loaded.
Keeps(o) ==
    /\ zid'[o] = zid[o] /\ number'[o] = number[o] /\ status'[o] = status[o]
    /\ adopted \subseteq adopted'
    /\ HistoryGrows
    /\ \A q \in Pushers : Has(q, o)' => Has(q, o) /\ known'[q] = known[q]

\* No Zoho order is made for o, no pusher starts over, and no answer is dropped
\* before o has its link.
NoneMade(o) ==
    mishap'[o] \subseteq {"overlap"} =>
        /\ mishap'[o] = mishap[o] /\ Made(o)' = Made(o)
        /\ \A q \in Pushers : Has(q, o)' /\ pc'[q] # "answered" => pc[q] # "answered"
        /\ zid'[o] = 0 =>
             \A q \in Pushers : Has(q, o) /\ pc[q] = "answered" /\ reply[q].ok =>
                pc'[q] = "answered" /\ todo'[q] = todo[q] /\ reply'[q] = reply[q]

LEMMA BookStands ==
    ASSUME TypeOK, NEW o \in Orders, OrderSound(o), Keeps(o)
    PROVE  NumbersAgree(o)' /\ StatusTellsLink(o)' /\ NumberIsTheirs(o)' /\ AloneKnows(o)'
<1>1. /\ zid[o] \in Ids \cup {0} /\ number[o] \in Ids \cup {0}
      /\ mishap[o] \subseteq mishap'[o]
      /\ \A k \in Ids : zoho'[k] = zoho[k]
      /\ unnumbered \subseteq unnumbered'
  BY DEF TypeOK, Keeps, HistoryGrows
<1>2. NumbersAgree(o)'
  BY <1>1 DEF OrderSound, NumbersAgree, Keeps
<1>3. StatusTellsLink(o)'
  BY <1>1 DEF OrderSound, StatusTellsLink, Keeps
<1>4. NumberIsTheirs(o)'
  BY <1>1 DEF OrderSound, NumberIsTheirs, Keeps
<1>5. AloneKnows(o)'
  <2>1. AloneKnows(o)
    BY DEF OrderSound
  <2>2. "overlap" \notin mishap'[o] => \A p, q \in Pushers : Has(p, o)' /\ Has(q, o)' => p = q
    BY <1>1, <2>1 DEF AloneKnows, Keeps
  <2>3. mishap'[o] \subseteq {"lost"} => \A p \in Pushers : Has(p, o)' =>
          known'[p] = [zid |-> zid'[o], number |-> number'[o], status |-> status'[o]]
    BY <1>1, <2>1 DEF AloneKnows, Keeps
  <2>. QED
    BY <2>2, <2>3 DEF AloneKnows
<1>. QED
  BY <1>2, <1>3, <1>4, <1>5

\* What is said of the Zoho orders made for o also stands when o gets its link.
LEMMA MadeStands ==
    ASSUME TypeOK, TypeOK', NEW o \in Orders, OrderSound(o), NoneMade(o),
           zid'[o] = 0 => zid[o] = 0,
           \A q \in Pushers : Has(q, o)' => Has(q, o) /\ known'[q] = known[q]
    PROVE  MadeBounded(o)'
<1>1. SUFFICES ASSUME mishap'[o] \subseteq {"overlap"}
               PROVE  /\ Cardinality(Made(o)') + Cardinality(Sending(o)') <= 1 + Cardinality(mishap'[o])
                      /\ zid'[o] = 0 =>
                           \/ Made(o)' = {}
                           \/ /\ Cardinality(Made(o)') = 1
                              /\ \E p \in Pushers : pc'[p] = "answered" /\ reply'[p].ok /\ Current(p)' = o
  BY DEF MadeBounded
<1>2. mishap'[o] = mishap[o] /\ Made(o)' = Made(o) /\ MadeBounded(o)
  BY <1>1 DEF NoneMade, OrderSound
<1>3. Sending(o)' \subseteq Sending(o)
  BY <1>1 DEF NoneMade, Sending
<1>4. /\ Cardinality(Sending(o)') <= Cardinality(Sending(o))
      /\ Cardinality(Sending(o)') \in Nat /\ Cardinality(Sending(o)) \in Nat
  <2>1. IsFiniteSet(Sending(o)) /\ Cardinality(Sending(o)) \in 0 .. 2
    BY Countable
  <2>. QED
    BY <1>3, <2>1, FS_Subset, FS_CardinalityType
<1>5. Cardinality(Made(o)) \in Nat /\ Cardinality(mishap[o]) \in Nat
  BY <1>1, <1>2, Countable
<1>6. Cardinality(Made(o)') + Cardinality(Sending(o)') <= 1 + Cardinality(mishap'[o])
  BY <1>1, <1>2, <1>4, <1>5 DEF MadeBounded
<1>7. ASSUME zid'[o] = 0, Made(o)' # {}
      PROVE  /\ Cardinality(Made(o)') = 1
             /\ \E p \in Pushers : pc'[p] = "answered" /\ reply'[p].ok /\ Current(p)' = o
  <2>1. /\ Cardinality(Made(o)) = 1
        /\ \E p \in Pushers : pc[p] = "answered" /\ reply[p].ok /\ Current(p) = o
    BY <1>1, <1>2, <1>7 DEF MadeBounded
  <2>2. PICK p \in Pushers : pc[p] = "answered" /\ reply[p].ok /\ Current(p) = o
    BY <2>1
  <2>3. pc'[p] = "answered" /\ todo'[p] = todo[p] /\ reply'[p] = reply[p]
    BY <1>1, <1>7, <2>2 DEF NoneMade, Has
  <2>. QED
    BY <1>2, <2>1, <2>2, <2>3 DEF Current
<1>. QED
  BY <1>6, <1>7

LEMMA OrderStands ==
    ASSUME TypeOK, TypeOK', NEW o \in Orders, OrderSound(o), Keeps(o), NoneMade(o)
    PROVE  OrderSound(o)'
<1>1. zid'[o] = zid[o] /\ \A q \in Pushers : Has(q, o)' => Has(q, o) /\ known'[q] = known[q]
  BY DEF Keeps
<1>. QED
  BY <1>1, BookStands, MadeStands DEF OrderSound

---------------------------------------------------------------------------
(* OrdersSound is kept: the steps that leave every order's entry as it was *)

LEMMA OwnerSound ==
    ASSUME PushAssumption, TypeOK, TypeOK', OrdersSound, NEW x \in Orders, Create(x) \/ Cancel(x),
           NEW o \in Orders
    PROVE  OrderSound(o)'
<1>1. /\ UNCHANGED <<links, zoho, unnumbered, sync, known, reply, row, mishap>>
      /\ \A q \in Pushers : /\ pc'[q] = pc[q] \/ (pc[q] = "idle" /\ pc'[q] = "next")
                            /\ pc[q] # "idle" => todo'[q] = todo[q]
  BY OwnerEffect
<1>2. \A q \in Pushers : Has(q, o)' => Has(q, o) /\ pc'[q] = pc[q]
  BY <1>1 DEF Has, Current
<1>3. Keeps(o)
  BY <1>1, <1>2 DEF Keeps, HistoryGrows, links, sync, Ids
<1>4. NoneMade(o)
  BY <1>1, <1>2 DEF NoneMade, Made, Ids
<1>. QED
  BY <1>3, <1>4, OrderStands DEF OrdersSound

LEMMA RollBackSound ==
    ASSUME PushAssumption, TypeOK, TypeOK', OrdersSound, NEW P \in SUBSET Pushers, RollBack(P),
           NEW o \in Orders
    PROVE  OrderSound(o)'
<1>1. /\ UNCHANGED <<orders, links, zoho, unnumbered, sync>>
      /\ \A q \in Pushers : q \in P => pc'[q] = "idle"
      /\ \A q \in Pushers : q \notin P =>
           pc'[q] = pc[q] /\ todo'[q] = todo[q] /\ known'[q] = known[q] /\ reply'[q] = reply[q]
      /\ \A x \in Orders : mishap'[x] = mishap[x] \/ mishap'[x] = mishap[x] \cup {"lost"}
      /\ \A q \in Pushers :
           q \in P /\ Has(q, o) /\ pc[q] = "answered" /\ reply[q].ok => "lost" \in mishap'[o]
  BY RollBackEffect
<1>2. \A q \in Pushers : Has(q, o)' => Has(q, o) /\ q \notin P
  BY <1>1 DEF Has, Current
<1>3. Keeps(o)
  BY <1>1, <1>2 DEF Keeps, HistoryGrows, links, sync, Ids
<1>4. NoneMade(o)
  BY <1>1, <1>2 DEF NoneMade, Made, Ids
<1>. QED
  BY <1>3, <1>4, OrderStands DEF OrdersSound

LEMMA SendSound ==
    ASSUME PushAssumption, TypeOK, TypeOK', OrdersSound, NEW p \in Pushers, Send(p), NEW o \in Orders
    PROVE  OrderSound(o)'
<1>1. /\ pc[p] = "loaded" /\ pc'[p] = "waiting" /\ Others(p)
      /\ UNCHANGED <<orders, links, zoho, unnumbered, sync, todo, known, reply, mishap>>
  BY SendEffect
<1>2. \A q \in Pushers : Has(q, o)' => Has(q, o) /\ known'[q] = known[q]
  BY <1>1 DEF Has, Current, Others
<1>3. Keeps(o)
  BY <1>1, <1>2 DEF Keeps, HistoryGrows, links, sync, Ids
<1>4. NoneMade(o)
  BY <1>1, <1>2 DEF NoneMade, Made, Ids, Others
<1>. QED
  BY <1>3, <1>4, OrderStands DEF OrdersSound

\* The sync gives an order a link only by a number a garbled reply left.
LEMMA SyncSound ==
    ASSUME PushAssumption, TypeOK, TypeOK', OrdersSound, Snapshot \/ \E k \in scan : CatchUp(k),
           NEW o \in Orders
    PROVE  OrderSound(o)'
<1>1. /\ UNCHANGED <<orders, number, status, zoho, unnumbered, pc, todo, known, reply, row, mishap>>
      /\ adopted \subseteq adopted'
      /\ zid'[o] = zid[o] \/ (zid[o] = 0 /\ zid'[o] # 0 /\ zid'[o] = number[o])
  BY SyncEffect
<1>2. \A q \in Pushers : (Has(q, o)' <=> Has(q, o)) /\ known'[q] = known[q]
  BY <1>1 DEF Has, Current
<1>3. NoneMade(o) /\ HistoryGrows
  BY <1>1, <1>2 DEF NoneMade, HistoryGrows, Made, Ids
<1>4. OrderSound(o)
  BY DEF OrdersSound
<1>5. CASE zid'[o] = zid[o]
  <2>1. Keeps(o)
    BY <1>1, <1>2, <1>3, <1>5 DEF Keeps
  <2>. QED
    BY <1>3, <1>4, <2>1, OrderStands
<1>6. CASE zid[o] = 0 /\ zid'[o] # 0 /\ zid'[o] = number[o]
  <2>1. zoho[number[o]] = o /\ "garbled" \in mishap[o]
    BY <1>4, <1>6 DEF OrderSound, NumberIsTheirs
  <2>2. NumbersAgree(o)' /\ StatusTellsLink(o)' /\ NumberIsTheirs(o)'
    BY <1>1, <1>6, <2>1 DEF NumbersAgree, StatusTellsLink, NumberIsTheirs
  <2>3. AloneKnows(o)'
    BY <1>1, <1>2, <1>4, <2>1 DEF OrderSound, AloneKnows
  <2>4. MadeBounded(o)'
    BY <1>2, <1>3, <1>4, <1>6, MadeStands
  <2>. QED
    BY <2>2, <2>3, <2>4 DEF OrderSound
<1>. QED
  BY <1>1, <1>5, <1>6

---------------------------------------------------------------------------
(* Zoho's answer                                                           *)

\* Who waits for Zoho is alone with the order's row, so no other answer for
\* the order is on its way and Zoho had no order for it yet.
LEMMA AnswerBounded ==
    ASSUME PushAssumption, TypeOK, TypeOK', RowsHeld, NEW p \in Pushers, OrderSound(Current(p)),
           Zoho(p), reply'[p].ok, mishap' = mishap, New(p)
    PROVE  MadeBounded(Current(p))'
<1>1. /\ pc[p] = "waiting" /\ pc'[p] = "answered" /\ Others(p) /\ Current(p) \in Orders
      /\ UNCHANGED <<todo, known, row>>
  BY ZohoEffect
<1>2. PICK o \in Orders : o = Current(p)
  BY <1>1
<1>3. PICK n : n = Len(zoho) + 1
  OBVIOUS
<1>4. Current(p)' = o /\ row[o] = p /\ known[p].zid = 0
  BY <1>1, <1>2 DEF RowsHeld, Current
<1>5. SUFFICES ASSUME mishap[o] \subseteq {"overlap"}
               PROVE  /\ Cardinality(Made(o)') + Cardinality(Sending(o)') <= 1 + Cardinality(mishap[o])
                      /\ zid'[o] = 0 =>
                           /\ Cardinality(Made(o)') = 1
                           /\ \E q \in Pushers : pc'[q] = "answered" /\ reply'[q].ok /\ Current(q)' = o
  BY <1>2, <1>4 DEF MadeBounded, Current
<1>6. Made(o)' = Made(o) \cup {n} /\ n \notin Made(o)
  <2>1. /\ Ids \subseteq Ids' /\ n \in Ids' /\ n \notin Ids /\ zoho'[n] = o
        /\ \A k \in Ids : zoho'[k] = zoho[k]
        /\ \A k \in Ids' : k \in Ids \/ k = n
    BY <1>2, <1>3, TypeParts, IdsGrow DEF New
  <2>. QED
    BY <2>1 DEF Made
<1>7. p \in Sending(o) /\ Sending(o)' = Sending(o) \ {p}
  <2>1. p \in Sending(o)
    BY <1>1, <1>2, <1>4 DEF Sending, Has
  <2>2. \A q \in Pushers \ {p} : q \in Sending(o)' <=> q \in Sending(o)
    BY <1>1 DEF Sending, Has, Current, Others
  <2>3. p \notin Sending(o)'
    BY <1>1 DEF Sending
  <2>4. Sending(o) \subseteq Pushers /\ Sending(o)' \subseteq Pushers
    BY DEF Sending
  <2>. QED
    BY <2>1, <2>2, <2>3, <2>4
<1>8. /\ IsFiniteSet(Made(o)) /\ Cardinality(Made(o)) \in Nat
      /\ IsFiniteSet(Sending(o)) /\ Cardinality(Sending(o)) \in 0 .. 2
      /\ Cardinality(mishap[o]) \in Nat
  BY <1>5, Countable
<1>9. Cardinality(Made(o)') = Cardinality(Made(o)) + 1
  BY <1>6, <1>8, FS_AddElement
<1>10. Cardinality(Sending(o)') = Cardinality(Sending(o)) - 1
  <2>1. Cardinality(Sending(o) \ {p}) = Cardinality(Sending(o)) - 1
    BY <1>7, <1>8, FS_RemoveElement
  <2>. QED
    BY <1>7, <2>1, Zenon
<1>11. /\ Cardinality(Made(o)) + Cardinality(Sending(o)) <= 1 + Cardinality(mishap[o])
       /\ zid[o] = 0 =>
            \/ Made(o) = {}
            \/ \E q \in Pushers : pc[q] = "answered" /\ Current(q) = o
  BY <1>2, <1>5 DEF OrderSound, MadeBounded
<1>12. ASSUME zid'[o] = 0 PROVE Cardinality(Made(o)') = 1
  <2>1. zid[o] = 0
    BY <1>12, ZohoEffect DEF links
  <2>2. \A q \in Pushers : pc[q] = "answered" => Current(q) # o
    BY <1>1, <1>4 DEF RowsHeld
  <2>3. Made(o) = {}
    BY <1>11, <2>1, <2>2
  <2>. QED
    BY <1>9, <2>3, Sizes
<1>13. pc'[p] = "answered" /\ reply'[p].ok /\ Current(p)' = o
  BY <1>1, <1>4
<1>14. Cardinality(Made(o)') + Cardinality(Sending(o)') <= 1 + Cardinality(mishap[o])
  BY <1>8, <1>9, <1>10, <1>11
<1>. QED
  BY <1>12, <1>13, <1>14

LEMMA ZohoSound ==
    ASSUME PushAssumption, TypeOK, TypeOK', OrdersSound, RowsHeld, NEW p \in Pushers, Zoho(p),
           NEW o \in Orders
    PROVE  OrderSound(o)'
<1>1. /\ pc[p] = "waiting" /\ pc'[p] = "answered" /\ Others(p) /\ Current(p) \in Orders
      /\ UNCHANGED <<orders, links, sync, todo, known, row>> /\ HistoryGrows
  BY ZohoEffect
<1>2. \A q \in Pushers : Has(q, o)' => Has(q, o) /\ known'[q] = known[q]
  BY <1>1 DEF Has, Current, Others
<1>3. Keeps(o) /\ OrderSound(o)
  BY <1>1, <1>2 DEF Keeps, links, sync, OrdersSound
<1>4. \A q \in Pushers \ {p} : pc'[q] = pc[q] /\ todo'[q] = todo[q] /\ reply'[q] = reply[q]
  BY <1>1 DEF Others
<1>5. CASE o # Current(p)
  <2>1. mishap'[o] = mishap[o] /\ Made(o)' = Made(o)
    BY <1>5, ZohoEffect
  <2>2. NoneMade(o)
    BY <1>1, <1>4, <2>1 DEF NoneMade
  <2>. QED
    BY <1>3, <2>2, OrderStands
<1>6. CASE o = Current(p)
  <2>1. CASE zoho' = zoho /\ mishap' = mishap
    <3>1. NoneMade(o)
      BY <1>1, <1>4, <2>1 DEF NoneMade, Made, Ids
    <3>. QED
      BY <1>3, <3>1, OrderStands
  <2>2. CASE "lost" \in mishap'[o] \/ "garbled" \in mishap'[o]
    <3>1. NoneMade(o)
      BY <2>2 DEF NoneMade
    <3>. QED
      BY <1>3, <3>1, OrderStands
  <2>3. CASE reply'[p].ok /\ mishap' = mishap /\ New(p)
    <3>1. MadeBounded(o)'
      <4>1. MadeBounded(Current(p))'
        BY <1>3, <1>6, <2>3, AnswerBounded
      <4>2. Current(p)' = o
        BY <1>1, <1>6 DEF Current
      <4>. QED
        BY <4>1, <4>2 DEF MadeBounded, Made, Sending
    <3>2. NumbersAgree(o)' /\ StatusTellsLink(o)' /\ NumberIsTheirs(o)' /\ AloneKnows(o)'
      BY <1>3, BookStands
    <3>. QED
      BY <3>1, <3>2 DEF OrderSound
  <2>. QED
    BY <1>6, <2>1, <2>2, <2>3, ZohoEffect
<1>. QED
  BY <1>5, <1>6

---------------------------------------------------------------------------
(* The commit that ends a push                                             *)

\* What every end of a push leaves for the order: its pusher is gone.
LEMMA EndLeaves ==
    ASSUME PushAssumption, TypeOK, TypeOK', NEW p \in Pushers, End(p), NEW o \in Orders
    PROVE  /\ HistoryGrows /\ mishap' = mishap /\ adopted' = adopted /\ Made(o)' = Made(o)
           /\ zoho' = zoho /\ unnumbered' = unnumbered
           /\ \A q \in Pushers : Has(q, o)' =>
                q # p /\ Has(q, o) /\ pc'[q] = pc[q] /\ known'[q] = known[q] /\ reply'[q] = reply[q]
           /\ \A q \in Pushers \ {p} :
                pc'[q] = pc[q] /\ todo'[q] = todo[q] /\ known'[q] = known[q] /\ reply'[q] = reply[q]
<1>1. /\ pc'[p] \in {"idle", "next"} /\ Others(p) /\ UNCHANGED <<orders, zoho, unnumbered, sync, mishap>>
  BY EndEffect
<1>2. HistoryGrows /\ Made(o)' = Made(o)
  BY <1>1 DEF HistoryGrows, Made, Ids
<1>. QED
  BY <1>1, <1>2 DEF Others, Has, Current, sync

\* A pusher alone at its order leaves it with nobody at it.
LEMMA EndAlone ==
    ASSUME PushAssumption, TypeOK, TypeOK', NEW p \in Pushers, End(p), OrderSound(Current(p)),
           NEW o \in Orders, o = Current(p)
    PROVE  AloneKnows(o)'
<1>1. pc[p] \in {"loaded", "answered"}
  BY EndEffect
<1>2. Has(p, o) /\ AloneKnows(o)
  BY <1>1 DEF Has, OrderSound
<1>3. "overlap" \notin mishap[o] => \A q \in Pushers : ~ Has(q, o)'
  BY <1>2, EndLeaves DEF AloneKnows
<1>4. mishap' = mishap
  BY EndLeaves
<1>. QED
  BY <1>3, <1>4 DEF AloneKnows

\* Where no link is made, an answer on the way stays on the way.
LEMMA EndBounded ==
    ASSUME PushAssumption, TypeOK, TypeOK', NEW p \in Pushers, End(p), OrderSound(Current(p)),
           NEW o \in Orders, o = Current(p),
           zid'[o] = 0 => zid[o] = 0,
           mishap[o] \subseteq {"overlap"} /\ zid'[o] = 0 => pc[p] = "loaded" \/ ~ reply[p].ok
    PROVE  MadeBounded(o)'
<1>1. NoneMade(o)
  <2>1. /\ HistoryGrows /\ mishap' = mishap /\ Made(o)' = Made(o)
        /\ \A q \in Pushers : Has(q, o)' => q # p /\ Has(q, o) /\ pc'[q] = pc[q]
        /\ \A q \in Pushers \ {p} :
             pc'[q] = pc[q] /\ todo'[q] = todo[q] /\ known'[q] = known[q] /\ reply'[q] = reply[q]
    BY EndLeaves
  <2>. QED
    BY <2>1 DEF NoneMade
<1>2. \A q \in Pushers : Has(q, o)' => Has(q, o) /\ known'[q] = known[q]
  BY EndLeaves
<1>. QED
  BY <1>1, <1>2, MadeStands

\* A push that sends nothing, or that Zoho refuses, writes only the status, and
\* an order already linked only "success".
LEMMA EndedUnlinked ==
    ASSUME PushAssumption, TypeOK, TypeOK', RowsHeld, NEW p \in Pushers,
           AlreadyLinked(p) \/ NothingToSend(p) \/ PushFailed(p), OrderSound(Current(p)),
           NEW o \in Orders, o = Current(p)
    PROVE  OrderSound(o)'
<1>1. End(p)
  BY DEF End
<1>2. /\ zid' = zid /\ number' = number
      /\ status' = Merged(status, o, known[p].status, IF known[p].zid # 0 THEN "success" ELSE "failed")
      /\ pc[p] = "loaded" \/ ~ reply[p].ok
      /\ pc[p] \in {"loaded", "answered"}
  <2>1. CASE AlreadyLinked(p)
    BY <2>1 DEF AlreadyLinked, AtFreeRow, Commit, Merged
  <2>2. CASE NothingToSend(p)
    BY <2>2 DEF NothingToSend, AtFreeRow, Commit, Merged
  <2>3. CASE PushFailed(p)
    <3>1. known[p].zid = 0
      BY <2>3 DEF PushFailed, RowsHeld
    <3>. QED
      BY <2>3, <3>1 DEF PushFailed, Commit, Merged
  <2>. QED
    BY <2>1, <2>2, <2>3
<1>3. /\ mishap' = mishap /\ adopted' = adopted /\ zoho' = zoho /\ unnumbered' = unnumbered
  BY <1>1, EndLeaves
<1>4. NumbersAgree(o)' /\ NumberIsTheirs(o)'
  BY <1>2, <1>3 DEF OrderSound, NumbersAgree, NumberIsTheirs
<1>5. StatusTellsLink(o)'
  <2>1. Has(p, o) /\ AloneKnows(o) /\ StatusTellsLink(o)
    BY <1>2 DEF Has, OrderSound
  <2>2. ASSUME mishap[o] \subseteq {"lost"} PROVE status'[o] = "success" <=> zid[o] # 0
    <3>1. known[p].zid = zid[o] /\ known[p].status = status[o] /\ (status[o] = "success" <=> zid[o] # 0)
      BY <2>1, <2>2 DEF AloneKnows, StatusTellsLink
    <3>2. status \in [Orders -> {"none", "success", "failed"}]
      BY DEF TypeOK
    <3>. QED
      BY <1>2, <3>1, <3>2 DEF Merged
  <2>. QED
    BY <1>2, <1>3, <2>2 DEF StatusTellsLink
<1>6. AloneKnows(o)'
  BY <1>1, EndAlone
<1>7. MadeBounded(o)'
  BY <1>1, <1>2, EndBounded
<1>. QED
  BY <1>4, <1>5, <1>6, <1>7 DEF OrderSound

\* An accepted push writes the link, and the number if it is free.
LEMMA EndedLinked ==
    ASSUME PushAssumption, TypeOK, TypeOK', RowsHeld, AnswersAreTheirs, OrdersSound,
           NEW p \in Pushers, PushOk(p), NEW o \in Orders, o = Current(p)
    PROVE  OrderSound(o)'
<1>1. End(p) /\ pc[p] = "answered" /\ reply[p].ok
  BY DEF End, PushOk
<1>2. PICK r \in Reply : r = reply[p]
  BY DEF TypeOK, Reply
<1>3. known[p].zid = 0 /\ AnswerIsTheirs(p) /\ OrderSound(o)
  BY <1>1 DEF RowsHeld, AnswersAreTheirs, OrdersSound
<1>4. /\ r.id # 0 => zoho[r.id] = o /\ (r.num = r.id \/ (r.num = 0 /\ r.id \in unnumbered))
      /\ r.num # 0 => zoho[r.num] = o /\ known[p].number # r.num
      /\ r.id = 0 => "garbled" \in mishap[o]
  BY <1>2, <1>3 DEF AnswerIsTheirs
<1>5. zid' = Merged(zid, o, 0, r.id) /\ number' = Merged(number, o, known[p].number, Agreed(p, r.num))
      /\ status' = Merged(status, o, known[p].status, "success")
  BY <1>2, <1>3 DEF PushOk, Commit
<1>6. /\ zid \in [Orders -> Ids \cup {0}] /\ number \in [Orders -> Ids \cup {0}]
      /\ status \in [Orders -> {"none", "success", "failed"}]
  BY DEF TypeOK
<1>7. /\ mishap' = mishap /\ adopted' = adopted /\ zoho' = zoho /\ unnumbered' = unnumbered
  BY <1>1, EndLeaves
<1>8. zid'[o] = IF r.id = 0 THEN zid[o] ELSE r.id
  BY <1>5, <1>6 DEF Merged
<1>9. \/ number'[o] = number[o] /\ (r.num = 0 \/ r.num \in adopted)
      \/ number'[o] = r.num /\ r.num # 0
  <2>1. ASSUME NEW x \in Created \ {o}, number[x] = r.num, r.num # 0 PROVE FALSE
    <3>1. x \in Orders
      BY DEF TypeOK, Created
    <3>2. zoho[r.num] = x
      BY <2>1, <3>1 DEF OrdersSound, OrderSound, NumberIsTheirs
    <3>. QED
      BY <1>4, <2>1, <3>2
  <2>2. CASE r.num = 0 \/ Taken(r.num, o)
    <3>1. Agreed(p, r.num) = known[p].number
      BY <2>2 DEF Agreed
    <3>2. r.num = 0 \/ r.num \in adopted
      BY <2>1, <2>2 DEF Taken
    <3>. QED
      BY <1>5, <3>1, <3>2 DEF Merged
  <2>3. CASE r.num # 0 /\ ~ Taken(r.num, o)
    <3>1. Agreed(p, r.num) = r.num
      BY <2>3 DEF Agreed
    <3>. QED
      BY <1>4, <1>5, <1>6, <2>3, <3>1 DEF Merged
  <2>. QED
    BY <2>2, <2>3
<1>10. NumbersAgree(o)' /\ NumberIsTheirs(o)'
  <2>1. NumbersAgree(o) /\ NumberIsTheirs(o)
    BY <1>3 DEF OrderSound
  <2>2. NumbersAgree(o)'
    BY <1>4, <1>7, <1>8, <1>9, <2>1 DEF NumbersAgree
  <2>3. NumberIsTheirs(o)'
    BY <1>4, <1>7, <1>8, <1>9, <2>1 DEF NumberIsTheirs
  <2>. QED
    BY <2>2, <2>3
<1>11. StatusTellsLink(o)'
  <2>1. Has(p, o) /\ AloneKnows(o)
    BY <1>1, <1>3 DEF Has, OrderSound
  <2>2. ASSUME mishap[o] \subseteq {"lost"} PROVE status'[o] = "success" /\ zid'[o] # 0
    <3>1. known[p].status = status[o] /\ r.id # 0
      BY <1>4, <2>1, <2>2 DEF AloneKnows
    <3>. QED
      BY <1>5, <1>6, <1>8, <3>1 DEF Merged
  <2>. QED
    BY <1>7, <2>2 DEF StatusTellsLink
<1>12. AloneKnows(o)'
  BY <1>1, <1>3, EndAlone
<1>13. MadeBounded(o)'
  <2>1. mishap[o] \subseteq {"overlap"} => zid'[o] # 0
    BY <1>4, <1>8
  <2>2. zid'[o] = 0 => zid[o] = 0
    BY <1>8
  <2>. QED
    BY <1>1, <1>3, <2>1, <2>2, EndBounded
<1>. QED
  BY <1>10, <1>11, <1>12, <1>13 DEF OrderSound

LEMMA EndSound ==
    ASSUME PushAssumption, TypeOK, TypeOK', RowsHeld, AnswersAreTheirs, OrdersSound,
           NEW p \in Pushers, End(p), NEW o \in Orders
    PROVE  OrderSound(o)'
<1>1. CASE o = Current(p)
  BY <1>1, EndedUnlinked, EndedLinked DEF End, OrdersSound
<1>2. CASE o # Current(p)
  <2>1. zid'[o] = zid[o] /\ number'[o] = number[o] /\ status'[o] = status[o]
    BY <1>2, EndEffect
  <2>2. /\ HistoryGrows /\ mishap' = mishap /\ adopted' = adopted /\ Made(o)' = Made(o)
        /\ \A q \in Pushers : Has(q, o)' =>
             q # p /\ Has(q, o) /\ pc'[q] = pc[q] /\ known'[q] = known[q] /\ reply'[q] = reply[q]
        /\ \A q \in Pushers \ {p} :
             pc'[q] = pc[q] /\ todo'[q] = todo[q] /\ known'[q] = known[q] /\ reply'[q] = reply[q]
    BY EndLeaves
  <2>3. Keeps(o)
    BY <2>1, <2>2 DEF Keeps
  <2>4. NoneMade(o)
    BY <1>2, <2>2 DEF NoneMade, Has
  <2>. QED
    BY <2>3, <2>4, OrderStands DEF OrdersSound
<1>. QED
  BY <1>1, <1>2

---------------------------------------------------------------------------
(* Loading an order                                                        *)

LEMMA AtMostOne ==
    ASSUME NEW S, NEW x, S \subseteq {x}
    PROVE  Cardinality(S) <= 1
<1>1. S = {} \/ S = {x}
  OBVIOUS
<1>2. Cardinality({}) = 0 /\ Cardinality({x}) = 1
  BY FS_EmptySet, FS_Singleton, Zenon
<1>3. Cardinality(S) = 0 \/ Cardinality(S) = 1
  BY <1>1, <1>2, Zenon
<1>. QED
  BY <1>3

LEMMA NoMore ==
    ASSUME NEW S, NEW T, IsFiniteSet(T), S \subseteq T
    PROVE  Cardinality(S) <= Cardinality(T)
  BY FS_Subset

FewAtOnce ==
    \A o \in Orders :
        /\ Cardinality(Sending(o)) \in 0 .. 2
        /\ mishap[o] \subseteq {"overlap"} =>
             \/ mishap[o] = {} /\ Cardinality(mishap[o]) = 0
             \/ mishap[o] = {"overlap"} /\ Cardinality(mishap[o]) = 1

LEMMA CountableNow == TypeOK => FewAtOnce
  BY Countable DEF FewAtOnce

LEMMA CountableNext == TypeOK' => FewAtOnce'
  BY CountableNow, PTL

\* Who loads o meets at most one pusher there, and that is an overlap.
LEMMA LoadMeets ==
    ASSUME PushAssumption, TypeOK, TypeOK', NEW p \in Pushers, Load(p) \/ (p \in Jobs /\ StartJob(p)),
           NEW o \in Orders, o = Current(p)',
           NEW q \in Pushers, q # p, Has(q, o)
    PROVE  /\ "overlap" \in mishap'[o]
           /\ \A r \in Pushers \ {p} : Has(r, o) => r = q
<1>1. pc'[p] = "loaded" /\ Others(p)
  BY LoadEffect
<1>2. PusherTypes' /\ \A r \in Pushers \ {p} : Has(r, o) => pc'[r] # "idle"
  BY <1>1, TypeParts DEF PusherTypes, TypeOK, Has, Others
<1>3. \A r \in Pushers, s \in Pushers : r # s /\ pc'[r] # "idle" /\ pc'[s] # "idle" => Web \in {r, s}
  BY <1>2 DEF PusherTypes, Pushers
<1>4. Web \in {p, q}
  BY <1>1, <1>2, <1>3
<1>5. "overlap" \in mishap'[o]
  BY <1>4, LoadEffect
<1>6. ASSUME NEW r \in Pushers \ {p}, Has(r, o) PROVE r = q
  BY <1>1, <1>2, <1>3, <1>6
<1>. QED
  BY <1>5, <1>6

LEMMA LoadBounded ==
    ASSUME PushAssumption, TypeOK, TypeOK', NEW p \in Pushers, Load(p) \/ (p \in Jobs /\ StartJob(p)),
           NEW o \in Orders, o = Current(p)', OrderSound(o)
    PROVE  MadeBounded(o)'
<1>1. /\ pc[p] \in {"idle", "next"} /\ pc'[p] = "loaded" /\ Others(p) /\ UNCHANGED <<links, zoho, unnumbered>>
      /\ known'[p] = [zid |-> zid[o], number |-> number[o], status |-> status[o]]
      /\ mishap[o] \subseteq mishap'[o] /\ mishap'[o] \subseteq mishap[o] \cup {"overlap"}
  BY LoadEffect
<1>2. SUFFICES ASSUME mishap'[o] \subseteq {"overlap"}
               PROVE  /\ Cardinality(Made(o)) + Cardinality(Sending(o)') <= 1 + Cardinality(mishap'[o])
                      /\ zid[o] = 0 =>
                           \/ Made(o) = {}
                           \/ /\ Cardinality(Made(o)) = 1
                              /\ \E q \in Pushers : pc'[q] = "answered" /\ reply'[q].ok /\ Current(q)' = o
  <2>1. Made(o)' = Made(o) /\ zid'[o] = zid[o]
    BY <1>1 DEF Made, Ids, links
  <2>. QED
    BY <2>1 DEF MadeBounded
<1>3. /\ Cardinality(Made(o)) + Cardinality(Sending(o)) <= 1 + Cardinality(mishap[o])
      /\ zid[o] = 0 =>
           \/ Made(o) = {}
           \/ /\ Cardinality(Made(o)) = 1
              /\ \E q \in Pushers : pc[q] = "answered" /\ reply[q].ok /\ Current(q) = o
  BY <1>1, <1>2 DEF OrderSound, MadeBounded
<1>4. /\ Cardinality(Made(o)) \in Nat
      /\ IsFiniteSet(Sending(o)) /\ Cardinality(Sending(o)) \in 0 .. 2
      /\ Cardinality(mishap[o]) \in 0 .. 1
      /\ mishap[o] # {} => Cardinality(mishap[o]) = 1
      /\ mishap[o] = {} => Cardinality(mishap[o]) = 0
  <2>1. mishap[o] \subseteq {"overlap"}
    BY <1>1, <1>2
  <2>2. \/ mishap[o] = {} /\ Cardinality(mishap[o]) = 0
        \/ mishap[o] = {"overlap"} /\ Cardinality(mishap[o]) = 1
    BY <2>1, Countable
  <2>. QED
    BY <2>2, Countable
<1>5. /\ Cardinality(Sending(o)') \in 0 .. 2
      /\ Cardinality(mishap'[o]) \in 0 .. 1
      /\ "overlap" \in mishap'[o] => Cardinality(mishap'[o]) = 1
      /\ mishap[o] # {} => "overlap" \in mishap'[o]
  <2>1. Cardinality(Sending(o)') \in 0 .. 2
    BY CountableNext DEF FewAtOnce
  <2>2. \/ mishap'[o] = {} /\ Cardinality(mishap'[o]) = 0
        \/ mishap'[o] = {"overlap"} /\ Cardinality(mishap'[o]) = 1
    BY <1>2, CountableNext DEF FewAtOnce
  <2>. QED
    BY <1>1, <2>1, <2>2
<1>6. Sending(o)' \subseteq Sending(o) \cup {p}
      /\ (known'[p].zid # 0 => Sending(o)' \subseteq Sending(o))
  BY <1>1 DEF Sending, Has, Current, Others
<1>7. CASE zid[o] # 0
  <2>1. Sending(o)' \subseteq Sending(o)
    BY <1>1, <1>6, <1>7
  <2>2. Cardinality(Sending(o)') <= Cardinality(Sending(o))
    BY <1>4, <2>1, NoMore
  <2>3. Cardinality(mishap[o]) <= Cardinality(mishap'[o])
    <3>1. CASE mishap[o] = {}
      BY <1>4, <1>5, <3>1
    <3>2. CASE mishap[o] # {}
      BY <1>4, <1>5, <3>2
    <3>. QED
      BY <3>1, <3>2
  <2>. QED
    BY <1>3, <1>4, <1>5, <1>7, <2>2, <2>3
<1>8. CASE zid[o] = 0 /\ Made(o) = {}
  <2>1. CASE \E q \in Pushers : q # p /\ Has(q, o)
    <3>1. "overlap" \in mishap'[o]
      BY <2>1, LoadMeets
    <3>. QED
      BY <1>5, <1>8, <3>1, Sizes
  <2>2. CASE ~ \E q \in Pushers : q # p /\ Has(q, o)
    <3>1. Sending(o)' \subseteq {p}
      BY <1>1, <2>2 DEF Sending, Has, Current, Others
    <3>2. Cardinality(Sending(o)') <= 1
      BY <3>1, AtMostOne
    <3>. QED
      BY <1>5, <1>8, <3>2, Sizes
  <2>. QED
    BY <2>1, <2>2
<1>9. CASE zid[o] = 0 /\ Made(o) # {}
  <2>1. /\ Cardinality(Made(o)) = 1
        /\ \E q \in Pushers : pc[q] = "answered" /\ reply[q].ok /\ Current(q) = o
    BY <1>3, <1>9
  <2>2. PICK q \in Pushers : pc[q] = "answered" /\ reply[q].ok /\ Current(q) = o
    BY <2>1
  <2>3. q # p /\ Has(q, o)
    BY <1>1, <2>2 DEF Has
  <2>4. "overlap" \in mishap'[o] /\ \A r \in Pushers \ {p} : Has(r, o) => r = q
    BY <2>3, LoadMeets
  <2>5. pc'[q] = "answered" /\ reply'[q].ok /\ Current(q)' = o
    BY <1>1, <2>2, <2>3, LoadEffect DEF Others, Current
  <2>6. Sending(o)' \subseteq {p}
    BY <1>1, <2>2, <2>3, <2>4 DEF Sending, Has, Current, Others
  <2>7. Cardinality(Sending(o)') <= 1
    BY <2>6, AtMostOne
  <2>. QED
    BY <1>5, <2>1, <2>4, <2>5, <2>7
<1>. QED
  BY <1>7, <1>8, <1>9

LEMMA LoadSound ==
    ASSUME PushAssumption, TypeOK, TypeOK', OrdersSound,
           NEW p \in Pushers, Load(p) \/ (p \in Jobs /\ StartJob(p)), NEW o \in Orders
    PROVE  OrderSound(o)'
<1>1. /\ pc[p] \in {"idle", "next"} /\ pc'[p] = "loaded" /\ Others(p)
      /\ UNCHANGED <<orders, links, zoho, unnumbered, sync, reply, row>> /\ Current(p)' \in Orders
  BY LoadEffect
<1>2. HistoryGrows /\ OrderSound(o)
  <2>1. \A x \in Orders : mishap[x] \subseteq mishap'[x]
    BY LoadEffect
  <2>. QED
    BY <1>1, <2>1 DEF HistoryGrows, Ids, OrdersSound
<1>3. \A q \in Pushers \ {p} : (Has(q, o)' <=> Has(q, o)) /\ pc'[q] = pc[q] /\ todo'[q] = todo[q]
                                /\ known'[q] = known[q] /\ reply'[q] = reply[q]
  BY <1>1 DEF Has, Current, Others
<1>4. CASE o # Current(p)'
  <2>1. ~ Has(p, o)' /\ ~ Has(p, o)
    BY <1>1, <1>4 DEF Has
  <2>2. mishap'[o] = mishap[o] /\ Made(o)' = Made(o)
    BY <1>1, <1>4, LoadEffect DEF Made, Ids
  <2>3. Keeps(o)
    BY <1>1, <1>2, <1>3, <2>1 DEF Keeps, links, sync
  <2>4. NoneMade(o)
    BY <1>3, <2>1, <2>2 DEF NoneMade
  <2>. QED
    BY <1>2, <2>3, <2>4, OrderStands
<1>5. CASE o = Current(p)'
  <2>1. /\ known'[p] = [zid |-> zid[o], number |-> number[o], status |-> status[o]]
        /\ mishap[o] \subseteq mishap'[o]
    BY <1>5, LoadEffect
  <2>2. NumbersAgree(o)' /\ StatusTellsLink(o)' /\ NumberIsTheirs(o)'
    <3>1. UNCHANGED <<zid, number, status, adopted, zoho, unnumbered>>
      BY <1>1 DEF links, sync
    <3>. QED
      BY <1>2, <2>1, <3>1 DEF OrderSound, NumbersAgree, StatusTellsLink, NumberIsTheirs
  <2>3. AloneKnows(o)'
    <3>1. AloneKnows(o)
      BY <1>2 DEF OrderSound
    <3>2. ASSUME "overlap" \notin mishap'[o], NEW q \in Pushers, Has(q, o)' PROVE q = p
      BY <1>3, <1>5, <3>2, LoadMeets
    <3>3. zid'[o] = zid[o] /\ number'[o] = number[o] /\ status'[o] = status[o]
      BY <1>1 DEF links
    <3>. QED
      BY <2>1, <3>2, <3>3 DEF AloneKnows
  <2>4. MadeBounded(o)'
    BY <1>2, <1>5, LoadBounded
  <2>. QED
    BY <2>2, <2>3, <2>4 DEF OrderSound
<1>. QED
  BY <1>4, <1>5

---------------------------------------------------------------------------
(* The book and Zoho                                                       *)

BooksInv == TypeOK /\ RowsHeld /\ AnswersAreTheirs /\ OrdersSound

LEMMA InitBooks ==
    ASSUME PushAssumption, Init
    PROVE  BooksInv
<1>1. TypeOK
  BY InitTypes
<1>2. RowsHeld /\ AnswersAreTheirs
  BY DEF Init, RowsHeld, AnswersAreTheirs
<1>3. ASSUME NEW o \in Orders PROVE OrderSound(o)
  <2>1. NumbersAgree(o) /\ StatusTellsLink(o) /\ NumberIsTheirs(o)
    BY DEF Init, NumbersAgree, StatusTellsLink, NumberIsTheirs
  <2>2. AloneKnows(o)
    BY DEF Init, AloneKnows, Has
  <2>3. Made(o) = {} /\ Sending(o) = {} /\ mishap[o] = {}
    <3>1. Len(zoho) = 0
      BY EmptySeq DEF Init
    <3>2. Ids = {}
      BY <3>1 DEF Ids
    <3>. QED
      BY <3>2 DEF Init, Made, Sending, Has
  <2>4. MadeBounded(o)
    <3>1. Cardinality(Made(o)) = 0 /\ Cardinality(Sending(o)) = 0 /\ Cardinality(mishap[o]) = 0
      BY <2>3, Sizes, Zenon
    <3>. QED
      BY <2>3, <3>1 DEF MadeBounded
  <2>. QED
    BY <2>1, <2>2, <2>4 DEF OrderSound
<1>. QED
  BY <1>1, <1>2, <1>3 DEF BooksInv, OrdersSound

LEMMA NextOrders ==
    ASSUME PushAssumption, BooksInv, TypeOK', [Next]_vars
    PROVE  OrdersSound'
<1>1. TypeOK /\ RowsHeld /\ AnswersAreTheirs /\ OrdersSound
  BY DEF BooksInv
<1>2. ASSUME NEW o \in Orders PROVE OrderSound(o)'
  <2>1. CASE UNCHANGED vars
    <3>1. Keeps(o) /\ NoneMade(o)
      BY <2>1 DEF vars, orders, links, sync, Keeps, NoneMade, HistoryGrows, Has, Current, Made, Ids
    <3>. QED
      BY <1>1, <3>1, OrderStands DEF OrdersSound
  <2>2. CASE Next
    <3>1. \/ \E x \in Orders : Create(x) \/ Cancel(x)
          \/ \E P \in SUBSET Pushers : RollBack(P)
          \/ \E p \in Pushers : Load(p) \/ (p \in Jobs /\ StartJob(p))
          \/ \E p \in Pushers : End(p)
          \/ \E p \in Pushers : Send(p)
          \/ \E p \in Pushers : Zoho(p)
          \/ Snapshot \/ \E k \in scan : CatchUp(k)
      BY <2>2, Broken DEF Next, Step, End, Pushers
    <3>2. CASE \E x \in Orders : Create(x) \/ Cancel(x)
      BY <1>1, <3>2, OwnerSound
    <3>3. CASE \E P \in SUBSET Pushers : RollBack(P)
      BY <1>1, <3>3, RollBackSound
    <3>4. CASE \E p \in Pushers : Load(p) \/ (p \in Jobs /\ StartJob(p))
      BY <1>1, <3>4, LoadSound
    <3>5. CASE \E p \in Pushers : End(p)
      BY <1>1, <3>5, EndSound
    <3>6. CASE \E p \in Pushers : Send(p)
      BY <1>1, <3>6, SendSound
    <3>7. CASE \E p \in Pushers : Zoho(p)
      BY <1>1, <3>7, ZohoSound
    <3>8. CASE Snapshot \/ \E k \in scan : CatchUp(k)
      BY <1>1, <3>8, SyncSound
    <3>. QED
      BY <3>1, <3>2, <3>3, <3>4, <3>5, <3>6, <3>7, <3>8
  <2>. QED
    BY <2>1, <2>2
<1>. QED
  BY <1>2 DEF OrdersSound

LEMMA BooksKept == BooksInv /\ [Next]_vars => BooksInv'
<1>. SUFFICES ASSUME BooksInv, [Next]_vars PROVE BooksInv'
  OBVIOUS
<1>1. TypeOK /\ RowsHeld /\ AnswersAreTheirs
  BY DEF BooksInv
<1>2. TypeOK'
  BY <1>1, NextTypes, PushAssumption
<1>3. RowsHeld' /\ AnswersAreTheirs'
  BY <1>1, NextRows, NextAnswers, PushAssumption
<1>4. OrdersSound'
  BY <1>2, NextOrders, PushAssumption
<1>. QED
  BY <1>2, <1>3, <1>4 DEF BooksInv

LEMMA BooksSound == Spec => []BooksInv
<1>1. Init => BooksInv
  BY InitBooks, PushAssumption
<1>. QED
  BY <1>1, BooksKept, PTL DEF Spec

\* Zoho gets an order once, twice at most when the push at creation and a
\* retry run had both loaded it, and more often only after a lost or garbled
\* reply (push_po, push_pending_and_failed): for any orders, processes, window
\* and interleaving.
THEOREM ZohoOrdersAreExplained == Spec => []ZohoOrdersExplained
<1>1. BooksInv => ZohoOrdersExplained
  <2>. SUFFICES ASSUME BooksInv, NEW o \in Orders, mishap[o] \subseteq {"overlap"}
                PROVE  Cardinality(Made(o)) <= 1 + Cardinality(mishap[o])
    BY DEF ZohoOrdersExplained
  <2>1. TypeOK /\ MadeBounded(o)
    BY DEF BooksInv, OrdersSound, OrderSound
  <2>2. /\ Cardinality(Made(o)) \in Nat /\ Cardinality(Sending(o)) \in 0 .. 2
        /\ Cardinality(mishap[o]) \in 0 .. 1
    <3>1. \/ mishap[o] = {} /\ Cardinality(mishap[o]) = 0
          \/ mishap[o] = {"overlap"} /\ Cardinality(mishap[o]) = 1
      BY <2>1, Countable
    <3>. QED
      BY <2>1, <3>1, Countable
  <2>3. Cardinality(Made(o)) + Cardinality(Sending(o)) <= 1 + Cardinality(mishap[o])
    BY <2>1 DEF MadeBounded
  <2>. QED
    BY <2>2, <2>3
<1>. QED
  BY <1>1, BooksSound, PTL

\* What an order says of its life in Zoho is what became of it there: its
\* link names an order Zoho made for it, its number is that order's, and
\* push_status says "success" for linked orders only, however pushes, late
\* replies, crashes and the sync's adoptions interleave (push_po,
\* adopt_zoho_po).
THEOREM BookIsRight == Spec => []BookAgrees
<1>1. BooksInv => BookAgrees
  <2>. SUFFICES ASSUME BooksInv PROVE BookAgrees
    OBVIOUS
  <2>1. Created \subseteq Orders
    BY DEF BooksInv, TypeOK, Created
  <2>. QED
    BY <2>1 DEF BooksInv, OrdersSound, OrderSound, BookAgrees
<1>. QED
  BY <1>1, BooksSound, PTL
=============================================================================
