-------------------------- MODULE MaterialCodeProofs --------------------------
(***************************************************************************)
(* Theorems of MaterialCode for any number of items, sessions, SKUs and    *)
(* changes by the other writers.                                           *)
(***************************************************************************)
EXTENDS MaterialCode, TLAPS

---------------------------------------------------------------------------
(* Mappings from some of the items.                                        *)

LEMMA MappingFacts ==
    ASSUME NEW T, NEW f \in Mapping(T)
    PROVE  DOMAIN f \subseteq Items /\ \A i \in DOMAIN f : f[i] \in T
BY DEF Mapping

LEMMA MappingIntro ==
    ASSUME NEW T, NEW D \in SUBSET Items, NEW f \in [D -> T]
    PROVE  f \in Mapping(T)
BY DEF Mapping

LEMMA NoItemsMapping ==
    /\ DOMAIN NoItems = {}
    /\ \A T : NoItems \in Mapping(T)
<1>1. DOMAIN NoItems = {}
  BY DEF NoItems
<1>2. ASSUME NEW T PROVE NoItems \in Mapping(T)
  <2>1. NoItems \in [{} -> T]
    BY DEF NoItems
  <2>. QED
    BY <2>1, MappingIntro
<1>. QED
  BY <1>1, <1>2

\* A mapping that gives one more item its value.
LEMMA MappingExtended ==
    ASSUME NEW T, NEW f \in Mapping(T), NEW i \in Items, NEW v \in T
    PROVE  Put(f, i, v) \in Mapping(T)
<1>1. DOMAIN f \cup {i} \in SUBSET Items /\ \A j \in DOMAIN f : f[j] \in T
  BY MappingFacts
<1>2. Put(f, i, v) \in [DOMAIN f \cup {i} -> T]
  BY <1>1 DEF Put
<1>. QED
  BY <1>1, <1>2, MappingIntro

LEMMA Constants ==
    /\ None \notin Codes /\ None \notin Items /\ None \notin Sessions /\ None \notin Skus
    /\ Items \cap Sessions = {} /\ Skus \cap Items = {} /\ Skus \cap Sessions = {}
    /\ Items \subseteq Codes /\ Sessions \subseteq Codes /\ Skus \subseteq Codes
    /\ Typed \subseteq Codes
BY CodeAssumption DEF Codes

LEMMA IdleRequest ==
    /\ Idle \in Request /\ Over \in Request
    /\ Idle.pc = "idle" /\ Idle.own = NoItems /\ Idle.staged = NoItems
    /\ Over.pc = "over" /\ Over.own = NoItems /\ Over.staged = NoItems
BY NoItemsMapping DEF Idle, Over, Request, Maybe

---------------------------------------------------------------------------
(* What each step of a session does to it; the other sessions stay as they *)
(* are.                                                                    *)

Others(s) == \A t \in Sessions \ {s} : req'[t] = req[t]

LEMMA EnsureEffect ==
    ASSUME TypeOK, NEW s \in Sessions, NEW i \in Items, Ensure(s, i)
    PROVE  /\ req' \in [Sessions -> Request] /\ Others(s)
           /\ req'[s].own = req[s].own /\ req'[s].staged = req[s].staged
           /\ req'[s].at = i
           /\ code[i] # None => req'[s].pc = "coded" /\ req'[s].code = code[i]
           /\ code[i] = None => req'[s].pc = "want" /\ req'[s].code = Choice(s, i)
<1>1. req[s] \in Request
  BY DEF TypeOK
<1>2. Choice(s, i) \in Codes /\ code[i] \in Maybe(Codes)
  BY Constants DEF Choice, TypeOK, Maybe
<1>3. PICK p \in {"coded", "want"}, c \in Maybe(Codes) :
          req' = [req EXCEPT ![s].pc = p, ![s].at = i, ![s].code = c]
  BY <1>2 DEF Ensure, Maybe
<1>4. i \in Maybe(Items)
  BY DEF Maybe
<1>5. [req[s] EXCEPT !.pc = p, !.at = i, !.code = c] \in Request
  BY <1>1, <1>4 DEF Request
<1>6. req'[s] = [req[s] EXCEPT !.pc = p, !.at = i, !.code = c]
  BY <1>3 DEF TypeOK
<1>7. req' \in [Sessions -> Request] /\ Others(s)
  BY <1>3, <1>5, <1>6 DEF TypeOK, Others
<1>8. req'[s].own = req[s].own /\ req'[s].staged = req[s].staged
  BY <1>6, <1>1 DEF Request
<1>9. /\ req'[s].at = i
      /\ code[i] # None => req'[s].pc = "coded" /\ req'[s].code = code[i]
      /\ code[i] = None => req'[s].pc = "want" /\ req'[s].code = Choice(s, i)
  BY <1>1 DEF Ensure, TypeOK, Request, HasCode
<1>. QED
  BY <1>7, <1>8, <1>9

LEMMA FlushEffect ==
    ASSUME TypeOK, AtItem, NEW s \in Sessions, Flush(s)
    PROVE  /\ req' \in [Sessions -> Request] /\ Others(s)
           /\ req[s].pc = "want" /\ req[s].at \in Items \ DOMAIN req[s].staged
           /\ req[s].at \notin DOMAIN req[s].own /\ req[s].code \in Codes
           /\ req'[s].pc = "coded" /\ req'[s].at = req[s].at /\ req'[s].code = req[s].code
           /\ req'[s].staged = req[s].staged
           /\ DOMAIN req'[s].own = DOMAIN req[s].own \cup {req[s].at}
           /\ req'[s].own[req[s].at] = req[s].code
           /\ \A j \in DOMAIN req[s].own : req'[s].own[j] = req[s].own[j]
<1>. DEFINE i == req[s].at
            c == req[s].code
            g == Put(req[s].own, i, c)
<1>1. req[s] \in Request /\ req[s].own \in Mapping(Codes) /\ c \in Maybe(Codes)
  BY DEF TypeOK, Request
<1>2. req[s].pc = "want"
  BY DEF Flush, CanFlush
<1>3. i \in Items \ DOMAIN req[s].staged /\ c # None /\ i \notin DOMAIN req[s].own
  BY <1>2 DEF AtItem
<1>4. c \in Codes
  BY <1>1, <1>3 DEF Maybe
<1>5. /\ g \in Mapping(Codes) /\ DOMAIN g = DOMAIN req[s].own \cup {i} /\ g[i] = c
      /\ \A j \in DOMAIN req[s].own : g[j] = req[s].own[j]
  <2>1. i \in Items /\ \A j \in DOMAIN req[s].own : j # i
    BY <1>3
  <2>. QED
    <3>1. g \in Mapping(Codes)
      BY <1>1, <1>4, <2>1, MappingExtended, Zenon
    <3>2. DOMAIN g = DOMAIN req[s].own \cup {i} /\ g[i] = c
      BY DEF Put
    <3>3. \A j \in DOMAIN req[s].own : g[j] = req[s].own[j]
      BY <2>1 DEF Put
    <3>. QED
      BY <3>1, <3>2, <3>3
<1>. HIDE DEF g
<1>6. req' = [req EXCEPT ![s].pc = "coded", ![s].own = g]
  BY <1>1 DEF Flush, g, TypeOK, Request
<1>7. req'[s] = [req[s] EXCEPT !.pc = "coded", !.own = g]
  BY <1>6 DEF TypeOK
<1>8. req'[s] \in Request
  BY <1>1, <1>5, <1>7 DEF Request
<1>9. req' \in [Sessions -> Request] /\ Others(s)
  BY <1>6, <1>7, <1>8 DEF TypeOK, Others
<1>10. /\ req'[s].pc = "coded" /\ req'[s].at = i /\ req'[s].code = c
       /\ req'[s].staged = req[s].staged /\ req'[s].own = g
  BY <1>1, <1>7 DEF Request
<1>. QED
  BY <1>2, <1>3, <1>4, <1>5, <1>9, <1>10

\* Register, and whatever else leaves the sessions alone.
LEMMA EndEffect ==
    ASSUME TypeOK, NEW s \in Sessions, End(s)
    PROVE  req' \in [Sessions -> Request] /\ Others(s) /\ req'[s] = Over
BY IdleRequest DEF End, TypeOK, Others

LEMMA AdoptEffect ==
    ASSUME TypeOK, NEW s \in Sessions, Adopt(s)
    PROVE  /\ req' \in [Sessions -> Request] /\ Others(s)
           /\ req[s].pc = "coded" /\ req'[s].pc = "expired"
           /\ req'[s].own = NoItems /\ req'[s].staged = req[s].staged
           /\ req'[s].at = req[s].at /\ req'[s].code = req[s].code
<1>1. req[s] \in Request
  BY DEF TypeOK
<1>2. req'[s] = [req[s] EXCEPT !.pc = "expired", !.own = NoItems, !.adopted = TRUE]
  BY DEF TypeOK, Adopt
<1>3. req'[s] \in Request
  BY <1>1, <1>2, NoItemsMapping DEF Request
<1>4. req' \in [Sessions -> Request] /\ Others(s)
  BY <1>2, <1>3 DEF TypeOK, Adopt, Others
<1>. QED
  BY <1>1, <1>2, <1>4 DEF Request, Adopt

LEMMA RereadEffect ==
    ASSUME TypeOK, AtItem, NEW s \in Sessions, Reread(s)
    PROVE  /\ req' \in [Sessions -> Request] /\ Others(s)
           /\ req[s].pc = "expired" /\ req'[s].pc = "coded"
           /\ req'[s].own = req[s].own /\ req'[s].staged = req[s].staged
           /\ req'[s].at = req[s].at /\ req[s].at \in Items \ DOMAIN req[s].staged
           /\ req'[s].code = code[req[s].at]
<1>1. req[s] \in Request
  BY DEF TypeOK
<1>2. req[s].pc = "expired" /\ req[s].at \in Items \ DOMAIN req[s].staged
  BY DEF AtItem, Reread
<1>3. code[req[s].at] \in Maybe(Codes)
  BY <1>2 DEF TypeOK
<1>4. req'[s] = [req[s] EXCEPT !.pc = "coded", !.code = code[req[s].at]]
  BY DEF TypeOK, Reread
<1>5. req'[s] \in Request
  BY <1>1, <1>3, <1>4 DEF Request
<1>6. req' \in [Sessions -> Request] /\ Others(s)
  BY <1>4, <1>5 DEF TypeOK, Reread, Others
<1>. QED
  BY <1>1, <1>2, <1>4, <1>6 DEF Request

LEMMA BoxEffect ==
    ASSUME TypeOK, AtItem, NEW s \in Sessions, Box(s)
    PROVE  /\ req' \in [Sessions -> Request] /\ Others(s)
           /\ req[s].pc = "coded" /\ req'[s].pc = "open"
           /\ req[s].at \in Items \ DOMAIN req[s].staged
           /\ req'[s].own = req[s].own
           /\ DOMAIN req'[s].staged = DOMAIN req[s].staged \cup {req[s].at}
           /\ req'[s].staged[req[s].at] = req[s].code
           /\ \A j \in DOMAIN req[s].staged : req'[s].staged[j] = req[s].staged[j]
<1>. DEFINE i == req[s].at
            c == req[s].code
            g == Put(req[s].staged, i, c)
<1>1. req[s] \in Request /\ req[s].staged \in Mapping(Maybe(Codes)) /\ c \in Maybe(Codes)
  BY DEF TypeOK, Request
<1>2. req[s].pc = "coded" /\ i \in Items \ DOMAIN req[s].staged
  BY DEF Box, AtItem
<1>3. /\ g \in Mapping(Maybe(Codes)) /\ DOMAIN g = DOMAIN req[s].staged \cup {i} /\ g[i] = c
      /\ \A j \in DOMAIN req[s].staged : g[j] = req[s].staged[j]
  <2>1. i \in Items /\ \A j \in DOMAIN req[s].staged : j # i
    BY <1>2
  <2>. QED
    <3>1. g \in Mapping(Maybe(Codes))
      BY <1>1, <2>1, MappingExtended, Zenon
    <3>2. DOMAIN g = DOMAIN req[s].staged \cup {i} /\ g[i] = c
      BY DEF Put
    <3>3. \A j \in DOMAIN req[s].staged : g[j] = req[s].staged[j]
      BY <2>1 DEF Put
    <3>. QED
      BY <3>1, <3>2, <3>3
<1>. HIDE DEF g
<1>4. req'[s] = [req[s] EXCEPT !.pc = "open", !.at = None, !.code = None, !.staged = g]
  BY <1>1 DEF Box, g, TypeOK, Request
<1>5. req'[s] \in Request
  BY <1>1, <1>3, <1>4 DEF Request, Maybe
<1>6. req' \in [Sessions -> Request] /\ Others(s)
  BY <1>4, <1>5 DEF TypeOK, Box, Others
<1>7. req'[s].pc = "open" /\ req'[s].own = req[s].own /\ req'[s].staged = g
  BY <1>1, <1>4 DEF Request
<1>. QED
  BY <1>2, <1>3, <1>6, <1>7

---------------------------------------------------------------------------
(* Types, where a session is, and the unique index.                        *)

Indexed == TypeOK /\ AtItem /\ CodesApart

LEMMA CommitCodesEffect ==
    ASSUME TypeOK, NEW new \in Mapping(Codes), NEW excused, CommitCodes(new, excused)
    PROVE  /\ code' \in [Items -> Maybe(Codes)]
           /\ \A i \in DOMAIN new : code'[i] = new[i]
           /\ \A i \in Items \ DOMAIN new : code'[i] = code[i]
           /\ moved' \subseteq Items /\ moved \subseteq moved'
           /\ loose' \subseteq Codes /\ loose \subseteq loose'
           /\ \A i \in DOMAIN new : code[i] # None /\ code[i] # new[i] =>
                 code[i] \in loose' /\ (excused[i] => i \in moved')
<1>1. DOMAIN new \subseteq Items /\ \A i \in DOMAIN new : new[i] \in Codes
  BY MappingFacts
<1>2. \A i \in Items : code[i] \in Codes \cup {None}
  BY DEF TypeOK, Maybe
<1>3. Replaced(new) \subseteq Items /\ \A i \in Replaced(new) : code[i] \in Codes
  BY <1>1, <1>2 DEF Replaced
<1>4. code' \in [Items -> Maybe(Codes)]
  BY <1>1, <1>2 DEF CommitCodes, Maybe
<1>5. /\ \A i \in DOMAIN new : code'[i] = new[i]
      /\ \A i \in Items \ DOMAIN new : code'[i] = code[i]
  BY <1>1 DEF CommitCodes
<1>6. moved' \subseteq Items /\ moved \subseteq moved'
  BY <1>3 DEF CommitCodes, TypeOK
<1>7. loose' \subseteq Codes /\ loose \subseteq loose'
  BY <1>3 DEF CommitCodes, TypeOK
<1>8. \A i \in DOMAIN new : code[i] # None /\ code[i] # new[i] =>
         code[i] \in loose' /\ (excused[i] => i \in moved')
  BY DEF CommitCodes, Replaced
<1>. QED
  BY <1>4, <1>5, <1>6, <1>7, <1>8

LEMMA OwnMapping ==
    ASSUME TypeOK, NEW s \in Sessions
    PROVE  /\ req[s].own \in Mapping(Codes) /\ DOMAIN req[s].own \subseteq Items
           /\ \A i \in DOMAIN req[s].own : req[s].own[i] \in Codes /\ req[s].own[i] # None
           /\ req[s].staged \in Mapping(Maybe(Codes)) /\ DOMAIN req[s].staged \subseteq Items
           /\ \A i \in DOMAIN req[s].staged : req[s].staged[i] \in Maybe(Codes)
<1>1. req[s].own \in Mapping(Codes) /\ req[s].staged \in Mapping(Maybe(Codes))
  BY DEF TypeOK, Request
<1>2. DOMAIN req[s].own \subseteq Items /\ \A i \in DOMAIN req[s].own : req[s].own[i] \in Codes
  BY <1>1, MappingFacts, Zenon
<1>3. /\ DOMAIN req[s].staged \subseteq Items
      /\ \A i \in DOMAIN req[s].staged : req[s].staged[i] \in Maybe(Codes)
  BY <1>1, MappingFacts, Zenon
<1>. QED
  BY <1>1, <1>2, <1>3, Constants

LEMMA CommitOwnEffect ==
    ASSUME TypeOK, NEW s \in Sessions, CommitOwn(s)
    PROVE  /\ code' \in [Items -> Maybe(Codes)]
           /\ \A i \in DOMAIN req[s].own : code'[i] = req[s].own[i]
           /\ \A i \in Items \ DOMAIN req[s].own : code'[i] = code[i]
           /\ moved' \subseteq Items /\ moved \subseteq moved'
           /\ loose' \subseteq Codes /\ loose \subseteq loose'
           /\ \A i \in DOMAIN req[s].own : code[i] # None /\ code[i] # req[s].own[i] =>
                 /\ code[i] \in loose'
                 /\ stirred \/ req[s].own[i] \in Sessions => i \in moved'
<1>. DEFINE new == req[s].own
            excused == [i \in DOMAIN req[s].own |-> stirred \/ req[s].own[i] \in Sessions]
<1>1. new \in Mapping(Codes)
  BY OwnMapping
<1>2. CommitCodes(new, excused)
  BY DEF CommitOwn
<1>3. \A i \in DOMAIN new : (stirred \/ req[s].own[i] \in Sessions) => excused[i]
  OBVIOUS
<1>. HIDE DEF new, excused
<1>4. /\ code' \in [Items -> Maybe(Codes)]
      /\ \A i \in DOMAIN new : code'[i] = new[i]
      /\ \A i \in Items \ DOMAIN new : code'[i] = code[i]
      /\ moved' \subseteq Items /\ moved \subseteq moved'
      /\ loose' \subseteq Codes /\ loose \subseteq loose'
      /\ \A i \in DOMAIN new : code[i] # None /\ code[i] # new[i] =>
            code[i] \in loose' /\ (excused[i] => i \in moved')
  BY <1>1, <1>2, CommitCodesEffect, Zenon
<1>. QED
  BY <1>3, <1>4 DEF new

\* New codes, each for one item and not the code of another, leave the codes
\* of the items apart.
LEMMA CommitKeepsApart ==
    ASSUME TypeOK, NEW new \in Mapping(Codes),
           \A i \in DOMAIN new : code'[i] = new[i],
           \A i \in Items \ DOMAIN new : code'[i] = code[i],
           \A i, j \in DOMAIN new : i # j => new[i] # new[j],
           \A i \in DOMAIN new : \A j \in Items \ DOMAIN new : code[j] # new[i]
    PROVE  \A i, j \in Items : i # j /\ code'[i] = code'[j] => code'[i] = None
BY DEF TypeOK

\* Only session s changes, and what it holds afterwards it held before.
LEMMA HoldersApart ==
    ASSUME TypeOK, NEW s \in Sessions, Others(s),
           DOMAIN req'[s].own \subseteq DOMAIN req[s].own
    PROVE  \A t, u \in Sessions :
               t # u => DOMAIN req'[t].own \cap DOMAIN req'[u].own = {}
BY DEF TypeOK, Others

LEMMA DefaultsMapping ==
    ASSUME TypeOK
    PROVE  /\ Restrict(script.sku, SafeDefaults) \in Mapping(Codes)
           /\ DOMAIN Restrict(script.sku, SafeDefaults) = SafeDefaults
           /\ \A i \in SafeDefaults :
                 /\ Restrict(script.sku, SafeDefaults)[i] = script.sku[i]
                 /\ script.sku[i] \in Skus
                 /\ \A j \in SafeDefaults : j # i => script.sku[j] # script.sku[i]
           /\ SafeDefaults \subseteq Items
<1>1. script.sku \in Mapping(Maybe(Skus))
  BY DEF TypeOK
<1>2. DOMAIN script.sku \subseteq Items /\ \A i \in DOMAIN script.sku : script.sku[i] \in Maybe(Skus)
  BY <1>1, MappingFacts, Zenon
<1>3. SafeDefaults \in SUBSET Items /\ SafeDefaults \subseteq DOMAIN script.sku
  BY <1>2 DEF SafeDefaults
<1>4. \A i \in SafeDefaults : script.sku[i] \in Skus
  BY <1>2 DEF SafeDefaults, Maybe
<1>5. Restrict(script.sku, SafeDefaults) \in [SafeDefaults -> Codes]
  BY <1>4, Constants DEF Restrict
<1>6. Restrict(script.sku, SafeDefaults) \in Mapping(Codes)
  BY <1>3, <1>5, MappingIntro, Zenon
<1>7. \A i \in SafeDefaults : \A j \in SafeDefaults : j # i => script.sku[j] # script.sku[i]
  BY <1>3 DEF SafeDefaults
<1>. QED
  BY <1>3, <1>4, <1>6, <1>7 DEF Restrict

LEMMA InitIndexed == Init => Indexed
<1>. SUFFICES ASSUME Init PROVE Indexed
  OBVIOUS
<1>1. \A s \in Sessions : req[s] = Idle
  BY DEF Init
<1>2. Asleep \in [pc : {"idle", "loaded"}, sku : Mapping(Maybe(Skus)), code : Mapping(Maybe(Codes))]
  BY NoItemsMapping DEF Asleep
<1>3. TypeOK
  <2>1. \A s, t \in Sessions : s # t => DOMAIN req[s].own \cap DOMAIN req[t].own = {}
    BY <1>1, IdleRequest, NoItemsMapping
  <2>2. req \in [Sessions -> Request]
    BY IdleRequest DEF Init
  <2>3. code \in [Items -> Maybe(Codes)] /\ luma \in [Codes -> Maybe(Items)]
    BY DEF Init, Maybe
  <2>4. changes \in 0 .. MaxChanges
    BY CodeAssumption DEF Init
  <2>. QED
    BY <1>2, <2>1, <2>2, <2>3, <2>4 DEF Init, TypeOK
<1>4. AtItem
  BY <1>1, IdleRequest, NoItemsMapping DEF AtItem
<1>5. CodesApart
  BY <1>1, IdleRequest, NoItemsMapping DEF CodesApart
<1>. QED
  BY <1>3, <1>4, <1>5 DEF Indexed

---------------------------------------------------------------------------

LEMMA TypeKept ==
    ASSUME Indexed, [Next]_vars
    PROVE  TypeOK'
<1>. USE DEF Indexed
<1>. SUFFICES ASSUME vars' # vars PROVE TypeOK'
  BY DEF vars, TypeOK
<1>1. CASE \E s \in Sessions, i \in Items : Ensure(s, i)
  <2>1. PICK s \in Sessions, i \in Items : Ensure(s, i)
    BY <1>1
  <2>2. req' \in [Sessions -> Request] /\ Others(s) /\ req'[s].own = req[s].own
    BY <2>1, EnsureEffect, Zenon
  <2>. QED
    BY <2>1, <2>2, HoldersApart DEF TypeOK, Ensure
<1>2. CASE \E s \in Sessions : Flush(s)
  <2>1. PICK s \in Sessions : Flush(s)
    BY <1>2
  <2>2. /\ req' \in [Sessions -> Request] /\ Others(s)
        /\ DOMAIN req'[s].own = DOMAIN req[s].own \cup {req[s].at}
    BY <2>1, FlushEffect, Zenon
  <2>3. \A t \in Sessions \ {s} : req[s].at \notin DOMAIN req[t].own
    BY <2>1 DEF Flush, CanFlush, RowFree
  <2>4. \A t, u \in Sessions : t # u => DOMAIN req'[t].own \cap DOMAIN req'[u].own = {}
    BY <2>2, <2>3 DEF TypeOK, Others
  <2>. QED
    BY <2>1, <2>2, <2>4 DEF TypeOK, Flush
<1>3. CASE \E s \in Sessions : FlushCollides(s) \/ Fail(s)
  <2>1. PICK s \in Sessions : Fail(s)
    BY <1>3 DEF FlushCollides
  <2>2. req' \in [Sessions -> Request] /\ Others(s) /\ req'[s] = Over
    BY <2>1, EndEffect DEF Fail
  <2>3. DOMAIN req'[s].own \subseteq DOMAIN req[s].own
    BY <2>2, IdleRequest, NoItemsMapping
  <2>4. loose' \subseteq Codes /\ stirred' \in BOOLEAN
    BY <2>1, OwnMapping DEF Fail, End, TypeOK
  <2>. QED
    BY <2>1, <2>2, <2>3, <2>4, HoldersApart DEF TypeOK, Fail
<1>4. CASE \E s \in Sessions : Register(s)
  <2>1. PICK s \in Sessions : Register(s)
    BY <1>4
  <2>2. req[s].at \in Items
    BY <2>1 DEF AtItem, Register, Registrable
  <2>3. luma' \in [Codes -> Maybe(Items)]
    BY <2>1, <2>2 DEF Register, TypeOK, Maybe
  <2>. QED
    BY <2>1, <2>3 DEF TypeOK, Register
<1>5. CASE \E s \in Sessions : Adopt(s) \/ Commit(s)
  <2>1. PICK s \in Sessions : Adopt(s) \/ Commit(s)
    BY <1>5
  <2>2. CommitOwn(s) /\ UNCHANGED <<sku, luma, script, changes>>
    BY <2>1 DEF Adopt, Commit
  <2>3. /\ req' \in [Sessions -> Request] /\ Others(s)
        /\ DOMAIN req'[s].own \subseteq DOMAIN req[s].own
    BY <2>1, AdoptEffect, EndEffect, IdleRequest, NoItemsMapping DEF Commit
  <2>4. stirred' \in BOOLEAN
    BY <2>1 DEF Adopt, Commit, End, TypeOK
  <2>5. boxes' \subseteq Items \X Maybe(Codes)
    BY <2>1, OwnMapping DEF Adopt, Commit, TypeOK
  <2>6. \A i, j \in Items : i # j /\ code'[i] = code'[j] => code'[i] = None
    <3>. DEFINE new == req[s].own
    <3>1. new \in Mapping(Codes)
      BY OwnMapping
    <3>2. /\ \A i \in DOMAIN new : code'[i] = new[i]
          /\ \A i \in Items \ DOMAIN new : code'[i] = code[i]
      BY <2>2, CommitOwnEffect
    <3>3. /\ \A i, j \in DOMAIN new : i # j => new[i] # new[j]
          /\ \A i \in DOMAIN new : \A j \in Items \ DOMAIN new : code[j] # new[i]
      BY DEF CodesApart
    <3>. HIDE DEF new
    <3>. QED
      BY <3>1, <3>2, <3>3, CommitKeepsApart, Zenon
  <2>7. /\ code' \in [Items -> Maybe(Codes)]
        /\ moved' \subseteq Items /\ loose' \subseteq Codes
    BY <2>2, CommitOwnEffect
  <2>8. \A t, u \in Sessions : t # u => DOMAIN req'[t].own \cap DOMAIN req'[u].own = {}
    BY <2>3, HoldersApart
  <2>. QED
    BY <2>2, <2>3, <2>4, <2>5, <2>6, <2>7, <2>8 DEF TypeOK
<1>6. CASE \E s \in Sessions : Reread(s) \/ Box(s)
  <2>1. PICK s \in Sessions : Reread(s) \/ Box(s)
    BY <1>6
  <2>2. req' \in [Sessions -> Request] /\ Others(s) /\ req'[s].own = req[s].own
    BY <2>1, RereadEffect, BoxEffect, Zenon
  <2>. QED
    BY <2>1, <2>2, HoldersApart DEF TypeOK, Reread, Box
<1>7. CASE \E i \in Items, c \in Maybe(Typed) : EditCode(i, c)
  <2>1. PICK i \in Items, c \in Maybe(Typed) : EditCode(i, c)
    BY <1>7
  <2>2. c \in Maybe(Codes)
    BY Constants DEF Maybe
  <2>3. code' \in [Items -> Maybe(Codes)]
    BY <2>1, <2>2 DEF EditCode, TypeOK
  <2>4. \A k, j \in Items : k # j /\ code'[k] = code'[j] => code'[k] = None
    BY <2>1 DEF EditCode, TypeOK
  <2>5. loose' \subseteq Codes /\ moved' \subseteq Items
    BY <2>1 DEF EditCode, TypeOK, Maybe
  <2>6. changes' \in 0 .. MaxChanges /\ stirred' \in BOOLEAN
    BY <2>1, CodeAssumption DEF EditCode, TypeOK, Counted, Stir
  <2>. QED
    BY <2>1, <2>3, <2>4, <2>5, <2>6 DEF TypeOK, EditCode
<1>8. CASE \E i \in Items, k \in Maybe(Skus) : Resku(i, k)
  <2>1. PICK i \in Items, k \in Maybe(Skus) : Resku(i, k)
    BY <1>8
  <2>2. sku' \in [Items -> Maybe(Skus)]
    BY <2>1 DEF Resku, TypeOK
  <2>3. changes' \in 0 .. MaxChanges /\ stirred' \in BOOLEAN
    BY <2>1, CodeAssumption DEF Resku, TypeOK, Counted, Stir
  <2>. QED
    BY <2>1, <2>2, <2>3 DEF TypeOK, Resku
<1>9. CASE LoadItems
  <2>1. sku \in Mapping(Maybe(Skus)) /\ code \in Mapping(Maybe(Codes))
    BY MappingIntro, Zenon DEF TypeOK
  <2>2. script' \in [pc : {"idle", "loaded"}, sku : Mapping(Maybe(Skus)), code : Mapping(Maybe(Codes))]
    BY <1>9, <2>1 DEF LoadItems
  <2>3. changes' \in 0 .. MaxChanges
    BY <1>9, CodeAssumption DEF LoadItems, TypeOK, Counted
  <2>. QED
    BY <1>9, <2>2, <2>3 DEF TypeOK, LoadItems
<1>10. CASE ApplyDefaults
  <2>. DEFINE new == Restrict(script.sku, SafeDefaults)
  <2>1. /\ new \in Mapping(Codes) /\ DOMAIN new = SafeDefaults
        /\ \A i, j \in DOMAIN new : i # j => new[i] # new[j]
    BY DefaultsMapping
  <2>2. script' \in [pc : {"idle", "loaded"}, sku : Mapping(Maybe(Skus)), code : Mapping(Maybe(Codes))]
    BY <1>10, NoItemsMapping DEF ApplyDefaults, Asleep
  <2>3. stirred' \in BOOLEAN
    BY <1>10 DEF ApplyDefaults, Stir, TypeOK
  <2>4. CASE \E i \in SafeDefaults : \E j \in Items \ {i} : code[j] = new[i]
    BY <1>10, <2>2, <2>3, <2>4 DEF ApplyDefaults, TypeOK
  <2>5. CASE ~ \E i \in SafeDefaults : \E j \in Items \ {i} : code[j] = new[i]
    <3>. DEFINE all == [i \in SafeDefaults |-> TRUE]
    <3>1. CommitCodes(new, all)
      BY <1>10, <2>5 DEF ApplyDefaults
    <3>2. \A i \in DOMAIN new : \A j \in Items \ DOMAIN new : code[j] # new[i]
      BY <2>1, <2>5
    <3>. HIDE DEF new, all
    <3>3. /\ code' \in [Items -> Maybe(Codes)]
          /\ \A i \in DOMAIN new : code'[i] = new[i]
          /\ \A i \in Items \ DOMAIN new : code'[i] = code[i]
          /\ moved' \subseteq Items /\ loose' \subseteq Codes
      BY <2>1, <3>1, CommitCodesEffect, Zenon
    <3>4. \A i, j \in Items : i # j /\ code'[i] = code'[j] => code'[i] = None
      BY <2>1, <3>2, <3>3, CommitKeepsApart, Zenon
    <3>. QED
      BY <1>10, <2>2, <2>3, <3>3, <3>4 DEF ApplyDefaults, TypeOK
  <2>. QED
    BY <2>4, <2>5
<1>. QED
  BY <1>1, <1>2, <1>3, <1>4, <1>5, <1>6, <1>7, <1>8, <1>9, <1>10 DEF Next, Handle

\* One session moves at a time; the others stay where they are.
LEMMA AtItemKept ==
    ASSUME Indexed, [Next]_vars
    PROVE  AtItem'
<1>. USE DEF Indexed
<1>. DEFINE Placed(s) ==
        /\ req[s].pc \in {"idle", "over"} => req[s] \in {Idle, Over}
        /\ req[s].pc \in {"want", "coded", "expired"} =>
              req[s].at \in Items \ DOMAIN req[s].staged
        /\ req[s].pc = "want" => req[s].code # None
        /\ DOMAIN req[s].own \subseteq
              DOMAIN req[s].staged \cup (IF req[s].pc = "coded" THEN {req[s].at} ELSE {})
<1>1. \A s \in Sessions : Placed(s)
  BY DEF AtItem
<1>2. ASSUME NEW s \in Sessions, Others(s), Placed(s)'
      PROVE  AtItem'
  <2>1. \A t \in Sessions \ {s} : Placed(t)'
    BY <1>1, <1>2 DEF Others
  <2>2. \A t \in Sessions : Placed(t)'
    BY <1>2, <2>1
  <2>. QED
    BY <2>2 DEF AtItem
<1>3. ASSUME UNCHANGED req PROVE AtItem'
  BY <1>3 DEF AtItem
<1>4. ASSUME NEW s \in Sessions, req'[s] = Over PROVE Placed(s)'
  BY <1>4, IdleRequest, NoItemsMapping
<1>5. CASE \E s \in Sessions, i \in Items : Ensure(s, i)
  <2>1. PICK s \in Sessions, i \in Items : Ensure(s, i)
    BY <1>5
  <2>2. /\ Others(s) /\ req'[s].own = req[s].own /\ req'[s].staged = req[s].staged
        /\ req'[s].at = i
        /\ code[i] # None => req'[s].pc = "coded" /\ req'[s].code = code[i]
        /\ code[i] = None => req'[s].pc = "want" /\ req'[s].code = Choice(s, i)
    BY <2>1, EnsureEffect, Zenon
  <2>3. i \notin DOMAIN req[s].staged /\ DOMAIN req[s].own \subseteq DOMAIN req[s].staged
    BY <2>1, <1>1 DEF Ensure
  <2>4. Choice(s, i) # None
    BY Constants DEF Choice
  <2>5. Placed(s)'
    BY <2>2, <2>3, <2>4
  <2>. QED
    BY <1>2, <2>2, <2>5
<1>6. CASE \E s \in Sessions : Flush(s)
  <2>1. PICK s \in Sessions : Flush(s)
    BY <1>6
  <2>2. /\ Others(s) /\ req[s].pc = "want" /\ req[s].at \in Items \ DOMAIN req[s].staged
        /\ req'[s].pc = "coded" /\ req'[s].at = req[s].at
        /\ req'[s].staged = req[s].staged
        /\ DOMAIN req'[s].own = DOMAIN req[s].own \cup {req[s].at}
    BY <2>1, FlushEffect, Zenon
  <2>3. Placed(s)'
    BY <1>1, <2>2
  <2>. QED
    BY <1>2, <2>2, <2>3
<1>7. CASE \E s \in Sessions : FlushCollides(s) \/ Fail(s) \/ Commit(s)
  <2>1. PICK s \in Sessions : End(s)
    BY <1>7 DEF FlushCollides, Fail, Commit
  <2>2. Others(s) /\ req'[s] = Over
    BY <2>1, EndEffect, Zenon
  <2>. QED
    BY <1>2, <1>4, <2>2
<1>8. CASE \E s \in Sessions : Adopt(s)
  <2>1. PICK s \in Sessions : Adopt(s)
    BY <1>8
  <2>2. /\ Others(s) /\ req[s].pc = "coded" /\ req'[s].pc = "expired"
        /\ req'[s].own = NoItems /\ req'[s].staged = req[s].staged
        /\ req'[s].at = req[s].at
    BY <2>1, AdoptEffect, Zenon
  <2>3. Placed(s)'
    BY <1>1, <2>2, NoItemsMapping
  <2>. QED
    BY <1>2, <2>2, <2>3
<1>9. CASE \E s \in Sessions : Reread(s)
  <2>1. PICK s \in Sessions : Reread(s)
    BY <1>9
  <2>2. /\ Others(s) /\ req[s].pc = "expired" /\ req'[s].pc = "coded"
        /\ req'[s].own = req[s].own /\ req'[s].staged = req[s].staged
        /\ req'[s].at = req[s].at
    BY <2>1, RereadEffect, Zenon
  <2>3. Placed(s)'
    BY <1>1, <2>2
  <2>. QED
    BY <1>2, <2>2, <2>3
<1>10. CASE \E s \in Sessions : Box(s)
  <2>1. PICK s \in Sessions : Box(s)
    BY <1>10
  <2>2. /\ Others(s) /\ req[s].pc = "coded" /\ req'[s].pc = "open"
        /\ req'[s].own = req[s].own
        /\ DOMAIN req'[s].staged = DOMAIN req[s].staged \cup {req[s].at}
    BY <2>1, BoxEffect, Zenon
  <2>3. Placed(s)'
    BY <1>1, <2>2
  <2>. QED
    BY <1>2, <2>2, <2>3
<1>11. CASE \/ UNCHANGED vars
            \/ \E s \in Sessions : Register(s)
            \/ \E i \in Items, c \in Maybe(Typed) : EditCode(i, c)
            \/ \E i \in Items, k \in Maybe(Skus) : Resku(i, k)
            \/ LoadItems \/ ApplyDefaults
  BY <1>3, <1>11 DEF vars, Register, EditCode, Resku, LoadItems, ApplyDefaults
<1>. QED
  BY <1>5, <1>6, <1>7, <1>8, <1>9, <1>10, <1>11 DEF Next, Handle

\* The flush waits for whoever may hold the code; commits bring no other.
LEMMA ApartKept ==
    ASSUME Indexed, [Next]_vars
    PROVE  CodesApart'
<1>. USE DEF Indexed
\* Codes that the other writers commit no session has given.
<1>1. ASSUME UNCHANGED req,
             \A j \in Items : code'[j] # code[j] =>
                 \A s \in Sessions : \A i \in DOMAIN req[s].own :
                     j \in DOMAIN req[s].own \/ code'[j] # req[s].own[i]
      PROVE  CodesApart'
  BY <1>1 DEF CodesApart
\* A session loses its codes, having committed them or not.
<1>2. ASSUME NEW s \in Sessions, Others(s), req'[s].own = NoItems,
             \A j \in Items : code'[j] # code[j] =>
                 j \in DOMAIN req[s].own /\ code'[j] = req[s].own[j]
      PROVE  CodesApart'
  <2>1. \A t \in Sessions : DOMAIN req'[t].own # {} => t # s /\ req'[t].own = req[t].own
    BY <1>2, NoItemsMapping DEF Others
  <2>2. ASSUME NEW t \in Sessions \ {s}, NEW i \in DOMAIN req[t].own,
               NEW j \in Items \ DOMAIN req[t].own
        PROVE  code'[j] # req[t].own[i]
    BY <1>2, <2>2 DEF CodesApart
  <2>. QED
    BY <2>1, <2>2 DEF CodesApart
<1>3. ASSUME NEW s \in Sessions, Others(s), req'[s].own = req[s].own, UNCHANGED code
      PROVE  CodesApart'
  <2>1. \A t \in Sessions : req'[t].own = req[t].own
    BY <1>3 DEF Others
  <2>. QED
    BY <1>3, <2>1 DEF CodesApart
<1>4. CASE \E s \in Sessions, i \in Items : Ensure(s, i)
  <2>1. PICK s \in Sessions, i \in Items : Ensure(s, i)
    BY <1>4
  <2>2. Others(s) /\ req'[s].own = req[s].own
    BY <2>1, EnsureEffect, Zenon
  <2>. QED
    BY <1>3, <2>1, <2>2 DEF Ensure
<1>5. CASE \E s \in Sessions : Reread(s) \/ Box(s)
  <2>1. PICK s \in Sessions : Reread(s) \/ Box(s)
    BY <1>5
  <2>2. Others(s) /\ req'[s].own = req[s].own
    BY <2>1, RereadEffect, BoxEffect, Zenon
  <2>. QED
    BY <1>3, <2>1, <2>2 DEF Reread, Box
<1>6. CASE \E s \in Sessions : Flush(s)
  <2>1. PICK s \in Sessions : Flush(s)
    BY <1>6
  <2>. DEFINE i == req[s].at
              c == req[s].code
  <2>2. /\ Others(s) /\ i \in Items /\ i \notin DOMAIN req[s].own
        /\ DOMAIN req'[s].own = DOMAIN req[s].own \cup {i}
        /\ req'[s].own[i] = c
        /\ \A j \in DOMAIN req[s].own : req'[s].own[j] = req[s].own[j]
    BY <2>1, FlushEffect, Zenon
  <2>3. \A t \in Sessions \ {s} : \A j \in DOMAIN req[t].own : req[t].own[j] # c /\ code[j] # c
    BY <2>1 DEF Flush, CanFlush, CodeFree
  <2>4. \A j \in Items \ {i} : Sees(s, j) # c
    BY <2>1 DEF Flush, Taken
  <2>5. \A j \in DOMAIN req[s].own : req[s].own[j] # c
    BY <2>2, <2>4, OwnMapping DEF Sees
  <2>6. \A j \in Items \ DOMAIN req'[s].own : code[j] # c
    BY <2>2, <2>4 DEF Sees
  <2>7. UNCHANGED code
    BY <2>1 DEF Flush
  <2>8. ASSUME NEW t \in Sessions, NEW k \in DOMAIN req'[t].own,
               NEW u \in Sessions, NEW j \in DOMAIN req'[u].own,
               req'[u].own[j] = req'[t].own[k]
        PROVE  u = t /\ j = k
    <3>1. CASE t = s /\ k = i
      BY <3>1, <2>2, <2>3, <2>5, <2>8 DEF Others
    <3>2. CASE u = s /\ j = i
      BY <3>2, <2>2, <2>3, <2>5, <2>8 DEF Others
    <3>3. CASE ~(t = s /\ k = i) /\ ~(u = s /\ j = i)
      BY <3>3, <2>2, <2>8 DEF Others, CodesApart
    <3>. QED
      BY <3>1, <3>2, <3>3
  <2>9. ASSUME NEW t \in Sessions, NEW k \in DOMAIN req'[t].own,
               NEW j \in Items \ DOMAIN req'[t].own
        PROVE  code'[j] # req'[t].own[k]
    <3>1. CASE t = s /\ k = i
      BY <3>1, <2>2, <2>6, <2>7
    <3>2. CASE ~(t = s /\ k = i)
      BY <3>2, <2>2, <2>7, <2>9 DEF Others, CodesApart
    <3>. QED
      BY <3>1, <3>2
  <2>. QED
    BY <2>8, <2>9 DEF CodesApart
<1>7. CASE \E s \in Sessions : FlushCollides(s) \/ Fail(s)
  <2>1. PICK s \in Sessions : Fail(s)
    BY <1>7 DEF FlushCollides
  <2>2. Others(s) /\ req'[s].own = NoItems
    BY <2>1, EndEffect, IdleRequest DEF Fail
  <2>. QED
    BY <1>2, <2>1, <2>2 DEF Fail
<1>8. CASE \E s \in Sessions : Adopt(s) \/ Commit(s)
  <2>1. PICK s \in Sessions : Adopt(s) \/ Commit(s)
    BY <1>8
  <2>2. CommitOwn(s) /\ Others(s) /\ req'[s].own = NoItems
    BY <2>1, EndEffect, AdoptEffect, IdleRequest DEF Commit, Adopt
  <2>3. \A j \in Items : code'[j] # code[j] =>
            j \in DOMAIN req[s].own /\ code'[j] = req[s].own[j]
    BY <2>2, CommitOwnEffect
  <2>. QED
    BY <1>2, <2>2, <2>3
<1>9. CASE \E i \in Items, c \in Maybe(Typed) : EditCode(i, c)
  <2>1. PICK i \in Items, c \in Maybe(Typed) : EditCode(i, c)
    BY <1>9
  <2>2. ASSUME NEW s \in Sessions, NEW k \in DOMAIN req[s].own
        PROVE  c # req[s].own[k]
    <3>1. req[s].own[k] # None
      BY OwnMapping
    <3>2. s \in Sessions \ {None}
      BY Constants
    <3>. QED
      BY <2>1, <3>1, <3>2 DEF EditCode, CodeFree
  <2>3. \A j \in Items : code'[j] # code[j] => code'[j] = c
    BY <2>1 DEF EditCode, TypeOK
  <2>. QED
    BY <1>1, <2>1, <2>2, <2>3 DEF EditCode
<1>10. CASE ApplyDefaults
  <2>. DEFINE new == Restrict(script.sku, SafeDefaults)
              all == [i \in SafeDefaults |-> TRUE]
  <2>1. new \in Mapping(Codes) /\ DOMAIN new = SafeDefaults
    BY DefaultsMapping
  <2>2. ASSUME NEW i \in SafeDefaults, NEW s \in Sessions, NEW k \in DOMAIN req[s].own
        PROVE  new[i] # req[s].own[k]
    <3>1. s \in Sessions \ {None}
      BY Constants
    <3>. QED
      BY <1>10, <3>1 DEF ApplyDefaults, CodeFree
  <2>3. UNCHANGED code \/ CommitCodes(new, all)
    BY <1>10 DEF ApplyDefaults
  <2>4. \A j \in Items : code'[j] # code[j] => j \in SafeDefaults /\ code'[j] = new[j]
    <3>. HIDE DEF new, all
    <3>. QED
      BY <2>1, <2>3, CommitCodesEffect, Zenon
  <2>5. UNCHANGED req
    BY <1>10 DEF ApplyDefaults
  <2>. HIDE DEF new
  <2>. QED
    BY <1>1, <2>2, <2>4, <2>5
<1>11. CASE \/ UNCHANGED vars
            \/ \E s \in Sessions : Register(s)
            \/ \E i \in Items, k \in Maybe(Skus) : Resku(i, k)
            \/ LoadItems
  <2>1. UNCHANGED <<req, code>>
    BY <1>11 DEF vars, Register, Resku, LoadItems
  <2>. QED
    BY <1>1, <2>1
<1>. QED
  BY <1>4, <1>5, <1>6, <1>7, <1>8, <1>9, <1>10, <1>11 DEF Next, Handle

LEMMA IndexedStep == Indexed /\ [Next]_vars => Indexed'
BY TypeKept, AtItemKept, ApartKept DEF Indexed

LEMMA IndexedAlways == Spec => []Indexed
BY InitIndexed, IndexedStep, PTL DEF Spec

\* The variables keep their types, and no two items have the same code.
THEOREM TypeCorrect == Spec => []TypeOK
<1>1. Indexed => TypeOK
  BY DEF Indexed
<1>. QED
  BY <1>1, IndexedAlways, PTL

---------------------------------------------------------------------------
(* What the sessions choose, and what the boxes carry.                     *)

Chosens == Indexed /\ Choices

\* A session that has finished has chosen nothing.
LEMMA NobodyChoosing ==
    ASSUME NEW s \in Sessions, req[s] \in {Idle, Over}, NEW i
    PROVE  ~Choosing(s, i)
BY IdleRequest, NoItemsMapping DEF Choosing

\* A commit replaces a code by another only if both are random.
LEMMA CommitReplaces ==
    ASSUME Chosens, ~stirred, NEW s \in Sessions, NEW i \in DOMAIN req[s].own,
           code[i] # None, code[i] # req[s].own[i]
    PROVE  code[i] \in Sessions /\ req[s].own[i] \in Sessions
<1>1. i \in Items /\ Choosing(s, i) /\ Chosen(s, i) = req[s].own[i]
  BY OwnMapping DEF Chosens, Indexed, Choosing, Chosen
<1>2. RightChoice(s, i, req[s].own[i])
  BY <1>1 DEF Chosens, Choices
<1>. QED
  BY <1>2 DEF RightChoice

\* No item's code changes, unless the item is said to have moved.
CodesStay ==
    /\ moved \subseteq moved'
    /\ \A j \in Items : code[j] = None \/ code'[j] = code[j] \/ j \in moved'

LEMMA CommitOwnStays ==
    ASSUME Chosens, NEW s \in Sessions, CommitOwn(s)
    PROVE  CodesStay
<1>1. /\ \A i \in DOMAIN req[s].own : code'[i] = req[s].own[i]
      /\ \A i \in Items \ DOMAIN req[s].own : code'[i] = code[i]
      /\ moved \subseteq moved'
      /\ \A i \in DOMAIN req[s].own : code[i] # None /\ code[i] # req[s].own[i] =>
            (stirred \/ req[s].own[i] \in Sessions => i \in moved')
  BY CommitOwnEffect DEF Chosens, Indexed
<1>2. \A i \in DOMAIN req[s].own :
         code[i] # None /\ code[i] # req[s].own[i] => stirred \/ req[s].own[i] \in Sessions
  BY CommitReplaces
<1>. QED
  BY <1>1, <1>2 DEF CodesStay

LEMMA StepStays ==
    ASSUME Chosens, [Next]_vars
    PROVE  CodesStay
<1>1. CASE \E s \in Sessions : Adopt(s) \/ Commit(s)
  BY <1>1, CommitOwnStays DEF Adopt, Commit
<1>2. CASE \E i \in Items, c \in Maybe(Typed) : EditCode(i, c)
  BY <1>2 DEF EditCode, CodesStay, Chosens, Indexed, TypeOK
<1>3. CASE ApplyDefaults
  <2>. DEFINE new == Restrict(script.sku, SafeDefaults)
              all == [i \in SafeDefaults |-> TRUE]
  <2>1. new \in Mapping(Codes) /\ DOMAIN new = SafeDefaults
    BY DefaultsMapping DEF Chosens, Indexed
  <2>2. UNCHANGED <<code, moved>> \/ CommitCodes(new, all)
    BY <1>3 DEF ApplyDefaults
  <2>3. \A i \in DOMAIN new : all[i]
    BY <2>1
  <2>4. TypeOK
    BY DEF Chosens, Indexed
  <2>5. CASE CommitCodes(new, all)
    <3>. HIDE DEF new, all
    <3>1. /\ \A i \in DOMAIN new : code'[i] = new[i]
          /\ \A i \in Items \ DOMAIN new : code'[i] = code[i]
          /\ moved \subseteq moved'
          /\ \A i \in DOMAIN new : code[i] # None /\ code[i] # new[i] =>
                (all[i] => i \in moved')
      BY <2>1, <2>4, <2>5, CommitCodesEffect, Zenon
    <3>. QED
      BY <2>3, <3>1 DEF CodesStay
  <2>6. CASE UNCHANGED <<code, moved>>
    BY <2>6 DEF CodesStay
  <2>. QED
    BY <2>2, <2>5, <2>6
<1>4. CASE UNCHANGED <<code, moved>>
  BY <1>4 DEF CodesStay
<1>. QED
  BY <1>1, <1>2, <1>3, <1>4 DEF Next, Handle, vars, Ensure, Flush, FlushCollides, Register,
     Reread, Box, Fail, Resku, LoadItems

---------------------------------------------------------------------------

\* Sees of session s does not change where its codes and the table do not.
LEMMA TakenKept ==
    ASSUME NEW s \in Sessions, NEW i \in Items, NEW c, Taken(c, i, s),
           \A j \in Items \ {i} : Sees(s, j) = c => Sees(s, j)' = c
    PROVE  Taken(c, i, s)'
BY DEF Taken

\* A commit by t: what session s sees as taken stays so, but for random codes.
LEMMA TakenAfterCommit ==
    ASSUME Chosens, ~stirred, NEW t \in Sessions, CommitOwn(t), Others(t),
           NEW s \in Sessions \ {t}, NEW i \in Items, NEW c, c # None, c \notin Sessions,
           Taken(c, i, s)
    PROVE  Taken(c, i, s)'
<1>1. /\ \A j \in DOMAIN req[t].own : code'[j] = req[t].own[j]
      /\ \A j \in Items \ DOMAIN req[t].own : code'[j] = code[j]
  BY CommitOwnEffect DEF Chosens, Indexed
<1>2. req'[s] = req[s]
  BY DEF Others
<1>3. ASSUME NEW j \in Items \ {i}, Sees(s, j) = c
      PROVE  Sees(s, j)' = c
  <2>1. CASE j \in DOMAIN req[s].own
    BY <1>2, <1>3, <2>1 DEF Sees
  <2>2. CASE j \notin DOMAIN req[s].own
    <3>1. code[j] = c
      BY <1>3, <2>2 DEF Sees
    <3>2. code'[j] = c
      BY <1>1, <3>1, CommitReplaces
    <3>. QED
      BY <1>2, <2>2, <3>2 DEF Sees
  <2>. QED
    BY <2>1, <2>2
<1>. QED
  BY <1>3, TakenKept

\* The sessions other than the one that commits chose rightly still.
LEMMA ChoicesAfterCommit ==
    ASSUME Chosens, ~stirred, NEW t \in Sessions, CommitOwn(t), Others(t),
           UNCHANGED sku,
           NEW s \in Sessions \ {t}, NEW i \in Items, Choosing(s, i)
    PROVE  RightChoice(s, i, Chosen(s, i))'
<1>. USE Constants
<1>0. PICK c : c = Chosen(s, i)
  OBVIOUS
<1>1. RightChoice(s, i, c)
  BY <1>0 DEF Chosens, Choices
<1>2. req'[s] = req[s] /\ Chosen(s, i)' = c
  BY <1>0 DEF Others, Chosen
<1>3. /\ \A j \in DOMAIN req[t].own : code'[j] = req[t].own[j]
      /\ \A j \in Items \ DOMAIN req[t].own : code'[j] = code[j]
  BY CommitOwnEffect DEF Chosens, Indexed
<1>4. /\ c # None /\ sku[i] \in Skus \cup {None}
      /\ code[i] \in Codes \cup {None}
  <2>1. c # None
    BY <1>0, OwnMapping DEF Choosing, Chosen, AtItem, Chosens, Indexed
  <2>. QED
    BY <2>1 DEF Chosens, Indexed, TypeOK, Maybe
<1>5. c # sku[i] /\ sku[i] # None => Taken(sku[i], i, s)'
  <2>1. sku[i] # None => sku[i] \notin Sessions
    BY <1>4
  <2>. QED
    BY <1>1, <2>1, TakenAfterCommit DEF RightChoice
<1>6. c = s => \E j \in Items \ {i} : code'[j] = i
  <2>1. \A j \in Items : code[j] = i => code'[j] = i
    BY <1>3, CommitReplaces
  <2>. QED
    BY <1>1, <2>1 DEF RightChoice
<1>7. \/ code'[i] \in {None, c}
      \/ c \in Sessions /\ code'[i] \in Sessions
      \/ c \notin Sessions /\ i \notin DOMAIN req[s].own /\ Taken(c, i, s)'
  <2>1. CASE i \notin DOMAIN req[t].own
    <3>1. code'[i] = code[i]
      BY <1>3, <2>1
    <3>2. CASE c \notin Sessions /\ i \notin DOMAIN req[s].own /\ Taken(c, i, s)
      <4>1. Taken(c, i, s)'
        BY <1>4, <3>2, TakenAfterCommit
      <4>. QED
        BY <3>2, <4>1
    <3>. QED
      BY <1>1, <3>1, <3>2 DEF RightChoice
  <2>2. CASE i \in DOMAIN req[t].own
    <3>. DEFINE d == req[t].own[i]
    <3>1. code'[i] = d /\ i \notin DOMAIN req[s].own /\ d # None
      BY <1>3, <2>2, OwnMapping DEF Chosens, Indexed, TypeOK
    <3>2. RightChoice(t, i, d)
      BY <2>2 DEF Chosens, Choices, Choosing, Chosen
    \* What i is to get, unless random, no other item has, and no session gives.
    <3>3. ASSUME NEW j \in Items \ {i}, d \notin Sessions
          PROVE  code[j] # d /\ Sees(s, j) # d
      <4>1. code[j] # d
        <5>1. CASE j \in DOMAIN req[t].own
          <6>1. req[t].own[j] # d
            BY <2>2, <3>3, <5>1 DEF Chosens, Indexed, CodesApart
          <6>. QED
            BY <3>1, <3>3, <5>1, <6>1, CommitReplaces
        <5>2. CASE j \notin DOMAIN req[t].own
          BY <2>2, <3>3, <5>2 DEF Chosens, Indexed, CodesApart
        <5>. QED
          BY <5>1, <5>2
      <4>2. j \in DOMAIN req[s].own => req[s].own[j] # d
        BY <2>2, <3>3 DEF Chosens, Indexed, CodesApart
      <4>. QED
        BY <4>1, <4>2 DEF Sees
    \* Where t, or the table, has c, not random, s will see it.
    <3>4. ASSUME NEW j \in Items \ {i}, c \notin Sessions, code[j] = c \/ Sees(t, j) = c
          PROVE  Sees(s, j)' = c
      <4>1. CASE j \in DOMAIN req[s].own
        <5>1. j \notin DOMAIN req[t].own
          BY <4>1 DEF Chosens, Indexed, TypeOK
        <5>2. code[j] = c
          BY <3>4, <5>1 DEF Sees
        <5>3. req[s].own[j] = c
          BY <1>4, <3>4, <4>1, <5>2, CommitReplaces
        <5>. QED
          BY <1>2, <4>1, <5>3 DEF Sees
      <4>2. CASE j \notin DOMAIN req[s].own
        <5>1. code'[j] = c
          <6>1. CASE j \in DOMAIN req[t].own
            BY <1>3, <1>4, <3>4, <6>1, CommitReplaces DEF Sees
          <6>2. CASE j \notin DOMAIN req[t].own
            BY <1>3, <3>4, <6>2 DEF Sees
          <6>. QED
            BY <6>1, <6>2
        <5>. QED
          BY <1>2, <4>2, <5>1 DEF Sees
      <4>. QED
        BY <4>1, <4>2
    <3>5. c \in {sku[i], i, s} /\ d \in {sku[i], i, t}
      BY <1>1, <3>2 DEF RightChoice
    <3>6. CASE c = s
      <4>1. ASSUME d \notin Sessions PROVE FALSE
        <5>1. d = i \/ (d = sku[i] /\ c # sku[i] /\ sku[i] # None)
          BY <1>4, <3>1, <3>5, <3>6, <4>1
        <5>2. \E j \in Items \ {i} : code[j] = i
          BY <1>1, <3>6 DEF RightChoice
        <5>3. d = sku[i] => Taken(d, i, s)
          BY <1>1, <1>4, <3>6, <5>1, <4>1 DEF RightChoice
        <5>. QED
          BY <3>3, <4>1, <5>1, <5>2, <5>3 DEF Taken
      <4>. QED
        BY <3>1, <3>6, <4>1
    <3>7. CASE c # s /\ c = sku[i] /\ c # d
      <4>1. Taken(c, i, t) /\ c \notin Sessions
        BY <1>4, <3>2, <3>7 DEF RightChoice
      <4>2. Taken(c, i, s)'
        BY <3>4, <4>1 DEF Taken
      <4>. QED
        BY <3>1, <4>1, <4>2
    <3>8. CASE c # sku[i] /\ c = i /\ c # d
      <4>1. c \notin Sessions
        BY <3>8
      <4>2. d # sku[i]
        <5>1. ASSUME d = sku[i] PROVE FALSE
          <6>1. Taken(d, i, s) /\ d \notin Sessions
            BY <1>1, <1>4, <3>1, <3>8, <5>1 DEF RightChoice
          <6>. QED
            BY <3>3, <6>1 DEF Taken
        <5>. QED
          BY <5>1
      <4>3. \E j \in Items \ {i} : code[j] = i
        BY <3>2, <3>5, <3>8, <4>2 DEF RightChoice
      <4>4. Taken(c, i, s)'
        BY <3>4, <3>8, <4>1, <4>3 DEF Taken
      <4>. QED
        BY <3>1, <4>1, <4>4
    <3>. QED
      BY <3>1, <3>5, <3>6, <3>7, <3>8
  <2>. QED
    BY <2>1, <2>2
<1>. QED
  BY <1>1, <1>2, <1>5, <1>6, <1>7 DEF RightChoice

---------------------------------------------------------------------------

\* A choice depends on the SKUs, the table and the codes the session has given.
LEMMA ChoiceStands ==
    ASSUME NEW s \in Sessions, NEW i \in Items, UNCHANGED <<sku, code>>,
           req'[s].own = req[s].own, NEW c, RightChoice(s, i, c)
    PROVE  RightChoice(s, i, c)'
<1>1. \A x, k : Taken(x, k, s)' <=> Taken(x, k, s)
  BY DEF Taken, Sees
<1>. QED
  BY <1>1 DEF RightChoice

\* A session that does not give codes, nor come to an item, chooses nothing new.
LEMMA ChosenStands ==
    ASSUME Chosens, ~stirred, NEW s \in Sessions, NEW i \in Items,
           UNCHANGED <<sku, code>>, req'[s].own = req[s].own,
           req'[s].pc = "want" => req'[s] = req[s], Choosing(s, i)'
    PROVE  RightChoice(s, i, Chosen(s, i))'
<1>0. PICK c : c = Chosen(s, i)
  OBVIOUS
<1>1. Choosing(s, i) /\ Chosen(s, i)' = c
  BY <1>0 DEF Choosing, Chosen
<1>2. RightChoice(s, i, c)
  BY <1>0, <1>1 DEF Chosens, Choices
<1>3. RightChoice(s, i, c)'
  BY <1>2, ChoiceStands
<1>. QED
  BY <1>1, <1>3

LEMMA ChoiceAtEnsure ==
    ASSUME Chosens, ~stirred, NEW s \in Sessions, NEW i \in Items, Ensure(s, i),
           NEW k \in Items, Choosing(s, k)'
    PROVE  RightChoice(s, k, Chosen(s, k))'
<1>. USE Constants DEF Chosens, Indexed
<1>1. /\ req'[s].own = req[s].own /\ req'[s].at = i
      /\ code[i] # None => req'[s].pc = "coded" /\ req'[s].code = code[i]
      /\ code[i] = None => req'[s].pc = "want" /\ req'[s].code = Choice(s, i)
  BY EnsureEffect
<1>2. UNCHANGED <<sku, code>> /\ i \notin DOMAIN req[s].staged /\ req[s].pc \in {"idle", "open"}
  BY DEF Ensure
<1>3. i \notin DOMAIN req[s].own
  BY <1>2 DEF AtItem
<1>4. PICK c : c = Chosen(s, k)'
  OBVIOUS
<1>5. CASE k \in DOMAIN req[s].own
  <2>1. Choosing(s, k) /\ Chosen(s, k) = c
    BY <1>1, <1>4, <1>5 DEF Choosing, Chosen
  <2>2. RightChoice(s, k, c)
    BY <2>1 DEF Choices
  <2>. QED
    BY <1>1, <1>2, <1>4, <2>2, ChoiceStands
<1>6. CASE k \notin DOMAIN req[s].own
  <2>1. k = i /\ code[i] = None /\ c = Choice(s, i)
    BY <1>1, <1>4, <1>6 DEF Choosing, Chosen
  <2>2. sku[i] \in Skus \cup {None}
    BY DEF TypeOK, Maybe
  <2>3. Taken(i, i, s) => \E j \in Items \ {i} : code[j] = i
    <3>1. ASSUME NEW j \in Items \ {i}, j \in DOMAIN req[s].own, req[s].own[j] = i
          PROVE  FALSE
      <4>1. Choosing(s, j) /\ Chosen(s, j) = i
        BY <3>1 DEF Choosing, Chosen
      <4>2. i \in {sku[j], j, s} /\ sku[j] \in Skus \cup {None}
        BY <4>1 DEF Choices, RightChoice, TypeOK, Maybe
      <4>. QED
        BY <4>2
    <3>. QED
      BY <3>1 DEF Taken, Sees
  <2>4. RightChoice(s, i, c)
    BY <2>1, <2>2, <2>3 DEF Choice, RightChoice
  <2>. QED
    BY <1>1, <1>2, <1>4, <2>1, <2>4, ChoiceStands
<1>. QED
  BY <1>5, <1>6

LEMMA ChoiceAtFlush ==
    ASSUME Chosens, ~stirred, NEW s \in Sessions, Flush(s),
           NEW k \in Items, Choosing(s, k)'
    PROVE  RightChoice(s, k, Chosen(s, k))'
<1>. USE Constants DEF Chosens, Indexed
<1>1. PICK i \in Items, c \in Codes : i = req[s].at /\ c = req[s].code
  BY FlushEffect
<1>2. /\ req[s].pc = "want" /\ i \notin DOMAIN req[s].own /\ req'[s].pc = "coded"
      /\ DOMAIN req'[s].own = DOMAIN req[s].own \cup {i}
      /\ req'[s].own[i] = c
      /\ \A j \in DOMAIN req[s].own : req'[s].own[j] = req[s].own[j]
  BY <1>1, FlushEffect
<1>3. UNCHANGED <<sku, code>> /\ ~Taken(c, i, s)
  BY <1>1 DEF Flush
<1>4. RightChoice(s, i, c) /\ sku[i] \in Skus \cup {None}
  BY <1>1, <1>2 DEF Choices, Choosing, Chosen, TypeOK, Maybe
<1>5. code[i] \in {None, c} \/ (c \in Sessions /\ code[i] \in Sessions)
  BY <1>3, <1>4 DEF RightChoice
<1>6. PICK d : d = Chosen(s, k)'
  OBVIOUS
<1>7. RightChoice(s, k, d) /\ (k = i => d = c)
  <2>1. CASE k = i
    BY <1>2, <1>4, <1>6, <2>1 DEF Chosen
  <2>2. CASE k # i
    BY <1>2, <1>6, <2>2 DEF Choices, Choosing, Chosen
  <2>. QED
    BY <2>1, <2>2
\* What s saw as taken by an item it still sees as taken.
<1>8. ASSUME NEW x, x # None, x \notin Sessions, Taken(x, k, s)
      PROVE  Taken(x, k, s)'
  <2>1. ASSUME NEW j \in Items \ {k}, Sees(s, j) = x
        PROVE  Sees(s, j)' = x
    <3>1. CASE j = i
      BY <1>2, <1>5, <1>8, <2>1, <3>1 DEF Sees
    <3>2. CASE j # i
      BY <1>2, <1>3, <2>1, <3>2 DEF Sees
    <3>. QED
      BY <3>1, <3>2
  <2>. QED
    BY <1>8, <2>1, TakenKept
<1>9. PICK x : x = sku[k]
  OBVIOUS
<1>10. x \in Skus \cup {None}
  BY <1>9 DEF TypeOK, Maybe
<1>11. d # x /\ x # None => Taken(x, k, s)'
  BY <1>7, <1>8, <1>9, <1>10 DEF RightChoice
<1>12. \/ code[k] \in {None, d}
       \/ d \in Sessions /\ code[k] \in Sessions
  BY <1>2, <1>5, <1>6, <1>7 DEF RightChoice, Choosing
<1>13. d \in {x, k, s} /\ (d = s => \E j \in Items \ {k} : code[j] = k)
  BY <1>7, <1>9 DEF RightChoice
<1>14. sku'[k] = x /\ code' = code
  BY <1>3, <1>9
<1>15. RightChoice(s, k, d)'
  BY <1>11, <1>12, <1>13, <1>14 DEF RightChoice
<1>. QED
  BY <1>6, <1>15

LEMMA ChoicesKept ==
    ASSUME Chosens, [Next]_vars
    PROVE  Choices'
<1>. SUFFICES ASSUME ~stirred', NEW s \in Sessions, NEW i \in Items, Choosing(s, i)'
              PROVE  RightChoice(s, i, Chosen(s, i))'
  BY DEF Choices
<1>. USE DEF Chosens, Indexed
<1>1. ASSUME NEW u \in Sessions, End(u), ~stirred \/ s = u
      PROVE  s # u /\ ~stirred /\ Others(u)
  <2>1. Others(u) /\ req'[u] = Over
    BY <1>1, EndEffect
  <2>2. s # u
    BY <2>1, IdleRequest, NoItemsMapping DEF Choosing
  <2>. QED
    BY <1>1, <2>1, <2>2
<1>2. ASSUME NEW u \in Sessions, End(u), stirred
      PROVE  FALSE
  <2>1. Others(u) /\ req'[u] = Over /\ AtWork = {u}
    BY <1>2, EndEffect DEF End
  <2>2. req'[s] \in {Idle, Over}
    BY <2>1 DEF Others, AtWork
  <2>. QED
    BY <2>2, IdleRequest, NoItemsMapping DEF Choosing
<1>3. ASSUME Stir, UNCHANGED req
      PROVE  FALSE
  <2>1. AtWork = {}
    BY <1>3 DEF Stir
  <2>2. req'[s] \in {Idle, Over}
    BY <1>3, <2>1 DEF AtWork
  <2>. QED
    BY <2>2, IdleRequest, NoItemsMapping DEF Choosing
<1>4. ASSUME NEW u \in Sessions, Others(u), s # u, ~stirred, UNCHANGED <<sku, code>>
      PROVE  RightChoice(s, i, Chosen(s, i))'
  <2>1. req'[s] = req[s]
    BY <1>4 DEF Others
  <2>. QED
    BY <1>4, <2>1, ChosenStands
<1>5. CASE \E u \in Sessions, k \in Items : Ensure(u, k)
  <2>1. PICK u \in Sessions, k \in Items : Ensure(u, k)
    BY <1>5
  <2>2. Others(u) /\ UNCHANGED <<sku, code, stirred>>
    BY <2>1, EnsureEffect DEF Ensure
  <2>. QED
    BY <1>4, <2>1, <2>2, ChoiceAtEnsure
<1>6. CASE \E u \in Sessions : Flush(u)
  <2>1. PICK u \in Sessions : Flush(u)
    BY <1>6
  <2>2. Others(u) /\ UNCHANGED <<sku, code, stirred>>
    BY <2>1, FlushEffect DEF Flush
  <2>. QED
    BY <1>4, <2>1, <2>2, ChoiceAtFlush
<1>7. CASE \E u \in Sessions : FlushCollides(u) \/ Fail(u)
  <2>1. PICK u \in Sessions : Fail(u)
    BY <1>7 DEF FlushCollides
  <2>2. End(u) /\ UNCHANGED <<sku, code>>
    BY <2>1 DEF Fail
  <2>. QED
    BY <1>1, <1>2, <1>4, <2>2
<1>8. CASE \E u \in Sessions : Commit(u)
  <2>1. PICK u \in Sessions : Commit(u)
    BY <1>8
  <2>2. End(u) /\ CommitOwn(u) /\ UNCHANGED sku
    BY <2>1 DEF Commit
  <2>3. s # u /\ ~stirred /\ Others(u)
    BY <1>1, <1>2, <2>2
  <2>4. Choosing(s, i)
    BY <2>3 DEF Choosing, Others
  <2>. QED
    BY <2>2, <2>3, <2>4, ChoicesAfterCommit
<1>9. CASE \E u \in Sessions : Adopt(u)
  <2>1. PICK u \in Sessions : Adopt(u)
    BY <1>9
  <2>2. CommitOwn(u) /\ UNCHANGED <<sku, stirred>>
    BY <2>1 DEF Adopt
  <2>3. Others(u) /\ req'[u].own = NoItems /\ req'[u].pc = "expired"
    BY <2>1, AdoptEffect
  <2>4. s # u
    BY <2>3, NoItemsMapping DEF Choosing
  <2>5. Choosing(s, i)
    BY <2>3, <2>4 DEF Choosing, Others
  <2>. QED
    BY <2>2, <2>3, <2>4, <2>5, ChoicesAfterCommit
<1>10. CASE \E u \in Sessions : Reread(u) \/ Box(u)
  <2>1. PICK u \in Sessions : Reread(u) \/ Box(u)
    BY <1>10
  <2>2. /\ Others(u) /\ UNCHANGED <<sku, code, stirred>>
        /\ req'[u].own = req[u].own /\ req'[u].pc # "want"
    BY <2>1, RereadEffect, BoxEffect DEF Reread, Box
  <2>. QED
    BY <1>4, <2>2, ChosenStands
<1>11. CASE \/ \E k \in Items, c \in Maybe(Typed) : EditCode(k, c)
            \/ \E k \in Items, v \in Maybe(Skus) : Resku(k, v)
            \/ ApplyDefaults
  BY <1>3, <1>11 DEF EditCode, Resku, ApplyDefaults
<1>12. CASE UNCHANGED vars \/ LoadItems \/ \E u \in Sessions : Register(u)
  <2>1. UNCHANGED <<sku, code, req, stirred>>
    BY <1>12 DEF vars, LoadItems, Register
  <2>. QED
    BY <2>1, ChosenStands
<1>. QED
  BY <1>5, <1>6, <1>7, <1>8, <1>9, <1>10, <1>11, <1>12 DEF Next, Handle

---------------------------------------------------------------------------

\* What a session carries it still carries when codes stay and it keeps its
\* own, or has just committed them.
LEMMA CarriesOn ==
    ASSUME Chosens, CodesStay, NEW s \in Sessions, NEW i \in Items, NEW v,
           \/ req'[s].own = req[s].own
           \/ /\ req'[s].own = NoItems
              /\ \A j \in DOMAIN req[s].own : code'[j] = req[s].own[j],
           Carries(s, i, v)
    PROVE  Carries(s, i, v)'
BY OwnMapping, NoItemsMapping DEF Carries, CodesStay, Chosens, Indexed

Held == Chosens /\ Receipts

LEMMA ReceiptsKept ==
    ASSUME Held, [Next]_vars
    PROVE  Receipts'
<1>. USE DEF Held, Chosens, Indexed
<1>. DEFINE Boxed(b) == (b[2] # None /\ b[2] = code[b[1]]) \/ b[1] \in moved
            Carried(s) ==
              /\ \A i \in DOMAIN req[s].staged : Carries(s, i, req[s].staged[i])
              /\ req[s].pc = "coded" => Carries(s, req[s].at, req[s].code)
              /\ req[s].pc = "expired" => code[req[s].at] # None \/ req[s].at \in moved
<1>1. CodesStay
  BY StepStays
<1>2. \A s \in Sessions : Carried(s)
  BY DEF Receipts
<1>3. ASSUME NEW b \in boxes PROVE Boxed(b)'
  <2>1. b[1] \in Items
    BY DEF TypeOK
  <2>. QED
    BY <1>1, <2>1 DEF Receipts, CodesStay
<1>4. ASSUME NEW s \in Sessions, req'[s] = req[s] PROVE Carried(s)'
  <2>1. DOMAIN req[s].staged \subseteq Items
    BY OwnMapping
  <2>2. req[s].pc \in {"coded", "expired"} => req[s].at \in Items
    BY DEF AtItem
  <2>3. ASSUME NEW i \in DOMAIN req[s].staged, NEW v, v = req[s].staged[i]
        PROVE  Carries(s, i, v)'
    BY <1>1, <1>2, <1>4, <2>1, <2>3, CarriesOn
  <2>4. ASSUME NEW i, i = req[s].at, NEW v, v = req[s].code, req[s].pc = "coded"
        PROVE  Carries(s, i, v)'
    BY <1>1, <1>2, <1>4, <2>2, <2>4, CarriesOn
  <2>5. req[s].pc = "expired" => (code[req[s].at] # None \/ req[s].at \in moved)'
    BY <1>1, <1>2, <1>4, <2>2 DEF CodesStay
  <2>6. \A i \in DOMAIN req'[s].staged : Carries(s, i, req[s].staged[i])'
    BY <1>4, <2>3
  <2>7. req'[s].pc = "coded" => Carries(s, req[s].at, req[s].code)'
    BY <1>4, <2>4
  <2>. QED
    BY <1>4, <2>5, <2>6, <2>7
<1>5. ASSUME NEW s \in Sessions, Others(s), Carried(s)', UNCHANGED boxes
      PROVE  Receipts'
  <2>1. \A t \in Sessions : Carried(t)'
    BY <1>4, <1>5 DEF Others
  <2>. QED
    BY <1>3, <1>5, <2>1 DEF Receipts
<1>6. ASSUME NEW s \in Sessions, req'[s] = Over PROVE Carried(s)'
  BY <1>6, IdleRequest, NoItemsMapping
\* The items staged so far are carried on by a session that stages no more.
<1>7. ASSUME NEW s \in Sessions, req'[s].staged = req[s].staged,
             \/ \A j \in DOMAIN req[s].staged : 
                   /\ j \in DOMAIN req'[s].own <=> j \in DOMAIN req[s].own
                   /\ j \in DOMAIN req[s].own => req'[s].own[j] = req[s].own[j]
             \/ /\ req'[s].own = NoItems
                /\ \A j \in DOMAIN req[s].own : code'[j] = req[s].own[j]
      PROVE  (\A i \in DOMAIN req[s].staged : Carries(s, i, req[s].staged[i]))'
  <2>1. DOMAIN req[s].staged \subseteq Items
    BY OwnMapping
  <2>2. ASSUME NEW i \in DOMAIN req[s].staged, NEW v, v = req[s].staged[i]
        PROVE  Carries(s, i, v)'
    <3>1. Carries(s, i, v)
      BY <1>2, <2>2
    <3>. QED
      BY <1>1, <1>7, <2>1, <2>2, <3>1, OwnMapping, NoItemsMapping DEF Carries, CodesStay
  <2>. QED
    BY <1>7, <2>2
<1>8. CASE \E s \in Sessions, i \in Items : Ensure(s, i)
  <2>1. PICK s \in Sessions, i \in Items : Ensure(s, i)
    BY <1>8
  <2>2. /\ Others(s) /\ req'[s].own = req[s].own /\ req'[s].staged = req[s].staged
        /\ req'[s].at = i
        /\ code[i] # None => req'[s].pc = "coded" /\ req'[s].code = code[i]
        /\ code[i] = None => req'[s].pc = "want" /\ req'[s].code = Choice(s, i)
    BY <2>1, EnsureEffect
  <2>3. i \notin DOMAIN req[s].own /\ UNCHANGED <<code, moved, boxes>>
    BY <2>1 DEF Ensure, AtItem
  <2>4. (\A j \in DOMAIN req[s].staged : Carries(s, j, req[s].staged[j]))'
    BY <1>7, <2>2
  <2>5. req'[s].pc = "coded" => Carries(s, req[s].at, req[s].code)'
    BY <2>2, <2>3 DEF Carries
  <2>6. Carried(s)'
    BY <2>2, <2>4, <2>5
  <2>. QED
    BY <1>5, <2>2, <2>3, <2>6
<1>9. CASE \E s \in Sessions : Flush(s)
  <2>1. PICK s \in Sessions : Flush(s)
    BY <1>9
  <2>2. /\ Others(s) /\ req[s].at \in Items \ DOMAIN req[s].staged
        /\ req'[s].pc = "coded" /\ req'[s].at = req[s].at /\ req'[s].code = req[s].code
        /\ req'[s].staged = req[s].staged
        /\ DOMAIN req'[s].own = DOMAIN req[s].own \cup {req[s].at}
        /\ req'[s].own[req[s].at] = req[s].code
        /\ \A j \in DOMAIN req[s].own : req'[s].own[j] = req[s].own[j]
    BY <2>1, FlushEffect
  <2>3. (\A j \in DOMAIN req[s].staged : Carries(s, j, req[s].staged[j]))'
    BY <1>7, <2>2
  <2>4. Carries(s, req[s].at, req[s].code)'
    BY <2>2 DEF Carries
  <2>5. Carried(s)' /\ UNCHANGED boxes
    BY <2>1, <2>2, <2>3, <2>4 DEF Flush
  <2>. QED
    BY <1>5, <2>2, <2>5
<1>10. CASE \E s \in Sessions : FlushCollides(s) \/ Fail(s)
  <2>1. PICK s \in Sessions : Fail(s)
    BY <1>10 DEF FlushCollides
  <2>2. Others(s) /\ req'[s] = Over /\ UNCHANGED boxes
    BY <2>1, EndEffect DEF Fail
  <2>. QED
    BY <1>5, <1>6, <2>2
<1>11. CASE \E s \in Sessions : Adopt(s)
  <2>1. PICK s \in Sessions : Adopt(s)
    BY <1>11
  <2>2. /\ Others(s) /\ req[s].pc = "coded" /\ req'[s].pc = "expired"
        /\ req'[s].own = NoItems /\ req'[s].staged = req[s].staged
        /\ req'[s].at = req[s].at
    BY <2>1, AdoptEffect
  <2>3. CommitOwn(s) /\ UNCHANGED boxes
    BY <2>1 DEF Adopt
  <2>4. \A j \in DOMAIN req[s].own : code'[j] = req[s].own[j] /\ code'[j] # None
    BY <2>3, CommitOwnEffect, OwnMapping
  <2>5. (\A j \in DOMAIN req[s].staged : Carries(s, j, req[s].staged[j]))'
    BY <1>7, <2>2, <2>4
  <2>6. req[s].at \in Items /\ Carries(s, req[s].at, req[s].code)
    BY <1>2, <2>2 DEF AtItem
  <2>7. (code[req[s].at] # None \/ req[s].at \in moved)'
    BY <1>1, <2>2, <2>4, <2>6 DEF Carries, CodesStay
  <2>8. Carried(s)'
    BY <2>2, <2>5, <2>7
  <2>. QED
    BY <1>5, <2>2, <2>3, <2>8
<1>12. CASE \E s \in Sessions : Reread(s)
  <2>1. PICK s \in Sessions : Reread(s)
    BY <1>12
  <2>2. /\ Others(s) /\ req[s].pc = "expired" /\ req'[s].pc = "coded"
        /\ req'[s].own = req[s].own /\ req'[s].staged = req[s].staged
        /\ req'[s].at = req[s].at /\ req[s].at \in Items \ DOMAIN req[s].staged
        /\ req'[s].code = code[req[s].at]
    BY <2>1, RereadEffect
  <2>3. (\A j \in DOMAIN req[s].staged : Carries(s, j, req[s].staged[j]))'
    BY <1>7, <2>2
  <2>4. req[s].at \notin DOMAIN req[s].own /\ UNCHANGED <<code, moved, boxes>>
    BY <2>1, <2>2 DEF AtItem, Reread
  <2>5. Carries(s, req[s].at, req[s].code)'
    BY <1>2, <2>2, <2>4 DEF Carries
  <2>6. Carried(s)'
    BY <2>2, <2>3, <2>5
  <2>. QED
    BY <1>5, <2>2, <2>4, <2>6
<1>13. CASE \E s \in Sessions : Box(s)
  <2>1. PICK s \in Sessions : Box(s)
    BY <1>13
  <2>2. /\ Others(s) /\ req[s].pc = "coded" /\ req'[s].pc = "open"
        /\ req'[s].own = req[s].own
        /\ DOMAIN req'[s].staged = DOMAIN req[s].staged \cup {req[s].at}
        /\ req'[s].staged[req[s].at] = req[s].code
        /\ \A j \in DOMAIN req[s].staged : req'[s].staged[j] = req[s].staged[j]
    BY <2>1, BoxEffect
  <2>3. UNCHANGED <<code, moved, boxes>>
    BY <2>1 DEF Box
  <2>4. ASSUME NEW j \in DOMAIN req'[s].staged, NEW v, v = req'[s].staged[j]
        PROVE  Carries(s, j, v)'
    <3>1. Carries(s, j, v)
      BY <1>2, <2>2, <2>4
    <3>. QED
      BY <2>2, <2>3, <3>1 DEF Carries
  <2>5. Carried(s)'
    BY <2>2, <2>4
  <2>. QED
    BY <1>5, <2>2, <2>3, <2>5
<1>14. CASE \E s \in Sessions : Commit(s)
  <2>1. PICK s \in Sessions : Commit(s)
    BY <1>14
  <2>2. Others(s) /\ req'[s] = Over /\ CommitOwn(s)
    BY <2>1, EndEffect DEF Commit
  <2>3. \A j \in DOMAIN req[s].own : code'[j] = req[s].own[j] /\ code'[j] # None
    BY <2>2, CommitOwnEffect, OwnMapping
  <2>4. ASSUME NEW i \in DOMAIN req[s].staged, NEW v, v = req[s].staged[i]
        PROVE  (v # None /\ v = code'[i]) \/ i \in moved'
    <3>1. Carries(s, i, v) /\ i \in Items
      BY <1>2, <2>4, OwnMapping
    <3>. QED
      BY <1>1, <2>3, <3>1 DEF Carries, CodesStay
  <2>5. boxes' = boxes \cup {<<i, req[s].staged[i]>> : i \in DOMAIN req[s].staged}
    BY <2>1 DEF Commit
  <2>6. \A b \in boxes' : (b[2] # None /\ b[2] = code'[b[1]]) \/ b[1] \in moved'
    BY <1>3, <2>4, <2>5
  <2>7. \A t \in Sessions : Carried(t)'
    BY <1>4, <1>6, <2>2 DEF Others
  <2>. QED
    BY <2>6, <2>7 DEF Receipts
<1>15. CASE \/ \E s \in Sessions : Register(s)
            \/ \E k \in Items, c \in Maybe(Typed) : EditCode(k, c)
            \/ \E k \in Items, v \in Maybe(Skus) : Resku(k, v)
            \/ LoadItems \/ ApplyDefaults \/ UNCHANGED vars
  <2>1. UNCHANGED <<req, boxes>>
    BY <1>15 DEF Register, EditCode, Resku, LoadItems, ApplyDefaults, vars
  <2>2. \A s \in Sessions : Carried(s)'
    BY <1>4, <2>1
  <2>. QED
    BY <1>3, <2>1, <2>2 DEF Receipts
<1>. QED
  BY <1>8, <1>9, <1>10, <1>11, <1>12, <1>13, <1>14, <1>15 DEF Next, Handle

LEMMA InitHeld == Init => Held
<1>. SUFFICES ASSUME Init PROVE Held
  OBVIOUS
<1>1. \A s \in Sessions : req[s] = Idle
  BY DEF Init
<1>2. Choices
  BY <1>1, NobodyChoosing DEF Choices
<1>3. Receipts
  BY <1>1, IdleRequest, NoItemsMapping DEF Receipts, Init
<1>. QED
  BY <1>2, <1>3, InitIndexed DEF Held, Chosens

LEMMA HeldStep == Held /\ [Next]_vars => Held'
BY IndexedStep, ChoicesKept, ReceiptsKept DEF Held, Chosens

\* A box receipt carries the code its item has, unless the code was replaced by
\* somebody who had no part in the session that wrote it.
THEOREM BoxesAgree == Spec => []BoxesCarryTheCode
<1>1. Held => BoxesCarryTheCode
  BY DEF Held, Receipts, BoxesCarryTheCode
<1>. QED
  BY <1>1, InitHeld, HeldStep, PTL DEF Spec

---------------------------------------------------------------------------
(* What Luma was told.                                                     *)

Heard == Indexed /\ Told

\* A code that an item loses has come loose.
LooseGrows ==
    /\ loose \subseteq loose'
    /\ \A j \in Items : code[j] = None \/ code'[j] = code[j] \/ code[j] \in loose'

\* A code given is kept, or committed, or, if Luma heard of it, loose.
GivenKept(s) ==
    \A j \in DOMAIN req[s].own :
        \/ j \in DOMAIN req'[s].own /\ req'[s].own[j] = req[s].own[j]
        \/ code'[j] = req[s].own[j]
        \/ luma[req[s].own[j]] = j => req[s].own[j] \in loose'

LEMMA StepLoosens ==
    ASSUME Indexed, [Next]_vars
    PROVE  LooseGrows
<1>. USE DEF Indexed
<1>1. CASE \E s \in Sessions : Adopt(s) \/ Commit(s)
  <2>1. PICK s \in Sessions : CommitOwn(s)
    BY <1>1 DEF Adopt, Commit
  <2>2. /\ \A i \in DOMAIN req[s].own : code'[i] = req[s].own[i]
        /\ \A i \in Items \ DOMAIN req[s].own : code'[i] = code[i]
        /\ loose \subseteq loose'
        /\ \A i \in DOMAIN req[s].own :
              code[i] # None /\ code[i] # req[s].own[i] => code[i] \in loose'
    BY <2>1, CommitOwnEffect
  <2>. QED
    BY <2>2 DEF LooseGrows
<1>2. CASE \E i \in Items, c \in Maybe(Typed) : EditCode(i, c)
  BY <1>2 DEF EditCode, LooseGrows, TypeOK
<1>3. CASE ApplyDefaults
  <2>. DEFINE new == Restrict(script.sku, SafeDefaults)
              all == [i \in SafeDefaults |-> TRUE]
  <2>1. new \in Mapping(Codes) /\ DOMAIN new = SafeDefaults
    BY DefaultsMapping
  <2>2. UNCHANGED <<code, loose>> \/ CommitCodes(new, all)
    BY <1>3 DEF ApplyDefaults
  <2>3. CASE CommitCodes(new, all)
    <3>. HIDE DEF new, all
    <3>1. /\ \A i \in DOMAIN new : code'[i] = new[i]
          /\ \A i \in Items \ DOMAIN new : code'[i] = code[i]
          /\ loose \subseteq loose'
          /\ \A i \in DOMAIN new : code[i] # None /\ code[i] # new[i] => code[i] \in loose'
      BY <2>1, <2>3, CommitCodesEffect, Zenon
    <3>. QED
      BY <3>1 DEF LooseGrows
  <2>4. CASE UNCHANGED <<code, loose>>
    BY <2>4 DEF LooseGrows
  <2>. QED
    BY <2>2, <2>3, <2>4
<1>4. CASE \E s \in Sessions : FlushCollides(s) \/ Fail(s)
  BY <1>4 DEF FlushCollides, Fail, LooseGrows
<1>5. CASE UNCHANGED <<code, loose>>
  BY <1>5 DEF LooseGrows
<1>. QED
  BY <1>1, <1>2, <1>3, <1>4, <1>5 DEF Next, Handle, vars, Ensure, Flush, Register,
     Reread, Box, Resku, LoadItems

\* By the session that moves; the others keep what they have.
LEMMA StepKeepsGiven ==
    ASSUME Indexed, [Next]_vars, NEW s \in Sessions
    PROVE  GivenKept(s)
<1>. USE DEF Indexed
<1>1. ASSUME req'[s].own = req[s].own PROVE GivenKept(s)
  BY <1>1 DEF GivenKept
<1>2. CASE \E u \in Sessions : Adopt(u) \/ Commit(u)
  <2>1. PICK u \in Sessions : Adopt(u) \/ Commit(u)
    BY <1>2
  <2>2. CommitOwn(u) /\ Others(u)
    BY <2>1, AdoptEffect, EndEffect DEF Adopt, Commit
  <2>3. \A i \in DOMAIN req[u].own : code'[i] = req[u].own[i]
    BY <2>2, CommitOwnEffect
  <2>. QED
    BY <1>1, <2>2, <2>3 DEF Others, GivenKept
<1>3. CASE \E u \in Sessions : FlushCollides(u) \/ Fail(u)
  <2>1. PICK u \in Sessions : Fail(u)
    BY <1>3 DEF FlushCollides
  <2>2. Others(u)
    BY <2>1, EndEffect DEF Fail
  <2>3. \A j \in DOMAIN req[u].own : luma[req[u].own[j]] = j => req[u].own[j] \in loose'
    BY <2>1 DEF Fail
  <2>. QED
    BY <1>1, <2>2, <2>3 DEF Others, GivenKept
<1>4. CASE \E u \in Sessions : Flush(u)
  <2>1. PICK u \in Sessions : Flush(u)
    BY <1>4
  <2>2. /\ Others(u)
        /\ DOMAIN req'[u].own = DOMAIN req[u].own \cup {req[u].at}
        /\ \A j \in DOMAIN req[u].own : req'[u].own[j] = req[u].own[j]
    BY <2>1, FlushEffect
  <2>. QED
    BY <1>1, <2>2 DEF Others, GivenKept
<1>5. CASE \/ \E u \in Sessions, i \in Items : Ensure(u, i)
           \/ \E u \in Sessions : Reread(u) \/ Box(u)
  <2>1. PICK u \in Sessions : Others(u) /\ req'[u].own = req[u].own
    BY <1>5, EnsureEffect, RereadEffect, BoxEffect
  <2>. QED
    BY <1>1, <2>1 DEF Others
<1>6. CASE UNCHANGED req
  BY <1>1, <1>6
<1>. QED
  BY <1>2, <1>3, <1>4, <1>5, <1>6 DEF Next, Handle, vars, Register, EditCode, Resku,
     LoadItems, ApplyDefaults

LEMMA ToldKept ==
    ASSUME Heard, [Next]_vars
    PROVE  Told'
<1>. USE DEF Heard, Indexed
<1>. DEFINE Telling(s) ==
        req[s].pc = "coded" /\ req[s].code # None =>
            \/ req[s].code \in loose \cup {code[req[s].at]}
            \/ req[s].at \in DOMAIN req[s].own /\ req[s].code = req[s].own[req[s].at]
<1>1. LooseGrows /\ \A s \in Sessions : GivenKept(s)
  BY StepLoosens, StepKeepsGiven
<1>2. \A s \in Sessions : Telling(s)
  BY DEF Told
<1>3. ASSUME NEW c \in Codes, NEW i \in Items, luma[c] = i PROVE ToldOf(c, i)'
  <2>1. c # None /\ ToldOf(c, i)
    BY <1>3, Constants DEF Told
  <2>2. CASE c \in loose \/ c = code[i]
    BY <1>1, <2>1, <2>2 DEF LooseGrows, ToldOf
  <2>3. CASE \E s \in Sessions : i \in DOMAIN req[s].own /\ c = req[s].own[i]
    BY <1>1, <1>3, <2>3 DEF GivenKept, ToldOf
  <2>. QED
    BY <2>1, <2>2, <2>3 DEF ToldOf
<1>4. ASSUME UNCHANGED luma
      PROVE  (\A c \in Codes : luma[c] # None => ToldOf(c, luma[c]))'
  <2>1. ASSUME NEW c \in Codes, NEW i, i = luma[c], i # None PROVE ToldOf(c, i)'
    <3>1. i \in Items
      BY <2>1 DEF TypeOK, Maybe
    <3>. QED
      BY <1>3, <2>1, <3>1
  <2>. QED
    BY <1>4, <2>1
<1>5. ASSUME NEW s \in Sessions, req'[s] = req[s] PROVE Telling(s)'
  <2>1. req[s].pc = "coded" => req[s].at \in Items
    BY DEF AtItem
  <2>. QED
    BY <1>1, <1>2, <1>5, <2>1 DEF LooseGrows
<1>6. ASSUME NEW s \in Sessions, Others(s), Telling(s)', UNCHANGED luma
      PROVE  Told'
  <2>1. \A t \in Sessions : Telling(t)'
    BY <1>5, <1>6 DEF Others
  <2>2. (\A c \in Codes : luma[c] # None => ToldOf(c, luma[c]))'
    BY <1>4, <1>6
  <2>. QED
    BY <2>1, <2>2 DEF Told
<1>7. ASSUME UNCHANGED <<req, luma>>
      PROVE  Told'
  <2>1. \A t \in Sessions : Telling(t)'
    BY <1>5, <1>7
  <2>2. (\A c \in Codes : luma[c] # None => ToldOf(c, luma[c]))'
    BY <1>4, <1>7
  <2>. QED
    BY <2>1, <2>2 DEF Told
<1>8. CASE \E s \in Sessions, i \in Items : Ensure(s, i)
  <2>1. PICK s \in Sessions, i \in Items : Ensure(s, i)
    BY <1>8
  <2>2. /\ Others(s) /\ req'[s].at = i
        /\ code[i] # None => req'[s].pc = "coded" /\ req'[s].code = code[i]
        /\ code[i] = None => req'[s].pc = "want" /\ req'[s].code = Choice(s, i)
    BY <2>1, EnsureEffect
  <2>3. UNCHANGED <<code, luma>>
    BY <2>1 DEF Ensure
  <2>. QED
    BY <1>6, <2>2, <2>3
<1>9. CASE \E s \in Sessions : Flush(s)
  <2>1. PICK s \in Sessions : Flush(s)
    BY <1>9
  <2>2. /\ Others(s) /\ req'[s].at = req[s].at /\ req'[s].code = req[s].code
        /\ DOMAIN req'[s].own = DOMAIN req[s].own \cup {req[s].at}
        /\ req'[s].own[req[s].at] = req[s].code
    BY <2>1, FlushEffect
  <2>3. UNCHANGED luma
    BY <2>1 DEF Flush
  <2>. QED
    BY <1>6, <2>2, <2>3
<1>10. CASE \E s \in Sessions : FlushCollides(s) \/ Fail(s) \/ Commit(s) \/ Adopt(s) \/ Box(s)
  <2>1. PICK s \in Sessions : End(s) \/ Adopt(s) \/ Box(s)
    BY <1>10 DEF FlushCollides, Fail, Commit
  <2>2. Others(s) /\ req'[s].pc # "coded"
    BY <2>1, EndEffect, AdoptEffect, BoxEffect, IdleRequest
  <2>3. UNCHANGED luma
    BY <1>10 DEF FlushCollides, Fail, Commit, Adopt, Box
  <2>. QED
    BY <1>6, <2>2, <2>3
<1>11. CASE \E s \in Sessions : Reread(s)
  <2>1. PICK s \in Sessions : Reread(s)
    BY <1>11
  <2>2. Others(s) /\ req'[s].at = req[s].at /\ req'[s].code = code[req[s].at]
    BY <2>1, RereadEffect
  <2>3. UNCHANGED <<code, luma>>
    BY <2>1 DEF Reread
  <2>. QED
    BY <1>6, <2>2, <2>3
<1>12. CASE \E s \in Sessions : Register(s)
  <2>1. PICK s \in Sessions : Register(s)
    BY <1>12
  <2>2. PICK c, i : c = req[s].code /\ i = req[s].at
    OBVIOUS
  <2>3. c \in Codes /\ i \in Items /\ req[s].pc = "coded"
    BY <2>1, <2>2 DEF Register, Registrable, AtItem, TypeOK, Request, Maybe
  <2>4. ToldOf(c, i)
    BY <1>2, <2>2, <2>3, Constants DEF ToldOf
  <2>5. UNCHANGED <<req, code, loose>> /\ luma' = [luma EXCEPT ![c] = i]
    BY <2>1, <2>2 DEF Register
  <2>6. ASSUME NEW d \in Codes, NEW j, j = luma'[d], j # None PROVE ToldOf(d, j)'
    <3>1. j \in Items /\ ((d = c /\ j = i) \/ luma[d] = j)
      BY <2>3, <2>5, <2>6 DEF TypeOK, Maybe
    <3>2. ToldOf(d, j)
      BY <2>4, <2>6, <3>1 DEF Told
    <3>. QED
      BY <2>5, <3>2 DEF ToldOf
  <2>7. \A t \in Sessions : Telling(t)'
    BY <1>5, <2>5
  <2>. QED
    BY <2>6, <2>7 DEF Told
<1>13. CASE \/ \E k \in Items, c \in Maybe(Typed) : EditCode(k, c)
            \/ \E k \in Items, v \in Maybe(Skus) : Resku(k, v)
            \/ LoadItems \/ ApplyDefaults \/ UNCHANGED vars
  BY <1>7, <1>13 DEF EditCode, Resku, LoadItems, ApplyDefaults, vars
<1>. QED
  BY <1>8, <1>9, <1>10, <1>11, <1>12, <1>13 DEF Next, Handle

LEMMA InitHeard == Init => Heard
<1>. SUFFICES ASSUME Init PROVE Heard
  OBVIOUS
<1>1. \A s \in Sessions : req[s].pc = "idle"
  BY IdleRequest DEF Init
<1>2. Told
  BY <1>1 DEF Told, Init
<1>. QED
  BY <1>2, InitIndexed DEF Heard

LEMMA HeardStep == Heard /\ [Next]_vars => Heard'
BY IndexedStep, ToldKept DEF Heard

\* Luma has the code of an item for that item or for none, unless the code was
\* rolled back or taken from an item after Luma had heard of it.
THEOREM LumaKnows == Spec => []LumaAgrees
<1>1. ASSUME Heard PROVE LumaAgrees
  <2>. USE <1>1 DEF Heard, Indexed
  <2>1. SUFFICES ASSUME NEW i \in Items, NEW c, c = code[i], c # None, RowFree(i, None),
                        NEW j, j = luma[c], j \notin {i, None}, c \notin loose
                 PROVE  FALSE
    BY DEF LumaAgrees
  <2>2. c \in Codes /\ j \in Items
    BY <2>1 DEF TypeOK, Maybe
  <2>3. ToldOf(c, j)
    BY <2>1, <2>2 DEF Told
  <2>4. c # code[j]
    BY <2>1, <2>2 DEF TypeOK
  <2>5. PICK s \in Sessions : j \in DOMAIN req[s].own /\ c = req[s].own[j]
    BY <2>1, <2>3, <2>4 DEF ToldOf
  <2>6. i \notin DOMAIN req[s].own
    BY <2>1, Constants DEF RowFree
  <2>. QED
    BY <2>1, <2>5, <2>6 DEF CodesApart
<1>. QED
  BY <1>1, InitHeard, HeardStep, PTL DEF Spec
=============================================================================
