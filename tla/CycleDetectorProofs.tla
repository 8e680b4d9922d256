------------------------ MODULE CycleDetectorProofs ------------------------
(* Proofs about the perceived cycles of CycleDetector, for any number of   *)
(* actors, threads and messages.  The proofs about the counts (OrcaProofs) *)
(* give the types of what the actors report.                               *)
EXTENDS OrcaProofs

-----------------------------------------------------------------------------
(* The invariant. *)

\* The view of an actor that a detector may hold.
GoodViews(vw) ==
  vw \in [Actor -> [rc : Int, blocked : BOOLEAN, map : [Actor -> Nat],
                    delta : Deltas, per : Nat]]

\* Finitely many cycles are perceived, under tokens that are not NULL.
GoodTokens(per) ==
  /\ GoodPerceived(per)
  /\ IsFiniteSet(DOMAIN per) /\ DOMAIN per \subseteq Nat \ {0}

\* A report to the detector, and a queue of them.
GoodReport(m) ==
  /\ m.kind \in {"block", "unblock", "ack"}
  /\ m.kind \in {"block", "unblock"} => m.actor \in Actor
  /\ m.kind = "block" => m.rc \in Int /\ m.delta \in Deltas

GoodReports(q) ==
  /\ q \in Seq({q[i] : i \in DOMAIN q})
  /\ \A i \in 1 .. Len(q) : GoodReport(q[i])

\* The views of D are blocked.
AllBlocked(vw, D) == \A a \in D : a \in Actor /\ vw[a].blocked

\* Every member of a perceived cycle points to that cycle and is blocked; and
\* the same but for one view, which may have changed.
Disjoint(vw, per) ==
  \A t \in DOMAIN per : \A a \in per[t].map : vw[a].per = t /\ vw[a].blocked

DisjointBut(vw, per, x) ==
  \A t \in DOMAIN per : \A a \in per[t].map :
    vw[a].per = t /\ (a = x \/ vw[a].blocked)

DetectorInv ==
  /\ GoodViews(view) /\ GoodTokens(perceived) /\ GoodReports(cdq)
  /\ AllBlocked(view, deferred)
  /\ reported = {} => Disjoint(view, perceived)
  /\ Asserts => CollectedIsPerceived

-----------------------------------------------------------------------------
(* A fresh token. *)

\* A function takes finitely many values on a finite set.
LEMMA ValuesFinite ==
  ASSUME NEW S, IsFiniteSet(S), NEW f, f = [x \in S |-> f[x]]
  PROVE  IsFiniteSet({f[x] : x \in S})
<1> DEFINE T == {f[x] : x \in S}
<1>1. f \in Surjection(S, T)
  BY DEF Surjection
<1> HIDE DEF T
<1>2. IsFiniteSet(T)
  BY <1>1, FS_Surjection
<1> QED BY <1>2 DEF T

\* A set of numbers that is not empty has a smallest element.
LEMMA SmallestExists ==
  ASSUME NEW T, T \subseteq Nat, T # {}
  PROVE  Min(T) \in T /\ \A y \in T : Min(T) <= y
<1>1. PICK n \in T : \A m \in T : ~(<<m, n>> \in OpToRel(<, Nat))
  BY WFMin, NatLessThanWellFounded, Zenon
<1>2. ASSUME NEW m \in T PROVE n <= m
  <2>1. n \in Nat /\ m \in Nat
    OBVIOUS
  <2>2. ~(m < n)
    BY <1>1, <2>1, Zenon DEF OpToRel
  <2> QED BY <2>1, <2>2
<1> QED BY <1>2 DEF Min

\* The least number not in a finite set is not in it.
LEMMA LeastUnused ==
  ASSUME NEW U, IsFiniteSet(U)
  PROVE  LET x == Min({1 + Cardinality(U)} \cup (1..Cardinality(U) \ U))
         IN  x \in Nat \ {0} /\ x \notin U
<1>1. PICK n : n = Cardinality(U)
  OBVIOUS
<1>2. n \in Nat
  BY <1>1, FS_CardinalityType
<1>3. PICK T : T = {1 + n} \cup ((1 .. n) \ U)
  OBVIOUS
<1>4. T \subseteq Nat \ {0} /\ T \subseteq Nat /\ T # {}
  BY <1>2, <1>3
<1>5. PICK x : x = Min(T)
  OBVIOUS
<1>6. x \in T /\ \A y \in T : x <= y
  BY <1>4, <1>5, SmallestExists
<1>7. x \notin U
  <2>1. CASE x \in (1 .. n) \ U
    BY <2>1
  <2>2. CASE x = 1 + n
    <3>1. 1 .. n \subseteq U
      <4> SUFFICES ASSUME NEW y \in 1 .. n, y \notin U PROVE FALSE
        OBVIOUS
      <4>1. y \in T
        BY <1>3
      <4>2. x <= y
        BY <1>6, <4>1
      <4> QED BY <1>2, <2>2, <4>2
    <3>2. Cardinality(1 .. n) = n
      BY <1>2, FS_Interval
    <3>3. U = 1 .. n
      BY <1>1, <3>1, <3>2, FS_Subset
    <3> QED BY <1>2, <2>2, <3>3
  <2> QED BY <1>3, <1>6, <2>1, <2>2
<1> QED BY <1>1, <1>3, <1>4, <1>5, <1>6, <1>7

\* A queue of a message more, and of one less.
LEMMA ReportAdded ==
  ASSUME NEW q, GoodReports(q), NEW m, GoodReport(m)
  PROVE  GoodReports(Append(q, m))
<1> DEFINE r == Append(q, m)
           S == {q[i] : i \in DOMAIN q} \cup {m}
<1>1. Len(q) \in Nat /\ DOMAIN q = 1 .. Len(q)
  BY DEF GoodReports
<1>2. q \in Seq(S) /\ m \in S
  BY DEF GoodReports
<1> HIDE DEF S
<1>3. /\ r \in Seq(S) /\ Len(r) = Len(q) + 1 /\ DOMAIN r = 1 .. Len(q) + 1
      /\ r[Len(q) + 1] = m /\ \A i \in 1 .. Len(q) : r[i] = q[i]
  BY <1>1, <1>2
<1> HIDE DEF r
<1>4. \A i \in 1 .. Len(r) : GoodReport(r[i])
  BY <1>1, <1>3 DEF GoodReports
<1>5. r \in Seq({r[i] : i \in DOMAIN r})
  <2>1. Len(r) \in Nat /\ r \in [1 .. Len(r) -> {r[i] : i \in DOMAIN r}]
    BY <1>1, <1>3
  <2> QED BY <2>1
<1>6. GoodReports(r)
  BY <1>4, <1>5 DEF GoodReports
<1> QED BY <1>6 DEF r

\* The detector takes the oldest report.
LEMMA ReportTaken ==
  ASSUME NEW q, GoodReports(q), q # <<>>
  PROVE  GoodReports(Tail(q)) /\ GoodReport(Head(q))
<1> DEFINE r == Tail(q)
           S == {q[i] : i \in DOMAIN q}
<1>1. Len(q) \in Nat /\ DOMAIN q = 1 .. Len(q) /\ q \in Seq(S)
  BY DEF GoodReports
<1> HIDE DEF S
<1>2. Len(q) > 0 /\ Head(q) = q[1]
  BY <1>1
<1>3. /\ r \in Seq(S) /\ Len(r) = Len(q) - 1 /\ DOMAIN r = 1 .. Len(q) - 1
      /\ \A i \in 1 .. Len(q) - 1 : r[i] = q[i + 1]
  BY <1>1, <1>2
<1> HIDE DEF r
<1>4. \A i \in 1 .. Len(r) : GoodReport(r[i])
  BY <1>1, <1>3 DEF GoodReports
<1>5. r \in Seq({r[i] : i \in DOMAIN r})
  <2>1. Len(r) \in Nat /\ r \in [1 .. Len(r) -> {r[i] : i \in DOMAIN r}]
    BY <1>1, <1>2, <1>3
  <2> QED BY <2>1
<1>6. GoodReports(r)
  BY <1>4, <1>5 DEF GoodReports
<1> QED BY <1>1, <1>2, <1>6 DEF r, GoodReports

\* The tokens of perceived cycles, of views and of messages on their way are
\* finitely many, so that the token of a new cycle is none of them.
LEMMA FreshIsNew ==
  ASSUME OrcaInv, GoodReports(cdq), NEW per, GoodTokens(per)
  PROVE  FreshToken(per) \in Nat \ {0} /\ FreshToken(per) \notin DOMAIN per
<1> DEFINE I(a) == {i \in DOMAIN queue[a] : queue[a][i].kind = "conf"}
           B(a) == {queue[a][i] : i \in I(a)}
           M == UNION {B(a) : a \in Actor}
           inQueue == {m.token : m \in M}
           J == {i \in DOMAIN cdq : cdq[i].kind = "ack"}
           inCdq == {cdq[i].token : i \in J}
           V == {view[a].per : a \in Actor}
           used == DOMAIN per \cup inQueue \cup inCdq \cup V
<1>1. \A a \in Actor : IsFiniteSet(DOMAIN queue[a])
  <2>1. \A a \in Actor : DOMAIN queue[a] = 1 .. Len(queue[a]) /\ Len(queue[a]) \in Nat
    BY DEF OrcaInv, OrcaTypes, GoodQueues, GoodSeq
  <2> QED BY <2>1, FS_Interval
<1>2. ASSUME NEW a \in Actor PROVE IsFiniteSet(B(a))
  <2>1. IsFiniteSet(I(a))
    BY <1>1, FS_Subset
  <2>2. PICK f : f = [i \in I(a) |-> queue[a][i]]
    OBVIOUS
  <2>3. f = [i \in I(a) |-> f[i]] /\ B(a) = {f[i] : i \in I(a)}
    BY <2>2
  <2> HIDE DEF I, B
  <2> QED BY <2>1, <2>3, ValuesFinite
<1>3. IsFiniteSet(M)
  <2> HIDE DEF B
  <2>1. PICK f : f = [a \in Actor |-> B(a)]
    OBVIOUS
  <2>2. PICK W : W = {f[a] : a \in Actor}
    OBVIOUS
  <2>3. IsFiniteSet(W)
    BY <2>1, <2>2, ActorsFinite, ValuesFinite
  <2>4. \A T \in W : IsFiniteSet(T)
    BY <1>2, <2>1, <2>2
  <2>5. M = UNION W
    BY <2>1, <2>2
  <2> HIDE DEF M
  <2> QED BY <2>3, <2>4, <2>5, FS_UNION
<1>4. IsFiniteSet(inQueue)
  <2> HIDE DEF M
  <2>1. PICK f : f = [m \in M |-> m.token]
    OBVIOUS
  <2>2. f = [m \in M |-> f[m]] /\ inQueue = {f[m] : m \in M}
    BY <2>1
  <2> QED BY <1>3, <2>2, ValuesFinite
<1>5. IsFiniteSet(inCdq)
  <2>1. DOMAIN cdq = 1 .. Len(cdq) /\ Len(cdq) \in Nat
    BY DEF GoodReports
  <2>2. IsFiniteSet(DOMAIN cdq)
    BY <2>1, FS_Interval
  <2>3. IsFiniteSet(J)
    BY <2>2, FS_Subset
  <2> HIDE DEF J
  <2>4. PICK f : f = [i \in J |-> cdq[i].token]
    OBVIOUS
  <2>5. f = [i \in J |-> f[i]] /\ inCdq = {f[i] : i \in J}
    BY <2>4
  <2> QED BY <2>3, <2>5, ValuesFinite
<1>6. IsFiniteSet(V)
  <2>1. PICK f : f = [a \in Actor |-> view[a].per]
    OBVIOUS
  <2>2. f = [a \in Actor |-> f[a]] /\ V = {f[a] : a \in Actor}
    BY <2>1
  <2> QED BY <2>2, ActorsFinite, ValuesFinite
<1>7. IsFiniteSet(used)
  <2> HIDE DEF inQueue, inCdq, V
  <2>1. IsFiniteSet(DOMAIN per)
    BY DEF GoodTokens
  <2> QED BY <1>4, <1>5, <1>6, <2>1, FS_Union
<1>8. FreshToken(per) = Min({1 + Cardinality(used)} \cup (1..Cardinality(used) \ used))
  BY DEF FreshToken
<1>9. DOMAIN per \subseteq used
  OBVIOUS
<1> HIDE DEF used
<1> QED BY <1>7, <1>8, <1>9, LeastUnused

-----------------------------------------------------------------------------
(* The views. *)

\* What a scan from a blocked view visits, and what it finds, is blocked.
LEMMA FoundBlocked ==
  ASSUME NEW vw, NEW known, NEW r \in Actor, vw[r].blocked
  PROVE  AllBlocked(vw, FoundBy(vw, known, r))
<1>1. PICK blk, m, scanned : /\ blk = Blk(vw) /\ m = Edges(vw, known)
                             /\ scanned = ScannedFrom(r, blk, m)
  OBVIOUS
<1>2. DOMAIN blk = Actor /\ \A a \in Actor : blk[a] = vw[a].blocked
  BY <1>1 DEF Blk
<1>3. PICK S : S = {v \in Actor : blk[v]}
  OBVIOUS
<1>4. S \in SUBSET (DOMAIN blk) /\ r \in S
  BY <1>2, <1>3
<1>5. \A u \in S, v \in DOMAIN blk : m[u][v] > 0 /\ blk[v] => v \in S
  BY <1>2, <1>3
<1>6. scanned \subseteq S
  BY <1>1, <1>4, <1>5 DEF ScannedFrom
<1>7. FoundBy(vw, known, r) \subseteq scanned
  BY <1>1 DEF FoundBy, GarbageFrom
<1> QED BY <1>2, <1>3, <1>6, <1>7 DEF AllBlocked

\* A map with a delta applied is a map.
LEMMA AppliedType ==
  ASSUME NEW vw, GoodViews(vw), NEW known, NEW a \in Actor
  PROVE  Applied(vw, known, a) \in [Actor -> Nat]
<1>1. vw[a].map \in [Actor -> Nat] /\ vw[a].delta \in Deltas
  BY DEF GoodViews
<1>2. PICK d, m : d = vw[a].delta /\ m = vw[a].map
  OBVIOUS
<1>3. PICK D \in SUBSET Actor : d \in [D -> Nat]
  BY <1>1, <1>2 DEF Deltas
<1>4. \A c \in DOMAIN d : d[c] \in Nat
  BY <1>3
<1> QED BY <1>1, <1>2, <1>4 DEF Applied

\* No change is a delta.
LEMMA NoDeltaType == NoDelta \in Deltas
<1>1. NoDelta \in [{} -> Nat] /\ {} \in SUBSET Actor
  BY DEF NoDelta
<1> QED BY <1>1 DEF Deltas

\* apply_delta leaves all but the map and the delta alone.
LEMMA ApplyKeeps ==
  ASSUME NEW vw, GoodViews(vw), NEW known, NEW S
  PROVE  /\ GoodViews(ApplyDelta(vw, known, S))
         /\ \A a \in Actor :
              /\ ApplyDelta(vw, known, S)[a].per = vw[a].per
              /\ ApplyDelta(vw, known, S)[a].blocked = vw[a].blocked
<1>1. PICK ww : ww = ApplyDelta(vw, known, S)
  OBVIOUS
<1>2. ASSUME NEW a \in Actor
      PROVE  /\ ww[a] \in [rc : Int, blocked : BOOLEAN, map : [Actor -> Nat],
                           delta : Deltas, per : Nat]
             /\ ww[a].per = vw[a].per /\ ww[a].blocked = vw[a].blocked
  <2>1. PICK m, d : m = Applied(vw, known, a) /\ d = NoDelta
    OBVIOUS
  <2>2. m \in [Actor -> Nat] /\ d \in Deltas
    BY <2>1, AppliedType, NoDeltaType
  <2>3. PICK v : v = vw[a]
    OBVIOUS
  <2>4. v \in [rc : Int, blocked : BOOLEAN, map : [Actor -> Nat],
               delta : Deltas, per : Nat]
    BY <2>3 DEF GoodViews
  <2>5. ww[a] = IF a \in S THEN [v EXCEPT !.map = m, !.delta = d] ELSE v
    BY <1>1, <2>1, <2>3, Zenon DEF ApplyDelta
  <2> QED BY <2>2, <2>3, <2>4, <2>5
<1>3. GoodViews(ww)
  <2>1. ww = [a \in Actor |-> ww[a]]
    BY <1>1, Zenon DEF ApplyDelta
  <2> QED BY <1>2, <2>1 DEF GoodViews
<1> QED BY <1>1, <1>2, <1>3

\* Views whose cycles and flags are those of vw are as disjoint as vw.
LEMMA SameCycles ==
  ASSUME NEW vw, NEW ww, NEW per, GoodPerceived(per),
         \A a \in Actor : ww[a].per = vw[a].per /\ ww[a].blocked = vw[a].blocked,
         Disjoint(vw, per)
  PROVE  Disjoint(ww, per)
<1>1. \A t \in DOMAIN per : \A a \in per[t].map : a \in Actor
  BY DEF GoodPerceived
<1> QED BY <1>1 DEF Disjoint

\* expire(): the cycle of a view that has changed is gone and its members are
\* free; a view is in one cycle, so that no other cycle has lost a member.
LEMMA ExpireKeeps ==
  ASSUME NEW vw, GoodViews(vw), NEW per, GoodTokens(per), NEW x \in Actor
  PROVE  /\ GoodViews(ExpireViews(vw, per, x))
         /\ GoodTokens(ExpirePerceived(vw, per, x))
         /\ \A a \in Actor : ExpireViews(vw, per, x)[a].blocked = vw[a].blocked
         /\ DisjointBut(vw, per, x) =>
              Disjoint(ExpireViews(vw, per, x), ExpirePerceived(vw, per, x))
<1>1. PICK ww, pp : ww = ExpireViews(vw, per, x) /\ pp = ExpirePerceived(vw, per, x)
  OBVIOUS
<1>2. DOMAIN pp = DOMAIN per \ {vw[x].per} /\ \A t \in DOMAIN pp : pp[t] = per[t]
  BY <1>1 DEF ExpirePerceived
<1>3. GoodTokens(pp)
  <2>1. GoodPerceived(pp)
    BY <1>1, ExpireGood DEF GoodTokens
  <2>2. IsFiniteSet(DOMAIN pp)
    BY <1>2, FS_Subset DEF GoodTokens
  <2> QED BY <1>2, <2>1, <2>2 DEF GoodTokens
<1>4. ASSUME NEW a \in Actor
      PROVE  /\ ww[a] \in [rc : Int, blocked : BOOLEAN, map : [Actor -> Nat],
                           delta : Deltas, per : Nat]
             /\ ww[a].blocked = vw[a].blocked
  <2>1. PICK v : v = vw[a]
    OBVIOUS
  <2>2. v \in [rc : Int, blocked : BOOLEAN, map : [Actor -> Nat],
               delta : Deltas, per : Nat]
    BY <2>1 DEF GoodViews
  <2>3. ww[a] = v \/ ww[a] = [v EXCEPT !.per = 0]
    BY <1>1, <2>1 DEF ExpireViews
  <2> QED BY <2>1, <2>2, <2>3
<1>5. GoodViews(ww)
  <2>1. ww = [a \in Actor |-> ww[a]]
    BY <1>1 DEF ExpireViews
  <2> QED BY <1>4, <2>1 DEF GoodViews
<1>6. ASSUME DisjointBut(vw, per, x) PROVE Disjoint(ww, pp)
  <2> SUFFICES ASSUME NEW t \in DOMAIN pp, NEW a \in pp[t].map
               PROVE  ww[a].per = t /\ ww[a].blocked
    BY DEF Disjoint
  <2>1. t \in DOMAIN per /\ t # vw[x].per /\ a \in per[t].map
    BY <1>2
  <2>2. a \in Actor
    BY <2>1 DEF GoodTokens, GoodPerceived
  <2>3. vw[a].per = t /\ a # x /\ vw[a].blocked
    BY <1>6, <2>1 DEF DisjointBut
  <2>4. ~(vw[x].per \in DOMAIN per /\ a \in per[vw[x].per].map)
    BY <1>6, <2>1, <2>3 DEF DisjointBut
  <2>5. ww[a] = vw[a]
    BY <1>1, <2>2, <2>3, <2>4 DEF ExpireViews
  <2> QED BY <2>3, <2>5
<1> QED BY <1>1, <1>3, <1>4, <1>5, <1>6

\* detect(): the views of a new cycle were in none, or the assert of
\* mark_white has failed.
LEMMA DetectKeeps ==
  ASSUME OrcaInv, GoodReports(cdq), NEW r \in Actor, NEW vw, GoodViews(vw),
         vw[r].blocked, NEW known, NEW def, AllBlocked(vw, def),
         NEW per, GoodTokens(per), reported = {} => Disjoint(vw, per),
         DetectFrom(r, vw, known, def, per)
  PROVE  /\ GoodViews(view)' /\ GoodTokens(perceived)'
         /\ AllBlocked(view, deferred)'
         /\ (reported = {} => Disjoint(view, perceived))'
         /\ CollectedIsPerceived => CollectedIsPerceived'
<1>1. PICK scanned, found, scan : /\ scanned = ScannedBy(vw, known, r)
                                  /\ found = FoundBy(vw, known, r)
                                  /\ scan = ApplyDelta(vw, known, scanned)
  OBVIOUS
<1>2. /\ GoodViews(scan)
      /\ \A a \in Actor : scan[a].per = vw[a].per /\ scan[a].blocked = vw[a].blocked
  BY <1>1, ApplyKeeps
<1>3. deferred' = def \ scanned
  BY <1>1, Zenon DEF DetectFrom
<1>4. GoodPerceived(per)
  BY DEF GoodTokens
<1>5. CASE found = {}
  <2>1. view' = scan /\ perceived' = per /\ reported' = reported
    BY <1>1, <1>5 DEF DetectFrom
  <2>2. AllBlocked(view', deferred')
    BY <1>2, <1>3, <2>1 DEF AllBlocked
  <2>3. reported = {} => Disjoint(scan, per)
    BY <1>2, <1>4, SameCycles
  <2> QED BY <1>2, <2>1, <2>2, <2>3, Zenon DEF CollectedIsPerceived
<1>6. CASE found # {}
  <2>0. PICK n : n = FreshToken(per)
    OBVIOUS
  <2>1. PICK g \in NextGroups(found, {}) :
          /\ view' = [a \in Actor |-> IF a \in found
                                      THEN [scan[a] EXCEPT !.per = n]
                                      ELSE scan[a]]
          /\ perceived' = [t \in DOMAIN per \cup {n} |->
                             IF t = n
                             THEN [map |-> found, ack |-> 0, asked |-> g]
                             ELSE per[t]]
          /\ reported' = reported
               \cup {"white view is perceived" : a \in {a \in found : vw[a].per # 0}}
               \cup {"destroyed actor used" : a \in g \ alive}
    BY <1>1, <1>6, <2>0, Zenon DEF DetectFrom
  <2>2. n \in Nat \ {0} /\ n \notin DOMAIN per
    BY <2>0, FreshIsNew
  <2>3. AllBlocked(vw, found) /\ found \subseteq Actor
    BY <1>1, FoundBlocked, FoundActors
  <2>4. ASSUME NEW a \in Actor
        PROVE  /\ view'[a] \in [rc : Int, blocked : BOOLEAN, map : [Actor -> Nat],
                                delta : Deltas, per : Nat]
               /\ view'[a].blocked = vw[a].blocked
               /\ view'[a].per = IF a \in found THEN n ELSE vw[a].per
    <3>1. PICK v : v = scan[a]
      OBVIOUS
    <3>2. v \in [rc : Int, blocked : BOOLEAN, map : [Actor -> Nat],
                 delta : Deltas, per : Nat]
      BY <1>2, <3>1 DEF GoodViews
    <3>3. view'[a] = IF a \in found THEN [v EXCEPT !.per = n] ELSE v
      BY <2>1, <3>1, Zenon
    <3>4. v.per = vw[a].per /\ v.blocked = vw[a].blocked
      BY <1>2, <3>1
    <3> QED BY <2>2, <3>2, <3>3, <3>4
  <2>5. GoodViews(view')
    BY <2>1, <2>4, Zenon DEF GoodViews
  <2>6. GoodTokens(perceived')
    <3>1. g \subseteq Actor
      BY <2>3 DEF NextGroups
    <3>2. GoodPerceived(perceived')
      <4>1. perceived' = [t \in DOMAIN per \cup {n} |->
                            IF t = n
                            THEN [map |-> found, ack |-> 0, asked |-> g]
                            ELSE per[t]]
        BY <2>1, Zenon
      <4> QED BY <1>4, <2>3, <3>1, <4>1 DEF GoodPerceived
    <3>3. DOMAIN perceived' = DOMAIN per \cup {n}
      BY <2>1, Zenon
    <3>4. IsFiniteSet(DOMAIN per \cup {n})
      BY FS_Singleton, FS_Union DEF GoodTokens
    <3> QED BY <2>2, <3>2, <3>3, <3>4 DEF GoodTokens
  <2>7. AllBlocked(view', deferred')
    BY <1>3, <2>4 DEF AllBlocked
  <2>8. ASSUME reported' = {} PROVE Disjoint(view', perceived')
    <3>1. reported = {} /\ \A a \in found : vw[a].per = 0
      BY <2>1, <2>8, Zenon
    <3> SUFFICES ASSUME NEW t \in DOMAIN perceived', NEW a \in perceived'[t].map
                 PROVE  view'[a].per = t /\ view'[a].blocked
      BY DEF Disjoint
    <3>2. CASE t = n
      <4>1. a \in found
        BY <2>1, <3>2, Zenon
      <4> QED BY <2>3, <2>4, <3>2, <4>1 DEF AllBlocked
    <3>3. CASE t # n
      <4>1. t \in DOMAIN per /\ a \in per[t].map
        BY <2>1, <3>3, Zenon
      <4>2. vw[a].per = t /\ vw[a].blocked /\ a \in Actor /\ t # 0
        BY <3>1, <4>1 DEF Disjoint, GoodTokens, GoodPerceived
      <4>3. a \notin found
        BY <3>1, <4>2
      <4> QED BY <2>4, <4>2, <4>3
    <3> QED BY <3>2, <3>3
  <2>9. CollectedIsPerceived => CollectedIsPerceived'
    BY <2>1, Zenon DEF CollectedIsPerceived
  <2> QED BY <2>5, <2>6, <2>7, <2>8, <2>9
<1> QED BY <1>5, <1>6

-----------------------------------------------------------------------------
(* The handlers of the detector. *)

\* block()
LEMMA BlockKeeps ==
  ASSUME OrcaInv, DetectorInv, HandleBlock
  PROVE  DetectorInv'
<1>1. PICK m, a : m = Head(cdq) /\ a = m.actor
  OBVIOUS
<1>2. PICK old : old = ApplyDelta(view, views \cup {a}, {a})
  OBVIOUS
<1>3. PICK fresh : fresh = IF m.delta = NoDelta THEN view
                           ELSE [old EXCEPT ![a].delta = m.delta]
  OBVIOUS
<1>4. PICK known : known = views \cup {a} \cup
                     (IF m.delta = NoDelta THEN {} ELSE Seen(view, {a}))
  OBVIOUS
<1>5. PICK upd : upd = [fresh EXCEPT ![a].rc = m.rc, ![a].blocked = TRUE]
  OBVIOUS
<1>6. PICK vw, per : /\ vw = ExpireViews(upd, perceived, a)
                     /\ per = ExpirePerceived(upd, perceived, a)
  OBVIOUS
<1>7. /\ Handles("block")
      /\ \/ DetectFrom(a, vw, known, deferred \ {a}, per)
         \/ /\ view' = vw /\ perceived' = per /\ deferred' = deferred \cup {a}
            /\ UNCHANGED reported
  BY <1>1, <1>2, <1>3, <1>4, <1>5, <1>6, Zenon DEF HandleBlock
<1>8. /\ GoodReports(cdq') /\ a \in Actor /\ m.rc \in Int /\ m.delta \in Deltas
      /\ GoodReports(cdq)
  <2>1. cdq # <<>> /\ m.kind = "block" /\ cdq' = Tail(cdq)
    BY <1>1, <1>7 DEF Handles
  <2>2. GoodReports(Tail(cdq)) /\ GoodReport(m) /\ GoodReports(cdq)
    BY <1>1, <2>1, ReportTaken DEF DetectorInv
  <2> QED BY <1>1, <2>1, <2>2 DEF GoodReport
<1>9. /\ GoodViews(fresh)
      /\ \A b \in Actor : fresh[b].per = view[b].per /\ fresh[b].blocked = view[b].blocked
  <2>1. CASE m.delta = NoDelta
    BY <1>3, <2>1 DEF DetectorInv
  <2>2. CASE m.delta # NoDelta
    <3>1. /\ GoodViews(old)
          /\ \A b \in Actor : old[b].per = view[b].per /\ old[b].blocked = view[b].blocked
      BY <1>2, ApplyKeeps DEF DetectorInv
    <3>2. PICK d : d = m.delta
      OBVIOUS
    <3>3. fresh = [old EXCEPT ![a].delta = d] /\ d \in Deltas
      BY <1>3, <1>8, <2>2, <3>2
    <3> QED BY <3>1, <3>3 DEF GoodViews
  <2> QED BY <2>1, <2>2
<1>10. /\ GoodViews(upd) /\ upd[a].blocked
       /\ \A b \in Actor : upd[b].per = view[b].per
                           /\ (view[b].blocked => upd[b].blocked)
  <2>1. PICK n : n = m.rc
    OBVIOUS
  <2>2. upd = [fresh EXCEPT ![a].rc = n, ![a].blocked = TRUE] /\ n \in Int
    BY <1>5, <1>8, <2>1
  <2>3. PICK v : v = fresh[a]
    OBVIOUS
  <2>4. v \in [rc : Int, blocked : BOOLEAN, map : [Actor -> Nat],
               delta : Deltas, per : Nat]
    BY <1>8, <1>9, <2>3 DEF GoodViews
  <2>5. PICK w : w = [v EXCEPT !.rc = n, !.blocked = TRUE]
    OBVIOUS
  <2>6. /\ w \in [rc : Int, blocked : BOOLEAN, map : [Actor -> Nat],
                  delta : Deltas, per : Nat]
        /\ w.per = v.per /\ w.blocked
    BY <2>2, <2>4, <2>5
  <2>7. upd = [fresh EXCEPT ![a] = w]
    BY <1>8, <1>9, <2>2, <2>3, <2>4, <2>5 DEF GoodViews
  <2>8. fresh \in [Actor -> [rc : Int, blocked : BOOLEAN, map : [Actor -> Nat],
                             delta : Deltas, per : Nat]]
    BY <1>9 DEF GoodViews
  <2>9. GoodViews(upd)
    BY <2>6, <2>7, <2>8 DEF GoodViews
  <2>10. \A b \in Actor : upd[b] = IF b = a THEN w ELSE fresh[b]
    BY <2>7, <2>8
  <2> QED BY <1>8, <1>9, <2>3, <2>6, <2>9, <2>10
<1>11. GoodTokens(perceived) /\ AllBlocked(view, deferred)
  BY DEF DetectorInv
<1>12. ASSUME reported = {} PROVE DisjointBut(upd, perceived, a)
  <2>1. Disjoint(view, perceived)
    BY <1>12 DEF DetectorInv
  <2>2. \A t \in DOMAIN perceived : perceived[t].map \subseteq Actor
    BY <1>11 DEF GoodTokens, GoodPerceived
  <2> QED BY <1>10, <2>1, <2>2 DEF Disjoint, DisjointBut
<1>13. /\ GoodViews(vw) /\ GoodTokens(per)
       /\ \A b \in Actor : vw[b].blocked = upd[b].blocked
       /\ reported = {} => Disjoint(vw, per)
  BY <1>6, <1>8, <1>10, <1>11, <1>12, ExpireKeeps
<1>14. AllBlocked(vw, deferred \cup {a})
  BY <1>8, <1>10, <1>11, <1>13 DEF AllBlocked
<1>15. CASE DetectFrom(a, vw, known, deferred \ {a}, per)
  <2>1. AllBlocked(vw, deferred \ {a}) /\ vw[a].blocked
    BY <1>14 DEF AllBlocked
  <2>2. /\ GoodViews(view)' /\ GoodTokens(perceived)'
        /\ AllBlocked(view, deferred)'
        /\ (reported = {} => Disjoint(view, perceived))'
        /\ CollectedIsPerceived => CollectedIsPerceived'
    BY <1>8, <1>13, <1>15, <2>1, DetectKeeps
  <2> QED BY <1>8, <2>2 DEF DetectorInv
<1>16. CASE /\ view' = vw /\ perceived' = per /\ deferred' = deferred \cup {a}
            /\ UNCHANGED reported
  BY <1>8, <1>13, <1>14, <1>16, Zenon DEF DetectorInv, CollectedIsPerceived
<1> QED BY <1>7, <1>15, <1>16

\* unblock()
LEMMA UnblockKeeps ==
  ASSUME OrcaInv, DetectorInv, HandleUnblock
  PROVE  DetectorInv'
<1>1. PICK m, a : m = Head(cdq) /\ a = m.actor
  OBVIOUS
<1>2. PICK upd : upd = [view EXCEPT ![a].blocked = FALSE]
  OBVIOUS
<1>3. /\ Handles("unblock") /\ deferred' = deferred \ {a} /\ UNCHANGED reported
      /\ view' = ExpireViews(upd, perceived, a)
      /\ perceived' = ExpirePerceived(view, perceived, a)
  BY <1>1, <1>2 DEF HandleUnblock
<1>4. GoodReports(cdq') /\ a \in Actor
  <2>1. cdq # <<>> /\ m.kind = "unblock" /\ cdq' = Tail(cdq)
    BY <1>1, <1>3 DEF Handles
  <2>2. GoodReports(Tail(cdq)) /\ GoodReport(m)
    BY <1>1, <2>1, ReportTaken DEF DetectorInv
  <2> QED BY <1>1, <2>1, <2>2 DEF GoodReport
<1>5. GoodTokens(perceived) /\ AllBlocked(view, deferred) /\ GoodViews(view)
  BY DEF DetectorInv
<1>6. /\ GoodViews(upd)
      /\ \A b \in Actor : upd[b].per = view[b].per
                          /\ (b # a => upd[b].blocked = view[b].blocked)
  BY <1>2, <1>4, <1>5 DEF GoodViews
<1>7. ASSUME reported = {} PROVE DisjointBut(upd, perceived, a)
  <2>1. Disjoint(view, perceived)
    BY <1>7 DEF DetectorInv
  <2>2. \A t \in DOMAIN perceived : perceived[t].map \subseteq Actor
    BY <1>5 DEF GoodTokens, GoodPerceived
  <2> QED BY <1>6, <2>1, <2>2 DEF Disjoint, DisjointBut
<1>8. perceived' = ExpirePerceived(upd, perceived, a)
  BY <1>3, <1>4, <1>6 DEF ExpirePerceived
<1>9. /\ GoodViews(view') /\ GoodTokens(perceived')
      /\ \A b \in Actor : view'[b].blocked = upd[b].blocked
      /\ reported = {} => Disjoint(view', perceived')
  BY <1>3, <1>4, <1>5, <1>6, <1>7, <1>8, ExpireKeeps
<1>10. AllBlocked(view', deferred')
  BY <1>3, <1>5, <1>6, <1>9 DEF AllBlocked
<1> QED BY <1>3, <1>4, <1>9, <1>10, Zenon DEF DetectorInv, CollectedIsPerceived

\* collect(): the views of a cycle leave the detector; no other cycle has one
\* of them.
LEMMA CollectViews ==
  ASSUME DetectorInv, NEW t \in DOMAIN perceived, Collect(perceived[t].map),
         perceived' = [u \in DOMAIN perceived \ {t} |-> perceived[u]]
  PROVE  /\ GoodViews(view)' /\ GoodTokens(perceived)'
         /\ AllBlocked(view, deferred)'
         /\ reported = {} => Disjoint(view', perceived')
<1>1. PICK S : S = perceived[t].map
  OBVIOUS
<1>2. GoodViews(view) /\ GoodTokens(perceived) /\ AllBlocked(view, deferred)
  BY DEF DetectorInv
<1>3. /\ view' = [a \in Actor |->
                    IF a \in S /\ \A b \in alive \ S : view[b].map[a] = 0
                    THEN NewView ELSE view[a]]
      /\ deferred' = deferred \ S
  BY <1>1 DEF Collect
<1>4. NewView \in [rc : Int, blocked : BOOLEAN, map : [Actor -> Nat],
                   delta : Deltas, per : Nat]
  BY NoDeltaType DEF NewView
<1>5. GoodViews(view')
  BY <1>2, <1>3, <1>4 DEF GoodViews
<1>6. \A a \in Actor : a \notin S => view'[a] = view[a]
  BY <1>3
<1>7. GoodTokens(perceived')
  <2>1. DOMAIN perceived' = DOMAIN perceived \ {t}
    OBVIOUS
  <2>2. IsFiniteSet(DOMAIN perceived')
    BY <1>2, <2>1, FS_Subset DEF GoodTokens
  <2> QED BY <1>2, <2>1, <2>2 DEF GoodTokens, GoodPerceived
<1>8. AllBlocked(view', deferred')
  BY <1>2, <1>3, <1>6 DEF AllBlocked
<1>9. ASSUME reported = {}, NEW u \in DOMAIN perceived', NEW a \in perceived'[u].map
      PROVE  view'[a].per = u /\ view'[a].blocked
  <2>1. u \in DOMAIN perceived /\ u # t /\ a \in perceived[u].map /\ a \in Actor
    BY <1>2, <1>9 DEF GoodTokens, GoodPerceived
  <2>2. view[a].per = u /\ view[a].blocked
    BY <1>9, <2>1 DEF DetectorInv, Disjoint
  <2>3. a \notin S
    BY <1>1, <1>9, <2>1, <2>2 DEF DetectorInv, Disjoint
  <2> QED BY <1>6, <2>1, <2>2, <2>3
<1> QED BY <1>5, <1>7, <1>8, <1>9 DEF Disjoint

\* ack(): a debug build never comes to collect a view that is in no cycle.
LEMMA AckKeeps ==
  ASSUME OrcaInv, DetectorInv, ~Stopped, HandleAck
  PROVE  DetectorInv'
<1>1. PICK t, p : t = Head(cdq).token /\ p = [perceived[t] EXCEPT !.ack = @ + 1]
  OBVIOUS
<1>2. PICK lost, gone :
        /\ lost = {"collected view is not perceived" :
                     a \in {a \in p.map : view[a].per # t}}
        /\ gone = {"destroyed actor used" : a \in p.map \ alive}
  BY Zenon
<1>3. /\ Handles("ack")
      /\ \/ /\ t \notin DOMAIN perceived
            /\ UNCHANGED <<view, deferred, perceived>>
         \/ /\ t \in DOMAIN perceived /\ Collect(p.map)
            /\ perceived' = [u \in DOMAIN perceived \ {t} |-> perceived[u]]
         \/ /\ t \in DOMAIN perceived /\ UNCHANGED <<view, deferred>>
            /\ \E g \in IF p.ack % ConfGroup = 0 THEN NextGroups(p.map, p.asked)
                                                 ELSE {{}} :
                 perceived' = [perceived EXCEPT ![t] = [p EXCEPT !.asked = @ \cup g]]
      /\ \/ reported' = reported
         \/ t \in DOMAIN perceived /\ reported' = reported \cup (lost \cup gone)
  BY <1>1, <1>2, Zenon DEF HandleAck
<1>4. GoodReports(cdq')
  <2>1. cdq # <<>> /\ cdq' = Tail(cdq)
    BY <1>3 DEF Handles
  <2> QED BY <2>1, ReportTaken DEF DetectorInv
<1>5. GoodViews(view) /\ GoodTokens(perceived) /\ AllBlocked(view, deferred)
  BY DEF DetectorInv
<1>6. ASSUME t \in DOMAIN perceived
      PROVE  /\ p \in [map : SUBSET Actor, ack : Int, asked : SUBSET Actor]
             /\ p.map = perceived[t].map
  BY <1>1, <1>5, <1>6 DEF GoodTokens, GoodPerceived
<1>7. reported' = {} => reported = {}
  BY <1>3
<1>8. Asserts => CollectedIsPerceived'
  <2> SUFFICES ASSUME Asserts PROVE CollectedIsPerceived'
    OBVIOUS
  <2>1. reported = {} /\ Disjoint(view, perceived)
    BY Zenon DEF Stopped, DetectorInv
  <2>2. CASE reported' = reported
    BY <2>1, <2>2 DEF CollectedIsPerceived
  <2>3. CASE t \in DOMAIN perceived /\ reported' = reported \cup (lost \cup gone)
    <3>1. \A a \in p.map : view[a].per = t
      BY <1>6, <2>1, <2>3 DEF Disjoint
    <3>2. lost = {}
      BY <1>2, <3>1, Zenon
    <3>3. "collected view is not perceived" # "destroyed actor used"
      OBVIOUS
    <3>4. "collected view is not perceived" \notin gone
      BY <1>2, <3>3, Zenon
    <3> HIDE <1>2
    <3> QED BY <2>1, <2>3, <3>2, <3>4, Zenon DEF CollectedIsPerceived
  <2> QED BY <1>3, <2>2, <2>3
<1>9. CASE t \notin DOMAIN perceived /\ UNCHANGED <<view, deferred, perceived>>
  BY <1>4, <1>5, <1>7, <1>8, <1>9 DEF DetectorInv
<1>10. CASE /\ t \in DOMAIN perceived /\ Collect(p.map)
            /\ perceived' = [u \in DOMAIN perceived \ {t} |-> perceived[u]]
  <2>1. Collect(perceived[t].map)
    BY <1>6, <1>10
  <2>2. /\ GoodViews(view)' /\ GoodTokens(perceived)'
        /\ AllBlocked(view, deferred)'
        /\ reported = {} => Disjoint(view', perceived')
    BY <1>10, <2>1, CollectViews
  <2> QED BY <1>4, <1>7, <1>8, <2>2 DEF DetectorInv
<1>11. ASSUME t \in DOMAIN perceived, UNCHANGED <<view, deferred>>,
              NEW g \in IF p.ack % ConfGroup = 0 THEN NextGroups(p.map, p.asked) ELSE {{}},
              perceived' = [perceived EXCEPT ![t] = [p EXCEPT !.asked = @ \cup g]]
       PROVE  DetectorInv'
  <2>1. p \in [map : SUBSET Actor, ack : Int, asked : SUBSET Actor]
    BY <1>6, <1>11
  <2>2. g \subseteq Actor
    BY <2>1 DEF NextGroups
  <2>3. PICK q : q = [p EXCEPT !.asked = @ \cup g]
    OBVIOUS
  <2>4. /\ q \in [map : SUBSET Actor, ack : Int, asked : SUBSET Actor]
        /\ q.map = perceived[t].map
    BY <1>6, <1>11, <2>1, <2>2, <2>3
  <2>5. perceived' = [perceived EXCEPT ![t] = q]
    BY <1>11, <2>3
  <2>6. /\ DOMAIN perceived' = DOMAIN perceived
        /\ \A u \in DOMAIN perceived : perceived'[u].map = perceived[u].map
    BY <2>4, <2>5
  <2>7. GoodTokens(perceived')
    BY <1>5, <2>4, <2>5, <2>6 DEF GoodTokens, GoodPerceived
  <2>8. reported = {} => Disjoint(view', perceived')
    BY <1>11, <2>6 DEF DetectorInv, Disjoint
  <2> QED BY <1>4, <1>5, <1>7, <1>8, <1>11, <2>7, <2>8 DEF DetectorInv
<1> QED BY <1>3, <1>9, <1>10, <1>11

\* deferred()
LEMMA DeferredKeeps ==
  ASSUME OrcaInv, DetectorInv, DeferredStep
  PROVE  DetectorInv'
<1>1. PICK a \in deferred :
        DetectFrom(a, view, views, deferred \ {a}, perceived)
  BY DEF DeferredStep
<1>2. cdq' = cdq
  BY DEF DeferredStep
<1>3. /\ GoodReports(cdq) /\ a \in Actor /\ GoodViews(view) /\ view[a].blocked
      /\ AllBlocked(view, deferred \ {a}) /\ GoodTokens(perceived)
      /\ reported = {} => Disjoint(view, perceived)
  BY DEF DetectorInv, AllBlocked
<1>4. /\ GoodViews(view)' /\ GoodTokens(perceived)'
      /\ AllBlocked(view, deferred)'
      /\ (reported = {} => Disjoint(view, perceived))'
      /\ CollectedIsPerceived => CollectedIsPerceived'
  BY <1>1, <1>3, DetectKeeps
<1> QED BY <1>2, <1>3, <1>4 DEF DetectorInv

\* A step that leaves the detector alone, and may report to it.
LEMMA ReportKeeps ==
  ASSUME DetectorInv, UNCHANGED <<view, perceived, deferred, reported>>,
         GoodReports(cdq')
  PROVE  DetectorInv'
BY Zenon DEF DetectorInv, CollectedIsPerceived

\* What actors do adds reports of the right shape to the detector's queue.
LEMMA ActorKeeps ==
  ASSUME OrcaInv, DetectorInv, NEW a \in Actor, ActorStep(a)
  PROVE  DetectorInv'
<1>1. Step(a) /\ UNCHANGED <<view, perceived, deferred, reported>>
  BY DEF ActorStep, detectorVars
<1>2. GoodReports(cdq) /\ GoodGc(gc)
  BY DEF DetectorInv, OrcaInv, OrcaTypes
<1>3. CASE cdq' = cdq
  BY <1>1, <1>2, <1>3, ReportKeeps
<1>4. ASSUME NEW m, GoodReport(m), cdq' = Append(cdq, m) PROVE DetectorInv'
  BY <1>1, <1>2, <1>4, ReportAdded, ReportKeeps
<1>5. CASE Receive(a)
  <2>1. cdq' = cdq \/ cdq' = Append(cdq, UnblockMsg(a))
    BY <1>5 DEF Receive
  <2>2. GoodReport(UnblockMsg(a))
    BY DEF GoodReport, UnblockMsg
  <2> QED BY <1>3, <1>4, <2>1, <2>2
<1>6. CASE EndRun(a)
  <2>1. PICK n, d : n = gc[a].rc /\ d = gc[a].delta
    OBVIOUS
  <2>2. cdq' = cdq \/ cdq' = Append(cdq, BlockMsg(a, n, d))
    BY <1>6, <2>1 DEF EndRun
  <2>3. n \in Int /\ d \in Deltas
    BY <1>2, <2>1 DEF GoodGc
  <2>4. GoodReport(BlockMsg(a, n, d))
    BY <2>3 DEF GoodReport, BlockMsg
  <2> QED BY <1>3, <1>4, <2>2, <2>4
<1>7. CASE HandleConf(a)
  <2>1. PICK n : n = Head(queue[a]).token
    OBVIOUS
  <2>2. cdq' = cdq \/ cdq' = Append(cdq, AckMsg(n))
    BY <1>7, <2>1 DEF HandleConf
  <2>3. GoodReport(AckMsg(n))
    BY DEF GoodReport, AckMsg
  <2> QED BY <1>3, <1>4, <2>2, <2>3
<1>8. CASE ~Receive(a) /\ ~EndRun(a) /\ ~HandleConf(a)
  <2>1. cdq' = cdq
    BY <1>1, <1>8 DEF Step, Create, Send, EndBehaviour, StartRun,
                      HandleAcquire, HandleRelease
  <2> QED BY <1>3, <2>1
<1> QED BY <1>5, <1>6, <1>7, <1>8

-----------------------------------------------------------------------------
(* The theorems. *)

\* At first no cycle is perceived.
LEMMA DetectorInitial == Init => DetectorInv
<1> SUFFICES ASSUME Init PROVE DetectorInv
  OBVIOUS
<1>1. /\ view = [a \in Actor |-> NewView] /\ cdq = <<>> /\ deferred = {}
      /\ perceived = [t \in {} |-> 0] /\ reported = {}
  BY DEF Init, OrcaInit
<1>2. NewView \in [rc : Int, blocked : BOOLEAN, map : [Actor -> Nat],
                   delta : Deltas, per : Nat]
  BY NoDeltaType DEF NewView
<1>3. GoodViews(view)
  BY <1>1, <1>2 DEF GoodViews
<1>4. DOMAIN perceived = {} /\ IsFiniteSet({})
  BY <1>1, FS_EmptySet
<1>5. GoodTokens(perceived)
  BY <1>1, <1>4 DEF GoodTokens, GoodPerceived
<1>6. GoodReports(cdq)
  BY <1>1 DEF GoodReports
<1> QED
  BY <1>1, <1>3, <1>4, <1>5, <1>6
  DEF DetectorInv, AllBlocked, Disjoint, CollectedIsPerceived

\* Every step of the actors and of the detector keeps DetectorInv, on the
\* types that OrcaInv gives.
THEOREM DetectorInvariance == Spec => []DetectorInv
<1>1. OrcaInv /\ DetectorInv /\ [Next]_vars => DetectorInv'
  <2> SUFFICES ASSUME OrcaInv, DetectorInv, [Next]_vars PROVE DetectorInv'
    OBVIOUS
  <2>1. CASE ~Stopped /\ Detector
    <3>1. CASE DeferredDone
      <4>1. UNCHANGED <<view, perceived, deferred, reported, cdq>>
        BY <3>1 DEF DeferredDone, actorVars
      <4> QED BY <4>1, ReportKeeps DEF DetectorInv
    <3> QED
      BY <2>1, <3>1, BlockKeeps, UnblockKeeps, AckKeeps, DeferredKeeps
      DEF Detector
  <2>2. ASSUME NEW a \in Actor, ActorStep(a) PROVE DetectorInv'
    BY <2>2, ActorKeeps
  <2>3. CASE UNCHANGED vars
    <3>1. UNCHANGED <<view, perceived, deferred, reported, cdq>>
      BY <2>3 DEF vars, actorVars, detectorVars
    <3> QED BY <3>1, ReportKeeps DEF DetectorInv
  <2> QED BY <2>1, <2>2, <2>3 DEF Next
<1> QED BY <1>1, DetectorInitial, OrcaInvariance, PTL DEF Spec

\* Until the assert of mark_white fails, a view is in one perceived cycle at
\* most and every member of a perceived cycle is a blocked view, so that
\* expire() forgets the cycle whenever one of its members changes.
THEOREM PerceivedDisjoint == Spec => []CyclesAreDisjoint
<1>1. DetectorInv => CyclesAreDisjoint
  BY DEF DetectorInv, Disjoint, CyclesAreDisjoint
<1> QED BY <1>1, DetectorInvariance, PTL

\* In a debug build the assert of collect() (cycle.c:534) never fails: the one
\* of mark_white (cycle.c:350) stops the program before two cycles overlap.
THEOREM DebugCollectsPerceived ==
  ASSUME Asserts
  PROVE  Spec => []CollectedIsPerceived
<1>1. DetectorInv => CollectedIsPerceived
  BY DEF DetectorInv
<1> QED BY <1>1, DetectorInvariance, PTL
=============================================================================
