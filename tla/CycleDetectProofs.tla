------------------------- MODULE CycleDetectProofs -------------------------
(* Proofs about CycleDetect, for every set of views, every graph of        *)
(* references between them and every order in which a scan may pop them.   *)
EXTENDS CycleDetect, SumTheorems

-----------------------------------------------------------------------------
(* The views as detect() found them: a record g like the history variable  *)
(* before.                                                                 *)

Snapshot(g) ==
  /\ g.blocked \in [View -> BOOLEAN] /\ g.blocked[Root]
  /\ g.rc \in [View -> 0..(RcMod - 1)]
  /\ g.map \in [View -> [View -> 0..(RcMod - 1)]]
  /\ \A u \in View : g.map[u][u] = 0
  /\ \A v \in View : References(g.map, View, v) < RcMod

Scan(g) == ScannedFrom(Root, g.blocked, g.map)

Lost(g) == GarbageFrom(Root, g.blocked, g.rc, g.map)

\* The references to v that the edges P stand for.
Out(m, P, v) ==
  SumFunctionOnSet([u \in View |-> IF <<u, v>> \in P THEN m[u][v] ELSE 0], View)

\* Two edge sets that hold the same references.
SameEdges(m, P, Q) ==
  \A u, v \in View : m[u][v] > 0 => (<<u, v>> \in P <=> <<u, v>> \in Q)

\* Q holds the references of P and those from s to t.
OneMore(m, P, Q, s, t) ==
  /\ m[s][t] > 0 => <<s, t>> \notin P /\ <<s, t>> \in Q
  /\ \A u, v \in View : m[u][v] > 0 /\ <<u, v>> # <<s, t>>
                           => (<<u, v>> \in P <=> <<u, v>> \in Q)

\* The counts while the edges P are taken out of them.
LeftOver(g, P) ==
  [v \in View |-> IF g.blocked[v] THEN (g.rc[v] - Out(g.map, P, v)) % RcMod
                                  ELSE g.rc[v]]

\* The edges scan_grey has taken out, when the views G are grey and the edges
\* S are still on its stack.
TakenOut(G, S) == {e \in View \X View : e[1] \in G /\ e \notin S}

\* The edges not given back, when the views K of the scanned views A are black
\* again and the edges S are still on the stack of scan_black or collect_white.
StillOut(A, K, S) ==
  {e \in View \X View : e[1] \in A /\ (e[1] \notin K \/ e \in S)}

-----------------------------------------------------------------------------
(* The inductive invariant. *)

Scanned == Scan(before)
Greys == {v \in View : color[v] = "grey"}
Blacks == {v \in Scanned : color[v] = "black"}

\* The viewrefs on a stack are the head of the scan or references of views
\* that the scan has been through.
EdgesFrom(S, G, H) ==
  \A e \in S : \/ e[1] = e[2] /\ e[2] \in H
               \/ e[1] \in G /\ before.map[e[1]][e[2]] > 0

\* Every scanned view referenced from G is in G, or will be popped from S.
ClosedUpTo(G, S) ==
  \A u \in G, v \in Scanned :
    before.map[u][v] > 0 => v \in G \/ <<u, v>> \in S

\* Every delta received is in the snapshot, applied or not.
MapsMatch ==
  /\ map = [v \in View |-> map[v]] /\ delta = [v \in View |-> delta[v]]
  /\ \A v \in View : AppliedMap(v) = before.map[v] /\ map[v][v] = 0

\* The deltas of the scanned views have been applied.
ScannedApplied == \A v \in Scanned : map[v] = before.map[v]

IdleInv ==
  /\ rc \in [View -> InitRc] /\ map \in InitMaps /\ delta \in InitDeltas
  /\ blocked[Root]
  /\ color = [v \in View |-> "black"]
  /\ bstack = {} /\ count = 0 /\ count2 = 0
  /\ per = {} /\ ack = 0 /\ asked = {} /\ acked = {}

\* What holds from the start of a scan to the end of the last one.
ScanInv ==
  /\ blocked = before.blocked
  /\ Greys \cup Whites \subseteq Scanned
  /\ ack = 0 /\ asked = {} /\ acked = {}

GreyInv ==
  /\ Whites = {} /\ bstack = {} /\ count = 0 /\ count2 = 0 /\ per = {}
  /\ EdgesFrom(stack, Greys, {Root})
  /\ Root \in Greys \/ Head(Root) \in stack
  /\ ClosedUpTo(Greys, stack)
  /\ \A v \in Greys : map[v] = before.map[v]
  /\ rc = LeftOver(before, TakenOut(Greys, stack))

WhiteInv ==
  /\ count = Cardinality(Whites) /\ count2 = 0 /\ per = {}
  /\ phase = "white" => bstack = {}
  /\ \A e \in stack : e \in View \X View
  /\ EdgesFrom(bstack, Blacks, Scanned \ Garbage)
  /\ ClosedUpTo(Blacks, bstack)
  /\ Blacks \cap Garbage = {}
  /\ \A v \in Whites : before.rc[v] = References(before.map, Scanned, v)
  /\ \A u \in Whites, v \in Scanned : before.map[u][v] > 0 /\ color[v] = "grey"
       => <<u, v>> \in stack \/ Head(v) \in bstack
  /\ color[Root] = "grey" => Head(Root) \in stack \/ Head(Root) \in bstack
  /\ rc = LeftOver(before, StillOut(Scanned, Blacks, bstack))

CollectInv ==
  /\ bstack = {} /\ Greys = {}
  /\ Whites \subseteq Garbage /\ per = Garbage \ Whites
  /\ count = Cardinality(Garbage) /\ count2 = Cardinality(per)
  /\ EdgesFrom(stack, Blacks, {Root})
  /\ Root \in Blacks \/ Head(Root) \in stack
  /\ ClosedUpTo(Blacks, stack)
  /\ rc = LeftOver(before, StillOut(Scanned, Blacks, stack))

\* What holds once detect() has returned.
DoneInv ==
  /\ rc = before.rc
  /\ color = [v \in View |-> "black"]
  /\ bstack = {}
  /\ phase = "none" => Garbage = {}
  /\ phase = "conf" => /\ per = Garbage
                       /\ acked \subseteq asked /\ asked \subseteq per
                       /\ ack = Cardinality(acked)
                       /\ count = Cardinality(per) /\ count2 = count
                       /\ \A v \in per : blocked[v]
  /\ phase = "collected" => /\ views = View \ Garbage
                            /\ acked = Garbage
                            /\ \A v \in Garbage : blocked[v]

Scans == {"grey", "white", "black", "collect"}
Ends == {"none", "conf", "collected", "expired"}

IInv ==
  /\ TypeOK
  /\ \A v \in View : color[v] # "black" => v \notin deferred
  /\ phase # "collected" => views = View
  /\ phase = "idle" => IdleInv
  /\ phase # "idle" => Snapshot(before) /\ MapsMatch
  /\ phase \in Scans => ScanInv
  /\ phase = "grey" => GreyInv
  /\ phase \in Scans \ {"grey"} => ScannedApplied
  /\ phase \in {"white", "black"} => WhiteInv
  /\ phase = "collect" => CollectInv
  /\ phase \in Ends => DoneInv

-----------------------------------------------------------------------------
(* Arithmetic of size_t. *)

\* A multiple of n makes no difference.
LEMMA ModAdds ==
  ASSUME NEW n \in Nat \ {0}, NEW q \in Int, NEW a \in Int
  PROVE  (n * q + a) % n = a % n
<1>1. PICK d \in Int, r \in 0..(n - 1) : d = a \div n /\ r = a % n /\ a = n * d + r
  OBVIOUS
<1>2. n * q + a = n * (q + d) + r
  BY <1>1
<1>3. (n * (q + d) + r) % n = r
  OBVIOUS
<1> QED BY <1>1, <1>2, <1>3

\* A sum may be wrapped before or after adding.
LEMMA ModSum ==
  ASSUME NEW n \in Nat \ {0}, NEW a \in Int, NEW b \in Int
  PROVE  ((a % n) + b) % n = (a + b) % n
<1>1. PICK d \in Int, r \in 0..(n - 1) : d = a \div n /\ r = a % n /\ a = n * d + r
  OBVIOUS
<1>2. a + b = n * d + (r + b) /\ r + b \in Int
  BY <1>1
<1>3. (n * d + (r + b)) % n = (r + b) % n
  BY <1>2, ModAdds
<1> QED BY <1>1, <1>2, <1>3

\* A difference of two counts wraps to 0 only if they are equal.
LEMMA ModZero ==
  ASSUME NEW n \in Nat \ {0}, NEW a \in 0..(n - 1), NEW b \in 0..(n - 1)
  PROVE  (a - b) % n = 0 <=> a = b
<1>1. CASE a >= b
  <2>1. a - b \in 0..(n - 1)
    BY <1>1
  <2>2. (a - b) % n = a - b
    BY <2>1
  <2> QED BY <2>1, <2>2
<1>2. CASE a < b
  <2>1. n + (a - b) \in 0..(n - 1) /\ n + (a - b) # 0
    BY <1>2
  <2>2. a - b = n * (-1) + (n + (a - b))
    OBVIOUS
  <2>3. (n * (-1) + (n + (a - b))) % n = n + (a - b)
    BY <2>1
  <2> QED BY <1>2, <2>1, <2>2, <2>3
<1> QED BY <1>1, <1>2

-----------------------------------------------------------------------------
(* Sums of references. *)

\* Indices whose value is 0 make no difference.
LEMMA SumSupport ==
  ASSUME NEW f, NEW g, NEW S, NEW T, IsFiniteSet(T), S \subseteq T,
         \A x \in S : f[x] = g[x], \A x \in T \ S : g[x] = 0,
         \A x \in T : g[x] \in Int
  PROVE  SumFunctionOnSet(f, S) = SumFunctionOnSet(g, T)
<1>1. IsFiniteSet(S) /\ IsFiniteSet(T \ S)
  BY FS_Subset, FS_Difference
<1>2. SumFunctionOnSet(f, S) = SumFunctionOnSet(g, S)
  BY <1>1, SumSame
<1>3. SumFunctionOnSet(g, T \ S) = 0
  BY <1>1, SumZero
<1>4. S \cup (T \ S) = T /\ S \cap (T \ S) = {}
  OBVIOUS
<1>5. SumFunctionOnSet(g, S \cup (T \ S))
        = SumFunctionOnSet(g, S) + SumFunctionOnSet(g, T \ S)
  BY <1>1, <1>4, SumUnion
<1>6. SumFunctionOnSet(g, S) \in Int
  BY <1>1, SumType
<1>7. SumFunctionOnSet(g, T) = SumFunctionOnSet(g, S) + 0
  BY <1>3, <1>4, <1>5
<1> QED BY <1>2, <1>6, <1>7

\* What the edges stand for is a natural number.
LEMMA OutType ==
  ASSUME NEW g, Snapshot(g), NEW P, NEW v \in View
  PROVE  Out(g.map, P, v) \in Nat
<1>1. PICK f : f = [u \in View |-> IF <<u, v>> \in P THEN g.map[u][v] ELSE 0]
  OBVIOUS
<1>2. \A u \in View : f[u] \in Nat
  BY <1>1 DEF Snapshot
<1>3. SumFunctionOnSet(f, View) \in Nat
  BY <1>2, ConstantsAssumption, SumNat
<1> QED BY <1>1, <1>3 DEF Out

\* Edge sets with the same references stand for the same number.
LEMMA OutSame ==
  ASSUME NEW g, Snapshot(g), NEW P, NEW Q,
         SameEdges(g.map, P, Q)
  PROVE  \A v \in View : Out(g.map, P, v) = Out(g.map, Q, v)
<1> SUFFICES ASSUME NEW v \in View PROVE Out(g.map, P, v) = Out(g.map, Q, v)
  OBVIOUS
<1>1. PICK f : f = [u \in View |-> IF <<u, v>> \in P THEN g.map[u][v] ELSE 0]
  OBVIOUS
<1>2. PICK h : h = [u \in View |-> IF <<u, v>> \in Q THEN g.map[u][v] ELSE 0]
  OBVIOUS
<1>3. \A u \in View : f[u] = h[u]
  <2> TAKE u \in View
  <2>1. g.map[u][v] \in Nat
    BY DEF Snapshot
  <2> QED BY <1>1, <1>2, <2>1 DEF SameEdges
<1>4. SumFunctionOnSet(f, View) = SumFunctionOnSet(h, View)
  BY <1>3, ConstantsAssumption, SumSame
<1> QED BY <1>1, <1>2, <1>4 DEF Out

\* One more edge makes no difference to the views it does not lead to.
LEMMA OutElsewhere ==
  ASSUME NEW g, Snapshot(g), NEW P, NEW Q, NEW s \in View, NEW t \in View,
         OneMore(g.map, P, Q, s, t), NEW v \in View, v # t
  PROVE  Out(g.map, Q, v) = Out(g.map, P, v)
<1>1. PICK f : f = [u \in View |-> IF <<u, v>> \in P THEN g.map[u][v] ELSE 0]
  OBVIOUS
<1>2. PICK h : h = [u \in View |-> IF <<u, v>> \in Q THEN g.map[u][v] ELSE 0]
  OBVIOUS
<1>3. \A u \in View : f[u] = h[u]
  <2> TAKE u \in View
  <2>1. g.map[u][v] \in Nat
    BY DEF Snapshot
  <2>2. <<u, v>> # <<s, t>>
    OBVIOUS
  <2> QED BY <1>1, <1>2, <2>1, <2>2 DEF OneMore
<1>4. SumFunctionOnSet(f, View) = SumFunctionOnSet(h, View)
  BY <1>3, ConstantsAssumption, SumSame
<1> QED BY <1>1, <1>2, <1>4 DEF Out

\* One more edge adds its references to the view it leads to.
LEMMA OutMore ==
  ASSUME NEW g, Snapshot(g), NEW P, NEW Q, NEW s \in View, NEW t \in View,
         OneMore(g.map, P, Q, s, t)
  PROVE  Out(g.map, Q, t) = Out(g.map, P, t) + g.map[s][t]
<1>1. PICK f : f = [u \in View |-> IF <<u, t>> \in P THEN g.map[u][t] ELSE 0]
  OBVIOUS
<1>2. PICK h : h = [u \in View |-> IF <<u, t>> \in Q THEN g.map[u][t] ELSE 0]
  OBVIOUS
<1>3. \A u \in View : g.map[u][t] \in Nat
  BY DEF Snapshot
<1>4. \A u \in View : f[u] \in Int /\ h[u] \in Int
  BY <1>1, <1>2, <1>3
<1>5. \A u \in View : u # s => h[u] = f[u]
  <2> SUFFICES ASSUME NEW u \in View, u # s PROVE h[u] = f[u]
    OBVIOUS
  <2>1. <<u, t>> # <<s, t>>
    OBVIOUS
  <2> QED BY <1>1, <1>2, <1>3, <2>1 DEF OneMore
<1>6. h[s] - f[s] = g.map[s][t]
  BY <1>1, <1>2, <1>3 DEF OneMore
<1>7. SumFunctionOnSet(h, View) = SumFunctionOnSet(f, View) + (h[s] - f[s])
  BY <1>4, <1>5, ConstantsAssumption, SumUpdate
<1> QED BY <1>1, <1>2, <1>6, <1>7 DEF Out

\* The references from the scanned views, as edges.
LEMMA OutReferences ==
  ASSUME NEW g, Snapshot(g), NEW P, NEW A \in SUBSET View, NEW v \in View,
         \A u \in A : g.map[u][v] > 0 => <<u, v>> \in P,
         \A u \in View \ A : <<u, v>> \notin P
  PROVE  /\ Out(g.map, P, v) = References(g.map, A, v)
         /\ Out(g.map, P, v) \in 0..(RcMod - 1)
<1>1. PICK h : h = [u \in View |-> IF <<u, v>> \in P THEN g.map[u][v] ELSE 0]
  OBVIOUS
<1>2. PICK f : f = [u \in A |-> g.map[u][v]]
  OBVIOUS
<1>3. PICK k : k = [u \in View |-> g.map[u][v]]
  OBVIOUS
<1>4. \A u \in View : g.map[u][v] \in Nat
  BY DEF Snapshot
<1>5. \A u \in View : h[u] \in Int /\ k[u] \in Int /\ h[u] <= k[u]
  BY <1>1, <1>3, <1>4
<1>6. \A u \in A : f[u] = h[u]
  BY <1>1, <1>2, <1>4
<1>7. \A u \in View \ A : h[u] = 0
  BY <1>1
<1>8. SumFunctionOnSet(f, A) = SumFunctionOnSet(h, View)
  BY <1>5, <1>6, <1>7, ConstantsAssumption, SumSupport
<1>9. SumFunctionOnSet(h, View) <= SumFunctionOnSet(k, View)
  BY <1>5, ConstantsAssumption, SumLeq
<1>10. Out(g.map, P, v) = References(g.map, A, v)
  BY <1>1, <1>2, <1>8 DEF Out, References
<1>11. Out(g.map, P, v) <= References(g.map, View, v)
  BY <1>1, <1>3, <1>9 DEF Out, References
<1>12. Out(g.map, P, v) \in Nat /\ RcMod \in Nat
  BY OutType, ConstantsAssumption
<1>13. References(g.map, View, v) < RcMod /\ References(g.map, View, v) \in Int
  <2>1. SumFunctionOnSet(k, View) \in Int
    BY <1>5, ConstantsAssumption, SumType
  <2> QED BY <1>3, <2>1 DEF References, Snapshot
<1> QED BY <1>10, <1>11, <1>12, <1>13

-----------------------------------------------------------------------------
(* The counts while edges are taken out of them. *)

\* They are counts.
LEMMA LeftOverType ==
  ASSUME NEW g, Snapshot(g), NEW P
  PROVE  LeftOver(g, P) \in [View -> 0..(RcMod - 1)]
<1>1. ASSUME NEW v \in View PROVE (g.rc[v] - Out(g.map, P, v)) % RcMod \in 0..(RcMod - 1)
  <2>a. Out(g.map, P, v) \in Nat
    BY OutType
  <2>b. g.rc[v] \in Int
    BY DEF Snapshot
  <2>1. PICK a \in Int : a = g.rc[v] - Out(g.map, P, v)
    BY <2>a, <2>b
  <2>2. a % RcMod \in 0..(RcMod - 1)
    BY ConstantsAssumption
  <2> QED BY <2>1, <2>2
<1>2. \A v \in View : g.rc[v] \in 0..(RcMod - 1)
  BY DEF Snapshot
<1> QED BY <1>1, <1>2 DEF LeftOver

\* Edge sets with the same references leave the same counts.
LEMMA LeftOverSame ==
  ASSUME NEW g, Snapshot(g), NEW P, NEW Q,
         SameEdges(g.map, P, Q)
  PROVE  LeftOver(g, P) = LeftOver(g, Q)
<1>1. \A v \in View : Out(g.map, P, v) = Out(g.map, Q, v)
  BY OutSame
<1> QED BY <1>1 DEF LeftOver

\* With no reference taken out they are the reported ones.
LEMMA LeftOverNone ==
  ASSUME NEW g, Snapshot(g), NEW P,
         \A u, v \in View : g.map[u][v] > 0 => <<u, v>> \notin P
  PROVE  LeftOver(g, P) = g.rc
<1>1. ASSUME NEW v \in View PROVE Out(g.map, P, v) = 0
  <2>1. PICK f : f = [u \in View |-> IF <<u, v>> \in P THEN g.map[u][v] ELSE 0]
    OBVIOUS
  <2>2. \A u \in View : f[u] = 0
    <3> TAKE u \in View
    <3>1. g.map[u][v] \in Nat
      BY DEF Snapshot
    <3> QED BY <2>1, <3>1
  <2>3. SumFunctionOnSet(f, View) = 0
    BY <2>2, ConstantsAssumption, SumZero
  <2> QED BY <2>1, <2>3 DEF Out
<1>2. ASSUME NEW v \in View PROVE (g.rc[v] - Out(g.map, P, v)) % RcMod = g.rc[v]
  <2>1. PICK a \in 0..(RcMod - 1) : a = g.rc[v]
    BY DEF Snapshot
  <2>2. a % RcMod = a /\ a - 0 = a
    BY ConstantsAssumption
  <2> QED BY <1>1, <2>1, <2>2
<1>3. g.rc = [v \in View |-> g.rc[v]]
  BY DEF Snapshot
<1>4. LeftOver(g, P) = [v \in View |-> g.rc[v]]
  BY <1>2 DEF LeftOver
<1> QED BY <1>3, <1>4

\* One more edge takes its references out of a blocked view, and putting it
\* back gives them back.
LEMMA LeftOverMore ==
  ASSUME NEW g, Snapshot(g), NEW P, NEW Q, NEW s \in View, NEW t \in View,
         OneMore(g.map, P, Q, s, t)
  PROVE  /\ ~g.blocked[t] => LeftOver(g, Q) = LeftOver(g, P)
         /\ g.blocked[t] =>
              /\ LeftOver(g, Q) = [LeftOver(g, P) EXCEPT
                                     ![t] = (LeftOver(g, P)[t] - g.map[s][t]) % RcMod]
              /\ LeftOver(g, P) = [LeftOver(g, Q) EXCEPT
                                     ![t] = (LeftOver(g, Q)[t] + g.map[s][t]) % RcMod]
<1>1. /\ Out(g.map, Q, t) = Out(g.map, P, t) + g.map[s][t]
      /\ \A v \in View : v # t => Out(g.map, Q, v) = Out(g.map, P, v)
  <2>1. Out(g.map, Q, t) = Out(g.map, P, t) + g.map[s][t]
    BY OutMore
  <2>2. ASSUME NEW v \in View, v # t PROVE Out(g.map, Q, v) = Out(g.map, P, v)
    BY <2>2, OutElsewhere
  <2> QED BY <2>1, <2>2
<1>a. Out(g.map, P, t) \in Nat
  BY OutType
<1>b. g.map[s][t] \in Int /\ g.rc[t] \in Int
  BY DEF Snapshot
<1>2. PICK p \in Int, m \in Int, r \in Int :
        p = Out(g.map, P, t) /\ m = g.map[s][t] /\ r = g.rc[t]
  BY <1>a, <1>b
<1>3. Out(g.map, Q, t) = p + m
  BY <1>1, <1>2
<1>4. ASSUME ~g.blocked[t] PROVE LeftOver(g, Q) = LeftOver(g, P)
  BY <1>1, <1>4 DEF LeftOver
<1>5. ASSUME g.blocked[t]
      PROVE  /\ LeftOver(g, P)[t] = (r - p) % RcMod
             /\ LeftOver(g, Q)[t] = (r - (p + m)) % RcMod
  BY <1>2, <1>3, <1>5 DEF LeftOver
<1>c. RcMod \in Nat \ {0}
  BY ConstantsAssumption
<1>6. (((r - p) % RcMod) - m) % RcMod = (r - (p + m)) % RcMod
  <2>a. r - p \in Int /\ -m \in Int
    OBVIOUS
  <2>1. (((r - p) % RcMod) + (-m)) % RcMod = ((r - p) + (-m)) % RcMod
    BY <1>c, <2>a, ModSum
  <2>2. (r - p) + (-m) = r - (p + m)
    OBVIOUS
  <2>3. (r - p) % RcMod \in Int
    BY ConstantsAssumption
  <2>4. PICK x \in Int : x = (r - p) % RcMod
    BY <2>3
  <2>5. x + (-m) = x - m
    OBVIOUS
  <2> QED BY <2>1, <2>2, <2>4, <2>5
<1>7. (((r - (p + m)) % RcMod) + m) % RcMod = (r - p) % RcMod
  <2>a. r - (p + m) \in Int
    OBVIOUS
  <2>1. (((r - (p + m)) % RcMod) + m) % RcMod = ((r - (p + m)) + m) % RcMod
    BY <1>c, <2>a, ModSum
  <2>2. (r - (p + m)) + m = r - p
    OBVIOUS
  <2> QED BY <2>1, <2>2
<1>8. \A v \in View : v # t => LeftOver(g, Q)[v] = LeftOver(g, P)[v]
  BY <1>1 DEF LeftOver
<1>9. LeftOver(g, P) \in [View -> 0..(RcMod - 1)] /\ LeftOver(g, Q) \in [View -> 0..(RcMod - 1)]
  BY LeftOverType
<1>10. ASSUME g.blocked[t]
       PROVE  LeftOver(g, Q) = [LeftOver(g, P) EXCEPT
                                  ![t] = (LeftOver(g, P)[t] - g.map[s][t]) % RcMod]
  <2>1. LeftOver(g, Q)[t] = (LeftOver(g, P)[t] - g.map[s][t]) % RcMod
    BY <1>2, <1>5, <1>6, <1>10
  <2> QED BY <1>8, <1>9, <2>1
<1>11. ASSUME g.blocked[t]
       PROVE  LeftOver(g, P) = [LeftOver(g, Q) EXCEPT
                                  ![t] = (LeftOver(g, Q)[t] + g.map[s][t]) % RcMod]
  <2>1. LeftOver(g, P)[t] = (LeftOver(g, Q)[t] + g.map[s][t]) % RcMod
    BY <1>2, <1>5, <1>7, <1>11
  <2> QED BY <1>8, <1>9, <2>1
<1> QED BY <1>4, <1>10, <1>11

-----------------------------------------------------------------------------
(* What is scanned, and what is garbage. *)

\* The scanned views are the least set with Root and the blocked views that
\* are referenced from it, and all of them are blocked.
LEMMA ScanFacts ==
  ASSUME NEW g, Snapshot(g)
  PROVE  /\ Scan(g) \subseteq View /\ Root \in Scan(g)
         /\ \A u \in Scan(g), v \in View :
              g.map[u][v] > 0 /\ g.blocked[v] => v \in Scan(g)
         /\ \A v \in Scan(g) : g.blocked[v]
         /\ \A S \in SUBSET View :
              /\ Root \in S
              /\ \A u \in S, v \in Scan(g) : g.map[u][v] > 0 => v \in S
              => Scan(g) \subseteq S
<1> DEFINE Closed(S) ==
      /\ Root \in S
      /\ \A u \in S, v \in View : g.map[u][v] > 0 /\ g.blocked[v] => v \in S
<1>1. DOMAIN g.blocked = View
  BY DEF Snapshot
<1>2. Scan(g) = {v \in View : \A S \in SUBSET View : Closed(S) => v \in S}
  BY <1>1 DEF Scan, ScannedFrom
<1>3. Scan(g) \subseteq View /\ Root \in Scan(g)
  BY <1>2, ConstantsAssumption
<1>4. ASSUME NEW S \in SUBSET View, Closed(S) PROVE Scan(g) \subseteq S
  BY <1>2, <1>4
<1>5. Closed(Scan(g))
  <2>1. ASSUME NEW u \in Scan(g), NEW v \in View, g.map[u][v] > 0, g.blocked[v]
        PROVE  v \in Scan(g)
    <3>1. ASSUME NEW S \in SUBSET View, Closed(S) PROVE v \in S
      BY <1>4, <2>1, <3>1
    <3> QED BY <1>2, <3>1
  <2> QED BY <1>3, <2>1
<1>6. \A v \in Scan(g) : g.blocked[v]
  <2> DEFINE S == {v \in Scan(g) : g.blocked[v]}
  <2>1. Closed(S) /\ S \in SUBSET View
    BY <1>3, <1>5 DEF Snapshot
  <2>2. Scan(g) \subseteq S
    BY <1>4, <2>1
  <2> QED BY <2>2
<1>7. ASSUME NEW S \in SUBSET View, Root \in S,
             \A u \in S, v \in Scan(g) : g.map[u][v] > 0 => v \in S
      PROVE  Scan(g) \subseteq S
  <2> DEFINE T == S \cap Scan(g)
  <2>1. Closed(T) /\ T \in SUBSET View
    BY <1>3, <1>5, <1>7
  <2>2. Scan(g) \subseteq T
    BY <1>4, <2>1
  <2> QED BY <2>2
<1>8. \A u \in Scan(g), v \in View : g.map[u][v] > 0 /\ g.blocked[v] => v \in Scan(g)
  BY <1>5
<1> HIDE DEF Closed
<1> QED BY <1>3, <1>6, <1>7, <1>8

\* Garbage is the largest isolated set: the references to its members account
\* for their counts and are all held inside it.
LEMMA LostFacts ==
  ASSUME NEW g, Snapshot(g)
  PROVE  /\ Lost(g) \subseteq Scan(g)
         /\ \A v \in Lost(g) : g.rc[v] = References(g.map, Scan(g), v)
         /\ \A v \in Lost(g), u \in Scan(g) \ Lost(g) : g.map[u][v] = 0
         /\ \A S \in SUBSET Scan(g) :
              /\ \A v \in S : g.rc[v] = References(g.map, Scan(g), v)
              /\ \A v \in S, u \in Scan(g) \ S : g.map[u][v] = 0
              => S \subseteq Lost(g)
<1>1. Lost(g) = UNION {S \in SUBSET Scan(g) : Isolated(S, Scan(g), g.rc, g.map)}
  BY DEF Lost, GarbageFrom, Scan
<1>2. ASSUME NEW v \in Lost(g)
      PROVE  \E S \in SUBSET Scan(g) : v \in S /\ Isolated(S, Scan(g), g.rc, g.map)
  BY <1>1, <1>2
<1>3. ASSUME NEW S \in SUBSET Scan(g), Isolated(S, Scan(g), g.rc, g.map)
      PROVE  S \subseteq Lost(g)
  BY <1>1, <1>3
<1>4. Lost(g) \subseteq Scan(g)
  BY <1>2
<1>5. ASSUME NEW v \in Lost(g)
      PROVE  /\ g.rc[v] = References(g.map, Scan(g), v)
             /\ \A u \in Scan(g) \ Lost(g) : g.map[u][v] = 0
  <2>1. PICK S \in SUBSET Scan(g) : v \in S /\ Isolated(S, Scan(g), g.rc, g.map)
    BY <1>2
  <2>2. S \subseteq Lost(g)
    BY <1>3, <2>1
  <2> QED BY <2>1, <2>2 DEF Isolated
<1>6. ASSUME NEW S \in SUBSET Scan(g),
             \A v \in S : g.rc[v] = References(g.map, Scan(g), v),
             \A v \in S, u \in Scan(g) \ S : g.map[u][v] = 0
      PROVE  S \subseteq Lost(g)
  BY <1>3, <1>6 DEF Isolated
<1> QED BY <1>4, <1>5, <1>6

-----------------------------------------------------------------------------
(* The invariant holds initially, and detect() starts a scan in it. *)

\* Garbage is what is lost in the snapshot.
LEMMA GarbageIsLost == Garbage = Lost(before)
BY DEF Garbage, Lost

\* A step that leaves the snapshot alone leaves what is derived from it.
LEMMA SnapshotKept ==
  ASSUME before' = before
  PROVE  /\ Scanned' = Scanned /\ Garbage' = Garbage
         /\ Snapshot(before)' <=> Snapshot(before)
BY DEF Scanned, Garbage, Snapshot, Scan

\* Maps and deltas as they were received.
LEMMA AppliedType ==
  ASSUME NEW m \in InitMaps, NEW d \in InitDeltas, NEW u \in View
  PROVE  /\ Applied(m[u], d[u]) \in [View -> 0..(RcMod - 1)]
         /\ Applied(m[u], d[u])[u] = 0
<1>1. m \in [View -> [View -> 0..(RcMod - 1)]] /\ m[u][u] = 0
  BY ConstantsAssumption
<1>2. /\ DOMAIN d[u] \subseteq View \ {u}
      /\ \A v \in DOMAIN d[u] : d[u][v] \in 0..(RcMod - 1)
  BY ConstantsAssumption
<1> QED BY <1>1, <1>2 DEF Applied

\* The initial states satisfy the invariant.
LEMMA InitInvariant == Init => IInv
<1> SUFFICES ASSUME Init PROVE IInv
  OBVIOUS
<1>1. rc \in [View -> 0..(RcMod - 1)]
  BY ConstantsAssumption DEF Init
<1>2. \A v \in View : map[v] \in [View -> 0..(RcMod - 1)]
  BY ConstantsAssumption DEF Init
<1>3. \A v \in View : DOMAIN delta[v] \subseteq View
  BY ConstantsAssumption DEF Init
<1>4. TypeOK
  BY <1>1, <1>2, <1>3 DEF Init, TypeOK, Phases
<1>5. IdleInv
  BY DEF Init, IdleInv
<1> QED BY <1>4, <1>5 DEF Init, IInv, Scans, Ends

\* detect() takes the snapshot and puts its view on the stack.
LEMMA DetectStep ==
  ASSUME IInv, Detect
  PROVE  IInv'
<1>1. /\ phase = "idle" /\ TypeOK /\ IdleInv /\ views = View
  BY DEF IInv, Detect
<1>2. /\ phase' = "grey" /\ stack' = {<<Root, Root>>} /\ deferred' = deferred \ {Root}
      /\ before' = [blocked |-> blocked, rc |-> rc,
                    map |-> [v \in View |-> AppliedMap(v)]]
      /\ UNCHANGED <<views, blocked, rc, map, delta, color, bstack, count,
                     count2, per, ack, asked, acked>>
  BY DEF Detect, Undeferred, Head, perVars
<1>3. map \in InitMaps /\ delta \in InitDeltas /\ rc \in [View -> InitRc]
  BY <1>1 DEF IdleInv
<1>4. \A v \in View : AppliedMap(v) \in [View -> 0..(RcMod - 1)] /\ AppliedMap(v)[v] = 0
  BY <1>3, AppliedType DEF AppliedMap
<1>5. TypeOK'
  <2>1. Root \in View
    BY ConstantsAssumption
  <2> QED BY <1>1, <1>2, <2>1 DEF TypeOK, Phases
<1>6. Snapshot(before')
  <2>1. /\ before'.blocked = blocked /\ before'.rc = rc
        /\ before'.map = [v \in View |-> AppliedMap(v)]
    BY <1>2
  <2>2. before'.map \in [View -> [View -> 0..(RcMod - 1)]]
    BY <1>4, <2>1
  <2>3. \A u \in View : before'.map[u][u] = 0
    BY <1>4, <2>1
  <2>4. ASSUME NEW v \in View PROVE References(before'.map, View, v) < RcMod
    <3>1. before'.map = [u \in View |-> Applied(map[u], delta[u])]
      BY <2>1 DEF AppliedMap
    <3> QED BY <1>3, <3>1, NoOverflow
  <2> QED BY <1>1, <2>1, <2>2, <2>3, <2>4 DEF Snapshot, TypeOK, IdleInv
<1>7. MapsMatch'
  <2>1. \A v \in View : AppliedMap(v)' = AppliedMap(v)
    BY <1>2 DEF AppliedMap
  <2>2. \A v \in View : map[v][v] = 0
    BY <1>3, ConstantsAssumption
  <2>3. map = [v \in View |-> map[v]] /\ delta = [v \in View |-> delta[v]]
    BY <1>3, ConstantsAssumption
  <2> QED BY <1>2, <2>1, <2>2, <2>3 DEF MapsMatch
<1>8. Greys' = {} /\ Whites' = {}
  BY <1>1, <1>2 DEF Greys, Whites, IdleInv
<1>9. ScanInv'
  BY <1>1, <1>2, <1>8 DEF ScanInv, IdleInv
<1>10. rc' = LeftOver(before', TakenOut(Greys', stack'))
  <2>1. \A u, v \in View : <<u, v>> \notin TakenOut(Greys', stack')
    BY <1>8 DEF TakenOut
  <2>2. LeftOver(before', TakenOut(Greys', stack')) = before'.rc
    BY <1>6, <2>1, LeftOverNone
  <2> QED BY <1>2, <2>2
<1>11. GreyInv'
  <2>1. EdgesFrom(stack, Greys, {Root})'
    BY <1>2 DEF EdgesFrom
  <2>2. ClosedUpTo(Greys, stack)'
    BY <1>8 DEF ClosedUpTo
  <2> QED BY <1>1, <1>2, <1>8, <1>10, <2>1, <2>2 DEF GreyInv, IdleInv, Head
<1>12. \A v \in View : color'[v] # "black" => v \notin deferred'
  BY <1>1, <1>2 DEF IdleInv
<1> QED BY <1>1, <1>2, <1>5, <1>6, <1>7, <1>9, <1>11, <1>12 DEF IInv, Scans, Ends

-----------------------------------------------------------------------------
(* scan_grey. *)

\* A popped viewref has the count of the snapshot: the head of a scan has none,
\* and the views that pushed theirs have applied their deltas.
LEMMA EdgeCount ==
  ASSUME TypeOK, Snapshot(before), MapsMatch, NEW S \in SUBSET (View \X View),
         NEW G, NEW H, EdgesFrom(S, G, H), \A v \in G : map[v] = before.map[v],
         NEW e \in S
  PROVE  /\ e[1] \in View /\ e[2] \in View /\ e = <<e[1], e[2]>>
         /\ map[e[1]][e[2]] = before.map[e[1]][e[2]]
         /\ before.map[e[1]][e[2]] \in Nat
<1>1. e[1] \in View /\ e[2] \in View /\ e = <<e[1], e[2]>>
  OBVIOUS
<1>2. CASE e[1] = e[2]
  BY <1>1, <1>2 DEF MapsMatch, Snapshot
<1>3. CASE e[1] \in G
  BY <1>1, <1>3 DEF Snapshot
<1> QED BY <1>1, <1>2, <1>3 DEF EdgesFrom

\* What a scan pushes for a view.
LEMMA ChildrenFacts ==
  ASSUME NEW m, NEW v \in View
  PROVE  /\ \A x \in Children(m, v) : x \in View \X View /\ x[1] = v /\ m[v][x[2]] > 0
         /\ \A c \in View : m[v][c] > 0 => <<v, c>> \in Children(m, v)
<1>1. ASSUME NEW x \in Children(m, v)
      PROVE  x \in View \X View /\ x[1] = v /\ m[v][x[2]] > 0
  <2>1. PICK c \in View : m[v][c] > 0 /\ x = <<v, c>>
    BY DEF Children
  <2> QED BY <2>1
<1>2. \A c \in View : m[v][c] > 0 => <<v, c>> \in Children(m, v)
  BY DEF Children
<1> QED BY <1>1, <1>2

\* scan_grey pops a viewref of a view that is not blocked.
LEMMA ScanGreyUnblocked ==
  ASSUME IInv, phase = "grey", NEW e \in stack, ~blocked[e[2]],
         stack' = stack \ {e},
         UNCHANGED <<viewVars, phase, bstack, count, count2, perVars, before>>
  PROVE  IInv'
<1>1. /\ TypeOK /\ Snapshot(before) /\ MapsMatch /\ ScanInv /\ GreyInv /\ views = View
      /\ \A v \in View : color[v] # "black" => v \notin deferred
  BY DEF IInv, Scans
<1>2. UNCHANGED <<views, deferred, blocked, rc, map, delta, color, phase, bstack,
                  count, count2, per, ack, asked, acked, before>>
  BY DEF viewVars, detVars, perVars
<1>3. Scanned' = Scanned /\ Snapshot(before') /\ Greys' = Greys /\ Whites' = Whites
  BY <1>1, <1>2, SnapshotKept DEF Greys, Whites
<1>4. TypeOK' /\ MapsMatch' /\ ScanInv'
  BY <1>1, <1>2, <1>3 DEF TypeOK, MapsMatch, AppliedMap, ScanInv
<1>5. EdgesFrom(stack, Greys, {Root}) /\ ClosedUpTo(Greys, stack)
  BY <1>1 DEF GreyInv
<1>6. /\ e[1] \in View /\ e[2] \in View /\ e = <<e[1], e[2]>>
      /\ before.map[e[1]][e[2]] \in Nat
  <2>1. stack \in SUBSET (View \X View)
    BY <1>1 DEF TypeOK
  <2>2. \A v \in Greys : map[v] = before.map[v]
    BY <1>1 DEF GreyInv
  <2> QED BY <1>1, <1>5, <2>1, <2>2, EdgeCount
<1>7. e[2] \notin Scanned /\ ~before.blocked[e[2]]
  <2>1. \A v \in Scanned : before.blocked[v]
    BY <1>1, ScanFacts DEF Scanned
  <2> QED BY <1>1, <2>1 DEF ScanInv
<1>8. Root \in Scanned
  BY <1>1, ScanFacts DEF Scanned
<1>9. e[1] \in Greys /\ before.map[e[1]][e[2]] > 0 /\ e # Head(Root)
  BY <1>5, <1>7, <1>8 DEF EdgesFrom, Head
<1>10. EdgesFrom(stack, Greys, {Root})'
  BY <1>2, <1>3, <1>5 DEF EdgesFrom
<1>11. ClosedUpTo(Greys, stack)'
  BY <1>2, <1>3, <1>5, <1>7 DEF ClosedUpTo
<1>12. rc' = LeftOver(before', TakenOut(Greys', stack'))
  <2>1. OneMore(before.map, TakenOut(Greys, stack), TakenOut(Greys, stack'), e[1], e[2])
    <3>1. <<e[1], e[2]>> \notin TakenOut(Greys, stack) /\ <<e[1], e[2]>> \in TakenOut(Greys, stack')
      BY <1>6, <1>9 DEF TakenOut
    <3>2. \A u, v \in View : <<u, v>> # <<e[1], e[2]>> =>
            (<<u, v>> \in TakenOut(Greys, stack) <=> <<u, v>> \in TakenOut(Greys, stack'))
      BY <1>6 DEF TakenOut
    <3> QED BY <3>1, <3>2 DEF OneMore
  <2>2. LeftOver(before, TakenOut(Greys, stack')) = LeftOver(before, TakenOut(Greys, stack))
    BY <1>1, <1>6, <1>7, <2>1, LeftOverMore
  <2>3. rc = LeftOver(before, TakenOut(Greys, stack))
    BY <1>1 DEF GreyInv
  <2> QED BY <1>2, <1>3, <2>2, <2>3
<1>13. GreyInv'
  BY <1>1, <1>2, <1>3, <1>9, <1>10, <1>11, <1>12 DEF GreyInv, Head
<1> QED BY <1>1, <1>2, <1>3, <1>4, <1>13 DEF IInv, Scans, Ends

\* scan_grey pops a viewref of a blocked view and runs mark_grey.
LEMMA ScanGreyBlocked ==
  ASSUME IInv, phase = "grey", NEW e \in stack, blocked[e[2]],
         map' = [map EXCEPT ![e[2]] = AppliedMap(e[2])],
         delta' = [delta EXCEPT ![e[2]] = NoDelta],
         deferred' = Undeferred(e[2]),
         rc' = [rc EXCEPT ![e[2]] = Less(e[2], map[e[1]][e[2]])],
         color' = [color EXCEPT ![e[2]] = "grey"],
         stack' = (stack \ {e}) \cup
                  (IF color[e[2]] = "grey" THEN {} ELSE Children(map', e[2])),
         UNCHANGED <<views, blocked, phase, bstack, count, count2, perVars, before>>
  PROVE  IInv'
<1>1. /\ TypeOK /\ Snapshot(before) /\ MapsMatch /\ ScanInv /\ GreyInv /\ views = View
      /\ \A v \in View : color[v] # "black" => v \notin deferred
  BY DEF IInv, Scans
<1>2. UNCHANGED <<views, blocked, phase, bstack, count, count2, per, ack, asked, acked, before>>
  BY DEF perVars
<1>3. Scanned' = Scanned /\ Snapshot(before')
  BY <1>1, <1>2, SnapshotKept
<1>4. /\ EdgesFrom(stack, Greys, {Root}) /\ ClosedUpTo(Greys, stack) /\ Whites = {}
      /\ \A v \in Greys : map[v] = before.map[v]
      /\ rc = LeftOver(before, TakenOut(Greys, stack))
  BY <1>1 DEF GreyInv
<1>5. /\ e[1] \in View /\ e[2] \in View /\ e = <<e[1], e[2]>>
      /\ map[e[1]][e[2]] = before.map[e[1]][e[2]]
      /\ before.map[e[1]][e[2]] \in Nat
  <2>1. stack \in SUBSET (View \X View)
    BY <1>1 DEF TypeOK
  <2> QED BY <1>1, <1>4, <2>1, EdgeCount
<1>6. PICK s \in View, t \in View : e = <<s, t>> /\ s = e[1] /\ t = e[2]
  BY <1>5
<1>7. /\ Scanned \subseteq View /\ Root \in Scanned
      /\ \A u \in Scanned, v \in View :
           before.map[u][v] > 0 /\ before.blocked[v] => v \in Scanned
  BY <1>1, ScanFacts DEF Scanned
<1>8. t \in Scanned
  <2>1. blocked[t] = before.blocked[t] /\ Greys \subseteq Scanned /\ blocked[t]
    BY <1>1, <1>6 DEF ScanInv
  <2>2. t = Root \/ (s \in Greys /\ before.map[s][t] > 0)
    BY <1>4, <1>6 DEF EdgesFrom
  <2> QED BY <1>7, <2>1, <2>2
<1>9. /\ color \in [View -> {"black", "grey", "white"}]
      /\ rc \in [View -> 0..(RcMod - 1)]
      /\ \A v \in View : map[v] \in [View -> 0..(RcMod - 1)]
  BY <1>1 DEF TypeOK
<1>10. Greys' = Greys \cup {t} /\ Whites' = {}
  BY <1>4, <1>6, <1>9 DEF Greys, Whites
<1>11. /\ \A v \in View : map'[v] = IF v = t THEN before.map[t] ELSE map[v]
       /\ \A v \in View : delta'[v] = IF v = t THEN NoDelta ELSE delta[v]
       /\ map' = [v \in View |-> map'[v]] /\ delta' = [v \in View |-> delta'[v]]
  BY <1>1, <1>6 DEF MapsMatch
<1>12. before.map[t] \in [View -> 0..(RcMod - 1)] /\ before.map[t][t] = 0
  BY <1>1 DEF Snapshot
<1>13. MapsMatch'
  <2>1. ASSUME NEW v \in View
        PROVE  Applied(map'[v], delta'[v]) = before.map[v] /\ map'[v][v] = 0
    <3>1. CASE v = t
      BY <1>11, <1>12, <3>1 DEF Applied, NoDelta
    <3>2. CASE v # t
      BY <1>1, <1>11, <3>2 DEF MapsMatch, AppliedMap
    <3> QED BY <3>1, <3>2
  <2> QED BY <1>2, <1>11, <2>1 DEF MapsMatch, AppliedMap
<1>14. Children(map', t) = {<<t, c>> : c \in {c \in View : before.map[t][c] > 0}}
  BY <1>11 DEF Children
<1>15. /\ \A x \in stack' : x \in View \X View
       /\ \A x \in stack' : x \in stack \/ (x[1] = t /\ before.map[t][x[2]] > 0)
       /\ \A x \in stack : x # e => x \in stack'
       /\ e \in stack' => before.map[s][t] = 0
  <2>1. stack \subseteq View \X View
    BY <1>1 DEF TypeOK
  <2>2. PICK C : C = IF color[e[2]] = "grey" THEN {} ELSE Children(map', e[2])
    OBVIOUS
  <2>a. stack' = (stack \ {e}) \cup C
    BY <2>2
  <2>3. \A x \in C : x \in View \X View /\ x[1] = t /\ before.map[t][x[2]] > 0
    <3>1. C \subseteq Children(map', t)
      BY <1>6, <2>2
    <3>2. \A x \in Children(map', t) : x \in View \X View /\ x[1] = t /\ map'[t][x[2]] > 0
      BY ChildrenFacts
    <3>3. map'[t] = before.map[t]
      BY <1>11
    <3> QED BY <3>1, <3>2, <3>3
  <2>4. e \in C => s = t /\ before.map[s][t] = 0
    BY <1>6, <1>12, <2>3
  <2> QED BY <1>6, <2>1, <2>a, <2>3, <2>4
<1>16. TypeOK'
  <2>1. rc' \in [View -> 0..(RcMod - 1)]
    <3>1. PICK a \in Int : a = rc[t] - map[s][t]
      BY <1>5, <1>6, <1>9
    <3>2. a % RcMod \in 0..(RcMod - 1)
      BY ConstantsAssumption
    <3>3. rc' = [rc EXCEPT ![t] = a % RcMod]
      BY <1>6, <3>1 DEF Less
    <3> QED BY <1>9, <3>2, <3>3
  <2>2. \A v \in View : map'[v] \in [View -> 0..(RcMod - 1)]
    BY <1>9, <1>11, <1>12
  <2>3. \A v \in View : DOMAIN delta'[v] \subseteq View
    BY <1>1, <1>11 DEF TypeOK, NoDelta
  <2>4. color' \in [View -> {"black", "grey", "white"}] /\ deferred' \subseteq View
    BY <1>1, <1>6, <1>9 DEF TypeOK, Undeferred
  <2> QED BY <1>1, <1>2, <1>15, <2>1, <2>2, <2>3, <2>4 DEF TypeOK
<1>17. ScanInv'
  BY <1>1, <1>2, <1>3, <1>8, <1>10 DEF ScanInv
<1>18. EdgesFrom(stack, Greys, {Root})'
  BY <1>2, <1>4, <1>10, <1>15 DEF EdgesFrom
<1>19. ClosedUpTo(Greys, stack)'
  <2> SUFFICES ASSUME NEW u \in Greys \cup {t}, NEW v \in Scanned,
                      before.map[u][v] > 0, v \notin Greys \cup {t}
               PROVE  <<u, v>> \in stack'
    BY <1>2, <1>3, <1>10 DEF ClosedUpTo
  <2>1. CASE u \in Greys
    <3>1. <<u, v>> \in stack
      BY <1>4, <2>1 DEF ClosedUpTo
    <3> QED BY <1>6, <1>15, <3>1
  <2>2. CASE u = t /\ t \notin Greys
    BY <1>6, <1>7, <1>14, <2>2 DEF Greys
  <2> QED BY <2>1, <2>2
<1>20. \A v \in Greys' : map'[v] = before'.map[v]
  BY <1>2, <1>4, <1>10, <1>11 DEF Greys
<1>21. rc' = LeftOver(before', TakenOut(Greys', stack'))
  <2>1. OneMore(before.map, TakenOut(Greys, stack), TakenOut(Greys \cup {t}, stack'), s, t)
    <3>1. before.map[s][t] > 0 => /\ <<s, t>> \notin TakenOut(Greys, stack)
                                 /\ <<s, t>> \in TakenOut(Greys \cup {t}, stack')
      <4> SUFFICES ASSUME before.map[s][t] > 0
                   PROVE  /\ <<s, t>> \notin TakenOut(Greys, stack)
                          /\ <<s, t>> \in TakenOut(Greys \cup {t}, stack')
        OBVIOUS
      <4>1. s \in Greys
        BY <1>4, <1>6, <1>12 DEF EdgesFrom
      <4> QED BY <1>6, <1>15, <4>1 DEF TakenOut
    <3>2. ASSUME NEW u \in View, NEW v \in View, before.map[u][v] > 0, <<u, v>> # <<s, t>>
          PROVE  <<u, v>> \in TakenOut(Greys, stack)
                   <=> <<u, v>> \in TakenOut(Greys \cup {t}, stack')
      <4>1. CASE u \in Greys
        <5>1. <<u, v>> \in stack' <=> <<u, v>> \in stack
          BY <1>6, <1>14, <1>15, <3>2, <4>1 DEF Greys
        <5> QED BY <4>1, <5>1 DEF TakenOut
      <4>2. CASE u = t /\ t \notin Greys
        <5>1. <<u, v>> \in stack'
          BY <1>6, <1>14, <3>2, <4>2 DEF Greys
        <5> QED BY <4>2, <5>1 DEF TakenOut
      <4>3. CASE u \notin Greys /\ u # t
        BY <4>3 DEF TakenOut
      <4> QED BY <4>1, <4>2, <4>3
    <3> QED BY <3>1, <3>2 DEF OneMore
  <2>2. before.blocked[t]
    BY <1>1, <1>6 DEF ScanInv
  <2>3. LeftOver(before, TakenOut(Greys \cup {t}, stack'))
          = [LeftOver(before, TakenOut(Greys, stack)) EXCEPT
               ![t] = (LeftOver(before, TakenOut(Greys, stack))[t] - before.map[s][t]) % RcMod]
    BY <1>1, <2>1, <2>2, LeftOverMore
  <2>4. rc' = [rc EXCEPT ![t] = (rc[t] - before.map[s][t]) % RcMod]
    BY <1>5, <1>6 DEF Less
  <2> QED BY <1>2, <1>4, <1>10, <2>3, <2>4
<1>22. Root \in Greys' \/ <<Root, Root>> \in stack'
  BY <1>1, <1>6, <1>10, <1>15 DEF GreyInv, Head
<1>23. GreyInv'
  BY <1>1, <1>2, <1>10, <1>18, <1>19, <1>20, <1>21, <1>22 DEF GreyInv, Head
<1>24. \A v \in View : color'[v] # "black" => v \notin deferred'
  BY <1>1, <1>6, <1>9 DEF Undeferred
<1> QED BY <1>1, <1>2, <1>3, <1>13, <1>16, <1>17, <1>23, <1>24 DEF IInv, Scans, Ends

\* scan_grey.
LEMMA ScanGreyStep ==
  ASSUME IInv, ScanGrey
  PROVE  IInv'
<1>1. PICK e \in stack :
        IF ~blocked[e[2]]
        THEN /\ stack' = stack \ {e}
             /\ UNCHANGED <<rc, map, delta, deferred, color>>
        ELSE /\ map' = [map EXCEPT ![e[2]] = AppliedMap(e[2])]
             /\ delta' = [delta EXCEPT ![e[2]] = NoDelta]
             /\ deferred' = Undeferred(e[2])
             /\ rc' = [rc EXCEPT ![e[2]] = Less(e[2], map[e[1]][e[2]])]
             /\ color' = [color EXCEPT ![e[2]] = "grey"]
             /\ stack' = (stack \ {e}) \cup
                         (IF color[e[2]] = "grey" THEN {} ELSE Children(map', e[2]))
  BY DEF ScanGrey
<1>2. /\ phase = "grey"
      /\ UNCHANGED <<views, blocked, phase, bstack, count, count2, perVars, before>>
  BY DEF ScanGrey
<1>3. CASE ~blocked[e[2]]
  <2>1. UNCHANGED <<viewVars, phase, bstack, count, count2, perVars, before>>
    BY <1>1, <1>2, <1>3 DEF viewVars, detVars
  <2> QED BY <1>1, <1>2, <1>3, <2>1, ScanGreyUnblocked
<1>4. CASE blocked[e[2]]
  BY <1>1, <1>2, <1>4, ScanGreyBlocked
<1> QED BY <1>3, <1>4

\* scan_grey ends: it has been through every scanned view.
LEMMA GreyDoneStep ==
  ASSUME IInv, GreyDone
  PROVE  IInv'
<1>1. /\ TypeOK /\ Snapshot(before) /\ MapsMatch /\ ScanInv /\ GreyInv /\ views = View
      /\ \A v \in View : color[v] # "black" => v \notin deferred
  BY DEF IInv, Scans, GreyDone
<1>2. /\ stack = {} /\ phase' = "white" /\ stack' = {<<Root, Root>>}
      /\ UNCHANGED <<views, deferred, blocked, rc, map, delta, color, bstack,
                     count, count2, per, ack, asked, acked, before>>
  BY DEF GreyDone, viewVars, detVars, perVars, Head
<1>3. /\ Scanned' = Scanned /\ Garbage' = Garbage /\ Snapshot(before')
      /\ Greys' = Greys /\ Whites' = Whites /\ Blacks' = Blacks
  BY <1>1, <1>2, SnapshotKept DEF Greys, Whites, Blacks
<1>4. /\ Scanned \subseteq View /\ Root \in Scanned
      /\ \A S \in SUBSET View :
           /\ Root \in S
           /\ \A u \in S, v \in Scanned : before.map[u][v] > 0 => v \in S
           => Scanned \subseteq S
  BY <1>1, ScanFacts DEF Scanned
<1>5. Greys = Scanned /\ Whites = {} /\ Blacks = {}
  <2>1. Root \in Greys /\ Greys \subseteq View
    BY <1>1, <1>2 DEF GreyInv, Greys
  <2>2. \A u \in Greys, v \in Scanned : before.map[u][v] > 0 => v \in Greys
    BY <1>1, <1>2 DEF GreyInv, ClosedUpTo
  <2>3. Scanned \subseteq Greys
    BY <1>4, <2>1, <2>2
  <2>4. Greys \subseteq Scanned /\ Whites = {}
    BY <1>1 DEF ScanInv, GreyInv
  <2> QED BY <2>3, <2>4 DEF Greys, Blacks
<1>6. TypeOK' /\ MapsMatch' /\ ScanInv'
  <2>1. Root \in View
    BY ConstantsAssumption
  <2> QED BY <1>1, <1>2, <1>3, <2>1 DEF TypeOK, MapsMatch, AppliedMap, ScanInv, Phases
<1>7. ScannedApplied'
  BY <1>1, <1>2, <1>3, <1>5 DEF GreyInv, ScannedApplied
<1>8. rc' = LeftOver(before', StillOut(Scanned', Blacks', bstack'))
  <2>1. TakenOut(Greys, stack) = StillOut(Scanned, Blacks, bstack)
    BY <1>2, <1>5 DEF TakenOut, StillOut
  <2> QED BY <1>1, <1>2, <1>3, <2>1 DEF GreyInv
<1>9. WhiteInv'
  <2>1. Cardinality({}) = 0
    BY FS_EmptySet
  <2>2. bstack' = {} /\ count' = 0 /\ count2' = 0 /\ per' = {} /\ Whites' = {} /\ Blacks' = {}
    BY <1>1, <1>2, <1>3, <1>5 DEF GreyInv
  <2>3. Root \in View
    BY ConstantsAssumption
  <2> QED BY <1>2, <1>8, <2>1, <2>2, <2>3 DEF WhiteInv, EdgesFrom, ClosedUpTo, Head
<1> QED BY <1>1, <1>2, <1>3, <1>6, <1>7, <1>9 DEF IInv, Scans, Ends

-----------------------------------------------------------------------------
(* scan_white. *)

\* What is left of the count of a view that no black view references.
LEMMA WhiteCount ==
  ASSUME NEW g, Snapshot(g), NEW K \in SUBSET Scan(g), NEW v \in Scan(g) \ K,
         \A u \in K : ~(g.map[u][v] > 0)
  PROVE  LeftOver(g, StillOut(Scan(g), K, {}))[v] = 0
           <=> g.rc[v] = References(g.map, Scan(g), v)
<1>1. PICK A : A = Scan(g)
  OBVIOUS
<1>2. A \subseteq View /\ v \in View /\ g.blocked[v]
  BY <1>1, ScanFacts
<1>3. PICK P : P = StillOut(A, K, {})
  OBVIOUS
<1>4. \A u \in A : g.map[u][v] > 0 => <<u, v>> \in P
  BY <1>1, <1>2, <1>3 DEF StillOut
<1>5. \A u \in View \ A : <<u, v>> \notin P
  BY <1>3 DEF StillOut
<1>6. Out(g.map, P, v) = References(g.map, A, v) /\ Out(g.map, P, v) \in 0..(RcMod - 1)
  BY <1>2, <1>4, <1>5, OutReferences
<1>7. g.rc[v] \in 0..(RcMod - 1) /\ RcMod \in Nat \ {0}
  BY <1>2, ConstantsAssumption DEF Snapshot
<1>8. (g.rc[v] - Out(g.map, P, v)) % RcMod = 0 <=> g.rc[v] = Out(g.map, P, v)
  BY <1>6, <1>7, ModZero
<1>9. LeftOver(g, P)[v] = (g.rc[v] - Out(g.map, P, v)) % RcMod
  BY <1>2 DEF LeftOver
<1> QED BY <1>1, <1>3, <1>6, <1>8, <1>9

\* scan_white pops a viewref and runs mark_white.
LEMMA ScanWhiteStep ==
  ASSUME IInv, ScanWhite
  PROVE  IInv'
<1>1. /\ TypeOK /\ Snapshot(before) /\ MapsMatch /\ ScanInv /\ WhiteInv /\ views = View
      /\ \A v \in View : color[v] # "black" => v \notin deferred
      /\ ScannedApplied
      /\ phase = "white" /\ bstack = {}
  BY DEF IInv, Scans, ScanWhite, WhiteInv
<1>2. UNCHANGED <<views, deferred, blocked, rc, map, delta, count2, per, ack,
                  asked, acked, before>>
  BY DEF ScanWhite, detVars, perVars
<1>3. PICK e \in stack :
       \/ /\ color[e[2]] # "grey"
          /\ stack' = stack \ {e}
          /\ UNCHANGED <<phase, bstack, color, count>>
       \/ /\ color[e[2]] = "grey" /\ ReferencesLeft(e[2])
          /\ stack' = stack \ {e}
          /\ phase' = "black"
          /\ bstack' = {Head(e[2])}
          /\ UNCHANGED <<color, count>>
       \/ /\ color[e[2]] = "grey" /\ ~ReferencesLeft(e[2])
          /\ color' = [color EXCEPT ![e[2]] = "white"]
          /\ count' = count + 1
          /\ stack' = (stack \ {e}) \cup Children(map, e[2])
          /\ UNCHANGED <<phase, bstack>>
  BY DEF ScanWhite
<1>4. PICK s \in View, t \in View : e = <<s, t>> /\ t = e[2]
  BY <1>1 DEF TypeOK
<1>5. Scanned' = Scanned /\ Garbage' = Garbage /\ Snapshot(before')
  BY <1>1, <1>2, SnapshotKept
<1>6. /\ Scanned \subseteq View /\ Greys \subseteq Scanned /\ Whites \subseteq Scanned
      /\ Blacks \subseteq Scanned
  BY <1>1, ScanFacts DEF Scanned, ScanInv, Blacks
<1>7. /\ color \in [View -> {"black", "grey", "white"}]
      /\ rc \in [View -> 0..(RcMod - 1)]
      /\ stack \subseteq View \X View
  BY <1>1 DEF TypeOK
<1>8. /\ ClosedUpTo(Blacks, {}) /\ Blacks \cap Garbage = {}
      /\ \A v \in Whites : before.rc[v] = References(before.map, Scanned, v)
      /\ \A u \in Whites, v \in Scanned :
           before.map[u][v] > 0 /\ color[v] = "grey" => <<u, v>> \in stack
      /\ color[Root] = "grey" => <<Root, Root>> \in stack
      /\ rc = LeftOver(before, StillOut(Scanned, Blacks, {}))
      /\ count = Cardinality(Whites) /\ count2 = 0 /\ per = {}
  BY <1>1 DEF WhiteInv, Head
<1>9. color[t] = "grey" => /\ t \in Scanned \ Blacks
                           /\ rc[t] = 0 <=> before.rc[t] = References(before.map, Scanned, t)
  <2> SUFFICES ASSUME color[t] = "grey"
               PROVE  /\ t \in Scanned \ Blacks
                      /\ rc[t] = 0 <=> before.rc[t] = References(before.map, Scanned, t)
    OBVIOUS
  <2>1. t \in Scanned \ Blacks
    BY <1>6 DEF Greys, Blacks
  <2>2. \A u \in Blacks : ~(before.map[u][t] > 0)
    BY <1>8, <2>1 DEF ClosedUpTo
  <2> QED BY <1>1, <1>6, <1>8, <2>1, <2>2, WhiteCount DEF Scanned
<1>10. MapsMatch' /\ ScannedApplied'
  BY <1>1, <1>2, <1>5 DEF MapsMatch, AppliedMap, ScannedApplied
<1>11. CASE /\ color[t] # "grey"
            /\ stack' = stack \ {e}
            /\ UNCHANGED <<phase, bstack, color, count>>
  <2>1. Greys' = Greys /\ Whites' = Whites /\ Blacks' = Blacks
    BY <1>5, <1>11 DEF Greys, Whites, Blacks
  <2>2. TypeOK' /\ ScanInv'
    BY <1>1, <1>2, <1>5, <1>11, <2>1 DEF TypeOK, ScanInv
  <2>3. WhiteInv'
    <3>1. \A u \in Whites, v \in Scanned :
            before.map[u][v] > 0 /\ color[v] = "grey" => <<u, v>> \in stack'
      BY <1>4, <1>8, <1>11
    <3>2. color[Root] = "grey" => <<Root, Root>> \in stack'
      BY <1>4, <1>8, <1>11
    <3> QED BY <1>1, <1>2, <1>5, <1>8, <1>11, <2>1, <3>1, <3>2
            DEF WhiteInv, EdgesFrom, ClosedUpTo, Head
  <2> QED BY <1>1, <1>2, <1>5, <1>10, <1>11, <2>2, <2>3 DEF IInv, Scans, Ends
<1>12. CASE /\ color[t] = "grey" /\ ReferencesLeft(t)
            /\ stack' = stack \ {e}
            /\ phase' = "black"
            /\ bstack' = {Head(t)}
            /\ UNCHANGED <<color, count>>
  <2>1. Greys' = Greys /\ Whites' = Whites /\ Blacks' = Blacks
    BY <1>5, <1>12 DEF Greys, Whites, Blacks
  <2>2. TypeOK' /\ ScanInv'
    BY <1>1, <1>2, <1>5, <1>12, <2>1 DEF TypeOK, ScanInv, Head, Phases
  <2>3. t \in Scanned \ Garbage
    <3>1. before.rc[t] # References(before.map, Scanned, t)
      BY <1>7, <1>9, <1>12 DEF ReferencesLeft
    <3>2. \A v \in Garbage : before.rc[v] = References(before.map, Scanned, v)
      BY <1>1, LostFacts, GarbageIsLost DEF Scanned
    <3> QED BY <1>9, <1>12, <3>1, <3>2
  <2>4. WhiteInv'
    <3>1. \A u \in Whites, v \in Scanned : before.map[u][v] > 0 /\ color[v] = "grey"
            => <<u, v>> \in stack' \/ <<v, v>> \in bstack'
      BY <1>4, <1>8, <1>12 DEF Head
    <3>2. color[Root] = "grey" => <<Root, Root>> \in stack' \/ <<Root, Root>> \in bstack'
      BY <1>4, <1>8, <1>12 DEF Head
    <3>3. EdgesFrom(bstack, Blacks, Scanned \ Garbage)'
      BY <1>5, <1>12, <2>3 DEF EdgesFrom, Head
    <3>4. ClosedUpTo(Blacks, bstack)'
      BY <1>2, <1>5, <1>8, <2>1 DEF ClosedUpTo
    <3>5. StillOut(Scanned, Blacks, {}) = StillOut(Scanned, Blacks, {<<t, t>>})
      BY <1>9, <1>12 DEF StillOut
    <3>6. rc' = LeftOver(before', StillOut(Scanned', Blacks', bstack'))
      BY <1>2, <1>5, <1>8, <1>12, <2>1, <3>5 DEF Head
    <3>7. \A x \in stack' : x \in View \X View
      BY <1>7, <1>12
    <3> QED BY <1>2, <1>5, <1>8, <1>12, <2>1, <3>1, <3>2, <3>3, <3>4, <3>6, <3>7
            DEF WhiteInv, Head
  <2> QED BY <1>1, <1>2, <1>5, <1>10, <1>12, <2>2, <2>4 DEF IInv, Scans, Ends
<1>13. CASE /\ color[t] = "grey" /\ ~ReferencesLeft(t)
            /\ color' = [color EXCEPT ![t] = "white"]
            /\ count' = count + 1
            /\ stack' = (stack \ {e}) \cup Children(map, t)
            /\ UNCHANGED <<phase, bstack>>
  <2>1. Greys' = Greys \ {t} /\ Whites' = Whites \cup {t} /\ Blacks' = Blacks /\ t \notin Whites
    <3>1. \A v \in View : color'[v] = IF v = t THEN "white" ELSE color[v]
      BY <1>7, <1>13
    <3> QED BY <1>5, <1>6, <1>13, <3>1 DEF Greys, Whites, Blacks
  <2>2. map[t] = before.map[t] /\ t \in Scanned
    BY <1>1, <1>9, <1>13 DEF ScannedApplied
  <2>3. /\ \A x \in Children(map, t) : x \in View \X View
        /\ \A c \in View : before.map[t][c] > 0 => <<t, c>> \in Children(map, t)
    BY <2>2, ChildrenFacts
  <2>4. TypeOK'
    <3>1. color' \in [View -> {"black", "grey", "white"}] /\ count' \in Int
      BY <1>1, <1>7, <1>13 DEF TypeOK
    <3> QED BY <1>1, <1>2, <1>7, <1>13, <2>3, <3>1 DEF TypeOK
  <2>5. ScanInv'
    BY <1>1, <1>2, <1>5, <2>1, <2>2 DEF ScanInv
  <2>6. before.rc[t] = References(before.map, Scanned, t)
    BY <1>7, <1>9, <1>13 DEF ReferencesLeft
  <2>7. count' = Cardinality(Whites')
    <3>1. IsFiniteSet(Whites)
      BY ConstantsAssumption, FS_Subset DEF Whites
    <3> QED BY <1>8, <1>13, <2>1, <3>1, FS_AddElement
  <2>8. WhiteInv'
    <3>1. ASSUME NEW u \in Whites \cup {t}, NEW v \in Scanned,
                 before.map[u][v] > 0, color'[v] = "grey"
          PROVE  <<u, v>> \in stack'
      <4>1. v # t /\ color[v] = "grey" /\ v \in View
        BY <1>6, <1>7, <1>13, <3>1
      <4>2. CASE u = t
        BY <1>13, <2>3, <3>1, <4>1, <4>2
      <4>3. CASE u \in Whites
        <5>1. <<u, v>> \in stack
          BY <1>8, <3>1, <4>1, <4>3
        <5> QED BY <1>4, <1>13, <4>1, <5>1
      <4> QED BY <4>2, <4>3
    <3>2. color'[Root] = "grey" => <<Root, Root>> \in stack'
      BY <1>4, <1>7, <1>8, <1>13
    <3>3. \A v \in Whites' : before.rc[v] = References(before.map, Scanned, v)
      BY <1>8, <2>1, <2>6
    <3>4. \A x \in stack' : x \in View \X View
      BY <1>7, <1>13, <2>3
    <3>5. EdgesFrom(bstack, Blacks, Scanned \ Garbage)' /\ ClosedUpTo(Blacks, bstack)'
      BY <1>1, <1>2, <1>5, <1>8, <1>13, <2>1 DEF EdgesFrom, ClosedUpTo
    <3>6. \A u \in Whites', v \in Scanned' :
            before'.map[u][v] > 0 /\ color'[v] = "grey" => <<u, v>> \in stack'
      BY <1>2, <1>5, <2>1, <3>1
    <3>7. rc' = LeftOver(before', StillOut(Scanned', Blacks', bstack'))
      BY <1>1, <1>2, <1>5, <1>8, <1>13, <2>1
    <3> QED BY <1>1, <1>2, <1>5, <1>8, <1>13, <2>1, <2>7, <3>2, <3>3, <3>4, <3>5,
               <3>6, <3>7 DEF WhiteInv, Head
  <2>9. \A v \in View : color'[v] # "black" => v \notin deferred'
    BY <1>1, <1>2, <1>7, <1>13
  <2> QED BY <1>1, <1>2, <1>5, <1>10, <1>13, <2>4, <2>5, <2>8, <2>9 DEF IInv, Scans, Ends
<1> QED BY <1>3, <1>4, <1>11, <1>12, <1>13

-----------------------------------------------------------------------------
(* scan_black and collect_white: mark_black. *)

\* A blocked view that turns black, or is black, gives one edge back and puts
\* its own on the stack.
LEMMA GiveBack ==
  ASSUME NEW g, Snapshot(g), NEW A \in SUBSET View, NEW K \in SUBSET A,
         NEW S, NEW S2, NEW s \in View, NEW t \in A, <<s, t>> \in S,
         s # t => s \in K,
         \A x \in S2 : x \in S \/ (t \notin K /\ x[1] = t /\ g.map[t][x[2]] > 0),
         \A x \in S : x # <<s, t>> => x \in S2,
         s # t => <<s, t>> \notin S2,
         t \notin K => \A c \in View : g.map[t][c] > 0 => <<t, c>> \in S2
  PROVE  OneMore(g.map, StillOut(A, K \cup {t}, S2), StillOut(A, K, S), s, t)
<1>1. g.map[s][t] > 0 => s # t
  BY DEF Snapshot
<1>2. g.map[s][t] > 0 => /\ <<s, t>> \notin StillOut(A, K \cup {t}, S2)
                         /\ <<s, t>> \in StillOut(A, K, S)
  BY <1>1 DEF StillOut
<1>3. ASSUME NEW u \in View, NEW v \in View, g.map[u][v] > 0, <<u, v>> # <<s, t>>
      PROVE  <<u, v>> \in StillOut(A, K \cup {t}, S2) <=> <<u, v>> \in StillOut(A, K, S)
  <2>1. CASE u \notin A
    BY <2>1 DEF StillOut
  <2>2. CASE u \in K
    <3>1. <<u, v>> \in S2 <=> <<u, v>> \in S
      <4>1. <<u, v>>[1] = u
        OBVIOUS
      <4> QED BY <1>3, <2>2, <4>1
    <3> QED BY <2>2, <3>1 DEF StillOut
  <2>3. CASE u \in A \ K /\ u # t
    BY <2>3 DEF StillOut
  <2>4. CASE u = t /\ t \notin K
    BY <1>3, <2>4 DEF StillOut
  <2> QED BY <2>1, <2>2, <2>3, <2>4
<1> QED BY <1>2, <1>3 DEF OneMore

\* What the step that pops e from a stack S does: it leaves the stack S2.
Marked(e, S, S2, H) ==
  /\ e[2] \in View
  /\ rc' = LeftOver(before, StillOut(Scanned, Blacks', S2))
  /\ rc' \in [View -> 0..(RcMod - 1)]
  /\ color' \in [View -> {"black", "grey", "white"}]
  /\ \A v \in View :
       color'[v] = IF v = e[2] /\ v \in Scanned THEN "black" ELSE color[v]
  /\ Blacks' = Blacks \cup ({e[2]} \cap Scanned)
  /\ Greys' = Greys \ {e[2]} /\ Whites' = Whites \ {e[2]}
  /\ S2 \in SUBSET (View \X View)
  /\ \A x \in S : x # e => x \in S2
  /\ EdgesFrom(S2, Blacks', H) /\ ClosedUpTo(Blacks', S2)

\* mark_black on a popped viewref, and what it pushes.
LEMMA MarkBlackFacts ==
  ASSUME TypeOK, Snapshot(before), MapsMatch, ScanInv, ScannedApplied,
         NEW S \in SUBSET (View \X View), NEW H \in SUBSET Scanned,
         EdgesFrom(S, Blacks, H), ClosedUpTo(Blacks, S),
         rc = LeftOver(before, StillOut(Scanned, Blacks, S)),
         NEW e \in S, MarkBlack(e), before' = before,
         NEW S2, S2 = (S \ {e}) \cup Blackened(e)
  PROVE  Marked(e, S, S2, H)
<1>0. \A v \in Scanned : map[v] = before.map[v]
  BY DEF ScannedApplied
<1>1. /\ color \in [View -> {"black", "grey", "white"}]
      /\ rc \in [View -> 0..(RcMod - 1)]
  BY DEF TypeOK
<1>2. /\ Scanned \subseteq View /\ Root \in Scanned
      /\ \A u \in Scanned, v \in View :
           before.map[u][v] > 0 /\ before.blocked[v] => v \in Scanned
      /\ \A v \in Scanned : before.blocked[v]
      /\ Blacks \subseteq Scanned
  BY ScanFacts DEF Scanned, Blacks
<1>3. \A v \in Blacks : map[v] = before.map[v]
  BY <1>0, <1>2
<1>4. PICK s \in View, t \in View : e = <<s, t>> /\ s = e[1] /\ t = e[2]
  OBVIOUS
<1>5. map[s][t] = before.map[s][t] /\ before.map[s][t] \in Nat
  BY <1>3, <1>4, EdgeCount
<1>6. /\ s # t => s \in Blacks /\ before.map[s][t] > 0
      /\ s = t => t \in H
      /\ s \in Scanned
  BY <1>2, <1>4 DEF EdgesFrom, Snapshot
<1>7. blocked[t] <=> t \in Scanned
  <2>1. blocked = before.blocked
    BY DEF ScanInv
  <2>2. CASE s = t
    BY <1>2, <1>6, <2>1, <2>2
  <2>3. CASE s # t
    BY <1>2, <1>6, <2>1, <2>3
  <2> QED BY <2>2, <2>3
<1>8. Scanned' = Scanned
  BY SnapshotKept
<1>9. \A v \in View : color[v] # "black" => v \in Scanned
  BY <1>1 DEF ScanInv, Greys, Whites
<1>10. CASE t \notin Scanned
  <2>1. rc' = rc /\ color' = color /\ S2 = S \ {e} /\ s # t
    BY <1>4, <1>6, <1>7, <1>10 DEF MarkBlack, Blackened
  <2>2. Blacks' = Blacks /\ Greys' = Greys /\ Whites' = Whites
    BY <1>8, <2>1 DEF Blacks, Greys, Whites
  <2>3. t \notin Greys /\ t \notin Whites
    BY <1>9, <1>10 DEF Greys, Whites
  <2>4. OneMore(before.map, StillOut(Scanned, Blacks, S2), StillOut(Scanned, Blacks, S), s, t)
    <3>1. <<s, t>> \notin StillOut(Scanned, Blacks, S2) /\ <<s, t>> \in StillOut(Scanned, Blacks, S)
      BY <1>4, <1>6, <2>1 DEF StillOut
    <3>2. \A u, v \in View : <<u, v>> # <<s, t>> =>
            (<<u, v>> \in StillOut(Scanned, Blacks, S2) <=> <<u, v>> \in StillOut(Scanned, Blacks, S))
      BY <1>4, <2>1 DEF StillOut
    <3> QED BY <3>1, <3>2 DEF OneMore
  <2>5. ~before.blocked[t]
    BY <1>7, <1>10 DEF ScanInv
  <2>6. LeftOver(before, StillOut(Scanned, Blacks, S))
          = LeftOver(before, StillOut(Scanned, Blacks, S2))
    BY <2>4, <2>5, LeftOverMore
  <2>7. EdgesFrom(S2, Blacks, H)
    BY <2>1 DEF EdgesFrom
  <2>8. ClosedUpTo(Blacks, S2)
    BY <1>4, <1>10, <2>1 DEF ClosedUpTo
  <2> QED BY <1>1, <1>4, <1>10, <2>1, <2>2, <2>3, <2>6, <2>7, <2>8 DEF Marked
<1>11. CASE t \in Scanned
  <2>1. /\ rc' = [rc EXCEPT ![t] = (rc[t] + before.map[s][t]) % RcMod]
        /\ color' = [color EXCEPT ![t] = "black"]
    BY <1>1, <1>4, <1>5, <1>7, <1>11 DEF MarkBlack
  <2>2. Blackened(e) = IF t \notin Blacks THEN Children(map, t) ELSE {}
    BY <1>4, <1>7, <1>11 DEF Blackened, Blacks
  <2>3. \A v \in View : color'[v] = IF v = t THEN "black" ELSE color[v]
    BY <1>1, <2>1
  <2>4. Blacks' = Blacks \cup {t} /\ Greys' = Greys \ {t} /\ Whites' = Whites \ {t}
    BY <1>2, <1>8, <1>11, <2>3 DEF Blacks, Greys, Whites
  <2>5. map[t] = before.map[t] /\ before.map[t][t] = 0
    BY <1>0, <1>11 DEF Snapshot
  <2>6. \A x \in Blackened(e) : /\ x \in View \X View /\ x[1] = t
                                /\ t \notin Blacks /\ before.map[t][x[2]] > 0
    <3>1. \A x \in Children(map, t) : x \in View \X View /\ x[1] = t /\ map[t][x[2]] > 0
      BY ChildrenFacts
    <3> QED BY <2>2, <2>5, <3>1
  <2>7. t \notin Blacks => \A c \in View : before.map[t][c] > 0 => <<t, c>> \in S2
    <3>1. \A c \in View : map[t][c] > 0 => <<t, c>> \in Children(map, t)
      BY ChildrenFacts
    <3> QED BY <2>2, <2>5, <3>1
  <2>8. S2 \in SUBSET (View \X View)
    BY <2>6
  <2>9. \A x \in S : x # e => x \in S2
    OBVIOUS
  <2>10. \A x \in S2 : x \in S \/ (t \notin Blacks /\ x[1] = t /\ before.map[t][x[2]] > 0)
    BY <2>6
  <2>11. s # t => <<s, t>> \notin S2
    BY <1>4, <2>6
  <2>12. EdgesFrom(S2, Blacks', H)
    BY <2>4, <2>10 DEF EdgesFrom
  <2>13. ClosedUpTo(Blacks', S2)
    <3> SUFFICES ASSUME NEW u \in Blacks \cup {t}, NEW v \in Scanned,
                        before.map[u][v] > 0, v \notin Blacks \cup {t}
                 PROVE  <<u, v>> \in S2
      BY <2>4 DEF ClosedUpTo
    <3>1. CASE u \in Blacks
      <4>1. <<u, v>> \in S
        BY <3>1 DEF ClosedUpTo
      <4> QED BY <1>4, <2>9, <4>1
    <3>2. CASE u = t /\ t \notin Blacks
      BY <1>2, <2>7, <3>2
    <3> QED BY <3>1, <3>2
  <2>14. rc' = LeftOver(before, StillOut(Scanned, Blacks \cup {t}, S2))
    <3>1. OneMore(before.map, StillOut(Scanned, Blacks \cup {t}, S2),
                  StillOut(Scanned, Blacks, S), s, t)
      <4>1. <<s, t>> \in S /\ (s # t => s \in Blacks)
        BY <1>4, <1>6
      <4>2. \A x \in S : x # <<s, t>> => x \in S2
        BY <1>4, <2>9
      <4>3. Scanned \in SUBSET View /\ Blacks \in SUBSET Scanned
        BY <1>2
      <4> QED BY <1>11, <2>7, <2>10, <2>11, <4>1, <4>2, <4>3, GiveBack
    <3>2. before.blocked[t]
      BY <1>2, <1>11
    <3>3. PICK f : f = LeftOver(before, StillOut(Scanned, Blacks, S))
      OBVIOUS
    <3>4. LeftOver(before, StillOut(Scanned, Blacks \cup {t}, S2))
            = [f EXCEPT ![t] = (f[t] + before.map[s][t]) % RcMod]
      BY <3>1, <3>2, <3>3, LeftOverMore
    <3> QED BY <2>1, <3>3, <3>4
  <2>15. rc' \in [View -> 0..(RcMod - 1)]
    BY <2>14, LeftOverType
  <2>16. color' \in [View -> {"black", "grey", "white"}]
    BY <1>1, <2>1
  <2> QED BY <1>4, <1>11, <2>3, <2>4, <2>8, <2>9, <2>12, <2>13, <2>14, <2>15, <2>16
         DEF Marked
<1> QED BY <1>10, <1>11

\* scan_black inside scan_white.
LEMMA ScanBlackStep ==
  ASSUME IInv, ScanBlack
  PROVE  IInv'
<1>1. /\ TypeOK /\ Snapshot(before) /\ MapsMatch /\ ScanInv /\ WhiteInv /\ views = View
      /\ \A v \in View : color[v] # "black" => v \notin deferred
      /\ ScannedApplied
  BY DEF IInv, Scans, ScanBlack
<1>2. /\ phase = "black"
      /\ UNCHANGED <<views, deferred, blocked, map, delta, phase, stack, count2,
                     per, ack, asked, acked, before>>
  BY DEF ScanBlack, detVars, perVars
<1>3. PICK e \in bstack : /\ MarkBlack(e)
                          /\ bstack' = (bstack \ {e}) \cup Blackened(e)
                          /\ count' = count - WhiteBlackened(e)
  BY DEF ScanBlack
<1>4. /\ Scanned' = Scanned /\ Garbage' = Garbage /\ Snapshot(before')
  BY <1>1, <1>2, SnapshotKept
<1>5. /\ EdgesFrom(bstack, Blacks, Scanned \ Garbage) /\ ClosedUpTo(Blacks, bstack)
      /\ rc = LeftOver(before, StillOut(Scanned, Blacks, bstack))
      /\ bstack \in SUBSET (View \X View)
      /\ Scanned \ Garbage \in SUBSET Scanned
  BY <1>1 DEF WhiteInv, TypeOK
<1>6. /\ e[2] \in View
      /\ rc' = LeftOver(before, StillOut(Scanned, Blacks', bstack'))
      /\ rc' \in [View -> 0..(RcMod - 1)]
      /\ color' \in [View -> {"black", "grey", "white"}]
      /\ \A v \in View :
           color'[v] = IF v = e[2] /\ v \in Scanned THEN "black" ELSE color[v]
      /\ Blacks' = Blacks \cup ({e[2]} \cap Scanned)
      /\ Greys' = Greys \ {e[2]} /\ Whites' = Whites \ {e[2]}
      /\ bstack' \in SUBSET (View \X View)
      /\ \A x \in bstack : x # e => x \in bstack'
      /\ EdgesFrom(bstack', Blacks', Scanned \ Garbage) /\ ClosedUpTo(Blacks', bstack')
  <2>1. Marked(e, bstack, bstack', Scanned \ Garbage)
    BY <1>1, <1>2, <1>3, <1>5, MarkBlackFacts
  <2> QED BY <2>1 DEF Marked
<1>7. PICK s \in View, t \in View : e = <<s, t>> /\ s = e[1] /\ t = e[2]
  BY <1>5
<1>8. IsFiniteSet(Whites) /\ Whites \subseteq View
  BY ConstantsAssumption, FS_Subset DEF Whites
<1>9. count' = Cardinality(Whites') /\ count' \in Int
  <2>1. count = Cardinality(Whites) /\ Cardinality(Whites) \in Nat
    BY <1>1, <1>8, FS_CardinalityType DEF WhiteInv
  <2>2. CASE t \in Whites
    <3>1. WhiteBlackened(e) = 1
      BY <1>7, <2>2 DEF Whites, WhiteBlackened
    <3>2. Cardinality(Whites \ {t}) = Cardinality(Whites) - 1
      BY <1>8, <2>2, FS_RemoveElement
    <3>3. PICK n \in Nat : n = Cardinality(Whites)
      BY <2>1
    <3>4. count' = n - 1 /\ Cardinality(Whites') = n - 1
      BY <1>3, <1>6, <1>7, <2>1, <3>1, <3>2, <3>3
    <3> QED BY <3>4
  <2>3. CASE t \notin Whites
    <3>1. WhiteBlackened(e) = 0
      BY <1>7, <2>3 DEF Whites, WhiteBlackened
    <3>2. Whites \ {t} = Whites
      BY <2>3
    <3>3. PICK n \in Nat : n = Cardinality(Whites)
      BY <2>1
    <3>4. count' = n - 0 /\ Cardinality(Whites') = n
      BY <1>3, <1>6, <1>7, <2>1, <3>1, <3>2, <3>3
    <3> QED BY <3>4
  <2> QED BY <2>2, <2>3
<1>10. Blacks' \cap Garbage = {}
  <2>1. Blacks \cap Garbage = {} /\ Blacks \subseteq Scanned
    BY <1>1 DEF WhiteInv, Blacks
  <2>2. t \notin Garbage
    <3>1. \A v \in Garbage, u \in Scanned \ Garbage : before.map[u][v] = 0
      BY <1>1, LostFacts, GarbageIsLost DEF Scanned
    <3>2. CASE s = t /\ t \in Scanned \ Garbage
      BY <3>2
    <3>3. CASE s \in Blacks /\ before.map[s][t] > 0
      BY <2>1, <3>1, <3>3
    <3> QED BY <1>5, <1>7, <3>2, <3>3 DEF EdgesFrom
  <2> QED BY <1>6, <1>7, <2>1, <2>2
<1>11. TypeOK' /\ MapsMatch' /\ ScannedApplied'
  BY <1>1, <1>2, <1>4, <1>6, <1>9 DEF TypeOK, MapsMatch, AppliedMap, ScannedApplied
<1>12. ScanInv'
  BY <1>1, <1>2, <1>4, <1>6 DEF ScanInv
<1>13. ASSUME NEW u \in Whites', NEW v \in Scanned, before.map[u][v] > 0, color'[v] = "grey"
       PROVE  <<u, v>> \in stack \/ <<v, v>> \in bstack'
  <2>1. v \in View /\ v # t /\ color[v] = "grey" /\ u \in Whites
    <3>1. Scanned \subseteq View
      BY <1>1, ScanFacts DEF Scanned
    <3> QED BY <1>6, <1>7, <1>13, <3>1
  <2>2. <<u, v>> \in stack \/ <<v, v>> \in bstack
    BY <1>1, <1>13, <2>1 DEF WhiteInv, Head
  <2> QED BY <1>6, <1>7, <2>1, <2>2
<1>14. color'[Root] = "grey" => <<Root, Root>> \in stack \/ <<Root, Root>> \in bstack'
  <2> SUFFICES ASSUME color'[Root] = "grey"
               PROVE  <<Root, Root>> \in stack \/ <<Root, Root>> \in bstack'
    OBVIOUS
  <2>1. Root \in View /\ Root \in Scanned
    BY <1>1, ScanFacts, ConstantsAssumption DEF Scanned
  <2>2. Root # t /\ color[Root] = "grey"
    BY <1>6, <1>7, <2>1
  <2> QED BY <1>1, <1>6, <1>7, <2>2 DEF WhiteInv, Head
<1>15. EdgesFrom(bstack, Blacks, Scanned \ Garbage)' /\ ClosedUpTo(Blacks, bstack)'
  BY <1>2, <1>4, <1>6 DEF EdgesFrom, ClosedUpTo
<1>16. \A u \in Whites', v \in Scanned' : before'.map[u][v] > 0 /\ color'[v] = "grey"
          => <<u, v>> \in stack' \/ <<v, v>> \in bstack'
  BY <1>2, <1>4, <1>13
<1>17. \A v \in Whites' : before'.rc[v] = References(before'.map, Scanned', v)
  BY <1>1, <1>2, <1>4, <1>6 DEF WhiteInv
<1>18. WhiteInv'
  BY <1>1, <1>2, <1>4, <1>6, <1>9, <1>10, <1>14, <1>15, <1>16, <1>17 DEF WhiteInv, Head
<1>19. \A v \in View : color'[v] # "black" => v \notin deferred'
  BY <1>1, <1>2, <1>6
<1> QED BY <1>1, <1>2, <1>4, <1>11, <1>12, <1>18, <1>19 DEF IInv, Scans, Ends

\* scan_black returns.
LEMMA BlackDoneStep ==
  ASSUME IInv, BlackDone
  PROVE  IInv'
<1>1. /\ TypeOK /\ Snapshot(before) /\ MapsMatch /\ ScanInv /\ WhiteInv /\ views = View
      /\ \A v \in View : color[v] # "black" => v \notin deferred
      /\ ScannedApplied
  BY DEF IInv, Scans, BlackDone
<1>2. /\ bstack = {} /\ phase' = "white"
      /\ UNCHANGED <<views, deferred, blocked, rc, map, delta, color, stack, bstack,
                     count, count2, per, ack, asked, acked, before>>
  BY DEF BlackDone, viewVars, detVars, scanVars, perVars
<1>3. /\ Scanned' = Scanned /\ Garbage' = Garbage /\ Snapshot(before')
      /\ Greys' = Greys /\ Whites' = Whites /\ Blacks' = Blacks
  BY <1>1, <1>2, SnapshotKept DEF Greys, Whites, Blacks
<1>4. TypeOK' /\ MapsMatch' /\ ScanInv' /\ ScannedApplied'
  BY <1>1, <1>2, <1>3 DEF TypeOK, MapsMatch, AppliedMap, ScanInv, Phases,
                                 ScannedApplied
<1>5. WhiteInv'
  BY <1>1, <1>2, <1>3 DEF WhiteInv, EdgesFrom, ClosedUpTo
<1> QED BY <1>1, <1>2, <1>3, <1>4, <1>5 DEF IInv, Scans, Ends

-----------------------------------------------------------------------------
(* The end of scan_white. *)

\* When scan_white ends, the white views are the garbage.
LEMMA WhitesAreGarbage ==
  ASSUME IInv, phase = "white", stack = {}
  PROVE  Greys = {} /\ Whites = Garbage /\ Blacks = Scanned \ Garbage
<1>1. /\ TypeOK /\ Snapshot(before) /\ ScanInv /\ WhiteInv /\ bstack = {}
  BY DEF IInv, Scans, WhiteInv
<1>2. /\ Scanned \subseteq View /\ Root \in Scanned
      /\ \A S \in SUBSET View :
           /\ Root \in S
           /\ \A u \in S, v \in Scanned : before.map[u][v] > 0 => v \in S
           => Scanned \subseteq S
  BY <1>1, ScanFacts DEF Scanned
<1>3. /\ Garbage \subseteq Scanned
      /\ \A S \in SUBSET Scanned :
           /\ \A v \in S : before.rc[v] = References(before.map, Scanned, v)
           /\ \A v \in S, u \in Scanned \ S : before.map[u][v] = 0
           => S \subseteq Garbage
  BY <1>1, LostFacts, GarbageIsLost DEF Scanned
<1>4. /\ Whites \subseteq Scanned /\ Blacks \subseteq Scanned /\ Greys \subseteq Scanned
      /\ \A v \in Scanned : v \in Greys \/ v \in Whites \/ v \in Blacks
      /\ Greys \cap Whites = {} /\ Greys \cap Blacks = {} /\ Whites \cap Blacks = {}
  BY <1>1, <1>2 DEF ScanInv, TypeOK, Greys, Whites, Blacks
<1>5. \A u \in Blacks, v \in Scanned : before.map[u][v] > 0 => v \in Blacks
  BY <1>1 DEF WhiteInv, ClosedUpTo
<1>6. \A u \in Whites, v \in Scanned : before.map[u][v] > 0 => v \notin Greys
  BY <1>1 DEF WhiteInv, Greys
<1>7. Root \notin Greys
  BY <1>1 DEF WhiteInv, Greys
<1>8. Greys = {}
  <2>1. \A u \in Whites \cup Blacks, v \in Scanned :
          before.map[u][v] > 0 => v \in Whites \cup Blacks
    BY <1>4, <1>5, <1>6
  <2>2. Scanned \subseteq Whites \cup Blacks
    BY <1>2, <1>4, <1>7, <2>1
  <2> QED BY <1>4, <2>2
<1>9. Whites \subseteq Garbage
  <2>1. \A v \in Whites : before.rc[v] = References(before.map, Scanned, v)
    BY <1>1 DEF WhiteInv
  <2>2. ASSUME NEW v \in Whites, NEW u \in Scanned \ Whites PROVE before.map[u][v] = 0
    <3>1. u \in Blacks
      BY <1>4, <1>8
    <3>2. ~(before.map[u][v] > 0)
      BY <1>4, <1>5, <3>1
    <3>3. before.map[u][v] \in Nat
      BY <1>1, <1>2, <1>4 DEF Snapshot
    <3> QED BY <3>2, <3>3
  <2> QED BY <1>3, <1>4, <2>1, <2>2
<1>10. Blacks \cap Garbage = {}
  BY <1>1 DEF WhiteInv
<1> QED BY <1>3, <1>4, <1>8, <1>9, <1>10

\* No white view: the counts have been given back.
LEMMA NothingFoundStep ==
  ASSUME IInv, NothingFound
  PROVE  IInv'
<1>1. /\ TypeOK /\ Snapshot(before) /\ MapsMatch /\ ScanInv /\ WhiteInv /\ views = View
      /\ phase = "white" /\ stack = {} /\ count = 0 /\ bstack = {}
  BY DEF IInv, Scans, NothingFound, WhiteInv
<1>2. /\ phase' = "none"
      /\ UNCHANGED <<views, deferred, blocked, rc, map, delta, color, stack, bstack,
                     count, count2, per, ack, asked, acked, before>>
  BY DEF NothingFound, viewVars, detVars, scanVars, perVars
<1>3. Garbage' = Garbage /\ Snapshot(before')
  BY <1>1, <1>2, SnapshotKept
<1>4. Greys = {} /\ Whites = Garbage /\ Blacks = Scanned \ Garbage
  BY <1>1, WhitesAreGarbage
<1>5. Whites = {}
  <2>1. IsFiniteSet(Whites)
    BY ConstantsAssumption, FS_Subset DEF Whites
  <2> QED BY <1>1, <2>1, FS_EmptySet DEF WhiteInv
<1>6. color = [v \in View |-> "black"]
  BY <1>1, <1>4, <1>5 DEF TypeOK, Greys, Whites
<1>7. rc = before.rc
  <2>1. \A u, v \in View : <<u, v>> \notin StillOut(Scanned, Blacks, bstack)
    BY <1>1, <1>4, <1>5 DEF StillOut
  <2>2. LeftOver(before, StillOut(Scanned, Blacks, bstack)) = before.rc
    BY <1>1, <2>1, LeftOverNone
  <2> QED BY <1>1, <2>2 DEF WhiteInv
<1>8. TypeOK' /\ MapsMatch'
  BY <1>1, <1>2 DEF TypeOK, MapsMatch, AppliedMap, Phases
<1>9. DoneInv'
  BY <1>1, <1>2, <1>3, <1>4, <1>5, <1>6, <1>7 DEF DoneInv
<1>10. \A v \in View : color'[v] = "black"
  BY <1>2, <1>6
<1> QED BY <1>1, <1>2, <1>3, <1>8, <1>9, <1>10 DEF IInv, Scans, Ends

\* A cycle is found: collect_white starts.
LEMMA CycleFoundStep ==
  ASSUME IInv, CycleFound
  PROVE  IInv'
<1>1. /\ TypeOK /\ Snapshot(before) /\ MapsMatch /\ ScanInv /\ WhiteInv /\ views = View
      /\ phase = "white" /\ stack = {} /\ bstack = {}
      /\ \A v \in View : color[v] # "black" => v \notin deferred
      /\ ScannedApplied
  BY DEF IInv, Scans, CycleFound, WhiteInv
<1>2. /\ phase' = "collect" /\ stack' = {<<Root, Root>>}
      /\ UNCHANGED <<views, deferred, blocked, rc, map, delta, color, bstack,
                     count, count2, per, ack, asked, acked, before>>
  BY DEF CycleFound, viewVars, detVars, perVars, Head
<1>3. /\ Scanned' = Scanned /\ Garbage' = Garbage /\ Snapshot(before')
      /\ Greys' = Greys /\ Whites' = Whites /\ Blacks' = Blacks
  BY <1>1, <1>2, SnapshotKept DEF Greys, Whites, Blacks
<1>4. Greys = {} /\ Whites = Garbage /\ Blacks = Scanned \ Garbage
  BY <1>1, WhitesAreGarbage
<1>5. TypeOK' /\ MapsMatch' /\ ScanInv' /\ ScannedApplied'
  <2>1. Root \in View
    BY ConstantsAssumption
  <2> QED BY <1>1, <1>2, <1>3, <2>1 DEF TypeOK, MapsMatch, AppliedMap, ScanInv, Phases,
                                          ScannedApplied
<1>6. rc = LeftOver(before, StillOut(Scanned, Blacks, {<<Root, Root>>}))
  <2>1. SameEdges(before.map, StillOut(Scanned, Blacks, {}),
                  StillOut(Scanned, Blacks, {<<Root, Root>>}))
    <3>1. ~(before.map[Root][Root] > 0)
      BY <1>1, ConstantsAssumption DEF Snapshot
    <3> QED BY <3>1 DEF SameEdges, StillOut
  <2>2. LeftOver(before, StillOut(Scanned, Blacks, {}))
          = LeftOver(before, StillOut(Scanned, Blacks, {<<Root, Root>>}))
    BY <1>1, <2>1, LeftOverSame
  <2> QED BY <1>1, <2>2 DEF WhiteInv
<1>7. CollectInv'
  <2>1. count = Cardinality(Garbage) /\ count2 = 0 /\ per = {} /\ Cardinality({}) = 0
    BY <1>1, <1>4, FS_EmptySet DEF WhiteInv
  <2>2. EdgesFrom(stack, Blacks, {Root})'
    BY <1>2 DEF EdgesFrom
  <2>3. ClosedUpTo(Blacks, stack)'
    BY <1>1, <1>2, <1>3 DEF WhiteInv, ClosedUpTo
  <2> QED BY <1>1, <1>2, <1>3, <1>4, <1>6, <2>1, <2>2, <2>3 DEF CollectInv, Head
<1> QED BY <1>1, <1>2, <1>3, <1>5, <1>7 DEF IInv, Scans, Ends

-----------------------------------------------------------------------------
(* collect_white. *)

\* collect_white pops a viewref: collect_view, then mark_black.
LEMMA CollectWhiteStep ==
  ASSUME IInv, CollectWhite
  PROVE  IInv'
<1>1. /\ TypeOK /\ Snapshot(before) /\ MapsMatch /\ ScanInv /\ CollectInv /\ views = View
      /\ \A v \in View : color[v] # "black" => v \notin deferred
      /\ ScannedApplied
  BY DEF IInv, Scans, CollectWhite
<1>2. /\ phase = "collect"
      /\ UNCHANGED <<views, deferred, blocked, map, delta, phase, bstack, count,
                     ack, asked, acked, before>>
  BY DEF CollectWhite, detVars
<1>3. PICK e \in stack :
        /\ MarkBlack(e)
        /\ stack' = (stack \ {e}) \cup Blackened(e)
        /\ per' = IF color[e[2]] = "white" THEN per \cup {e[2]} ELSE per
        /\ count2' = count2 + WhiteBlackened(e)
  BY DEF CollectWhite
<1>4. /\ Scanned' = Scanned /\ Garbage' = Garbage /\ Snapshot(before')
  BY <1>1, <1>2, SnapshotKept
<1>5. /\ EdgesFrom(stack, Blacks, {Root}) /\ ClosedUpTo(Blacks, stack)
      /\ rc = LeftOver(before, StillOut(Scanned, Blacks, stack))
      /\ stack \in SUBSET (View \X View)
      /\ {Root} \in SUBSET Scanned
  BY <1>1, ScanFacts DEF CollectInv, TypeOK, Scanned
<1>6. /\ e[2] \in View
      /\ rc' = LeftOver(before, StillOut(Scanned, Blacks', stack'))
      /\ rc' \in [View -> 0..(RcMod - 1)]
      /\ color' \in [View -> {"black", "grey", "white"}]
      /\ \A v \in View :
           color'[v] = IF v = e[2] /\ v \in Scanned THEN "black" ELSE color[v]
      /\ Blacks' = Blacks \cup ({e[2]} \cap Scanned)
      /\ Greys' = Greys \ {e[2]} /\ Whites' = Whites \ {e[2]}
      /\ stack' \in SUBSET (View \X View)
      /\ \A x \in stack : x # e => x \in stack'
      /\ EdgesFrom(stack', Blacks', {Root}) /\ ClosedUpTo(Blacks', stack')
  <2>1. Marked(e, stack, stack', {Root})
    BY <1>1, <1>2, <1>3, <1>5, MarkBlackFacts
  <2> QED BY <2>1 DEF Marked
<1>7. PICK s \in View, t \in View : e = <<s, t>> /\ s = e[1] /\ t = e[2]
  BY <1>5
<1>8. /\ Whites \subseteq Garbage /\ per = Garbage \ Whites /\ Garbage \subseteq View
      /\ count2 = Cardinality(per)
  <2>1. Garbage \subseteq Scanned /\ Scanned \subseteq View
    BY <1>1, LostFacts, ScanFacts, GarbageIsLost DEF Scanned
  <2> QED BY <1>1, <2>1 DEF CollectInv
<1>9. IsFiniteSet(per) /\ Cardinality(per) \in Nat
  <2>1. per \subseteq View
    BY <1>8
  <2> QED BY <2>1, ConstantsAssumption, FS_Subset, FS_CardinalityType
<1>10. /\ Whites' \subseteq Garbage /\ per' = Garbage \ Whites'
       /\ count2' = Cardinality(per') /\ count2' \in Int
  <2>1. CASE t \in Whites
    <3>1. WhiteBlackened(e) = 1 /\ color[e[2]] = "white"
      BY <1>7, <2>1 DEF Whites, WhiteBlackened
    <3>2. per' = per \cup {t} /\ t \notin per /\ count2' = count2 + 1
      BY <1>3, <1>7, <1>8, <2>1, <3>1
    <3>3. Cardinality(per \cup {t}) = Cardinality(per) + 1
      BY <1>9, <3>2, FS_AddElement
    <3>4. PICK n \in Nat : n = Cardinality(per)
      BY <1>9
    <3>5. count2' = n + 1 /\ Cardinality(per') = n + 1
      BY <1>8, <3>2, <3>3, <3>4
    <3> QED BY <1>6, <1>7, <1>8, <2>1, <3>2, <3>5
  <2>2. CASE t \notin Whites
    <3>1. WhiteBlackened(e) = 0 /\ color[e[2]] # "white"
      BY <1>7, <2>2 DEF Whites, WhiteBlackened
    <3>2. per' = per /\ count2' = count2 + 0 /\ Whites' = Whites
      BY <1>3, <1>6, <1>7, <2>2, <3>1
    <3>3. PICK n \in Nat : n = Cardinality(per)
      BY <1>9
    <3>4. count2' = n
      BY <1>8, <3>2, <3>3
    <3> QED BY <1>8, <3>2, <3>3, <3>4
  <2> QED BY <2>1, <2>2
<1>11. TypeOK' /\ MapsMatch' /\ ScannedApplied'
  BY <1>1, <1>2, <1>4, <1>6, <1>8, <1>10 DEF TypeOK, MapsMatch, AppliedMap, ScannedApplied
<1>12. ScanInv'
  BY <1>1, <1>2, <1>4, <1>6 DEF ScanInv
<1>13. EdgesFrom(stack, Blacks, {Root})' /\ ClosedUpTo(Blacks, stack)'
  BY <1>2, <1>4, <1>6 DEF EdgesFrom, ClosedUpTo
<1>14. Root \in Blacks' \/ <<Root, Root>> \in stack'
  <2>1. Root \in Blacks \/ <<Root, Root>> \in stack
    BY <1>1 DEF CollectInv, Head
  <2> QED BY <1>5, <1>6, <1>7, <2>1
<1>15. CollectInv'
  BY <1>1, <1>2, <1>4, <1>6, <1>10, <1>13, <1>14 DEF CollectInv, Head
<1>16. \A v \in View : color'[v] # "black" => v \notin deferred'
  BY <1>1, <1>2, <1>6
<1> QED BY <1>1, <1>2, <1>4, <1>11, <1>12, <1>15, <1>16 DEF IInv, Scans, Ends

\* collect_white ends: the perceived cycle is the garbage, and the first CONFs
\* are sent.
LEMMA PerceivedStep ==
  ASSUME IInv, Perceived
  PROVE  IInv'
<1>1. /\ TypeOK /\ Snapshot(before) /\ MapsMatch /\ ScanInv /\ CollectInv /\ views = View
      /\ stack = {}
  BY DEF IInv, Scans, Perceived
<1>2. /\ phase' = "conf"
      /\ UNCHANGED <<views, deferred, blocked, rc, map, delta, color, stack, bstack,
                     count, count2, per, ack, acked, before>>
  BY DEF Perceived, viewVars, detVars, scanVars
<1>3. asked' \subseteq asked \cup per
  BY DEF Perceived, SendConf
<1>4. Garbage' = Garbage /\ Snapshot(before')
  BY <1>1, <1>2, SnapshotKept
<1>5. /\ Scanned \subseteq View /\ \A v \in Scanned : before.blocked[v]
      /\ \A S \in SUBSET View :
           /\ Root \in S
           /\ \A u \in S, v \in Scanned : before.map[u][v] > 0 => v \in S
           => Scanned \subseteq S
  BY <1>1, ScanFacts DEF Scanned
<1>6. Scanned \subseteq Blacks
  <2>1. Blacks \subseteq View /\ Root \in Blacks
    BY <1>1, <1>5 DEF CollectInv, Blacks
  <2>2. \A u \in Blacks, v \in Scanned : before.map[u][v] > 0 => v \in Blacks
    BY <1>1 DEF CollectInv, ClosedUpTo
  <2> QED BY <1>5, <2>1, <2>2
<1>7. Whites = {} /\ Greys = {}
  BY <1>1, <1>6 DEF ScanInv, Whites, Greys, Blacks
<1>8. color = [v \in View |-> "black"]
  BY <1>1, <1>7 DEF TypeOK, Greys, Whites
<1>9. rc = before.rc
  <2>1. \A u, v \in View : <<u, v>> \notin StillOut(Scanned, Blacks, stack)
    BY <1>1, <1>6 DEF StillOut
  <2>2. LeftOver(before, StillOut(Scanned, Blacks, stack)) = before.rc
    BY <1>1, <2>1, LeftOverNone
  <2> QED BY <1>1, <2>2 DEF CollectInv
<1>10. per = Garbage /\ Garbage \subseteq Scanned /\ asked = {} /\ acked = {} /\ ack = 0
  BY <1>1, <1>7, LostFacts, GarbageIsLost DEF CollectInv, Scanned, ScanInv
<1>11. TypeOK' /\ MapsMatch'
  BY <1>1, <1>2, <1>3 DEF TypeOK, MapsMatch, AppliedMap, Phases
<1>12. DoneInv'
  <2>1. \A v \in per : blocked[v]
    BY <1>1, <1>5, <1>10 DEF ScanInv
  <2>2. ack = Cardinality(acked)
    BY <1>10, FS_EmptySet
  <2>3. count = Cardinality(per) /\ count2 = count
    BY <1>1, <1>10 DEF CollectInv
  <2>4. bstack = {}
    BY <1>1 DEF CollectInv
  <2> QED BY <1>2, <1>3, <1>4, <1>8, <1>9, <1>10, <2>1, <2>2, <2>3, <2>4 DEF DoneInv
<1>13. \A v \in View : color'[v] = "black"
  BY <1>2, <1>8
<1> QED BY <1>1, <1>2, <1>4, <1>11, <1>12, <1>13 DEF IInv, Scans, Ends

-----------------------------------------------------------------------------
(* The CONF/ACK exchange. *)

\* What holds while a perceived cycle is being confirmed.
LEMMA ConfFacts ==
  ASSUME IInv, phase = "conf"
  PROVE  /\ TypeOK /\ Snapshot(before) /\ MapsMatch /\ DoneInv /\ views = View
         /\ \A v \in View : color[v] = "black"
         /\ per = Garbage /\ acked \subseteq asked /\ asked \subseteq per
         /\ ack = Cardinality(acked) /\ count = Cardinality(per) /\ count2 = count
         /\ \A v \in per : blocked[v]
BY DEF IInv, Ends, DoneInv

\* An ACK.
LEMMA AckStep ==
  ASSUME IInv, Ack
  PROVE  IInv'
<1>1. /\ TypeOK /\ Snapshot(before) /\ MapsMatch /\ DoneInv /\ views = View
      /\ \A v \in View : color[v] = "black"
      /\ per = Garbage /\ acked \subseteq asked /\ asked \subseteq per
      /\ ack = Cardinality(acked) /\ count = Cardinality(per) /\ count2 = count
      /\ \A v \in per : blocked[v]
  BY ConfFacts DEF Ack
<1>2. /\ phase = "conf" /\ ack' = ack + 1
      /\ UNCHANGED <<blocked, rc, map, delta, color, stack, bstack, count, count2,
                     per, before>>
  BY DEF Ack, scanVars
<1>3. PICK v \in asked \ acked : acked' = acked \cup {v}
  BY DEF Ack
<1>4. Garbage' = Garbage /\ Snapshot(before')
  BY <1>1, <1>2, SnapshotKept
<1>5. IsFiniteSet(per) /\ IsFiniteSet(acked) /\ ack \in Nat
  BY <1>1, ConstantsAssumption, FS_Subset DEF TypeOK
<1>6. ack' = Cardinality(acked')
  BY <1>1, <1>2, <1>3, <1>5, FS_AddElement
<1>7. acked' \subseteq asked
  BY <1>1, <1>3
<1>8. MapsMatch'
  BY <1>1, <1>2 DEF MapsMatch, AppliedMap
<1>9. CASE AllConfirmed(ack') /\ Collect /\ UNCHANGED asked
  <2>1. /\ phase' = "collected" /\ views' = View \ per /\ deferred' \subseteq deferred
        /\ asked' = asked
    BY <1>1, <1>9 DEF Collect
  <2>2. TypeOK'
    BY <1>1, <1>2, <1>5, <1>7, <2>1 DEF TypeOK, Phases
  <2>3. acked' = per
    BY <1>1, <1>5, <1>6, <1>7, <1>9, FS_Subset DEF AllConfirmed
  <2>4. DoneInv'
    BY <1>1, <1>2, <1>4, <2>1, <2>3 DEF DoneInv
  <2> QED BY <1>1, <1>2, <1>4, <1>8, <2>1, <2>2, <2>4 DEF IInv, Scans, Ends
<1>10. CASE asked' \subseteq asked \cup per /\ asked \subseteq asked' /\ UNCHANGED <<phase, detVars>>
  <2>1. phase' = phase /\ views' = views /\ deferred' = deferred
    BY <1>10 DEF detVars
  <2>2. TypeOK'
    BY <1>1, <1>2, <1>5, <1>7, <1>10, <2>1 DEF TypeOK
  <2>3. DoneInv'
    BY <1>1, <1>2, <1>4, <1>6, <1>7, <1>10, <2>1 DEF DoneInv
  <2> QED BY <1>1, <1>2, <1>4, <1>8, <2>1, <2>2, <2>3 DEF IInv, Scans, Ends
<1>11. CASE SendConf /\ UNCHANGED <<phase, detVars>>
  BY <1>10, <1>11 DEF SendConf
<1>12. CASE UNCHANGED <<phase, detVars, asked>>
  BY <1>10, <1>12
<1> QED BY <1>9, <1>11, <1>12 DEF Ack

\* The ACK of an expired token.
LEMMA LateAckStep ==
  ASSUME IInv, LateAck
  PROVE  IInv'
<1>1. /\ TypeOK /\ Snapshot(before) /\ MapsMatch /\ DoneInv /\ views = View
      /\ \A v \in View : color[v] = "black"
  BY DEF IInv, LateAck, Ends, DoneInv
<1>2. /\ phase = "expired"
      /\ UNCHANGED <<views, deferred, blocked, rc, map, delta, color, phase, stack,
                     bstack, count, count2, per, ack, asked, before>>
  BY DEF LateAck, viewVars, detVars, scanVars
<1>3. acked' \subseteq acked \cup asked
  BY DEF LateAck
<1>4. Garbage' = Garbage /\ Snapshot(before')
  BY <1>1, <1>2, SnapshotKept
<1>5. TypeOK' /\ MapsMatch' /\ DoneInv'
  BY <1>1, <1>2, <1>3 DEF TypeOK, MapsMatch, AppliedMap, DoneInv
<1> QED BY <1>1, <1>2, <1>4, <1>5 DEF IInv, Scans, Ends

\* A view unblocks: the cycle it is in expires.
LEMMA UnblockStep ==
  ASSUME IInv, NEW v \in View, Unblock(v)
  PROVE  IInv'
<1>1. /\ TypeOK /\ Snapshot(before) /\ MapsMatch /\ DoneInv /\ views = View
      /\ \A u \in View : color[u] = "black"
      /\ per = Garbage /\ acked \subseteq asked /\ asked \subseteq per
      /\ ack = Cardinality(acked) /\ count = Cardinality(per) /\ count2 = count
      /\ \A u \in per : blocked[u]
  BY ConfFacts DEF Unblock
<1>2. /\ phase = "conf" /\ blocked' = [blocked EXCEPT ![v] = FALSE]
      /\ deferred' = deferred \ {v}
      /\ UNCHANGED <<views, rc, map, delta, color, stack, bstack, count, count2,
                     ack, asked, acked, before>>
  BY DEF Unblock, Undeferred, scanVars
<1>3. Garbage' = Garbage /\ Snapshot(before')
  BY <1>1, <1>2, SnapshotKept
<1>4. blocked' \in [View -> BOOLEAN] /\ \A u \in View : u # v => blocked'[u] = blocked[u]
  BY <1>1, <1>2 DEF TypeOK
<1>5. MapsMatch'
  BY <1>1, <1>2 DEF MapsMatch, AppliedMap
<1>6. CASE v \in per
  <2>1. phase' = "expired" /\ per' = {}
    BY <1>6 DEF Unblock, Expire
  <2>2. TypeOK' /\ DoneInv'
    BY <1>1, <1>2, <1>4, <2>1 DEF TypeOK, DoneInv, Phases
  <2> QED BY <1>1, <1>2, <1>3, <1>5, <2>1, <2>2 DEF IInv, Scans, Ends
<1>7. CASE v \notin per
  <2>1. phase' = phase /\ per' = per
    BY <1>7 DEF Unblock, Expire
  <2>2. TypeOK'
    BY <1>1, <1>2, <1>4, <2>1 DEF TypeOK
  <2>3. \A u \in per : blocked'[u]
    BY <1>1, <1>4, <1>7 DEF TypeOK
  <2>4. DoneInv'
    BY <1>1, <1>2, <1>3, <2>1, <2>3 DEF DoneInv
  <2> QED BY <1>1, <1>2, <1>3, <1>5, <2>1, <2>2, <2>4 DEF IInv, Scans, Ends
<1> QED BY <1>6, <1>7

-----------------------------------------------------------------------------
(* The theorems. *)

\* The invariant is inductive: every step of a detection attempt and of the
\* CONF/ACK exchange keeps it.
THEOREM DetectInvariance == Spec => []IInv
<1>1. Init => IInv
  BY InitInvariant
<1>2. IInv /\ [Next]_vars => IInv'
  <2> SUFFICES ASSUME IInv, [Next]_vars PROVE IInv'
    OBVIOUS
  <2>1. CASE UNCHANGED vars
    <3>1. UNCHANGED <<views, deferred, blocked, rc, map, delta, color, phase, stack,
                      bstack, count, count2, per, ack, asked, acked, before>>
      BY <2>1 DEF vars, viewVars, detVars, scanVars, perVars
    <3>2. Scanned' = Scanned /\ Garbage' = Garbage /\ Snapshot(before)' = Snapshot(before)
      BY <3>1 DEF Scanned, Garbage, Snapshot, Scan
    <3>3. Greys' = Greys /\ Whites' = Whites
      BY <3>1 DEF Greys, Whites
    <3>4. Blacks' = Blacks
      BY <3>1, <3>2 DEF Blacks
    <3>5. (TypeOK' <=> TypeOK) /\ (MapsMatch' <=> MapsMatch) /\ (IdleInv' <=> IdleInv)
      BY <3>1 DEF TypeOK, MapsMatch, AppliedMap, IdleInv
    <3>6. (ScanInv' <=> ScanInv) /\ (ScannedApplied' <=> ScannedApplied)
      BY <3>1, <3>2, <3>3 DEF ScanInv, ScannedApplied
    <3>7. GreyInv' <=> GreyInv
      BY <3>1, <3>2, <3>3 DEF GreyInv, EdgesFrom, ClosedUpTo
    <3>8. WhiteInv' <=> WhiteInv
      BY <3>1, <3>2, <3>3, <3>4 DEF WhiteInv, EdgesFrom, ClosedUpTo
    <3>9. CollectInv' <=> CollectInv
      BY <3>1, <3>2, <3>3, <3>4 DEF CollectInv, EdgesFrom, ClosedUpTo
    <3>10. DoneInv' <=> DoneInv
      BY <3>1, <3>2 DEF DoneInv
    <3> QED BY <3>1, <3>2, <3>5, <3>6, <3>7, <3>8, <3>9, <3>10 DEF IInv
  <2>2. CASE Detect
    BY <2>2, DetectStep
  <2>3. CASE ScanGrey
    BY <2>3, ScanGreyStep
  <2>4. CASE GreyDone
    BY <2>4, GreyDoneStep
  <2>5. CASE ScanWhite
    BY <2>5, ScanWhiteStep
  <2>6. CASE ScanBlack
    BY <2>6, ScanBlackStep
  <2>7. CASE BlackDone
    BY <2>7, BlackDoneStep
  <2>8. CASE NothingFound
    BY <2>8, NothingFoundStep
  <2>9. CASE CycleFound
    BY <2>9, CycleFoundStep
  <2>10. CASE CollectWhite
    BY <2>10, CollectWhiteStep
  <2>11. CASE Perceived
    BY <2>11, PerceivedStep
  <2>12. CASE Ack
    BY <2>12, AckStep
  <2>13. CASE LateAck
    BY <2>13, LateAckStep
  <2>14. ASSUME NEW v \in View, Unblock(v) PROVE IInv'
    BY <2>14, UnblockStep
  <2> QED BY <2>1, <2>2, <2>3, <2>4, <2>5, <2>6, <2>7, <2>8, <2>9, <2>10, <2>11,
             <2>12, <2>13, <2>14 DEF Next
<1> QED BY <1>1, <1>2, PTL DEF Spec

\* Types are kept: no count leaves the range of a size_t (cycle.c).
THEOREM DetectTypes == Spec => []TypeOK
<1>1. IInv => TypeOK
  BY DEF IInv
<1> QED BY <1>1, DetectInvariance, PTL

\* Whatever the graph, the counts and the order of the hash maps, detect()
\* perceives exactly the largest isolated set of the scanned views (cycle.c
\* scan_grey, scan_white, scan_black, collect_white, detect).
THEOREM DetectsGarbage == Spec => []FindsExactlyGarbage
<1>1. IInv => FindsExactlyGarbage
  BY DEF IInv, FindsExactlyGarbage, DoneInv, Ends
<1> QED BY <1>1, DetectInvariance, PTL

\* A detection attempt gives every reference it took out of a count back, once,
\* and leaves every view black (cycle.c mark_grey, mark_black).
THEOREM AttemptLeavesNoTrace == Spec => []ScansRestoreViews
<1>1. IInv => ScansRestoreViews
  BY DEF IInv, ScansRestoreViews, DoneInv, Ends
<1> QED BY <1>1, DetectInvariance, PTL

\* The asserts on the numbers of white and collected views hold (cycle.c:445,
\* 462, 463).
THEOREM DetectCounts == Spec => []CountsAgree
<1>1. IInv => CountsAgree
  <2> SUFFICES ASSUME IInv PROVE CountsAgree
    OBVIOUS
  <2>1. phase \in {"white", "black"} => count = Cardinality(Whites)
    BY DEF IInv, WhiteInv
  <2>2. phase = "conf" => count2 = count /\ Cardinality(per) = count
    BY DEF IInv, DoneInv, Ends
  <2>3. ASSUME phase = "collect" PROVE count2 + Cardinality(Whites) = count
    <3>1. /\ Whites \subseteq Garbage /\ per = Garbage \ Whites /\ per \subseteq View
          /\ count = Cardinality(Garbage) /\ count2 = Cardinality(per)
      BY <2>3 DEF IInv, CollectInv, TypeOK
    <3>2. IsFiniteSet(Whites) /\ IsFiniteSet(per)
      BY <3>1, ConstantsAssumption, FS_Subset DEF Whites
    <3>3. Whites \cup per = Garbage /\ Whites \cap per = {}
      BY <3>1
    <3>4. /\ Cardinality(Whites \cup per)
               = Cardinality(Whites) + Cardinality(per) - Cardinality(Whites \cap per)
          /\ Cardinality({}) = 0
      BY <3>2, FS_Union, FS_EmptySet
    <3>5. PICK m \in Nat, n \in Nat : m = Cardinality(Whites) /\ n = Cardinality(per)
      BY <3>2, FS_CardinalityType
    <3>6. count = m + n - 0 /\ count2 = n
      BY <3>1, <3>3, <3>4, <3>5
    <3> QED BY <3>5, <3>6
  <2> QED BY <2>1, <2>2, <2>3 DEF CountsAgree
<1> QED BY <1>1, DetectInvariance, PTL

\* Only blocked views that are not deferred are ever coloured (cycle.c:294,
\* 386).
THEOREM ColoursAreQuiet == Spec => []ColouredViewsAreQuiet
<1>1. IInv => ColouredViewsAreQuiet
  <2> SUFFICES ASSUME IInv, NEW v \in View, color[v] # "black"
               PROVE  blocked[v] /\ v \notin deferred
    BY DEF ColouredViewsAreQuiet
  <2>1. v \notin deferred /\ TypeOK
    BY DEF IInv
  <2>2. phase \in Scans
    BY <2>1 DEF IInv, IdleInv, DoneInv, TypeOK, Phases, Scans, Ends
  <2>3. ScanInv /\ Snapshot(before)
    BY <2>2 DEF IInv, Scans
  <2>4. v \in Scanned /\ \A u \in Scanned : before.blocked[u]
    BY <2>1, <2>3, ScanFacts DEF ScanInv, Greys, Whites, TypeOK, Scanned
  <2> QED BY <2>1, <2>3, <2>4 DEF ScanInv
<1> QED BY <1>1, DetectInvariance, PTL

\* Views leave the detector only as the whole of the garbage found, when every
\* member has confirmed and none has unblocked (cycle.c ack, collect, unblock).
THEOREM CollectsConfirmed == Spec => []CollectedCycleConfirmed
<1>1. IInv => CollectedCycleConfirmed
  <2> SUFFICES ASSUME IInv, views # View PROVE CollectedCycleConfirmed
    BY DEF CollectedCycleConfirmed
  <2>1. phase = "collected"
    BY DEF IInv
  <2>2. /\ views = View \ Garbage /\ acked = Garbage /\ \A v \in Garbage : blocked[v]
        /\ Snapshot(before)
    BY <2>1 DEF IInv, DoneInv, Ends
  <2>3. Garbage \subseteq View
    BY <2>2, LostFacts, ScanFacts, GarbageIsLost
  <2> QED BY <2>2, <2>3 DEF CollectedCycleConfirmed
<1> QED BY <1>1, DetectInvariance, PTL
=============================================================================
