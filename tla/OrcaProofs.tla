----------------------------- MODULE OrcaProofs -----------------------------
(* Proofs about the reference counts of Orca, in the specification of      *)
(* CycleDetector and for any number of actors, threads and messages.       *)
EXTENDS CycleDetector, SumTheorems, SequenceTheorems

-----------------------------------------------------------------------------
(* What a queue does to a count. *)

\* What a message in b's queue does to the count of a, and to the references
\* to a that are counted elsewhere.
Gain(a, b, m) == (IF a = b THEN Change(m) ELSE 0) - Carries(m, a)

\* The first k messages of the queue q of b.
Gains(q, a, b) == [i \in 1 .. Len(q) |-> Gain(a, b, q[i])]
GainTo(q, a, b, k) == SumFunctionOnSet(Gains(q, a, b), 1 .. k)

\* A message that names none but the first n actors, and a queue of them.
GoodMsg(m, n) ==
  /\ m.kind \in {"app", "acquire", "release", "conf"}
  /\ m.kind = "app" => m.ref \in 0 .. n
  /\ m.kind \in {"acquire", "release"} => m.rc \in Nat

GoodSeq(q, n) ==
  /\ q \in Seq({q[i] : i \in DOMAIN q})
  /\ \A i \in 1 .. Len(q) : GoodMsg(q[i], n)

\* Gains are numbers, and another actor's queue only holds references.
LEMMA GainType ==
  ASSUME NEW a, NEW b, NEW m, NEW n, GoodMsg(m, n)
  PROVE  /\ Gain(a, b, m) \in Int
         /\ a # b => Gain(a, b, m) <= 0
BY DEF Gain, Change, Carries, GoodMsg

\* The same for a part of a queue.
LEMMA GainToType ==
  ASSUME NEW a, NEW b, NEW q, NEW n, GoodSeq(q, n)
  PROVE  /\ Len(q) \in Nat /\ DOMAIN q = 1 .. Len(q)
         /\ \A i \in 1 .. Len(q) : Gains(q, a, b)[i] \in Int
         /\ GainTo(q, a, b, 0) = 0
         /\ \A k \in 0 .. Len(q) : GainTo(q, a, b, k) \in Int
<1>1. Len(q) \in Nat /\ DOMAIN q = 1 .. Len(q)
  BY DEF GoodSeq
<1>2. \A i \in 1 .. Len(q) : Gains(q, a, b)[i] \in Int
  BY GainType DEF Gains, GoodSeq
<1>3. GainTo(q, a, b, 0) = 0
  <2>1. 1 .. 0 = {}
    OBVIOUS
  <2> QED BY <2>1, SumEmpty DEF GainTo
<1>4. ASSUME NEW k \in 0 .. Len(q) PROVE GainTo(q, a, b, k) \in Int
  <2>1. IsFiniteSet(1 .. k)
    BY <1>1, FS_Interval
  <2>2. \A i \in 1 .. k : Gains(q, a, b)[i] \in Int
    BY <1>1, <1>2
  <2> QED BY <2>1, <2>2, SumType DEF GainTo
<1> QED BY <1>1, <1>2, <1>3, <1>4

\* A message more.
LEMMA GoodAppend ==
  ASSUME NEW q, NEW n, GoodSeq(q, n), NEW m, GoodMsg(m, n)
  PROVE  /\ GoodSeq(Append(q, m), n)
         /\ Len(q) \in Nat /\ Len(Append(q, m)) = Len(q) + 1
         /\ Append(q, m)[Len(q) + 1] = m
         /\ \A i \in 1 .. Len(q) : Append(q, m)[i] = q[i]
<1> DEFINE r == Append(q, m)
           S == {q[i] : i \in DOMAIN q} \cup {m}
<1>1. Len(q) \in Nat /\ DOMAIN q = 1 .. Len(q)
  BY DEF GoodSeq
<1>2. q \in Seq(S) /\ m \in S
  BY DEF GoodSeq
<1> HIDE DEF S
<1>3. /\ r \in Seq(S) /\ Len(r) = Len(q) + 1 /\ DOMAIN r = 1 .. Len(q) + 1
      /\ r[Len(q) + 1] = m /\ \A i \in 1 .. Len(q) : r[i] = q[i]
  BY <1>1, <1>2
<1> HIDE DEF r
<1>4. GoodSeq(r, n)
  <2>1. \A i \in 1 .. Len(r) : GoodMsg(r[i], n)
    BY <1>1, <1>3 DEF GoodSeq
  <2>2. r \in Seq({r[i] : i \in DOMAIN r})
    <3>1. Len(r) \in Nat /\ r \in [1 .. Len(r) -> {r[i] : i \in DOMAIN r}]
      BY <1>1, <1>3
    <3> QED BY <3>1
  <2> QED BY <2>1, <2>2 DEF GoodSeq
<1> QED BY <1>1, <1>3, <1>4 DEF r

\* The messages that were there count as before.
LEMMA GainBefore ==
  ASSUME NEW a, NEW b, NEW q, NEW n, GoodSeq(q, n), NEW m, GoodMsg(m, n),
         NEW k \in 0 .. Len(q)
  PROVE  GainTo(Append(q, m), a, b, k) = GainTo(q, a, b, k)
<1>1. /\ Len(q) \in Nat /\ Len(Append(q, m)) = Len(q) + 1
      /\ \A i \in 1 .. Len(q) : Append(q, m)[i] = q[i]
  BY GoodAppend
<1>2. PICK r : r = Append(q, m)
  OBVIOUS
<1>3. IsFiniteSet(1 .. k)
  BY <1>1, FS_Interval
<1>4. \A i \in 1 .. k : Gains(r, a, b)[i] = Gains(q, a, b)[i]
  BY <1>1, <1>2 DEF Gains
<1> QED BY <1>2, <1>3, <1>4, SumSame DEF GainTo

\* And the new one adds its gain.
LEMMA GainAppend ==
  ASSUME NEW a, NEW b, NEW q, NEW n, GoodSeq(q, n), NEW m, GoodMsg(m, n)
  PROVE  GainTo(Append(q, m), a, b, Len(q) + 1)
           = GainTo(q, a, b, Len(q)) + Gain(a, b, m)
<1>1. /\ GoodSeq(Append(q, m), n)
      /\ Len(q) \in Nat /\ Len(Append(q, m)) = Len(q) + 1
      /\ Append(q, m)[Len(q) + 1] = m
  BY GoodAppend
<1>a. GainTo(Append(q, m), a, b, Len(q)) = GainTo(q, a, b, Len(q))
  <2>1. Len(q) \in 0 .. Len(q)
    BY <1>1
  <2> QED BY <2>1, GainBefore
<1>r. PICK r : r = Append(q, m)
  OBVIOUS
<1>2. /\ IsFiniteSet(1 .. Len(q)) /\ Len(q) + 1 \notin 1 .. Len(q)
      /\ 1 .. Len(q) + 1 = (1 .. Len(q)) \cup {Len(q) + 1}
  <2>1. IsFiniteSet(1 .. Len(q))
    BY <1>1, FS_Interval
  <2> QED BY <1>1, <2>1
<1>3. \A i \in 1 .. Len(q) + 1 : Gains(r, a, b)[i] \in Int
  BY <1>1, <1>r, GainToType
<1>4. GainTo(r, a, b, Len(q) + 1) = Gains(r, a, b)[Len(q) + 1] + GainTo(r, a, b, Len(q))
  BY <1>2, <1>3, SumAdd DEF GainTo
<1>5. Gains(r, a, b)[Len(q) + 1] = Gain(a, b, m)
  BY <1>1, <1>r DEF Gains
<1>6. Gain(a, b, m) \in Int
  BY GainType
<1>7. GainTo(q, a, b, Len(q)) \in Int
  <2>1. Len(q) \in 0 .. Len(q)
    BY <1>1
  <2> QED BY <2>1, GainToType
<1> QED BY <1>a, <1>r, <1>4, <1>5, <1>6, <1>7

\* A message less.
LEMMA GainTail ==
  ASSUME NEW a, NEW b, NEW q, NEW n, GoodSeq(q, n), q # <<>>
  PROVE  /\ GoodSeq(Tail(q), n) /\ Len(Tail(q)) = Len(q) - 1 /\ Len(q) > 0
         /\ GoodMsg(Head(q), n)
         /\ \A k \in 0 .. Len(q) - 1 :
              GainTo(Tail(q), a, b, k) = GainTo(q, a, b, k + 1) - Gain(a, b, Head(q))
<1> DEFINE r == Tail(q)
           S == {q[i] : i \in DOMAIN q}
<1>1. q \in Seq(S) /\ Len(q) \in Nat /\ DOMAIN q = 1 .. Len(q)
  BY DEF GoodSeq
<1> HIDE DEF S
<1>2. /\ Len(q) > 0 /\ Head(q) = q[1]
      /\ r \in Seq(S) /\ Len(r) = Len(q) - 1
      /\ \A i \in 1 .. Len(q) - 1 : r[i] = q[i + 1]
  BY <1>1
<1> HIDE DEF r
<1>3. GoodSeq(r, n) /\ GoodMsg(Head(q), n)
  <2>1. \A i \in 1 .. Len(r) : GoodMsg(r[i], n)
    BY <1>1, <1>2 DEF GoodSeq
  <2>2. r \in Seq({r[i] : i \in DOMAIN r})
    <3>1. Len(r) \in Nat /\ r \in [1 .. Len(r) -> {r[i] : i \in DOMAIN r}]
      BY <1>1, <1>2
    <3> QED BY <3>1
  <2> QED BY <1>1, <1>2, <2>1, <2>2 DEF GoodSeq
<1>4. ASSUME NEW k \in 0 .. Len(q) - 1
      PROVE  GainTo(r, a, b, k) = GainTo(q, a, b, k + 1) - Gain(a, b, Head(q))
  <2> DEFINE f == Gains(q, a, b)
             g == Gains(r, a, b)
  <2>h. PICK h : h = [i \in 1 .. k |-> i + 1]
    OBVIOUS
  <2>1. \A i \in 1 .. Len(q) : f[i] \in Int /\ f[i] = Gain(a, b, q[i])
    BY GainToType DEF Gains
  <2>2. \A i \in 1 .. k : g[i] = f[h[i]] /\ g[i] \in Int
    <3>1. \A i \in 1 .. k : i \in 1 .. Len(r) /\ i + 1 \in 1 .. Len(q) /\ r[i] = q[i + 1]
      BY <1>1, <1>2
    <3> QED BY <3>1, <2>1, <2>h DEF Gains
  <2> HIDE DEF f, g
  <2>3. IsFiniteSet(1 .. k + 1) /\ IsFiniteSet(1 .. k) /\ 1 \in 1 .. k + 1
    BY <1>1, FS_Interval
  <2>4. SumFunctionOnSet(f, 1 .. k + 1) = f[1] + SumFunctionOnSet(f, (1 .. k + 1) \ {1})
    <3>1. \A i \in 1 .. k + 1 : f[i] \in Int
      BY <1>1, <2>1
    <3> QED BY <2>3, <3>1, SumRemove
  <2>5. (1 .. k + 1) \ {1} = Renamed(h, 1 .. k)
    <3>1. \A j \in (1 .. k + 1) \ {1} : j - 1 \in 1 .. k /\ h[j - 1] = j
      BY <1>1, <2>h
    <3>2. \A i \in 1 .. k : h[i] \in (1 .. k + 1) \ {1}
      BY <1>1, <2>h
    <3> QED BY <3>1, <3>2 DEF Renamed
  <2>6. \A i, j \in 1 .. k : h[i] = h[j] => i = j
    BY <2>h
  <2>7. SumFunctionOnSet(f, Renamed(h, 1 .. k)) = SumFunctionOnSet(g, 1 .. k)
    BY <2>2, <2>3, <2>6, SumRename
  <2>8. SumFunctionOnSet(g, 1 .. k) \in Int
    BY <2>2, <2>3, SumType
  <2>9. f[1] = Gain(a, b, Head(q)) /\ f[1] \in Int
    BY <1>1, <1>2, <2>1
  <2>10. SumFunctionOnSet(f, 1 .. k + 1) = f[1] + SumFunctionOnSet(g, 1 .. k)
    BY <2>4, <2>5, <2>7
  <2> QED BY <2>8, <2>9, <2>10 DEF GainTo, f, g
<1> QED BY <1>2, <1>3, <1>4 DEF r

\* Another actor's queue owes nothing.
LEMMA GainOther ==
  ASSUME NEW a, NEW b, a # b, NEW q, NEW n, GoodSeq(q, n)
  PROVE  GainTo(q, a, b, Len(q)) <= 0
<1>1. Len(q) \in Nat
  BY GainToType
<1>2. PICK z : z = [i \in 1 .. Len(q) |-> 0]
  OBVIOUS
<1>3. IsFiniteSet(1 .. Len(q))
  BY <1>1, FS_Interval
<1>4. \A i \in 1 .. Len(q) : z[i] = 0
  BY <1>2
<1>5. \A i \in 1 .. Len(q) : Gains(q, a, b)[i] \in Int /\ Gains(q, a, b)[i] <= z[i]
  BY <1>4, GainType DEF Gains, GoodSeq
<1>6. SumFunctionOnSet(Gains(q, a, b), 1 .. Len(q)) <= SumFunctionOnSet(z, 1 .. Len(q))
  BY <1>3, <1>4, <1>5, SumLeq
<1>7. SumFunctionOnSet(z, 1 .. Len(q)) = 0
  BY <1>3, <1>4, SumZero
<1> QED BY <1>6, <1>7 DEF GainTo

-----------------------------------------------------------------------------
(* What the holders and the queues owe an actor. *)

Deltas == UNION {[D -> Nat] : D \in SUBSET Actor}
GoodGc(g) == g \in [Actor -> [rc : Int, foreign : [Actor -> Nat], delta : Deltas]]

GoodQueues(q, n) ==
  /\ q = [b \in Actor |-> q[b]]
  /\ \A b \in Actor : GoodSeq(q[b], n)

\* The part of a's count that b accounts for, and all of it.
Column(g, q, a) == [b \in Actor |-> g[b].foreign[a] - GainTo(q[b], a, b, Len(q[b]))]
Owed(g, q, a) == SumFunctionOnSet(Column(g, q, a), Actor)

\* There are finitely many actors.
LEMMA ActorsFinite == IsFiniteSet(Actor)
BY FS_Interval, OrcaAssumption DEF Actor

\* What is owed is a number.
LEMMA OwedType ==
  ASSUME NEW g, GoodGc(g), NEW q, NEW n, GoodQueues(q, n), NEW a \in Actor
  PROVE  /\ \A b \in Actor : GainTo(q[b], a, b, Len(q[b])) \in Int
         /\ \A b \in Actor : Column(g, q, a)[b] \in Int
         /\ Owed(g, q, a) \in Int
<1>1. ASSUME NEW b \in Actor PROVE GainTo(q[b], a, b, Len(q[b])) \in Int
  <2>1. GoodSeq(q[b], n)
    BY DEF GoodQueues
  <2>2. Len(q[b]) \in 0 .. Len(q[b])
    BY <2>1, GainToType
  <2> QED BY <2>1, <2>2, GainToType
<1>2. \A b \in Actor : Column(g, q, a)[b] \in Int
  BY <1>1 DEF Column, GoodGc
<1> QED BY <1>1, <1>2, ActorsFinite, SumType DEF Owed

\* One holder's count changes.
LEMMA OwedForeign ==
  ASSUME NEW g, GoodGc(g), NEW h, GoodGc(h), NEW q, NEW n, GoodQueues(q, n),
         NEW a \in Actor, NEW s \in Actor,
         \A b \in Actor : b # s => h[b].foreign[a] = g[b].foreign[a]
  PROVE  Owed(h, q, a) = Owed(g, q, a) + (h[s].foreign[a] - g[s].foreign[a])
<1>1. \A b \in Actor : Column(g, q, a)[b] \in Int /\ Column(h, q, a)[b] \in Int
  BY OwedType
<1>2. \A b \in Actor : b # s => Column(h, q, a)[b] = Column(g, q, a)[b]
  BY DEF Column
<1>3. Owed(h, q, a) = Owed(g, q, a) + (Column(h, q, a)[s] - Column(g, q, a)[s])
  BY <1>1, <1>2, ActorsFinite, SumUpdate DEF Owed
<1>4. PICK x \in Int : x = GainTo(q[s], a, s, Len(q[s]))
  BY OwedType
<1>5. /\ Column(h, q, a)[s] = h[s].foreign[a] - x
      /\ Column(g, q, a)[s] = g[s].foreign[a] - x
  BY <1>4 DEF Column
<1>6. h[s].foreign[a] \in Int /\ g[s].foreign[a] \in Int
  BY DEF GoodGc
<1> QED BY <1>3, <1>5, <1>6

\* One queue changes.
LEMMA OwedQueue ==
  ASSUME NEW g, GoodGc(g), NEW q, NEW p, NEW n, GoodQueues(q, n), GoodQueues(p, n),
         NEW a \in Actor, NEW r \in Actor,
         \A b \in Actor : b # r =>
           GainTo(p[b], a, b, Len(p[b])) = GainTo(q[b], a, b, Len(q[b]))
  PROVE  Owed(g, p, a) = Owed(g, q, a)
           + (GainTo(q[r], a, r, Len(q[r])) - GainTo(p[r], a, r, Len(p[r])))
<1>1. \A b \in Actor : Column(g, q, a)[b] \in Int /\ Column(g, p, a)[b] \in Int
  BY OwedType
<1>2. \A b \in Actor : b # r => Column(g, p, a)[b] = Column(g, q, a)[b]
  BY DEF Column
<1>3. Owed(g, p, a) = Owed(g, q, a) + (Column(g, p, a)[r] - Column(g, q, a)[r])
  BY <1>1, <1>2, ActorsFinite, SumUpdate DEF Owed
<1>4. PICK x \in Int, y \in Int :
        x = GainTo(q[r], a, r, Len(q[r])) /\ y = GainTo(p[r], a, r, Len(p[r]))
  BY OwedType
<1>5. /\ Column(g, p, a)[r] = g[r].foreign[a] - y
      /\ Column(g, q, a)[r] = g[r].foreign[a] - x
  BY <1>4 DEF Column
<1>6. g[r].foreign[a] \in Int
  BY DEF GoodGc
<1> QED BY <1>3, <1>4, <1>5, <1>6

\* The queue of r alone becomes s.
Becomes(p, q, r, s) ==
  /\ p = [b \in Actor |-> p[b]]
  /\ p[r] = s /\ \A b \in Actor : b # r => p[b] = q[b]

\* A message is pushed to r's queue.
LEMMA OwedPush ==
  ASSUME NEW g, GoodGc(g), NEW q, NEW n, GoodQueues(q, n), NEW r \in Actor,
         NEW m, GoodMsg(m, n), NEW p, Becomes(p, q, r, Append(q[r], m))
  PROVE  /\ GoodQueues(p, n)
         /\ \A a \in Actor : Owed(g, p, a) = Owed(g, q, a) - Gain(a, r, m)
<1>1. p[r] = Append(q[r], m) /\ \A b \in Actor : b # r => p[b] = q[b]
  BY DEF Becomes
<1>2. GoodSeq(q[r], n)
  BY DEF GoodQueues
<1>3. GoodQueues(p, n)
  <2>1. GoodSeq(p[r], n)
    BY <1>1, <1>2, GoodAppend
  <2>2. p = [b \in Actor |-> p[b]]
    BY DEF Becomes
  <2> QED BY <1>1, <2>1, <2>2 DEF GoodQueues
<1>4. ASSUME NEW a \in Actor PROVE Owed(g, p, a) = Owed(g, q, a) - Gain(a, r, m)
  <2>1. GainTo(p[r], a, r, Len(p[r])) = GainTo(q[r], a, r, Len(q[r])) + Gain(a, r, m)
    BY <1>1, <1>2, GainAppend, GoodAppend
  <2>2. Owed(g, p, a) = Owed(g, q, a)
          + (GainTo(q[r], a, r, Len(q[r])) - GainTo(p[r], a, r, Len(p[r])))
    <3>1. \A b \in Actor : b # r =>
            GainTo(p[b], a, b, Len(p[b])) = GainTo(q[b], a, b, Len(q[b]))
      BY <1>1
    <3> QED BY <1>3, <3>1, OwedQueue
  <2>3. Gain(a, r, m) \in Int
    BY GainType
  <2>4. GainTo(q[r], a, r, Len(q[r])) \in Int /\ Owed(g, q, a) \in Int
    BY OwedType
  <2> QED BY <2>1, <2>2, <2>3, <2>4
<1> QED BY <1>3, <1>4

\* A message is popped from r's queue.
Pops(g, q, n, r, p) ==
  /\ GoodGc(g) /\ GoodQueues(q, n)
  /\ r \in Actor /\ q[r] # <<>> /\ Becomes(p, q, r, Tail(q[r]))

\* Whom it names is owed less by the queue.
LEMMA OwedPop ==
  ASSUME NEW g, NEW q, NEW n, NEW r, NEW p, Pops(g, q, n, r, p)
  PROVE  /\ GoodQueues(p, n) /\ GoodMsg(Head(q[r]), n)
         /\ \A a \in Actor : Owed(g, p, a) = Owed(g, q, a) + Gain(a, r, Head(q[r]))
<1> USE DEF Pops
<1>1. p[r] = Tail(q[r]) /\ \A b \in Actor : b # r => p[b] = q[b]
  BY DEF Becomes
<1>2. GoodSeq(q[r], n)
  BY DEF GoodQueues
<1>a. GoodMsg(Head(q[r]), n)
  BY <1>2, GainTail
<1>3. GoodQueues(p, n)
  <2>1. GoodSeq(p[r], n)
    BY <1>1, <1>2, GainTail
  <2>2. p = [b \in Actor |-> p[b]]
    BY DEF Becomes
  <2> QED BY <1>1, <2>1, <2>2 DEF GoodQueues
<1>4. ASSUME NEW a \in Actor
      PROVE  Owed(g, p, a) = Owed(g, q, a) + Gain(a, r, Head(q[r]))
  <2>1. GainTo(p[r], a, r, Len(p[r]))
          = GainTo(q[r], a, r, Len(q[r])) - Gain(a, r, Head(q[r]))
    <3>1. Len(q[r]) \in Nat /\ Len(q[r]) > 0 /\ Len(p[r]) = Len(q[r]) - 1
      BY <1>1, <1>2, GainTail, GainToType
    <3>2. Len(p[r]) \in 0 .. Len(q[r]) - 1 /\ Len(p[r]) + 1 = Len(q[r])
      BY <3>1
    <3>3. GainTo(Tail(q[r]), a, r, Len(p[r]))
            = GainTo(q[r], a, r, Len(p[r]) + 1) - Gain(a, r, Head(q[r]))
      BY <1>2, <3>2, GainTail
    <3> QED BY <1>1, <3>2, <3>3
  <2>2. Owed(g, p, a) = Owed(g, q, a)
          + (GainTo(q[r], a, r, Len(q[r])) - GainTo(p[r], a, r, Len(p[r])))
    <3>1. \A b \in Actor : b # r =>
            GainTo(p[b], a, b, Len(p[b])) = GainTo(q[b], a, b, Len(q[b]))
      BY <1>1
    <3> QED BY <1>3, <3>1, OwedQueue
  <2>3. Gain(a, r, Head(q[r])) \in Int
    BY <1>a, GainType
  <2>4. GainTo(q[r], a, r, Len(q[r])) \in Int /\ Owed(g, q, a) \in Int
    BY OwedType
  <2> QED BY <2>1, <2>2, <2>3, <2>4
<1> QED BY <1>a, <1>3, <1>4

\* What the others owe a is not less than nothing.
LEMMA OwedNat ==
  ASSUME NEW g, GoodGc(g), NEW q, NEW n, GoodQueues(q, n), NEW a \in Actor
  PROVE  Owed(g, q, a) + GainTo(q[a], a, a, Len(q[a])) >= 0
<1> DEFINE c == Column(g, q, a)
           R == Actor \ {a}
<1>1. Owed(g, q, a) = c[a] + SumFunctionOnSet(c, R)
  <2>1. \A b \in Actor : c[b] \in Int
    BY OwedType
  <2> QED BY <2>1, ActorsFinite, SumRemove DEF Owed
<1>2. ASSUME NEW b \in R PROVE c[b] \in Nat
  <2>1. GainTo(q[b], a, b, Len(q[b])) <= 0
    BY GainOther DEF GoodQueues
  <2>2. GainTo(q[b], a, b, Len(q[b])) \in Int
    BY OwedType
  <2>3. g[b].foreign[a] \in Nat
    BY DEF GoodGc
  <2>4. c[b] = g[b].foreign[a] - GainTo(q[b], a, b, Len(q[b]))
    BY DEF Column
  <2> QED BY <2>1, <2>2, <2>3, <2>4
<1>3. IsFiniteSet(R)
  BY ActorsFinite, FS_RemoveElement
<1> HIDE DEF c, R
<1>4. SumFunctionOnSet(c, R) \in Nat
  BY <1>2, <1>3, SumNat
<1>5. c[a] = g[a].foreign[a] - GainTo(q[a], a, a, Len(q[a]))
  BY DEF Column, c
<1>6. g[a].foreign[a] \in Nat
  BY DEF GoodGc
<1>7. GainTo(q[a], a, a, Len(q[a])) \in Int
  BY OwedType
<1> QED BY <1>1, <1>4, <1>5, <1>6, <1>7

-----------------------------------------------------------------------------
(* Counts. *)

\* The count of a is what others owe it, and is not used up by any first part
\* of its queue.
Exact(g, q, a) == g[a].rc = Owed(g, q, a)
Covered(g, q, a) == \A k \in 0 .. Len(q[a]) : g[a].rc + GainTo(q[a], a, a, k) >= 0

\* A message that does not lower the count, or leaves it exact, leaves it
\* covered.
LEMMA CoveredAppend ==
  ASSUME NEW g, GoodGc(g), NEW q, NEW n, GoodQueues(q, n), NEW p, GoodQueues(p, n),
         NEW m, GoodMsg(m, n), NEW a \in Actor, p[a] = Append(q[a], m),
         Covered(g, q, a), Gain(a, a, m) >= 0 \/ Exact(g, p, a)
  PROVE  Covered(g, p, a)
<1>1. GoodSeq(q[a], n) /\ g[a].rc \in Int
  BY DEF GoodQueues, GoodGc
<1>2. Len(q[a]) \in Nat /\ Len(p[a]) = Len(q[a]) + 1
  BY <1>1, GoodAppend
<1>3. \A k \in 0 .. Len(q[a]) : g[a].rc + GainTo(p[a], a, a, k) >= 0
  <2>1. PICK w : w = q[a]
    OBVIOUS
  <2>2. GoodSeq(w, n)
    BY <1>1, <2>1
  <2>3. \A k \in 0 .. Len(w) : GainTo(Append(w, m), a, a, k) = GainTo(w, a, a, k)
    BY <2>2, GainBefore
  <2> QED BY <2>1, <2>3 DEF Covered
<1>4. g[a].rc + GainTo(p[a], a, a, Len(p[a])) >= 0
  <2>1. CASE Exact(g, p, a)
    BY <2>1, OwedNat DEF Exact
  <2>2. CASE Gain(a, a, m) >= 0
    <3>1. GainTo(p[a], a, a, Len(q[a]) + 1)
            = GainTo(q[a], a, a, Len(q[a])) + Gain(a, a, m)
      BY <1>1, GainAppend
    <3>2. g[a].rc + GainTo(q[a], a, a, Len(q[a])) >= 0
      BY <1>2 DEF Covered
    <3>3. GainTo(q[a], a, a, Len(q[a])) \in Int /\ Gain(a, a, m) \in Int
      BY OwedType, GainType
    <3> QED BY <1>1, <1>2, <2>2, <3>1, <3>2, <3>3
  <2> QED BY <2>1, <2>2
<1>5. \A k \in 0 .. Len(p[a]) : k \in 0 .. Len(q[a]) \/ k = Len(p[a])
  BY <1>2
<1> QED BY <1>3, <1>4, <1>5 DEF Covered

\* The same, when it is the only message.
LEMMA CoveredPush ==
  ASSUME NEW g, GoodGc(g), NEW q, NEW n, GoodQueues(q, n), NEW r \in Actor,
         NEW m, GoodMsg(m, n), NEW p, Becomes(p, q, r, Append(q[r], m)),
         NEW a \in Actor, Covered(g, q, a), Gain(a, r, m) >= 0 \/ Exact(g, p, a)
  PROVE  Covered(g, p, a)
<1>1. CASE a # r
  <2>1. p[a] = q[a]
    BY <1>1 DEF Becomes
  <2> QED BY <2>1 DEF Covered
<1>2. CASE a = r
  <2>1. GoodQueues(p, n)
    BY OwedPush
  <2>2. p[a] = Append(q[a], m)
    BY <1>2 DEF Becomes
  <2> QED BY <1>2, <2>1, <2>2, CoveredAppend
<1> QED BY <1>1, <1>2

\* The message m that r handles: its count changes by the gain, and r holds
\* the reference that the message carried.
Handled(h, g, q, r, m) ==
  /\ h[r].rc = g[r].rc + Gain(r, r, m)
  /\ Owed(h, q, r) = Owed(g, q, r)
  /\ \A a \in Actor : a # r => /\ h[a].rc = g[a].rc
                               /\ Owed(h, q, a) = Owed(g, q, a) - Gain(a, r, m)

\* A message that is handled changes the count by its gain.
LEMMA PopKeeps ==
  ASSUME NEW g, GoodGc(g), NEW h, GoodGc(h), NEW q, NEW n, GoodQueues(q, n),
         NEW r \in Actor, q[r] # <<>>, NEW p, Becomes(p, q, r, Tail(q[r])),
         Handled(h, g, q, r, Head(q[r]))
  PROVE  /\ GoodQueues(p, n)
         /\ \A a \in Actor : Exact(g, q, a) => Exact(h, p, a)
         /\ \A a \in Actor : Covered(g, q, a) => Covered(h, p, a)
<1>1. /\ GoodQueues(p, n) /\ GoodMsg(Head(q[r]), n)
      /\ \A a \in Actor : Owed(h, p, a) = Owed(h, q, a) + Gain(a, r, Head(q[r]))
  <2>1. Pops(h, q, n, r, p)
    BY DEF Pops
  <2> HIDE DEF Pops
  <2> QED BY ONLY <2>1, OwedPop
<1>0. /\ h[r].rc = g[r].rc + Gain(r, r, Head(q[r]))
      /\ Owed(h, q, r) = Owed(g, q, r)
      /\ \A a \in Actor : a # r =>
           /\ h[a].rc = g[a].rc
           /\ Owed(h, q, a) = Owed(g, q, a) - Gain(a, r, Head(q[r]))
  BY DEF Handled
<1>2. ASSUME NEW a \in Actor, Exact(g, q, a) PROVE Exact(h, p, a)
  <2>1. Owed(g, q, a) \in Int /\ Owed(h, q, a) \in Int
    BY OwedType
  <2>2. Gain(a, r, Head(q[r])) \in Int
    BY <1>1, GainType
  <2>3. Owed(h, p, a) = Owed(h, q, a) + Gain(a, r, Head(q[r]))
    BY <1>1
  <2>4. CASE a = r
    BY <1>0, <1>2, <2>1, <2>2, <2>3, <2>4 DEF Exact
  <2>5. CASE a # r
    BY <1>0, <1>2, <2>1, <2>2, <2>3, <2>5 DEF Exact
  <2> QED BY <2>4, <2>5
<1>3. ASSUME NEW a \in Actor, Covered(g, q, a) PROVE Covered(h, p, a)
  <2>1. CASE a # r
    <3>1. p[a] = q[a] /\ h[a].rc = g[a].rc
      BY <1>0, <2>1 DEF Becomes
    <3> QED BY <1>3, <3>1 DEF Covered
  <2>2. CASE a = r
    <3>1. PICK w : w = q[r]
      OBVIOUS
    <3>2. GoodSeq(w, n) /\ w # <<>> /\ p[r] = Tail(w)
      BY <3>1 DEF GoodQueues, Becomes
    <3>3. Len(w) \in Nat /\ Len(w) > 0 /\ Len(Tail(w)) = Len(w) - 1
      BY <3>2, GainTail, GainToType
    <3>4. ASSUME NEW k \in 0 .. Len(w) - 1
          PROVE  h[r].rc + GainTo(Tail(w), r, r, k) >= 0
      <4>1. GainTo(Tail(w), r, r, k) = GainTo(w, r, r, k + 1) - Gain(r, r, Head(w))
        BY <3>2, GainTail
      <4>2. k + 1 \in 0 .. Len(w)
        BY <3>3
      <4>3. g[r].rc + GainTo(w, r, r, k + 1) >= 0
        BY <1>3, <2>2, <3>1, <4>2 DEF Covered
      <4>4. GainTo(w, r, r, k + 1) \in Int
        BY <3>2, <4>2, GainToType
      <4>5. Gain(r, r, Head(w)) \in Int
        BY <1>1, <3>1, GainType
      <4>6. g[r].rc \in Int /\ h[r].rc = g[r].rc + Gain(r, r, Head(w))
        BY <1>0, <3>1 DEF GoodGc
      <4> QED BY <4>1, <4>3, <4>4, <4>5, <4>6
    <3> QED BY <2>2, <3>2, <3>3, <3>4 DEF Covered
  <2> QED BY <2>1, <2>2
<1> QED BY <1>1, <1>2, <1>3

\* What Held and the changes of a count do.
LEMMA HeldChange ==
  ASSUME NEW g, GoodGc(g), NEW s \in Actor, NEW c \in Actor, NEW x \in Nat
  PROVE  /\ GoodGc(Held(g, s, c, x))
         /\ Held(g, s, c, x)[s].foreign[c] = x
         /\ \A b, d \in Actor : b # s \/ d # c =>
              Held(g, s, c, x)[b].foreign[d] = g[b].foreign[d]
         /\ \A b \in Actor : Held(g, s, c, x)[b].rc = g[b].rc
<1>1. DeltaUpdate(g[s].delta, c, x) \in Deltas
  <2>1. PICK D \in SUBSET Actor : g[s].delta \in [D -> Nat]
    <3>1. g[s].delta \in Deltas
      BY DEF GoodGc
    <3> QED BY <3>1 DEF Deltas
  <2>2. DeltaUpdate(g[s].delta, c, x) \in [D \cup {c} -> Nat]
    BY <2>1 DEF DeltaUpdate
  <2>3. D \cup {c} \in SUBSET Actor
    OBVIOUS
  <2> QED BY <2>2, <2>3 DEF Deltas
<1> DEFINE h == Held(g, s, c, x)
<1>2. g[s] \in [rc : Int, foreign : [Actor -> Nat], delta : Deltas]
  BY DEF GoodGc
<1>3. h = [g EXCEPT ![s].foreign[c] = x,
                    ![s].delta = DeltaUpdate(@, c, x)]
  BY DEF Held
<1>4. h = [b \in Actor |-> h[b]] /\ \A b \in Actor : b # s => h[b] = g[b]
  BY <1>3 DEF GoodGc
<1>5. h[s] = [rc |-> g[s].rc, foreign |-> [g[s].foreign EXCEPT ![c] = x],
              delta |-> DeltaUpdate(g[s].delta, c, x)]
  BY <1>2, <1>3 DEF GoodGc
<1>6. h[s] \in [rc : Int, foreign : [Actor -> Nat], delta : Deltas]
  BY <1>1, <1>2, <1>5
<1> HIDE DEF h
<1>7. GoodGc(h)
  BY <1>4, <1>6 DEF GoodGc
<1> QED BY <1>2, <1>4, <1>5, <1>7 DEF h

\* A count alone changes.
RcSet(g, s, x) == [g EXCEPT ![s].rc = x]

\* It leaves the rest alone.
LEMMA RcChange ==
  ASSUME NEW g, GoodGc(g), NEW s \in Actor, NEW x \in Int
  PROVE  /\ GoodGc(RcSet(g, s, x)) /\ RcSet(g, s, x)[s].rc = x
         /\ \A b \in Actor : RcSet(g, s, x)[b].foreign = g[b].foreign
         /\ \A b \in Actor : b # s => RcSet(g, s, x)[b].rc = g[b].rc
<1>0. PICK h : h = RcSet(g, s, x) /\ h = [g EXCEPT ![s].rc = x]
  BY DEF RcSet
<1>1. g[s] \in [rc : Int, foreign : [Actor -> Nat], delta : Deltas]
  BY DEF GoodGc
<1>2. h = [b \in Actor |-> h[b]] /\ \A b \in Actor : b # s => h[b] = g[b]
  BY <1>0 DEF GoodGc
<1>3. h[s] = [rc |-> x, foreign |-> g[s].foreign, delta |-> g[s].delta]
  BY <1>0, <1>1 DEF GoodGc
<1>4. h[s] \in [rc : Int, foreign : [Actor -> Nat], delta : Deltas]
  BY <1>1, <1>3
<1>5. GoodGc(h)
  BY <1>2, <1>4 DEF GoodGc
<1>6. /\ h[s].rc = x /\ \A b \in Actor : h[b].foreign = g[b].foreign
      /\ \A b \in Actor : b # s => h[b].rc = g[b].rc
  BY <1>2, <1>3
<1> QED BY <1>0, <1>5, <1>6

\* ponyint_gc_sendactor: the sender gives up a reference, or acquires some.
Kept(g, s, c) == IF MustAcquire(g, s, c) THEN IncMore - 1 ELSE -1

Traced(h, g, s, c) ==
  /\ GoodGc(h)
  /\ \A a \in Actor : h[a].rc = g[a].rc + (IF a = c /\ c = s THEN 1 ELSE 0)
  /\ \A b, d \in Actor : b # s \/ d # c => h[b].foreign[d] = g[b].foreign[d]
  /\ c \notin {None, s} =>
       h[s].foreign[c] = g[s].foreign[c] + Kept(g, s, c) /\ h[s].foreign[c] > 0
  /\ c = s => h[s].foreign[c] = g[s].foreign[c]

\* SendTrace does so.
LEMMA SendTraceChange ==
  ASSUME NEW g, GoodGc(g), NEW s \in Actor, NEW c \in Actor \cup {None}
  PROVE  Traced(SendTrace(g, s, c), g, s, c)
<1>0. PICK h : h = SendTrace(g, s, c)
  OBVIOUS
<1> SUFFICES Traced(h, g, s, c)
  BY <1>0
<1> USE DEF Traced
<1>1. CASE c = None
  <2>1. h = g /\ \A a \in Actor : a # c
    BY <1>0, <1>1 DEF SendTrace, None, Actor
  <2> QED BY <2>1, <1>1 DEF GoodGc, None, Actor
<1>2. CASE c = s
  <2>1. c # None
    BY <1>2 DEF None, Actor
  <2>a. PICK x \in Int : x = g[s].rc + 1
    BY DEF GoodGc
  <2>2. h = RcSet(g, s, x)
    BY <1>0, <1>2, <2>1, <2>a DEF SendTrace, GoodGc, RcSet
  <2>3. /\ GoodGc(h) /\ h[s].rc = g[s].rc + 1
        /\ \A b \in Actor : h[b].foreign = g[b].foreign
        /\ \A b \in Actor : b # s => h[b].rc = g[b].rc
    <3>1. /\ GoodGc(RcSet(g, s, x)) /\ RcSet(g, s, x)[s].rc = x
          /\ \A b \in Actor : RcSet(g, s, x)[b].foreign = g[b].foreign
          /\ \A b \in Actor : b # s => RcSet(g, s, x)[b].rc = g[b].rc
      BY RcChange
    <3> QED BY <2>a, <2>2, <3>1
  <2> QED BY <2>3, <1>2 DEF GoodGc
<1>3. CASE c \notin {None, s}
  <2>1. PICK x : x = g[s].foreign[c] + Kept(g, s, c)
    OBVIOUS
  <2>2. x \in Nat /\ x > 0
    <3>1. g[s].foreign[c] \in Nat /\ IncMore \in Nat /\ IncMore > 1
      BY OrcaAssumption, <1>3 DEF GoodGc
    <3>2. MustAcquire(g, s, c) <=> g[s].foreign[c] <= 1
      BY <1>3 DEF MustAcquire
    <3> QED BY <2>1, <3>1, <3>2 DEF Kept
  <2>3. h = Held(g, s, c, x)
    <3>1. g[s].foreign[c] \in Nat /\ IncMore \in Nat
      BY OrcaAssumption, <1>3 DEF GoodGc
    <3>2. x = IF MustAcquire(g, s, c) THEN g[s].foreign[c] + IncMore - 1
                                      ELSE g[s].foreign[c] - 1
      BY <2>1, <3>1 DEF Kept
    <3> QED BY <1>0, <1>3, <3>2 DEF SendTrace
  <2>4. /\ GoodGc(h) /\ h[s].foreign[c] = x
        /\ \A b, d \in Actor : b # s \/ d # c => h[b].foreign[d] = g[b].foreign[d]
        /\ \A b \in Actor : h[b].rc = g[b].rc
    <3>1. c \in Actor
      BY <1>3
    <3>2. /\ GoodGc(Held(g, s, c, x))
          /\ Held(g, s, c, x)[s].foreign[c] = x
          /\ \A b, d \in Actor : b # s \/ d # c =>
               Held(g, s, c, x)[b].foreign[d] = g[b].foreign[d]
          /\ \A b \in Actor : Held(g, s, c, x)[b].rc = g[b].rc
      BY <3>1, <2>2, HeldChange
    <3> QED BY <2>3, <3>2
  <2>5. \A b \in Actor : g[b].rc \in Int
    BY DEF GoodGc
  <2> QED BY <1>3, <2>1, <2>2, <2>4, <2>5
<1> QED BY <1>1, <1>2, <1>3

\* The messages of the model, and what they do.
LEMMA Messages ==
  ASSUME NEW n \in Nat, NEW a \in Actor, NEW b \in Actor
  PROVE  /\ \A c \in 0 .. n : GoodMsg(App(c), n)
                              /\ Gain(a, b, App(c)) = IF a = c THEN -1 ELSE 0
         /\ \A x \in Nat : GoodMsg(Acquire(x), n)
                           /\ Gain(a, b, Acquire(x)) = IF a = b THEN x ELSE 0
         /\ \A x \in Nat : GoodMsg(Release(x), n)
                           /\ Gain(a, b, Release(x)) = IF a = b THEN -x ELSE 0
         /\ \A t : GoodMsg(Conf(t), n) /\ Gain(a, b, Conf(t)) = 0
BY DEF GoodMsg, Gain, Change, Carries, App, Acquire, Release, Conf

\* What a send from s to r of c makes of the counts and the queues.
Sent(h, p, g, q, s, r, c) ==
  /\ h = SendTrace(g, s, c)
  /\ p = [SendAcquire(q, g, s, c) EXCEPT ![r] = Append(@, App(c))]

\* A send counts the reference it carries, or acquires more of them.
LEMMA SendKeeps ==
  ASSUME NEW g, GoodGc(g), NEW q, NEW n \in Nat, GoodQueues(q, n),
         NEW s \in Actor, NEW r \in Actor,
         NEW c \in Actor \cup {None}, c \in 0 .. n,
         NEW h, NEW p, Sent(h, p, g, q, s, r, c)
  PROVE  /\ GoodGc(h) /\ GoodQueues(p, n)
         /\ \A a \in Actor : Exact(g, q, a) =>
              Exact(h, p, a) /\ (Covered(g, q, a) => Covered(h, p, a))
         /\ \A b, d \in Actor : g[b].foreign[d] > 0 => h[b].foreign[d] > 0
         /\ \A b, d \in Actor : d # c => h[b].foreign[d] = g[b].foreign[d]
         /\ \A b \in Actor : b # s => h[b].rc = g[b].rc
         /\ \A b \in Actor : b \notin {r, c} => p[b] = q[b]
<1> DEFINE A == MustAcquire(g, s, c)
<1>t. Traced(h, g, s, c)
  BY SendTraceChange DEF Sent
<1>a. /\ GoodGc(h)
      /\ \A a \in Actor : h[a].rc = g[a].rc + (IF a = c /\ c = s THEN 1 ELSE 0)
      /\ \A b, d \in Actor : b # s \/ d # c => h[b].foreign[d] = g[b].foreign[d]
      /\ c \notin {None, s} =>
           h[s].foreign[c] = g[s].foreign[c] + Kept(g, s, c) /\ h[s].foreign[c] > 0
      /\ c = s => h[s].foreign[c] = g[s].foreign[c]
  BY <1>t DEF Traced
<1>b. PICK o : o = SendAcquire(q, g, s, c)
  OBVIOUS
<1>c. A => c \in Actor /\ c # s
  BY DEF MustAcquire
<1>d. IncMore \in Nat
  BY OrcaAssumption
<1>e. A => Becomes(o, q, c, Append(q[c], Acquire(IncMore)))
  BY <1>b, <1>c DEF SendAcquire, GoodQueues, Becomes
<1>f. ~A => o = q
  BY <1>b DEF SendAcquire
<1>g. GoodQueues(o, n)
  <2>1. CASE A
    <3>1. GoodMsg(Acquire(IncMore), n)
      BY <1>d, Messages
    <3> QED BY <1>a, <1>c, <1>e, <2>1, <3>1, OwedPush
  <2>2. CASE ~A
    BY <1>f, <2>2
  <2> QED BY <2>1, <2>2
<1>h. Becomes(p, o, r, Append(o[r], App(c)))
  BY <1>b, <1>g DEF Sent, GoodQueues, Becomes
<1>i. GoodMsg(App(c), n)
  BY Messages
<1>j. GoodQueues(p, n)
  BY <1>a, <1>g, <1>h, <1>i, OwedPush
<1>1. ASSUME NEW a \in Actor
      PROVE  h[a].rc - Owed(h, p, a) = g[a].rc - Owed(g, q, a)
  <2>1. Owed(h, q, a) = Owed(g, q, a) + (h[s].foreign[a] - g[s].foreign[a])
    BY <1>a, OwedForeign
  <2>2. Owed(h, o, a) = Owed(h, q, a) - (IF A /\ a = c THEN IncMore ELSE 0)
    <3>1. CASE A
      <4>1. Owed(h, o, a) = Owed(h, q, a) - Gain(a, c, Acquire(IncMore))
        <5>1. GoodMsg(Acquire(IncMore), n)
          BY <1>d, Messages
        <5>2. PICK m : m = Acquire(IncMore)
          OBVIOUS
        <5>3. /\ GoodGc(h) /\ GoodQueues(q, n) /\ c \in Actor /\ GoodMsg(m, n)
              /\ Becomes(o, q, c, Append(q[c], m)) /\ a \in Actor
          BY <3>1, <5>1, <5>2, <1>a, <1>c, <1>e
        <5>4. Owed(h, o, a) = Owed(h, q, a) - Gain(a, c, m)
          BY ONLY <5>3, OwedPush
        <5> QED BY <5>2, <5>4
      <4> QED BY <3>1, <4>1, <1>c, <1>d, Messages
    <3>2. CASE ~A
      <4>1. Owed(h, q, a) \in Int
        BY <1>a, OwedType
      <4> QED BY <3>2, <1>f, <4>1
    <3> QED BY <3>1, <3>2
  <2>3. Owed(h, p, a) = Owed(h, o, a) + (IF a = c THEN 1 ELSE 0)
    <3>1. Owed(h, p, a) = Owed(h, o, a) - Gain(a, r, App(c))
      <4>1. PICK m : m = App(c)
        OBVIOUS
      <4>2. /\ GoodGc(h) /\ GoodQueues(o, n) /\ r \in Actor /\ GoodMsg(m, n)
            /\ Becomes(p, o, r, Append(o[r], m)) /\ a \in Actor
        BY <4>1, <1>a, <1>g, <1>h, <1>i
      <4>3. Owed(h, p, a) = Owed(h, o, a) - Gain(a, r, m)
        BY ONLY <4>2, OwedPush
      <4> QED BY <4>1, <4>3
    <3>2. Gain(a, r, App(c)) = IF a = c THEN -1 ELSE 0
      BY Messages
    <3>3. Owed(h, o, a) \in Int
      BY <1>a, <1>g, OwedType
    <3> QED BY <3>1, <3>2, <3>3
  <2>4. /\ Owed(g, q, a) \in Int /\ g[a].rc \in Int
        /\ h[s].foreign[a] \in Int /\ g[s].foreign[a] \in Int
    <3>1. Owed(g, q, a) \in Int
      BY OwedType
    <3> QED BY <1>a, <3>1 DEF GoodGc
  <2>5. CASE a # c
    <3>1. h[s].foreign[a] = g[s].foreign[a] /\ h[a].rc = g[a].rc + 0
      BY <1>a, <2>5
    <3> QED BY <2>1, <2>2, <2>3, <2>4, <2>5, <3>1
  <2>6. CASE a = c /\ c = s
    <3>1. h[s].foreign[a] = g[s].foreign[a] /\ h[a].rc = g[a].rc + 1
      BY <1>a, <2>6
    <3> QED BY <2>1, <2>2, <2>3, <2>4, <2>6, <1>c, <3>1
  <2>7. CASE a = c /\ c # s
    <3>1. h[a].rc = g[a].rc + 0 /\ h[s].foreign[a] = g[s].foreign[a] + Kept(g, s, c)
      BY <1>a, <2>7 DEF None, Actor
    <3>2. Kept(g, s, c) = (IF A THEN IncMore - 1 ELSE -1)
      BY DEF Kept
    <3> HIDE DEF A
    <3>3. CASE A
      BY <2>1, <2>2, <2>3, <2>4, <2>7, <1>d, <3>1, <3>2, <3>3
    <3>4. CASE ~A
      BY <2>1, <2>2, <2>3, <2>4, <2>7, <3>1, <3>2, <3>4
    <3> QED BY <3>3, <3>4
  <2> QED BY <2>5, <2>6, <2>7
<1>2. ASSUME NEW a \in Actor, Exact(g, q, a) PROVE Exact(h, p, a)
  <2>1. h[a].rc \in Int /\ Owed(h, p, a) \in Int /\ g[a].rc \in Int
    BY <1>a, <1>j, OwedType DEF GoodGc
  <2> QED BY <1>1, <1>2, <2>1 DEF Exact
<1>3. ASSUME NEW a \in Actor, Exact(g, q, a), Covered(g, q, a) PROVE Covered(h, p, a)
  <2>1. Covered(h, q, a)
    <3>1. GoodSeq(q[a], n)
      BY DEF GoodQueues
    <3>2. \A k \in 0 .. Len(q[a]) : GainTo(q[a], a, a, k) \in Int
      BY <3>1, GainToType
    <3>3. h[a].rc \in Int /\ g[a].rc \in Int /\ h[a].rc >= g[a].rc
      BY <1>a DEF GoodGc
    <3> QED BY <1>3, <3>2, <3>3 DEF Covered
  <2>2. Covered(h, o, a)
    <3>1. CASE A
      <4>1. Gain(a, c, Acquire(IncMore)) >= 0 /\ GoodMsg(Acquire(IncMore), n)
        BY <3>1, <1>c, <1>d, Messages
      <4> QED BY <3>1, <4>1, <2>1, <1>a, <1>c, <1>e, CoveredPush
    <3>2. CASE ~A
      BY <3>2, <2>1, <1>f
    <3> QED BY <3>1, <3>2
  <2>3. Exact(h, p, a)
    BY <1>2, <1>3
  <2> QED BY <2>2, <2>3, <1>a, <1>g, <1>h, <1>i, CoveredPush
<1>4. ASSUME NEW b \in Actor, NEW d \in Actor, g[b].foreign[d] > 0
      PROVE  h[b].foreign[d] > 0
  <2>1. CASE b # s \/ d # c
    BY <1>4, <2>1, <1>a
  <2>2. CASE b = s /\ d = c
    BY <1>4, <2>2, <1>a DEF None, Actor
  <2> QED BY <2>1, <2>2
<1>5. \A b \in Actor : b # s => h[b].rc = g[b].rc
  BY <1>a DEF GoodGc
<1>6. ASSUME NEW b \in Actor, b \notin {r, c} PROVE p[b] = q[b]
  <2>1. p[b] = o[b]
    BY <1>6, <1>h DEF Becomes
  <2>2. o[b] = q[b]
    BY <1>6, <1>c, <1>e, <1>f DEF Becomes
  <2> QED BY <2>1, <2>2
<1> QED BY <1>a, <1>j, <1>2, <1>3, <1>4, <1>5, <1>6

-----------------------------------------------------------------------------
(* Several messages at a time. *)

\* One sequence of messages after another.
LEMMA GoodConcat ==
  ASSUME NEW w, NEW x, NEW n, GoodSeq(w, n), GoodSeq(x, n)
  PROVE  /\ Len(w) \in Nat /\ Len(x) \in Nat
         /\ GoodSeq(w \o x, n) /\ Len(w \o x) = Len(w) + Len(x)
         /\ \A i \in 1 .. Len(w) : (w \o x)[i] = w[i]
         /\ \A i \in 1 .. Len(x) : (w \o x)[Len(w) + i] = x[i]
<1> DEFINE S == {w[i] : i \in DOMAIN w} \cup {x[i] : i \in DOMAIN x}
<1>1. w \in Seq(S) /\ x \in Seq(S)
  BY DEF GoodSeq
<1> HIDE DEF S
<1>2. PICK r : r = w \o x
  OBVIOUS
<1>3. /\ Len(w) \in Nat /\ Len(x) \in Nat
      /\ r \in Seq(S) /\ Len(r) = Len(w) + Len(x)
      /\ \A i \in 1 .. Len(w) : r[i] = w[i]
  BY <1>1, <1>2
<1>4. \A i \in 1 .. Len(x) : r[Len(w) + i] = x[i]
  BY <1>1, <1>2, <1>3
<1>5. \A i \in 1 .. Len(r) : i \in 1 .. Len(w) \/ i - Len(w) \in 1 .. Len(x)
  BY <1>3
<1>6. \A i \in 1 .. Len(r) : GoodMsg(r[i], n)
  <2>1. ASSUME NEW i \in 1 .. Len(r) PROVE GoodMsg(r[i], n)
    <3>1. CASE i \in 1 .. Len(w)
      BY <1>3, <3>1 DEF GoodSeq
    <3>2. CASE i - Len(w) \in 1 .. Len(x)
      <4>1. r[Len(w) + (i - Len(w))] = x[i - Len(w)]
        BY <1>4, <3>2
      <4>2. Len(w) + (i - Len(w)) = i
        BY <1>3
      <4> QED BY <3>2, <4>1, <4>2 DEF GoodSeq
    <3> QED BY <1>5, <3>1, <3>2
  <2> QED BY <2>1
<1>7. r \in Seq({r[i] : i \in DOMAIN r})
  <2>1. Len(r) \in Nat /\ r \in [1 .. Len(r) -> {r[i] : i \in DOMAIN r}]
    BY <1>3
  <2> QED BY <2>1
<1>8. GoodSeq(r, n)
  BY <1>6, <1>7 DEF GoodSeq
<1> QED BY <1>2, <1>3, <1>4, <1>8

\* What the two together are worth.
LEMMA GainConcat ==
  ASSUME NEW a, NEW b, NEW w, NEW x, NEW n, GoodSeq(w, n), GoodSeq(x, n)
  PROVE  /\ \A k \in 0 .. Len(w) : GainTo(w \o x, a, b, k) = GainTo(w, a, b, k)
         /\ \A k \in 0 .. Len(x) : GainTo(w \o x, a, b, Len(w) + k)
                                     = GainTo(w, a, b, Len(w)) + GainTo(x, a, b, k)
<1>1. /\ Len(w) \in Nat /\ Len(x) \in Nat
      /\ GoodSeq(w \o x, n) /\ Len(w \o x) = Len(w) + Len(x)
      /\ \A i \in 1 .. Len(w) : (w \o x)[i] = w[i]
      /\ \A i \in 1 .. Len(x) : (w \o x)[Len(w) + i] = x[i]
  BY GoodConcat
<1>2. PICK r : r = w \o x
  OBVIOUS
<1>3. PICK f : f = Gains(r, a, b)
  OBVIOUS
<1>4. \A i \in 1 .. Len(w) + Len(x) : f[i] \in Int /\ f[i] = Gain(a, b, r[i])
  <2>1. \A i \in 1 .. Len(r) : Gains(r, a, b)[i] \in Int
    BY <1>1, <1>2, GainToType
  <2> QED BY <1>1, <1>2, <1>3, <2>1 DEF Gains
<1>5. ASSUME NEW k \in 0 .. Len(w)
      PROVE  SumFunctionOnSet(f, 1 .. k) = GainTo(w, a, b, k)
  <2>1. IsFiniteSet(1 .. k)
    BY <1>1, FS_Interval
  <2>2. \A i \in 1 .. k : f[i] = Gains(w, a, b)[i]
    BY <1>1, <1>2, <1>4 DEF Gains
  <2> QED BY <2>1, <2>2, SumSame DEF GainTo
<1>6. ASSUME NEW k \in 0 .. Len(x)
      PROVE  SumFunctionOnSet(f, 1 .. Len(w) + k)
               = GainTo(w, a, b, Len(w)) + GainTo(x, a, b, k)
  <2>1. PICK h : h = [i \in 1 .. k |-> Len(w) + i]
    OBVIOUS
  <2>2. PICK g : g = Gains(x, a, b)
    OBVIOUS
  <2>3. IsFiniteSet(1 .. k) /\ IsFiniteSet(1 .. Len(w))
    BY <1>1, FS_Interval
  <2>4. \A i, j \in 1 .. k : h[i] = h[j] => i = j
    BY <1>1, <2>1
  <2>5. \A i \in 1 .. k : g[i] = f[h[i]] /\ g[i] \in Int
    <3>1. \A i \in 1 .. k : /\ i \in 1 .. Len(x) /\ h[i] = Len(w) + i
                            /\ Len(w) + i \in 1 .. Len(w) + Len(x)
      BY <1>1, <2>1
    <3>2. \A i \in 1 .. k : f[h[i]] = Gain(a, b, x[i]) /\ f[h[i]] \in Int
      BY <1>1, <1>2, <1>4, <3>1
    <3>3. \A i \in 1 .. k : g[i] = Gain(a, b, x[i])
      BY <2>2, <3>1 DEF Gains
    <3> QED BY <3>2, <3>3
  <2>6. /\ IsFiniteSet(Renamed(h, 1 .. k))
        /\ SumFunctionOnSet(f, Renamed(h, 1 .. k)) = SumFunctionOnSet(g, 1 .. k)
    <3>1. PICK K : K = 1 .. k
      OBVIOUS
    <3>2. /\ IsFiniteSet(K) /\ \A i, j \in K : h[i] = h[j] => i = j
          /\ \A i \in K : g[i] = f[h[i]] /\ g[i] \in Int
      BY <2>3, <2>4, <2>5, <3>1
    <3>3. /\ IsFiniteSet(Renamed(h, K))
          /\ SumFunctionOnSet(f, Renamed(h, K)) = SumFunctionOnSet(g, K)
      BY ONLY <3>2, SumRename
    <3> QED BY <3>1, <3>3
  <2>7. /\ 1 .. Len(w) + k = (1 .. Len(w)) \cup Renamed(h, 1 .. k)
        /\ (1 .. Len(w)) \cap Renamed(h, 1 .. k) = {}
    <3>1. \A j \in 1 .. Len(w) + k : j \in 1 .. Len(w) \/ j - Len(w) \in 1 .. k
      BY <1>1
    <3>2. \A j \in 1 .. Len(w) + k : j - Len(w) \in 1 .. k => h[j - Len(w)] = j
      BY <1>1, <2>1
    <3>3. \A i \in 1 .. k : h[i] \in 1 .. Len(w) + k /\ h[i] \notin 1 .. Len(w)
      BY <1>1, <2>1
    <3>4. \A j \in 1 .. Len(w) : j \in 1 .. Len(w) + k
      BY <1>1
    <3> QED BY <3>1, <3>2, <3>3, <3>4 DEF Renamed
  <2>8. \A i \in (1 .. Len(w)) \cup Renamed(h, 1 .. k) : f[i] \in Int
    <3>1. \A i \in 1 .. Len(w) + k : i \in 1 .. Len(w) + Len(x)
      BY <1>1
    <3> QED BY <1>4, <2>7, <3>1
  <2>9. SumFunctionOnSet(f, (1 .. Len(w)) \cup Renamed(h, 1 .. k))
          = SumFunctionOnSet(f, 1 .. Len(w)) + SumFunctionOnSet(f, Renamed(h, 1 .. k))
    BY <2>3, <2>6, <2>7, <2>8, SumUnion
  <2>10. SumFunctionOnSet(f, 1 .. Len(w)) = GainTo(w, a, b, Len(w))
    <3>1. Len(w) \in 0 .. Len(w)
      BY <1>1
    <3> QED BY <1>5, <3>1
  <2> QED BY <2>2, <2>6, <2>7, <2>9, <2>10 DEF GainTo
<1> QED BY <1>2, <1>3, <1>5, <1>6 DEF GainTo

\* RELEASE and CONF messages carry no reference and raise no count.
Quiet(x) == \A i \in 1 .. Len(x) : x[i].kind \in {"release", "conf"}

\* So they are worth nothing to other actors, and less the more there are.
LEMMA GainQuiet ==
  ASSUME NEW a, NEW b, NEW x, NEW n, GoodSeq(x, n), Quiet(x)
  PROVE  /\ a # b => GainTo(x, a, b, Len(x)) = 0
         /\ \A k \in 0 .. Len(x) : GainTo(x, a, b, k) >= GainTo(x, a, b, Len(x))
<1>1. Len(x) \in Nat
  BY GainToType
<1>2. PICK f : f = Gains(x, a, b)
  OBVIOUS
<1>3. \A i \in 1 .. Len(x) : f[i] = Gain(a, b, x[i])
  BY <1>2 DEF Gains
<1>4. \A i \in 1 .. Len(x) : f[i] \in Int /\ f[i] <= 0 /\ (a # b => f[i] = 0)
  <2>1. \A i \in 1 .. Len(x) : GoodMsg(x[i], n) /\ x[i].kind \in {"release", "conf"}
    BY DEF GoodSeq, Quiet
  <2> QED BY <1>3, <2>1 DEF Gain, Change, Carries, GoodMsg
<1>5. ASSUME a # b PROVE GainTo(x, a, b, Len(x)) = 0
  <2>1. IsFiniteSet(1 .. Len(x))
    BY <1>1, FS_Interval
  <2> QED BY <1>2, <1>4, <1>5, <2>1, SumZero DEF GainTo
<1>6. ASSUME NEW k \in 0 .. Len(x)
      PROVE  SumFunctionOnSet(f, 1 .. k) >= SumFunctionOnSet(f, 1 .. Len(x))
  <2> DEFINE A == 1 .. k
             B == k + 1 .. Len(x)
  <2>1. IsFiniteSet(A) /\ IsFiniteSet(B)
    BY <1>1, FS_Interval
  <2>2. A \cap B = {} /\ A \cup B = 1 .. Len(x)
    BY <1>1
  <2>3. \A i \in B : i \in 1 .. Len(x)
    BY <1>1
  <2> HIDE DEF A, B
  <2>4. SumFunctionOnSet(f, A \cup B) = SumFunctionOnSet(f, A) + SumFunctionOnSet(f, B)
    BY <1>4, <2>1, <2>2, SumUnion
  <2>5. PICK z : z = [i \in B |-> 0]
    OBVIOUS
  <2>6. SumFunctionOnSet(z, B) = 0
    BY <2>1, <2>5, SumZero
  <2>7. SumFunctionOnSet(f, B) <= SumFunctionOnSet(z, B)
    <3>1. \A i \in B : f[i] \in Int /\ z[i] \in Int /\ f[i] <= z[i]
      BY <1>4, <2>3, <2>5
    <3> QED BY <2>1, <3>1, SumLeq
  <2>8. SumFunctionOnSet(f, A) \in Int /\ SumFunctionOnSet(f, B) \in Int
    BY <1>4, <2>1, <2>2, SumType
  <2>9. SumFunctionOnSet(f, A) >= SumFunctionOnSet(f, 1 .. Len(x))
    <3>1. SumFunctionOnSet(f, B) <= 0
      BY <2>6, <2>7
    <3>2. SumFunctionOnSet(f, A) >= SumFunctionOnSet(f, A \cup B)
      BY <2>4, <2>8, <3>1
    <3> QED BY <2>2, <3>2
  <2> QED BY <2>9 DEF A
<1> QED BY <1>2, <1>5, <1>6 DEF GainTo

\* Every actor b is sent the messages x[b].
Posts(p, q, x, n) ==
  /\ GoodQueues(q, n)
  /\ p = [b \in Actor |-> q[b] \o x[b]]
  /\ \A b \in Actor : GoodSeq(x[b], n) /\ Quiet(x[b])

\* They change what is owed to their receivers only.
LEMMA OwedPost ==
  ASSUME NEW g, GoodGc(g), NEW q, NEW p, NEW x, NEW n, Posts(p, q, x, n)
  PROVE  /\ GoodQueues(p, n)
         /\ \A a \in Actor :
              Owed(g, p, a) = Owed(g, q, a) - GainTo(x[a], a, a, Len(x[a]))
<1>1. GoodQueues(p, n)
  <2>1. ASSUME NEW b \in Actor PROVE GoodSeq(p[b], n)
    <3>1. GoodSeq(q[b], n) /\ GoodSeq(x[b], n) /\ p[b] = q[b] \o x[b]
      BY DEF Posts, GoodQueues
    <3> QED BY <3>1, GoodConcat
  <2>2. p = [b \in Actor |-> p[b]]
    BY DEF Posts
  <2> QED BY <2>1, <2>2 DEF GoodQueues
<1>2. ASSUME NEW a \in Actor, NEW b \in Actor
      PROVE  /\ GainTo(x[b], a, b, Len(x[b])) \in Int
             /\ GainTo(p[b], a, b, Len(p[b]))
                  = GainTo(q[b], a, b, Len(q[b])) + GainTo(x[b], a, b, Len(x[b]))
  <2>1. PICK v, w : v = q[b] /\ w = x[b]
    OBVIOUS
  <2>2. GoodSeq(v, n) /\ GoodSeq(w, n) /\ p[b] = v \o w
    BY <2>1 DEF Posts, GoodQueues
  <2>3. Len(v) \in Nat /\ Len(w) \in Nat /\ Len(v \o w) = Len(v) + Len(w)
    BY <2>2, GoodConcat
  <2>4. Len(w) \in 0 .. Len(w)
    BY <2>3
  <2>5. GainTo(v \o w, a, b, Len(v) + Len(w))
          = GainTo(v, a, b, Len(v)) + GainTo(w, a, b, Len(w))
    BY <2>2, <2>4, GainConcat
  <2>6. GainTo(w, a, b, Len(w)) \in Int
    BY <2>2, <2>4, GainToType
  <2> QED BY <2>1, <2>2, <2>3, <2>5, <2>6
<1>3. ASSUME NEW a \in Actor
      PROVE  Owed(g, p, a) = Owed(g, q, a) - GainTo(x[a], a, a, Len(x[a]))
  <2>1. \A b \in Actor : GainTo(q[b], a, b, Len(q[b])) \in Int
    BY OwedType DEF Posts
  <2>2. ASSUME NEW b \in Actor, b # a
        PROVE  GainTo(p[b], a, b, Len(p[b])) = GainTo(q[b], a, b, Len(q[b]))
    <3>1. GainTo(x[b], a, b, Len(x[b])) = 0
      BY <2>2, GainQuiet DEF Posts
    <3> QED BY <1>2, <2>1, <3>1
  <2>3. Owed(g, p, a) = Owed(g, q, a)
          + (GainTo(q[a], a, a, Len(q[a])) - GainTo(p[a], a, a, Len(p[a])))
    <3>1. GoodQueues(q, n)
      BY DEF Posts
    <3> QED BY <1>1, <2>2, <3>1, OwedQueue
  <2>4. Owed(g, q, a) \in Int
    BY OwedType DEF Posts
  <2> QED BY <1>2, <2>1, <2>3, <2>4
<1> QED BY <1>1, <1>3

\* The messages tell a what was taken from the counts of its holders.
Tells(h, g, q, x, a) ==
  /\ h[a].rc = g[a].rc
  /\ Owed(h, q, a) = Owed(g, q, a) + GainTo(x[a], a, a, Len(x[a]))

\* Then the count of a is as exact as before, and as well covered.
LEMMA PostKeeps ==
  ASSUME NEW g, GoodGc(g), NEW h, GoodGc(h), NEW q, NEW p, NEW x, NEW n,
         Posts(p, q, x, n), NEW a \in Actor, Tells(h, g, q, x, a),
         Exact(g, q, a), Covered(g, q, a)
  PROVE  Exact(h, p, a) /\ Covered(h, p, a)
<1>1. PICK v, w : v = q[a] /\ w = x[a]
  OBVIOUS
<1>2. GoodSeq(v, n) /\ GoodSeq(w, n) /\ Quiet(w) /\ p[a] = v \o w
  BY <1>1 DEF Posts, GoodQueues
<1>3. Len(v) \in Nat /\ Len(w) \in Nat /\ Len(v \o w) = Len(v) + Len(w)
  BY <1>2, GoodConcat
<1>4. \A k \in 0 .. Len(w) : GainTo(w, a, a, k) \in Int
  BY <1>2, GainToType
<1>5. GainTo(w, a, a, Len(w)) \in Int
  BY <1>3, <1>4
<1>6. GoodQueues(p, n) /\ Owed(h, p, a) = Owed(h, q, a) - GainTo(w, a, a, Len(w))
  BY <1>1, OwedPost
<1>7. Owed(h, p, a) = h[a].rc
  <2>1. Owed(g, q, a) \in Int
    BY OwedType DEF Posts
  <2> QED BY <1>1, <1>5, <1>6, <2>1 DEF Tells, Exact
<1>8. h[a].rc + GainTo(v \o w, a, a, Len(v) + Len(w)) >= 0
  BY <1>2, <1>3, <1>6, <1>7, OwedNat
<1>9. h[a].rc \in Int /\ h[a].rc = g[a].rc
  BY DEF GoodGc, Tells
<1>10. ASSUME NEW k \in 0 .. Len(v) + Len(w)
       PROVE  h[a].rc + GainTo(v \o w, a, a, k) >= 0
  <2>1. CASE k \in 0 .. Len(v)
    <3>1. GainTo(v \o w, a, a, k) = GainTo(v, a, a, k)
      BY <1>2, <2>1, GainConcat
    <3> QED BY <1>1, <1>9, <2>1, <3>1 DEF Covered
  <2>2. CASE k \notin 0 .. Len(v)
    <3>1. PICK j \in 0 .. Len(w) : k = Len(v) + j
      <4>1. k - Len(v) \in 0 .. Len(w) /\ k = Len(v) + (k - Len(v))
        BY <1>3, <2>2
      <4> QED BY <4>1
    <3>2. Len(w) \in 0 .. Len(w)
      BY <1>3
    <3>3. /\ GainTo(v \o w, a, a, Len(v) + j)
               = GainTo(v, a, a, Len(v)) + GainTo(w, a, a, j)
          /\ GainTo(v \o w, a, a, Len(v) + Len(w))
               = GainTo(v, a, a, Len(v)) + GainTo(w, a, a, Len(w))
      BY <1>2, <3>2, GainConcat
    <3>4. GainTo(w, a, a, j) >= GainTo(w, a, a, Len(w))
      BY <1>2, GainQuiet
    <3>5. Len(v) \in 0 .. Len(v)
      BY <1>3
    <3>6. GainTo(v, a, a, Len(v)) \in Int
      BY <1>2, <3>5, GainToType
    <3>7. PICK i \in Int, before \in Int, part \in Int, all \in Int :
            /\ i = h[a].rc /\ before = GainTo(v, a, a, Len(v))
            /\ part = GainTo(w, a, a, j) /\ all = GainTo(w, a, a, Len(w))
      BY <1>4, <1>5, <1>9, <3>6
    <3>8. i + (before + all) >= 0 /\ part >= all
      BY <1>8, <3>3, <3>4, <3>7
    <3>9. i \in Int /\ before \in Int /\ part \in Int /\ all \in Int
      OBVIOUS
    <3>10. i + (before + part) >= 0
      BY ONLY <3>8, <3>9
    <3> QED BY <3>1, <3>3, <3>7, <3>10
  <2> QED BY <2>1, <2>2
<1> QED BY <1>2, <1>3, <1>7, <1>10 DEF Exact, Covered

\* ponyint_gc_recvactor: the receiver holds the reference that it is sent.
LEMMA RecvHandled ==
  ASSUME NEW g, GoodGc(g), NEW q, NEW n, GoodQueues(q, n), NEW r \in Actor,
         NEW m, m.kind = "app", m.ref \in Actor \cup {None}
  PROVE  LET h == RecvTrace(g, r, m.ref) IN
         /\ GoodGc(h) /\ Handled(h, g, q, r, m)
         /\ \A b, d \in Actor : h[b].foreign[d] >= g[b].foreign[d]
         /\ m.ref \notin {None, r} => h[r].foreign[m.ref] > 0
         /\ \A b, d \in Actor : d # m.ref => h[b].foreign[d] = g[b].foreign[d]
<1>1. PICK c : c = m.ref
  OBVIOUS
<1>2. c \in Actor \cup {None} /\ \A a \in Actor : Gain(a, r, m) = IF a = c THEN -1 ELSE 0
  BY <1>1 DEF Gain, Change, Carries
<1>3. PICK h : h = RecvTrace(g, r, c)
  OBVIOUS
<1>4. \A a \in Actor : g[a].rc \in Int /\ Owed(g, q, a) \in Int
  BY OwedType DEF GoodGc
<1>5. \A b, d \in Actor : g[b].foreign[d] \in Nat
  BY DEF GoodGc
<1>6. CASE c = None
  <2>1. h = g /\ \A a \in Actor : a # c
    BY <1>3, <1>6 DEF RecvTrace, None, Actor
  <2>2. Handled(h, g, q, r, m)
    BY <1>2, <1>4, <2>1 DEF Handled
  <2> QED BY <1>1, <1>3, <1>5, <1>6, <2>1, <2>2
<1>7. CASE c = r
  <2>1. c # None
    BY <1>7 DEF None, Actor
  <2>2. PICK x \in Int : x = g[r].rc - 1
    BY DEF GoodGc
  <2>3. h = RcSet(g, r, x)
    BY <1>3, <1>7, <2>1, <2>2 DEF RecvTrace, GoodGc, RcSet
  <2>4. /\ GoodGc(RcSet(g, r, x)) /\ RcSet(g, r, x)[r].rc = x
        /\ \A b \in Actor : RcSet(g, r, x)[b].foreign = g[b].foreign
        /\ \A b \in Actor : b # r => RcSet(g, r, x)[b].rc = g[b].rc
    BY RcChange
  <2>5. GoodGc(h) /\ \A b, d \in Actor : h[b].foreign[d] = g[b].foreign[d]
    BY <2>3, <2>4
  <2>6. ASSUME NEW a \in Actor PROVE Owed(h, q, a) = Owed(g, q, a)
    <3>1. Owed(h, q, a) = Owed(g, q, a) + (h[r].foreign[a] - g[r].foreign[a])
      BY <2>5, OwedForeign
    <3> QED BY <1>4, <1>5, <2>5, <3>1
  <2>7. Handled(h, g, q, r, m)
    <3>1. h[r].rc = g[r].rc + Gain(r, r, m)
      BY <1>2, <1>4, <1>7, <2>2, <2>3, <2>4
    <3>2. \A a \in Actor : a # r => h[a].rc = g[a].rc /\ Gain(a, r, m) = 0
      BY <1>2, <1>7, <2>3, <2>4
    <3> QED BY <1>4, <2>6, <3>1, <3>2 DEF Handled
  <2> QED BY <1>1, <1>3, <1>5, <1>7, <2>5, <2>7
<1>8. CASE c \notin {None, r}
  <2>1. c \in Actor
    BY <1>2, <1>8
  <2>2. PICK x \in Nat : x = g[r].foreign[c] + 1
    BY <1>5, <2>1
  <2>3. h = Held(g, r, c, x)
    BY <1>3, <1>8, <2>2 DEF RecvTrace
  <2>4. /\ GoodGc(Held(g, r, c, x)) /\ Held(g, r, c, x)[r].foreign[c] = x
        /\ \A b, d \in Actor : b # r \/ d # c =>
             Held(g, r, c, x)[b].foreign[d] = g[b].foreign[d]
        /\ \A b \in Actor : Held(g, r, c, x)[b].rc = g[b].rc
    BY <2>1, HeldChange
  <2>5. /\ GoodGc(h) /\ h[r].foreign[c] = x
        /\ \A b, d \in Actor : b # r \/ d # c => h[b].foreign[d] = g[b].foreign[d]
        /\ \A b \in Actor : h[b].rc = g[b].rc
    BY <2>3, <2>4
  <2>6. ASSUME NEW a \in Actor
        PROVE  Owed(h, q, a) = Owed(g, q, a) - Gain(a, r, m)
    <3>1. Owed(h, q, a) = Owed(g, q, a) + (h[r].foreign[a] - g[r].foreign[a])
      BY <2>5, OwedForeign
    <3>2. h[r].foreign[a] = g[r].foreign[a] + (IF a = c THEN 1 ELSE 0)
      BY <1>5, <2>2, <2>5
    <3> QED BY <1>2, <1>4, <1>5, <3>1, <3>2
  <2>7. Handled(h, g, q, r, m)
    <3>1. Gain(r, r, m) = 0
      BY <1>2, <1>8
    <3> QED BY <1>4, <2>5, <2>6, <3>1 DEF Handled
  <2>8. \A b, d \in Actor : h[b].foreign[d] >= g[b].foreign[d]
    BY <1>5, <2>2, <2>5
  <2>9. h[r].foreign[c] > 0
    BY <1>5, <2>1, <2>2, <2>5
  <2> QED BY <1>1, <1>3, <2>5, <2>7, <2>8, <2>9
<1> QED BY <1>2, <1>6, <1>7, <1>8

\* ponyint_gc_acquire, ponyint_gc_release and CONF.
LEMMA CountHandled ==
  ASSUME NEW g, GoodGc(g), NEW q, NEW n, GoodQueues(q, n), NEW r \in Actor,
         NEW m, GoodMsg(m, n), m.kind # "app",
         NEW x, x = g[r].rc + Change(m)
  PROVE  /\ GoodGc(RcSet(g, r, x)) /\ Handled(RcSet(g, r, x), g, q, r, m)
         /\ \A b \in Actor : RcSet(g, r, x)[b].foreign = g[b].foreign
<1>1. Gain(r, r, m) = Change(m) /\ \A a \in Actor : a # r => Gain(a, r, m) = 0
  BY DEF Gain, Change, Carries, GoodMsg
<1>2. Change(m) \in Int
  BY DEF Change, GoodMsg
<1>3. \A a \in Actor : g[a].rc \in Int /\ Owed(g, q, a) \in Int
  BY OwedType DEF GoodGc
<1>4. x \in Int
  BY <1>2, <1>3
<1>5. PICK h : h = RcSet(g, r, x)
  OBVIOUS
<1>6. /\ GoodGc(h) /\ h[r].rc = x
      /\ \A b \in Actor : h[b].foreign = g[b].foreign
      /\ \A b \in Actor : b # r => h[b].rc = g[b].rc
  BY <1>4, <1>5, RcChange
<1>7. ASSUME NEW a \in Actor PROVE Owed(h, q, a) = Owed(g, q, a)
  <2>1. Owed(h, q, a) = Owed(g, q, a) + (h[r].foreign[a] - g[r].foreign[a])
    BY <1>6, OwedForeign
  <2>2. h[r].foreign[a] = g[r].foreign[a] /\ g[r].foreign[a] \in Nat
    BY <1>6 DEF GoodGc
  <2> QED BY <1>3, <2>1, <2>2
<1>8. Handled(h, g, q, r, m)
  BY <1>1, <1>3, <1>6, <1>7 DEF Handled
<1> QED BY <1>5, <1>6, <1>8

\* The messages when each actor of S is sent one.
One(S, m) == [b \in Actor |-> IF b \in S THEN <<m[b]>> ELSE <<>>]

\* A sequence of one message, and of none.
LEMMA GainOne ==
  ASSUME NEW a, NEW b, NEW m, NEW n, GoodMsg(m, n)
  PROVE  /\ GoodSeq(<<m>>, n) /\ GainTo(<<m>>, a, b, Len(<<m>>)) = Gain(a, b, m)
         /\ GoodSeq(<<>>, n) /\ GainTo(<<>>, a, b, Len(<<>>)) = 0
<1>1. GoodSeq(<<>>, n) /\ Len(<<>>) = 0
  BY DEF GoodSeq
<1>2. GainTo(<<>>, a, b, 0) = 0
  BY <1>1, GainToType
<1>3. Append(<<>>, m) = <<m>> /\ Len(<<m>>) = 1
  OBVIOUS
<1>4. GoodSeq(Append(<<>>, m), n)
  BY <1>1, GoodAppend
<1>5. GainTo(Append(<<>>, m), a, b, Len(<<>>) + 1)
        = GainTo(<<>>, a, b, Len(<<>>)) + Gain(a, b, m)
  BY <1>1, GainAppend
<1>6. Gain(a, b, m) \in Int
  BY GainType
<1>7. GainTo(<<m>>, a, b, 1) = Gain(a, b, m)
  BY <1>1, <1>2, <1>3, <1>5, <1>6
<1> QED BY <1>1, <1>2, <1>3, <1>4, <1>7

SendsOne(p, q, S, m, n) ==
  /\ GoodQueues(q, n)
  /\ \A b \in Actor : GoodMsg(m[b], n) /\ m[b].kind \in {"release", "conf"}
  /\ p = [b \in Actor |-> IF b \in S THEN Append(q[b], m[b]) ELSE q[b]]

\* Sending each actor of S a RELEASE or a CONF.
LEMMA OnePost ==
  ASSUME NEW p, NEW q, NEW S, NEW m, NEW n, SendsOne(p, q, S, m, n)
  PROVE  /\ Posts(p, q, One(S, m), n)
         /\ \A a \in Actor : GainTo(One(S, m)[a], a, a, Len(One(S, m)[a]))
                               = IF a \in S THEN Gain(a, a, m[a]) ELSE 0
<1> USE DEF SendsOne
<1>1. PICK x : x = One(S, m)
  OBVIOUS
<1>2. \A b \in Actor : x[b] = IF b \in S THEN <<m[b]>> ELSE <<>>
  BY <1>1 DEF One
<1>3. ASSUME NEW b \in Actor PROVE GoodSeq(x[b], n) /\ Quiet(x[b])
  <2>1. GoodSeq(x[b], n)
    BY <1>2, GainOne
  <2>2. CASE b \in S
    <3>1. x[b] = <<m[b]>>
      BY <1>2, <2>2
    <3>2. Quiet(<<m[b]>>)
      BY DEF Quiet
    <3> QED BY <2>1, <3>1, <3>2
  <2>3. CASE b \notin S
    <3>1. x[b] = <<>>
      BY <1>2, <2>3
    <3>2. Quiet(<<>>)
      BY DEF Quiet
    <3> QED BY <2>1, <3>1, <3>2
  <2> QED BY <2>2, <2>3
<1>4. ASSUME NEW b \in Actor PROVE p[b] = q[b] \o x[b]
  <2>1. PICK T : q[b] \in Seq(T) /\ m[b] \in T
    <3>1. PICK w, e : w = q[b] /\ e = m[b]
      OBVIOUS
    <3>2. GoodSeq(w, n)
      BY <3>1 DEF GoodQueues
    <3> DEFINE U == {w[i] : i \in DOMAIN w} \cup {e}
    <3>3. w \in Seq(U) /\ e \in U
      BY <3>2 DEF GoodSeq
    <3> QED BY <3>1, <3>3
  <2>2. CASE b \in S
    BY <1>2, <2>1, <2>2, AppendIsConcat
  <2>3. CASE b \notin S
    BY <1>2, <2>1, <2>3, ConcatEmptySeq
  <2> QED BY <2>2, <2>3
<1>5. p = [b \in Actor |-> q[b] \o x[b]]
  BY <1>4
<1>6. Posts(p, q, x, n)
  BY <1>3, <1>5 DEF Posts
<1>7. ASSUME NEW a \in Actor
      PROVE  GainTo(x[a], a, a, Len(x[a])) = IF a \in S THEN Gain(a, a, m[a]) ELSE 0
  <2>1. GoodMsg(m[a], n)
    OBVIOUS
  <2>2. /\ GainTo(<<m[a]>>, a, a, Len(<<m[a]>>)) = Gain(a, a, m[a])
        /\ GainTo(<<>>, a, a, Len(<<>>)) = 0
    BY <2>1, GainOne
  <2>3. CASE a \in S
    <3>1. x[a] = <<m[a]>>
      BY <1>2, <2>3
    <3>2. GainTo(x[a], a, a, Len(x[a])) = Gain(a, a, m[a])
      BY ONLY <2>2, <3>1
    <3> QED BY <2>3, <3>2
  <2>4. CASE a \notin S
    BY <1>2, <2>2, <2>4
  <2> QED BY <2>3, <2>4
<1> QED BY <1>1, <1>6, <1>7

\* send_conf asks actors for a confirmation and changes no count.
LEMMA ConfKeeps ==
  ASSUME NEW g, GoodGc(g), NEW q, NEW n \in Nat, GoodQueues(q, n), NEW S, NEW t
  PROVE  /\ GoodQueues(SendConf(q, S, t), n)
         /\ \A a \in Actor : Exact(g, q, a) /\ Covered(g, q, a) =>
              Exact(g, SendConf(q, S, t), a) /\ Covered(g, SendConf(q, S, t), a)
<1>1. PICK m : m = [b \in Actor |-> Conf(t)]
  OBVIOUS
<1>2. PICK p : p = SendConf(q, S, t)
  OBVIOUS
<1>3. p = [b \in Actor |-> IF b \in S THEN Append(q[b], m[b]) ELSE q[b]]
  BY <1>1, <1>2 DEF SendConf
<1>4. \A b \in Actor : /\ GoodMsg(m[b], n) /\ m[b].kind \in {"release", "conf"}
                       /\ Gain(b, b, m[b]) = 0
  BY <1>1, Messages DEF Conf
<1>5. PICK x : x = One(S, m)
  OBVIOUS
<1>6. /\ Posts(p, q, x, n)
      /\ \A a \in Actor : GainTo(x[a], a, a, Len(x[a]))
                            = IF a \in S THEN Gain(a, a, m[a]) ELSE 0
  <2>1. /\ Posts(p, q, One(S, m), n)
        /\ \A a \in Actor : GainTo(One(S, m)[a], a, a, Len(One(S, m)[a]))
                              = IF a \in S THEN Gain(a, a, m[a]) ELSE 0
    <3>1. SendsOne(p, q, S, m, n)
      BY <1>3, <1>4 DEF SendsOne
    <3> QED BY ONLY <3>1, OnePost
  <2> QED BY <1>5, <2>1
<1>7. GoodQueues(p, n)
  BY <1>6, OwedPost
<1>8. ASSUME NEW a \in Actor, Exact(g, q, a), Covered(g, q, a)
      PROVE  Exact(g, p, a) /\ Covered(g, p, a)
  <2>1. GainTo(x[a], a, a, Len(x[a])) = 0
    BY <1>4, <1>6
  <2>2. Owed(g, q, a) \in Int
    BY OwedType
  <2>3. Tells(g, g, q, x, a)
    BY <2>1, <2>2 DEF Tells
  <2> QED BY <1>6, <1>8, <2>3, PostKeeps
<1> QED BY <1>2, <1>7, <1>8

\* ponyint_actormap_sweep takes references from the map of s and releases
\* them to their owners.
LEMMA SweepKeeps ==
  ASSUME NEW n \in Nat, GoodGc(gc), GoodQueues(queue, n), NEW s \in Actor,
         NEW S, S \subseteq Actor,
         NEW h, h = SweepGc(gc, s, S), NEW p, p = SendReleases(queue, s, S)
  PROVE  /\ GoodGc(h) /\ GoodQueues(p, n)
         /\ \A a \in Actor : Exact(gc, queue, a) /\ Covered(gc, queue, a) =>
              Exact(h, p, a) /\ Covered(h, p, a)
         /\ \A b, d \in Actor : b # s \/ d \notin S =>
              h[b].foreign[d] = gc[b].foreign[d]
         /\ \A d \in S : h[s].foreign[d] = 0
<1>1. PICK g, q : g = gc /\ q = queue
  OBVIOUS
<1>2. GoodGc(g) /\ GoodQueues(q, n)
  BY <1>1
<1>3. g[s] \in [rc : Int, foreign : [Actor -> Nat], delta : Deltas]
  BY <1>2 DEF GoodGc
<1>4. PICK F, D : /\ F = [c \in Actor |-> IF c \in S THEN 0 ELSE g[s].foreign[c]]
                  /\ D = [c \in DOMAIN g[s].delta \cup S |->
                            IF c \in S THEN 0 ELSE g[s].delta[c]]
  OBVIOUS
<1>5. F \in [Actor -> Nat]
  BY <1>3, <1>4
<1>6. D \in Deltas
  <2>1. PICK E \in SUBSET Actor : g[s].delta \in [E -> Nat]
    BY <1>3 DEF Deltas
  <2>2. D \in [E \cup S -> Nat]
    BY <1>4, <2>1
  <2>3. E \cup S \in SUBSET Actor
    OBVIOUS
  <2> QED BY <2>2, <2>3 DEF Deltas
<1>7. h = [b \in Actor |-> h[b]] /\ \A b \in Actor : b # s => h[b] = g[b]
  BY <1>1, <1>2 DEF SweepGc, GoodGc
<1>8. h[s] = [rc |-> g[s].rc, foreign |-> F, delta |-> D]
  BY <1>1, <1>2, <1>3, <1>4 DEF SweepGc, GoodGc
<1>9. h[s] \in [rc : Int, foreign : [Actor -> Nat], delta : Deltas]
  BY <1>3, <1>5, <1>6, <1>8
<1>10. GoodGc(h)
  BY <1>2, <1>7, <1>9 DEF GoodGc
<1>11. /\ \A b, d \in Actor : b # s \/ d \notin S => h[b].foreign[d] = g[b].foreign[d]
       /\ \A d \in S : h[s].foreign[d] = 0
       /\ \A b \in Actor : h[b].rc = g[b].rc
  BY <1>4, <1>7, <1>8
<1>12. PICK m : m = [b \in Actor |-> Release(g[s].foreign[b])]
  OBVIOUS
<1>13. \A b \in Actor : g[s].foreign[b] \in Nat
  BY <1>3
<1>14. \A b \in Actor : /\ GoodMsg(m[b], n) /\ m[b].kind \in {"release", "conf"}
                        /\ Gain(b, b, m[b]) = -(g[s].foreign[b])
  BY <1>12, <1>13, Messages DEF Release
<1>15. p = [b \in Actor |-> IF b \in S THEN Append(q[b], m[b]) ELSE q[b]]
  BY <1>1, <1>12 DEF SendReleases
<1>16. PICK x : x = One(S, m)
  OBVIOUS
<1>17. /\ Posts(p, q, x, n)
       /\ \A a \in Actor : GainTo(x[a], a, a, Len(x[a]))
                             = IF a \in S THEN Gain(a, a, m[a]) ELSE 0
  <2>1. /\ Posts(p, q, One(S, m), n)
        /\ \A a \in Actor : GainTo(One(S, m)[a], a, a, Len(One(S, m)[a]))
                              = IF a \in S THEN Gain(a, a, m[a]) ELSE 0
    <3>1. SendsOne(p, q, S, m, n)
      BY <1>2, <1>14, <1>15 DEF SendsOne
    <3> QED BY ONLY <3>1, OnePost
  <2> QED BY <1>16, <2>1
<1>18. GoodQueues(p, n)
  BY <1>2, <1>17, OwedPost
<1>19. ASSUME NEW a \in Actor, Exact(g, q, a), Covered(g, q, a)
       PROVE  Exact(h, p, a) /\ Covered(h, p, a)
  <2>1. Owed(h, q, a) = Owed(g, q, a) + (h[s].foreign[a] - g[s].foreign[a])
    <3>1. \A b \in Actor : b # s => h[b].foreign[a] = g[b].foreign[a]
      BY <1>11
    <3>2. GoodGc(g) /\ GoodGc(h) /\ GoodQueues(q, n) /\ a \in Actor /\ s \in Actor
      BY <1>2, <1>10
    <3> QED BY ONLY <3>1, <3>2, OwedForeign
  <2>2. h[s].foreign[a] - g[s].foreign[a] = GainTo(x[a], a, a, Len(x[a]))
    BY <1>11, <1>13, <1>14, <1>17
  <2>3. Tells(h, g, q, x, a)
    BY <1>11, <2>1, <2>2 DEF Tells
  <2> QED BY <1>2, <1>10, <1>17, <1>19, <2>3, PostKeeps
<1> QED BY <1>1, <1>10, <1>11, <1>18, <1>19

\* SetToSeq lists every element of a finite set once.
LEMMA SetListed ==
  ASSUME NEW H, IsFiniteSet(H)
  PROVE  /\ Cardinality(H) \in Nat
         /\ SetToSeq(H) \in [1 .. Cardinality(H) -> H]
         /\ \A i, j \in 1 .. Cardinality(H) : SetToSeq(H)[i] = SetToSeq(H)[j] => i = j
         /\ Renamed(SetToSeq(H), 1 .. Cardinality(H)) = H
<1>1. PICK I : I = 1 .. Cardinality(H)
  OBVIOUS
<1>2. Cardinality(H) \in Nat /\ ExistsBijection(I, H)
  BY <1>1, FS_CardinalityType
<1>3. PICK s : s = SetToSeq(H)
  OBVIOUS
<1>4. s \in [I -> H] /\ IsInjective(s)
  <2>1. \E f \in [I -> H] : IsInjective(f)
    BY <1>2 DEF ExistsBijection, Bijection, Injection
  <2>2. s = CHOOSE f \in [I -> H] : IsInjective(f)
    BY <1>1, <1>3 DEF SetToSeq
  <2> QED BY <2>1, <2>2
<1>5. \A i, j \in I : s[i] = s[j] => i = j
  BY <1>4 DEF IsInjective
<1>6. s \in Surjection(I, H)
  <2>1. s \in Injection(I, H)
    BY <1>4 DEF Injection
  <2>2. Cardinality(I) = Cardinality(H)
    BY <1>1, <1>2, FS_Interval
  <2> QED BY <2>1, <2>2, FS_Injection
<1>7. Renamed(s, I) = H
  BY <1>4, <1>6 DEF Surjection, Renamed
<1> QED BY <1>1, <1>2, <1>3, <1>4, <1>5, <1>7

\* collect(): what the members of S hold outside S is released to the owners,
\* a message for each holder.
Holders(g, S, c) == {b \in S : g[b].foreign[c] > 0}
ReleaseAll(g, S) ==
  [c \in Actor |->
     IF c \in S THEN <<>>
     ELSE [i \in 1 .. Cardinality(Holders(g, S, c)) |->
             Release(g[SetToSeq(Holders(g, S, c))[i]].foreign[c])]]

\* The messages are what the holders held.
LEMMA ReleaseAllSum ==
  ASSUME NEW n \in Nat, NEW g, GoodGc(g), NEW S, S \subseteq Actor,
         NEW a \in Actor, a \notin S, NEW y, y = ReleaseAll(g, S)[a]
  PROVE  /\ GoodSeq(y, n) /\ Quiet(y)
         /\ GainTo(y, a, a, Len(y))
              = SumFunctionOnSet([b \in Actor |-> IF b \in S THEN -(g[b].foreign[a])
                                                  ELSE 0], Actor)
<1>1. PICK H, s : H = Holders(g, S, a) /\ s = SetToSeq(H)
  OBVIOUS
<1>2. IsFiniteSet(H) /\ H \subseteq Actor /\ H \subseteq S
  BY <1>1, ActorsFinite, FS_Subset DEF Holders
<1>3. PICK N : N = Cardinality(H)
  OBVIOUS
<1>4. N \in Nat /\ s \in [1 .. N -> H] /\ Renamed(s, 1 .. N) = H
  BY <1>1, <1>2, <1>3, SetListed
<1>4a. \A i, j \in 1 .. N : s[i] = s[j] => i = j
  BY <1>1, <1>2, <1>3, SetListed
<1>5. y = [i \in 1 .. N |-> Release(g[s[i]].foreign[a])]
  BY <1>1, <1>3 DEF ReleaseAll
<1>6. \A b \in Actor : g[b].foreign[a] \in Nat
  BY DEF GoodGc
<1>7. \A i \in 1 .. N : s[i] \in H /\ s[i] \in Actor /\ g[s[i]].foreign[a] \in Nat
  BY <1>2, <1>4, <1>6
<1>8. /\ Len(y) = N /\ DOMAIN y = 1 .. N
      /\ \A i \in 1 .. N : y[i] = Release(g[s[i]].foreign[a])
  BY <1>4, <1>5
<1>9. \A i \in 1 .. N : GoodMsg(y[i], n) /\ Gain(a, a, y[i]) = -(g[s[i]].foreign[a])
  BY <1>7, <1>8, Messages
<1>10. GoodSeq(y, n)
  <2>1. y \in [1 .. N -> {y[i] : i \in DOMAIN y}]
    BY <1>5, <1>8
  <2>2. y \in Seq({y[i] : i \in DOMAIN y})
    BY <1>4, <2>1
  <2> QED BY <1>8, <1>9, <2>2 DEF GoodSeq
<1>11. Quiet(y)
  <2>1. \A v : Release(v).kind = "release"
    BY DEF Release
  <2> QED BY <1>8, <2>1 DEF Quiet
<1>12. PICK z : z = [b \in Actor |-> IF b \in S THEN -(g[b].foreign[a]) ELSE 0]
  OBVIOUS
<1>13. /\ \A b \in Actor : z[b] \in Int
       /\ \A b \in Actor \ H : z[b] = 0
       /\ \A b \in H : z[b] = -(g[b].foreign[a])
  BY <1>1, <1>2, <1>6, <1>12 DEF Holders
<1>14. SumFunctionOnSet(z, Actor) = SumFunctionOnSet(z, H)
  <2>1. PICK R : R = Actor \ H
    OBVIOUS
  <2>2. IsFiniteSet(R) /\ H \cap R = {} /\ H \cup R = Actor
    BY <1>2, <2>1, ActorsFinite, FS_Subset
  <2>3. SumFunctionOnSet(z, R) = 0
    BY <1>13, <2>1, <2>2, SumZero
  <2>4. SumFunctionOnSet(z, H \cup R) = SumFunctionOnSet(z, H) + SumFunctionOnSet(z, R)
    BY <1>2, <1>13, <2>2, SumUnion
  <2>5. SumFunctionOnSet(z, H) \in Int
    BY <1>2, <1>13, SumType
  <2>6. SumFunctionOnSet(z, H \cup R) = SumFunctionOnSet(z, H)
    BY <2>3, <2>4, <2>5
  <2> QED BY <2>2, <2>6
<1>15. PICK f, I : f = Gains(y, a, a) /\ I = 1 .. N
  OBVIOUS
<1>16. \A i \in I : f[i] = z[s[i]] /\ f[i] \in Int
  <2>1. \A i \in I : f[i] = Gain(a, a, y[i])
    BY <1>8, <1>15 DEF Gains
  <2>2. \A i \in I : f[i] = z[s[i]] /\ z[s[i]] \in Int
    BY <1>7, <1>9, <1>13, <1>15, <2>1
  <2> QED BY <2>2
<1>17. SumFunctionOnSet(z, Renamed(s, I)) = SumFunctionOnSet(f, I)
  <2>1. IsFiniteSet(I)
    BY <1>4, <1>15, FS_Interval
  <2>2. \A i, j \in I : s[i] = s[j] => i = j
    BY <1>4a, <1>15
  <2> QED BY ONLY <1>16, <2>1, <2>2, SumRename
<1>18. GainTo(y, a, a, Len(y)) = SumFunctionOnSet(z, Actor)
  BY <1>4, <1>8, <1>14, <1>15, <1>17 DEF GainTo
<1> QED BY <1>10, <1>11, <1>12, <1>18

\* The counts of those that are left stay exact.
LEMMA CollectKeeps ==
  ASSUME NEW n \in Nat, GoodGc(gc), GoodQueues(queue, n), NEW S, S \subseteq Actor,
         NEW h, h = [a \in Actor |-> IF a \in S THEN NewGc ELSE gc[a]],
         NEW p, p = ReleasedBy(S, queue)
  PROVE  /\ GoodGc(h) /\ GoodQueues(p, n)
         /\ \A a \in Actor : a \notin S /\ Exact(gc, queue, a) /\ Covered(gc, queue, a) =>
              Exact(h, p, a) /\ Covered(h, p, a)
<1>1. PICK g, q : g = gc /\ q = queue
  OBVIOUS
<1>2. GoodGc(g) /\ GoodQueues(q, n) /\ IsFiniteSet(S)
  BY <1>1, ActorsFinite, FS_Subset
<1>3. NewGc \in [rc : Int, foreign : [Actor -> Nat], delta : Deltas]
  <2>1. NoDelta \in [{} -> Nat] /\ {} \in SUBSET Actor
    BY DEF NoDelta
  <2>2. NoDelta \in Deltas
    BY <2>1 DEF Deltas
  <2> QED BY <2>2 DEF NewGc
<1>4. GoodGc(h)
  BY <1>1, <1>2, <1>3 DEF GoodGc
<1>5. PICK x : x = ReleaseAll(g, S)
  OBVIOUS
<1>6. ASSUME NEW c \in Actor PROVE GoodSeq(x[c], n) /\ Quiet(x[c])
  <2>1. CASE c \in S
    <3>1. x[c] = <<>>
      BY <1>5, <2>1 DEF ReleaseAll
    <3>2. GoodSeq(<<>>, n) /\ Quiet(<<>>)
      BY DEF GoodSeq, Quiet
    <3> QED BY <3>1, <3>2
  <2>2. CASE c \notin S
    BY <1>2, <1>5, <2>2, ReleaseAllSum
  <2> QED BY <2>1, <2>2
<1>7. p = [c \in Actor |-> q[c] \o x[c]]
  <2>1. ASSUME NEW c \in Actor, c \in S PROVE q[c] = q[c] \o x[c]
    <3>1. x[c] = <<>>
      BY <1>5, <2>1 DEF ReleaseAll
    <3>2. q[c] \in Seq({q[c][i] : i \in DOMAIN q[c]})
      BY <1>2 DEF GoodQueues, GoodSeq
    <3> QED BY <3>1, <3>2, ConcatEmptySeq
  <2>2. ASSUME NEW c \in Actor, c \notin S
        PROVE  x[c] = [i \in DOMAIN SetToSeq(Holders(g, S, c)) |->
                         Release(g[SetToSeq(Holders(g, S, c))[i]].foreign[c])]
    <3>1. IsFiniteSet(Holders(g, S, c))
      BY <1>2, FS_Subset DEF Holders
    <3>2. SetToSeq(Holders(g, S, c)) \in [1 .. Cardinality(Holders(g, S, c)) ->
                                            Holders(g, S, c)]
      BY <3>1, SetListed
    <3>3. DOMAIN SetToSeq(Holders(g, S, c)) = 1 .. Cardinality(Holders(g, S, c))
      BY <3>2
    <3> QED BY <1>5, <2>2, <3>3 DEF ReleaseAll
  <2>3. p = [c \in Actor |->
               IF c \in S THEN q[c]
               ELSE q[c] \o [i \in DOMAIN SetToSeq(Holders(g, S, c)) |->
                                Release(g[SetToSeq(Holders(g, S, c))[i]].foreign[c])]]
    BY <1>1 DEF ReleasedBy, Holders
  <2>4. ASSUME NEW c \in Actor PROVE p[c] = q[c] \o x[c]
    <3>1. CASE c \in S
      BY <2>1, <2>3, <3>1
    <3>2. CASE c \notin S
      BY <2>2, <2>3, <3>2
    <3> QED BY <3>1, <3>2
  <2> QED BY <2>3, <2>4
<1>8. Posts(p, q, x, n)
  BY <1>2, <1>6, <1>7 DEF Posts
<1>9. GoodQueues(p, n)
  BY <1>2, <1>8, OwedPost
<1>10. ASSUME NEW a \in Actor, a \notin S, Exact(g, q, a), Covered(g, q, a)
       PROVE  Exact(h, p, a) /\ Covered(h, p, a)
  <2>1. PICK z : z = [b \in Actor |-> IF b \in S THEN -(g[b].foreign[a]) ELSE 0]
    OBVIOUS
  <2>2. GainTo(x[a], a, a, Len(x[a])) = SumFunctionOnSet(z, Actor)
    BY <1>2, <1>5, <1>10, <2>1, ReleaseAllSum
  <2>3. Owed(h, q, a) = Owed(g, q, a) + SumFunctionOnSet(z, Actor)
    <3>1. PICK f, e : f = Column(g, q, a) /\ e = Column(h, q, a)
      OBVIOUS
    <3>2. \A b \in Actor : f[b] \in Int /\ GainTo(q[b], a, b, Len(q[b])) \in Int
      BY <1>2, <3>1, OwedType
    <3>3. \A b \in Actor : g[b].foreign[a] \in Nat
      BY <1>2 DEF GoodGc
    <3>4. \A b \in Actor : h[b].foreign[a] = IF b \in S THEN 0 ELSE g[b].foreign[a]
      BY <1>1 DEF NewGc
    <3>5. \A b \in Actor : f[b] \in Int /\ z[b] \in Int /\ e[b] = f[b] + z[b]
      <4>1. ASSUME NEW b \in Actor PROVE z[b] \in Int /\ e[b] = f[b] + z[b]
        <5>1. PICK i \in Int : i = GainTo(q[b], a, b, Len(q[b]))
          BY <3>2
        <5>2. f[b] = g[b].foreign[a] - i /\ e[b] = h[b].foreign[a] - i
          BY <3>1, <5>1 DEF Column
        <5> QED BY <2>1, <3>3, <3>4, <5>2
      <4> QED BY <3>2, <4>1
    <3>6. SumFunctionOnSet(e, Actor)
            = SumFunctionOnSet(f, Actor) + SumFunctionOnSet(z, Actor)
      BY ONLY <3>5, ActorsFinite, SumPlus
    <3> QED BY <3>1, <3>6 DEF Owed
  <2>4. h[a].rc = g[a].rc
    BY <1>1, <1>10
  <2>5. Tells(h, g, q, x, a)
    BY <2>2, <2>3, <2>4 DEF Tells
  <2> QED BY <1>2, <1>4, <1>8, <1>10, <2>5, PostKeeps
<1> QED BY <1>1, <1>4, <1>9, <1>10

-----------------------------------------------------------------------------
(* The invariant. *)

\* An actor that has not been created yet holds nothing and is held by none.
Unborn(x) ==
  /\ pc[x] = "idle" /\ refs[x] = {} /\ queue[x] = <<>> /\ gc[x].rc = 0
  /\ \A b \in Actor : gc[b].foreign[x] = 0

\* What ack() has to keep of a perceived cycle.
GoodPerceived(per) ==
  /\ per = [t \in DOMAIN per |-> per[t]]
  /\ \A t \in DOMAIN per :
       per[t] \in [map : SUBSET Actor, ack : Int, asked : SUBSET Actor]

OrcaTypes ==
  /\ created \in Actor /\ alive \subseteq 1 .. created
  /\ refs \in [Actor -> SUBSET (1 .. created)]
  /\ pc \in [Actor -> {"busy", "run", "idle"}]
  /\ GoodGc(gc) /\ GoodQueues(queue, created)
  /\ GoodPerceived(perceived)
  /\ \A x \in Actor : x > created => Unborn(x)

Counts ==
  \A a \in Actor : a \in alive => Exact(gc, queue, a) /\ Covered(gc, queue, a)

OrcaInv == OrcaTypes /\ Counts /\ ReachableIsCounted

\* Room for another actor in the messages.
LEMMA GoodMore ==
  ASSUME NEW q, NEW n \in Nat, GoodQueues(q, n)
  PROVE  GoodQueues(q, n + 1)
<1>1. \A m : GoodMsg(m, n) => GoodMsg(m, n + 1)
  BY DEF GoodMsg
<1> QED BY <1>1 DEF GoodQueues, GoodSeq

\* pony_create: the creator holds IncMore references to the actor m.
LEMMA CreateKeeps ==
  ASSUME NEW n \in Nat, NEW g, GoodGc(g), NEW q, GoodQueues(q, n),
         NEW s \in Actor, NEW m \in Actor, s # m, g[m].rc = 0,
         \A b \in Actor : g[b].foreign[m] = 0,
         NEW h, h = RcSet(Held(g, s, m, IncMore), m, IncMore)
  PROVE  /\ GoodGc(h) /\ h[s].foreign[m] = IncMore
         /\ \A b, d \in Actor : d # m => h[b].foreign[d] = g[b].foreign[d]
         /\ \A b \in Actor : b # m => h[b].rc = g[b].rc
         /\ \A a \in Actor : Exact(g, q, a) => Exact(h, q, a)
         /\ \A a \in Actor : Covered(g, q, a) => Covered(h, q, a)
<1>1. IncMore \in Nat /\ IncMore \in Int
  BY OrcaAssumption
<1>2. PICK e : e = Held(g, s, m, IncMore)
  OBVIOUS
<1>3. /\ GoodGc(e) /\ e[s].foreign[m] = IncMore
      /\ \A b, d \in Actor : b # s \/ d # m => e[b].foreign[d] = g[b].foreign[d]
      /\ \A b \in Actor : e[b].rc = g[b].rc
  <2>1. /\ GoodGc(Held(g, s, m, IncMore)) /\ Held(g, s, m, IncMore)[s].foreign[m] = IncMore
        /\ \A b, d \in Actor : b # s \/ d # m =>
             Held(g, s, m, IncMore)[b].foreign[d] = g[b].foreign[d]
        /\ \A b \in Actor : Held(g, s, m, IncMore)[b].rc = g[b].rc
    BY <1>1, HeldChange
  <2> QED BY <1>2, <2>1
<1>4. /\ GoodGc(h) /\ h[m].rc = IncMore
      /\ \A b \in Actor : h[b].foreign = e[b].foreign
      /\ \A b \in Actor : b # m => h[b].rc = e[b].rc
  <2>1. /\ GoodGc(RcSet(e, m, IncMore)) /\ RcSet(e, m, IncMore)[m].rc = IncMore
        /\ \A b \in Actor : RcSet(e, m, IncMore)[b].foreign = e[b].foreign
        /\ \A b \in Actor : b # m => RcSet(e, m, IncMore)[b].rc = e[b].rc
    BY <1>1, <1>3, RcChange
  <2> QED BY <1>2, <2>1
<1>5. /\ h[s].foreign[m] = IncMore
      /\ \A b, d \in Actor : b # s \/ d # m => h[b].foreign[d] = g[b].foreign[d]
      /\ \A b \in Actor : b # m => h[b].rc = g[b].rc
  BY <1>3, <1>4
<1>6. \A a \in Actor : g[a].rc \in Int /\ Owed(g, q, a) \in Int
  BY OwedType DEF GoodGc
<1>7. ASSUME NEW a \in Actor
      PROVE  Owed(h, q, a) = Owed(g, q, a) + (IF a = m THEN IncMore ELSE 0)
  <2>1. Owed(h, q, a) = Owed(g, q, a) + (h[s].foreign[a] - g[s].foreign[a])
    BY <1>4, <1>5, OwedForeign
  <2>2. g[s].foreign[a] \in Nat
    BY DEF GoodGc
  <2> QED BY <1>1, <1>5, <1>6, <2>1, <2>2
<1>8. ASSUME NEW a \in Actor, Exact(g, q, a) PROVE Exact(h, q, a)
  <2>1. CASE a = m
    BY <1>1, <1>4, <1>6, <1>7, <1>8, <2>1 DEF Exact
  <2>2. CASE a # m
    BY <1>5, <1>6, <1>7, <1>8, <2>2 DEF Exact
  <2> QED BY <2>1, <2>2
<1>9. ASSUME NEW a \in Actor, Covered(g, q, a) PROVE Covered(h, q, a)
  <2>1. h[a].rc \in Int /\ g[a].rc \in Int /\ h[a].rc >= g[a].rc
    BY <1>1, <1>4, <1>5, <1>6
  <2>2. \A k \in 0 .. Len(q[a]) : GainTo(q[a], a, a, k) \in Int
    BY GainToType DEF GoodQueues
  <2> QED BY <1>9, <2>1, <2>2 DEF Covered
<1> QED BY <1>4, <1>5, <1>8, <1>9

\* Nothing that the counts depend on changes but the reports.
LEMMA SameCounts ==
  ASSUME NEW g, GoodGc(g), NEW h, GoodGc(h), NEW q, NEW n, GoodQueues(q, n),
         \A b \in Actor : h[b].rc = g[b].rc /\ h[b].foreign = g[b].foreign,
         NEW a \in Actor, Exact(g, q, a), Covered(g, q, a)
  PROVE  Exact(h, q, a) /\ Covered(h, q, a)
<1>1. Owed(h, q, a) = Owed(g, q, a) + (h[a].foreign[a] - g[a].foreign[a])
  BY OwedForeign
<1>2. g[a].foreign[a] \in Nat /\ Owed(g, q, a) \in Int
  BY OwedType DEF GoodGc
<1> QED BY <1>1, <1>2 DEF Exact, Covered

\* An actor that nobody has heard of is owed nothing.
LEMMA UnbornCount ==
  ASSUME NEW g, GoodGc(g), NEW q, NEW n \in Nat, GoodQueues(q, n), NEW x \in Actor,
         x > n, q[x] = <<>>, g[x].rc = 0, \A b \in Actor : g[b].foreign[x] = 0
  PROVE  Exact(g, q, x) /\ Covered(g, q, x)
<1>1. ASSUME NEW b \in Actor PROVE GainTo(q[b], x, b, Len(q[b])) = 0
  <2>1. PICK w : w = q[b]
    OBVIOUS
  <2>2. GoodSeq(w, n) /\ Len(w) \in Nat
    BY <2>1, GainToType DEF GoodQueues
  <2>3. IsFiniteSet(1 .. Len(w))
    BY <2>2, FS_Interval
  <2>4. \A i \in 1 .. Len(w) : Gains(w, x, b)[i] = 0
    <3>1. CASE b = x
      BY <2>1, <3>1
    <3>2. CASE b # x
      <4>1. ASSUME NEW i \in 1 .. Len(w) PROVE Gain(x, b, w[i]) = 0
        <5>1. GoodMsg(w[i], n)
          BY <2>2 DEF GoodSeq
        <5>2. Carries(w[i], x) = 0
          BY <5>1 DEF GoodMsg, Carries
        <5> QED BY <3>2, <5>2 DEF Gain
      <4> QED BY <4>1 DEF Gains
    <3> QED BY <3>1, <3>2
  <2> QED BY <2>1, <2>3, <2>4, SumZero DEF GainTo
<1>2. \A b \in Actor : Column(g, q, x)[b] = 0
  BY <1>1 DEF Column
<1>3. Owed(g, q, x) = 0
  BY <1>2, ActorsFinite, SumZero DEF Owed
<1>4. \A k \in 0 .. Len(q[x]) : k = Len(q[x])
  OBVIOUS
<1> QED BY <1>1, <1>3, <1>4 DEF Exact, Covered

\* The invariant holds at first.
LEMMA OrcaInitial == Init => OrcaInv
<1> SUFFICES ASSUME Init PROVE OrcaInv
  OBVIOUS
<1> USE DEF Init, OrcaInit
<1>1. 1 \in Actor /\ None \notin Actor
  BY OrcaAssumption DEF Actor, None
<1>2. GoodGc(gc)
  <2>1. NoDelta \in [{} -> Nat] /\ {} \in SUBSET Actor
    BY DEF NoDelta
  <2>2. NoDelta \in Deltas
    BY <2>1 DEF Deltas
  <2> QED BY <2>2 DEF GoodGc, NewGc
<1>3. GoodQueues(queue, created)
  <2>1. GoodSeq(<<>>, created)
    BY DEF GoodSeq
  <2> QED BY <2>1 DEF GoodQueues
<1>4. \A x \in Actor : gc[x].rc = 0 /\ \A b \in Actor : gc[b].foreign[x] = 0
  BY DEF NewGc
<1>5. OrcaTypes
  <2>1. \A x \in Actor : x > created => Unborn(x)
    BY <1>4 DEF Unborn, Main
  <2>2. GoodPerceived(perceived)
    BY DEF GoodPerceived
  <2>3. alive \subseteq 1 .. created /\ refs \in [Actor -> SUBSET (1 .. created)]
    BY DEF Main
  <2>4. pc \in [Actor -> {"busy", "run", "idle"}]
    OBVIOUS
  <2> QED BY <1>1, <1>2, <1>3, <2>1, <2>2, <2>3, <2>4 DEF OrcaTypes
<1>6. ASSUME NEW a \in Actor PROVE Exact(gc, queue, a) /\ Covered(gc, queue, a)
  <2>1. \A b \in Actor : GainTo(queue[b], a, b, 0) = 0 /\ Len(queue[b]) = 0
    BY <1>3, GainToType DEF GoodQueues
  <2>2. \A b \in Actor : Column(gc, queue, a)[b] = 0
    BY <1>4, <2>1 DEF Column
  <2>3. Owed(gc, queue, a) = 0
    BY <2>2, ActorsFinite, SumZero DEF Owed
  <2> QED BY <1>4, <2>1, <2>3 DEF Exact, Covered
<1>7. ReachableIsCounted
  BY <1>1 DEF ReachableIsCounted, Main
<1> QED BY <1>5, <1>6, <1>7 DEF OrcaInv, Counts

\* Only actors that exist run.
LEMMA RunsExist ==
  ASSUME OrcaInv
  PROVE  /\ created \in Nat
         /\ \A a \in Actor : pc[a] # "idle" => a \in 1 .. created
         /\ \A a \in alive : a \in Actor /\ a \in 1 .. created
         /\ \A x \in 1 .. created : x \in Actor
         /\ \A a \in Actor : a \in Nat /\ a # None
BY OrcaAssumption DEF OrcaInv, OrcaTypes, Unborn, Actor, None

\* A step that leaves the counts, the queues and the references alone.
LEMMA OrcaSame ==
  ASSUME OrcaInv, UNCHANGED <<alive, refs, gc, queue, created>>,
         pc' \in [Actor -> {"busy", "run", "idle"}],
         \A x \in Actor : x > created => pc'[x] = "idle",
         GoodPerceived(perceived')
  PROVE  OrcaInv'
BY DEF OrcaInv, OrcaTypes, Counts, ReachableIsCounted, Unborn

\* A behaviour creates an actor.
LEMMA CreateOk ==
  ASSUME OrcaInv, NEW a \in Actor, NEW c \in Actor \cup {None}, Create(a, c),
         UNCHANGED perceived
  PROVE  OrcaInv'
<1>1. PICK n : n = created + 1
  OBVIOUS
<1>2. PICK g : g = RcSet(Held(gc, a, n, IncMore), n, IncMore)
  OBVIOUS
<1>3. /\ pc[a] = "busy" /\ n \in Actor /\ c \in refs[a] \cup {a, None}
      /\ created' = n /\ alive' = alive \cup {n}
      /\ refs' = [refs EXCEPT ![a] = @ \cup {n}] /\ pc' = pc
  BY <1>1 DEF Create
<1>4. Sent(gc', queue', g, queue, a, n, c)
  BY <1>1, <1>2 DEF Create, Sent, RcSet
<1>5. /\ created \in Nat /\ a \in 1 .. created /\ c \in 0 .. created
      /\ n \in Nat /\ n > created /\ a # n /\ c # n /\ c \in 0 .. n
  <2>1. refs[a] \subseteq 1 .. created
    BY DEF OrcaInv, OrcaTypes
  <2>2. created \in Nat /\ a \in 1 .. created
    BY <1>3, RunsExist
  <2> QED BY <1>1, <1>3, <2>1, <2>2 DEF None
<1>6. /\ GoodGc(gc) /\ GoodQueues(queue, created) /\ GoodQueues(queue, n)
      /\ Unborn(n)
  BY <1>1, <1>3, <1>5, GoodMore DEF OrcaInv, OrcaTypes
<1>7. /\ GoodGc(g) /\ g[a].foreign[n] = IncMore
      /\ \A b, d \in Actor : d # n => g[b].foreign[d] = gc[b].foreign[d]
      /\ \A b \in Actor : b # n => g[b].rc = gc[b].rc
      /\ \A x \in Actor : Exact(gc, queue, x) => Exact(g, queue, x)
      /\ \A x \in Actor : Covered(gc, queue, x) => Covered(g, queue, x)
  <2>1. PICK f, q : f = gc /\ q = queue
    OBVIOUS
  <2>2. /\ GoodGc(f) /\ GoodQueues(q, n) /\ f[n].rc = 0
        /\ \A b \in Actor : f[b].foreign[n] = 0
    BY <1>6, <2>1 DEF Unborn
  <2>3. g = RcSet(Held(f, a, n, IncMore), n, IncMore) /\ n \in Nat /\ n \in Actor /\ a # n
    BY <1>2, <1>3, <1>5, <2>1
  <2>4. /\ GoodGc(g) /\ g[a].foreign[n] = IncMore
        /\ \A b, d \in Actor : d # n => g[b].foreign[d] = f[b].foreign[d]
        /\ \A b \in Actor : b # n => g[b].rc = f[b].rc
        /\ \A x \in Actor : Exact(f, q, x) => Exact(g, q, x)
        /\ \A x \in Actor : Covered(f, q, x) => Covered(g, q, x)
    BY <2>2, <2>3, CreateKeeps
  <2> QED BY <2>1, <2>4
<1>8. /\ GoodGc(gc') /\ GoodQueues(queue', n)
      /\ \A x \in Actor : Exact(g, queue, x) =>
           Exact(gc', queue', x) /\ (Covered(g, queue, x) => Covered(gc', queue', x))
      /\ \A b, d \in Actor : g[b].foreign[d] > 0 => gc'[b].foreign[d] > 0
      /\ \A b, d \in Actor : d # c => gc'[b].foreign[d] = g[b].foreign[d]
      /\ \A b \in Actor : b # a => gc'[b].rc = g[b].rc
      /\ \A b \in Actor : b \notin {n, c} => queue'[b] = queue[b]
  <2>1. n \in Nat /\ n \in Actor /\ GoodGc(g) /\ GoodQueues(queue, n) /\ c \in 0 .. n
    BY <1>3, <1>5, <1>6, <1>7
  <2>2. PICK h, p, q : h = gc' /\ p = queue' /\ q = queue
    OBVIOUS
  <2>3. Sent(h, p, g, q, a, n, c) /\ GoodQueues(q, n)
    BY <1>4, <2>1, <2>2
  <2>4. /\ GoodGc(h) /\ GoodQueues(p, n)
        /\ \A x \in Actor : Exact(g, q, x) =>
             Exact(h, p, x) /\ (Covered(g, q, x) => Covered(h, p, x))
        /\ \A b, d \in Actor : g[b].foreign[d] > 0 => h[b].foreign[d] > 0
        /\ \A b, d \in Actor : d # c => h[b].foreign[d] = g[b].foreign[d]
        /\ \A b \in Actor : b # a => h[b].rc = g[b].rc
        /\ \A b \in Actor : b \notin {n, c} => p[b] = q[b]
    <3>1. /\ GoodGc(g) /\ n \in Nat /\ GoodQueues(q, n) /\ a \in Actor /\ n \in Actor
          /\ c \in Actor \cup {None} /\ c \in 0 .. n /\ Sent(h, p, g, q, a, n, c)
      BY <2>1, <2>3
    <3> QED BY ONLY <3>1, SendKeeps
  <2> QED BY <2>2, <2>4
<1>9. Counts'
  <2>1. Exact(gc, queue, n) /\ Covered(gc, queue, n)
    BY <1>3, <1>5, <1>6, UnbornCount DEF Unborn
  <2>2. ASSUME NEW x \in Actor, x \in alive'
        PROVE  Exact(gc', queue', x) /\ Covered(gc', queue', x)
    <3>1. Exact(gc, queue, x) /\ Covered(gc, queue, x)
      BY <1>3, <2>1, <2>2 DEF OrcaInv, Counts
    <3> QED BY <1>7, <1>8, <3>1
  <2> QED BY <2>2 DEF Counts
<1>10. ReachableIsCounted'
  <2>1. ASSUME NEW b \in alive', NEW d \in refs'[b] PROVE gc'[b].foreign[d] > 0
    <3>1. refs \in [Actor -> SUBSET (1 .. created)] /\ refs[n] = {}
      BY <1>6 DEF OrcaInv, OrcaTypes, Unborn
    <3>2. \A x \in 1 .. created : x \in Actor /\ x # n
      BY <1>5, RunsExist
    <3>3. b \in Actor
      BY <1>3, RunsExist
    <3>4. CASE b = a /\ d = n
      BY <1>3, <1>7, <1>8, <3>4, OrcaAssumption
    <3>5. CASE ~(b = a /\ d = n)
      <4>1. d \in refs[b]
        BY <1>3, <3>1, <3>3, <3>5
      <4>2. b \in alive
        BY <1>3, <3>1, <4>1
      <4>3. gc[b].foreign[d] > 0
        BY <4>1, <4>2 DEF OrcaInv, ReachableIsCounted
      <4>4. d \in Actor /\ d # n
        BY <3>1, <3>2, <3>3, <4>1
      <4> QED BY <1>7, <1>8, <3>3, <4>3, <4>4
    <3> QED BY <3>4, <3>5
  <2> QED BY <2>1 DEF ReachableIsCounted
<1>11. OrcaTypes'
  <2>1. created' \in Actor /\ alive' \subseteq 1 .. created'
    BY <1>1, <1>3, <1>5 DEF OrcaInv, OrcaTypes
  <2>2. refs' \in [Actor -> SUBSET (1 .. created')]
    <3>1. 1 .. created \subseteq 1 .. n /\ n \in 1 .. n
      BY <1>1, <1>5
    <3>2. refs \in [Actor -> SUBSET (1 .. created)]
      BY DEF OrcaInv, OrcaTypes
    <3>3. refs' = [x \in Actor |-> IF x = a THEN refs[a] \cup {n} ELSE refs[x]]
      BY <1>3, <3>2
    <3> QED BY <1>3, <3>1, <3>2, <3>3
  <2>3. ASSUME NEW x \in Actor, x > created' PROVE Unborn(x)'
    <3>1. x > created /\ x # n /\ x # a /\ x # c
      BY <1>1, <1>3, <1>5, <2>3 DEF Actor
    <3>2. Unborn(x)
      BY <3>1 DEF OrcaInv, OrcaTypes
    <3>3. gc'[x].rc = 0 /\ \A b \in Actor : gc'[b].foreign[x] = 0
      BY <1>7, <1>8, <3>1, <3>2 DEF Unborn
    <3>5. queue'[x] = <<>>
      BY <1>8, <3>1, <3>2 DEF Unborn
    <3>4. refs'[x] = {}
      BY <1>3, <3>1, <3>2 DEF OrcaInv, OrcaTypes, Unborn
    <3> QED BY <1>3, <3>2, <3>3, <3>4, <3>5 DEF Unborn
  <2> QED BY <1>3, <1>8, <2>1, <2>2, <2>3 DEF OrcaInv, OrcaTypes
<1> QED BY <1>9, <1>10, <1>11 DEF OrcaInv

\* A behaviour sends a message.
LEMMA SendOk ==
  ASSUME OrcaInv, NEW a \in Actor, NEW b \in Actor, NEW c \in Actor \cup {None},
         Send(a, b, c), UNCHANGED perceived
  PROVE  OrcaInv'
<1>1. PICK n : n = created
  OBVIOUS
<1>2. /\ pc[a] = "busy" /\ b \in refs[a] \cup {a} /\ c \in refs[a] \cup {a, None}
      /\ UNCHANGED <<alive, pc, refs, created>>
  BY DEF Send
<1>3. Sent(gc', queue', gc, queue, a, b, c)
  BY DEF Send, Sent
<1>4. n \in Nat /\ a \in 1 .. n /\ b \in 1 .. n /\ c \in 0 .. n
  <2>1. refs[a] \subseteq 1 .. created
    BY DEF OrcaInv, OrcaTypes
  <2>2. created \in Nat /\ a \in 1 .. created
    BY <1>2, RunsExist
  <2> QED BY <1>1, <1>2, <2>1, <2>2 DEF None
<1>5. GoodGc(gc) /\ GoodQueues(queue, n)
  BY <1>1 DEF OrcaInv, OrcaTypes
<1>6. /\ GoodGc(gc') /\ GoodQueues(queue', n)
      /\ \A x \in Actor : Exact(gc, queue, x) =>
           Exact(gc', queue', x) /\ (Covered(gc, queue, x) => Covered(gc', queue', x))
      /\ \A x, d \in Actor : gc[x].foreign[d] > 0 => gc'[x].foreign[d] > 0
      /\ \A x, d \in Actor : d # c => gc'[x].foreign[d] = gc[x].foreign[d]
      /\ \A x \in Actor : x # a => gc'[x].rc = gc[x].rc
      /\ \A x \in Actor : x \notin {b, c} => queue'[x] = queue[x]
  BY <1>3, <1>4, <1>5, SendKeeps
<1>7. Counts'
  BY <1>2, <1>6 DEF OrcaInv, Counts
<1>8. ReachableIsCounted'
  <2>1. \A x \in alive : x \in Actor /\ refs[x] \subseteq Actor
    BY RunsExist DEF OrcaInv, OrcaTypes
  <2> QED BY <1>2, <1>6, <2>1 DEF OrcaInv, ReachableIsCounted
<1>9. ASSUME NEW x \in Actor, x > created PROVE Unborn(x)'
  <2>1. x # a /\ x # b /\ x # c
    BY <1>1, <1>4, <1>9 DEF Actor
  <2>2. Unborn(x)
    BY <1>9 DEF OrcaInv, OrcaTypes
  <2> QED BY <1>2, <1>6, <2>1, <2>2 DEF Unborn
<1>10. OrcaTypes'
  BY <1>1, <1>2, <1>6, <1>9 DEF OrcaInv, OrcaTypes
<1> QED BY <1>7, <1>8, <1>10 DEF OrcaInv

\* The actor a takes the message m at the head of its queue.
LEMMA HeadTaken ==
  ASSUME OrcaInv, NEW a \in Actor, queue[a] # <<>>,
         queue' = [queue EXCEPT ![a] = Tail(@)]
  PROVE  /\ Becomes(queue', queue, a, Tail(queue[a]))
         /\ GoodMsg(Head(queue[a]), created)
<1>1. queue = [b \in Actor |-> queue[b]] /\ GoodSeq(queue[a], created)
  BY DEF OrcaInv, OrcaTypes, GoodQueues
<1>2. Becomes(queue', queue, a, Tail(queue[a]))
  BY <1>1 DEF Becomes
<1> QED BY <1>1, <1>2, GainTail

\* The counts after a handled the message.
LEMMA TakeOk ==
  ASSUME OrcaInv, NEW a \in Actor, queue[a] # <<>>,
         queue' = [queue EXCEPT ![a] = Tail(@)], GoodGc(gc'),
         Handled(gc', gc, queue, a, Head(queue[a])), UNCHANGED <<alive, created>>
  PROVE  GoodQueues(queue', created') /\ Counts'
<1>1. PICK g, h, q, p, n : g = gc /\ h = gc' /\ q = queue /\ p = queue' /\ n = created
  OBVIOUS
<1>2. /\ GoodGc(g) /\ GoodGc(h) /\ GoodQueues(q, n) /\ q[a] # <<>>
      /\ Handled(h, g, q, a, Head(q[a]))
  BY <1>1 DEF OrcaInv, OrcaTypes
<1>3. Becomes(p, q, a, Tail(q[a]))
  BY <1>1, HeadTaken
<1>4. /\ GoodQueues(p, n)
      /\ \A x \in Actor : Exact(g, q, x) => Exact(h, p, x)
      /\ \A x \in Actor : Covered(g, q, x) => Covered(h, p, x)
  <2>1. a \in Actor
    OBVIOUS
  <2> QED BY ONLY <1>2, <1>3, <2>1, PopKeeps
<1>5. Counts'
  BY <1>1, <1>4 DEF OrcaInv, Counts
<1> QED BY <1>1, <1>4, <1>5

\* A behaviour starts.
LEMMA ReceiveOk ==
  ASSUME OrcaInv, NEW a \in Actor, Receive(a), UNCHANGED perceived
  PROVE  OrcaInv'
<1>1. PICK m, c : m = Head(queue[a]) /\ c = m.ref
  OBVIOUS
<1>2. /\ a \in alive /\ queue[a] # <<>> /\ m.kind = "app"
      /\ gc' = RecvTrace(gc, a, m.ref)
      /\ refs' = [refs EXCEPT ![a] = @ \cup ({c} \ {a, None})]
      /\ queue' = [queue EXCEPT ![a] = Tail(@)]
      /\ pc' = [pc EXCEPT ![a] = "busy"]
      /\ UNCHANGED <<alive, created>>
  BY <1>1 DEF Receive
<1>3. /\ created \in Nat /\ a \in 1 .. created
      /\ \A x \in 1 .. created : x \in Actor
  BY <1>2, RunsExist
<1>4. c \in 0 .. created /\ c \in Actor \cup {None}
  <2>1. GoodMsg(m, created)
    BY <1>1, <1>2, HeadTaken
  <2>2. c \in 0 .. created
    BY <1>1, <1>2, <2>1 DEF GoodMsg
  <2>3. c = 0 \/ c \in 1 .. created
    BY <1>3, <2>2
  <2> QED BY <1>3, <2>2, <2>3 DEF None
<1>5. /\ GoodGc(gc') /\ Handled(gc', gc, queue, a, m)
      /\ \A b, d \in Actor : gc'[b].foreign[d] >= gc[b].foreign[d]
      /\ c \notin {None, a} => gc'[a].foreign[c] > 0
      /\ \A b, d \in Actor : d # c => gc'[b].foreign[d] = gc[b].foreign[d]
  <2>1. PICK g, h, q, n : g = gc /\ h = gc' /\ q = queue /\ n = created
    OBVIOUS
  <2>2. GoodGc(g) /\ GoodQueues(q, n) /\ m.kind = "app" /\ m.ref \in Actor \cup {None}
    BY <1>1, <1>2, <1>4, <2>1 DEF OrcaInv, OrcaTypes
  <2>3. LET f == RecvTrace(g, a, m.ref) IN
        /\ GoodGc(f) /\ Handled(f, g, q, a, m)
        /\ \A b, d \in Actor : f[b].foreign[d] >= g[b].foreign[d]
        /\ m.ref \notin {None, a} => f[a].foreign[m.ref] > 0
        /\ \A b, d \in Actor : d # m.ref => f[b].foreign[d] = g[b].foreign[d]
    BY <2>2, RecvHandled
  <2>4. h = RecvTrace(g, a, m.ref)
    BY <1>2, <2>1
  <2> QED BY <1>1, <2>1, <2>3, <2>4
<1>6. GoodQueues(queue', created') /\ Counts'
  BY <1>1, <1>2, <1>5, TakeOk
<1>7. refs \in [Actor -> SUBSET (1 .. created)] /\ GoodGc(gc)
  BY DEF OrcaInv, OrcaTypes
<1>8. refs' = [x \in Actor |-> IF x = a THEN refs[a] \cup ({c} \ {a, None}) ELSE refs[x]]
  BY <1>2, <1>7
<1>9. ReachableIsCounted'
  <2>1. ASSUME NEW b \in alive, NEW d \in refs'[b] PROVE gc'[b].foreign[d] > 0
    <3>1. b \in Actor
      BY RunsExist
    <3>2. CASE d \in refs[b]
      <4>1. gc[b].foreign[d] > 0
        BY <3>2 DEF OrcaInv, ReachableIsCounted
      <4>2. d \in Actor
        BY <1>3, <1>7, <3>1, <3>2
      <4>3. gc'[b].foreign[d] \in Nat /\ gc[b].foreign[d] \in Nat
        BY <1>5, <1>7, <3>1, <4>2 DEF GoodGc
      <4>4. gc'[b].foreign[d] >= gc[b].foreign[d]
        BY <1>5, <3>1, <4>2
      <4> QED BY <4>1, <4>3, <4>4
    <3>3. CASE d \notin refs[b]
      <4>1. b = a /\ d = c /\ c \notin {None, a}
        BY <1>8, <3>1, <3>3
      <4> QED BY <1>5, <4>1
    <3> QED BY <3>2, <3>3
  <2> QED BY <1>2, <2>1 DEF ReachableIsCounted
<1>10. OrcaTypes'
  <2>1. refs' \in [Actor -> SUBSET (1 .. created)]
    <3>1. {c} \ {a, None} \subseteq 1 .. created
      BY <1>3, <1>4 DEF None
    <3> QED BY <1>7, <1>8, <3>1
  <2>2. ASSUME NEW x \in Actor, x > created PROVE Unborn(x)'
    <3>1. x # a /\ x # c
      BY <1>3, <1>4, <2>2 DEF Actor
    <3>2. Unborn(x)
      BY <2>2 DEF OrcaInv, OrcaTypes
    <3>3. gc'[x].rc = 0 /\ \A b \in Actor : gc'[b].foreign[x] = 0
      BY <1>5, <3>1, <3>2 DEF Handled, Unborn
    <3>4. queue'[x] = <<>>
      BY <1>2, <3>1, <3>2 DEF Unborn, OrcaInv, OrcaTypes, GoodQueues
    <3> QED BY <1>2, <1>8, <3>1, <3>2, <3>3, <3>4 DEF Unborn, OrcaInv, OrcaTypes
  <2>3. pc' \in [Actor -> {"busy", "run", "idle"}]
    BY <1>2 DEF OrcaInv, OrcaTypes
  <2> QED BY <1>2, <1>5, <1>6, <2>1, <2>2, <2>3 DEF OrcaInv, OrcaTypes
<1> QED BY <1>6, <1>9, <1>10 DEF OrcaInv

\* A behaviour ends, and what it does not keep is released.
LEMMA EndBehaviourOk ==
  ASSUME OrcaInv, NEW a \in Actor, NEW kept, EndBehaviour(a, kept),
         UNCHANGED perceived
  PROVE  OrcaInv'
<1>1. PICK S : S = Swept(a, kept)
  OBVIOUS
<1>2. /\ pc[a] = "busy" /\ kept \subseteq refs[a]
      /\ pc' = [pc EXCEPT ![a] = "idle"] /\ refs' = [refs EXCEPT ![a] = kept]
      /\ gc' = SweepGc(gc, a, S) /\ queue' = SendReleases(queue, a, S)
      /\ UNCHANGED <<alive, created>>
  BY <1>1 DEF EndBehaviour
<1>3. /\ S \subseteq Actor /\ S \cap kept = {}
      /\ \A d \in S : gc[a].foreign[d] > 0
  BY <1>1 DEF Swept
<1>4. created \in Nat /\ GoodGc(gc) /\ GoodQueues(queue, created)
  BY RunsExist DEF OrcaInv, OrcaTypes
<1>5. /\ GoodGc(gc') /\ GoodQueues(queue', created)
      /\ \A x \in Actor : Exact(gc, queue, x) /\ Covered(gc, queue, x) =>
           Exact(gc', queue', x) /\ Covered(gc', queue', x)
      /\ \A b, d \in Actor : b # a \/ d \notin S =>
           gc'[b].foreign[d] = gc[b].foreign[d]
      /\ \A d \in S : gc'[a].foreign[d] = 0
  BY <1>2, <1>3, <1>4, SweepKeeps
<1>5a. \A x \in Actor : gc'[x].rc = gc[x].rc
  <2>1. gc[a] \in [rc : Int, foreign : [Actor -> Nat], delta : Deltas]
        /\ gc = [b \in Actor |-> gc[b]]
    BY <1>4 DEF GoodGc
  <2> QED BY <1>2, <2>1 DEF SweepGc
<1>6. Counts'
  BY <1>2, <1>5 DEF OrcaInv, Counts
<1>7. /\ refs \in [Actor -> SUBSET (1 .. created)]
      /\ \A x \in 1 .. created : x \in Actor
  BY RunsExist DEF OrcaInv, OrcaTypes
<1>8. refs' = [x \in Actor |-> IF x = a THEN kept ELSE refs[x]]
  BY <1>2, <1>7
<1>9. ReachableIsCounted'
  <2>1. ASSUME NEW b \in alive, NEW d \in refs'[b] PROVE gc'[b].foreign[d] > 0
    <3>1. b \in Actor
      BY RunsExist
    <3>2. d \in refs[b] /\ (b = a => d \in kept)
      BY <1>2, <1>8, <3>1
    <3>3. gc[b].foreign[d] > 0
      BY <3>2 DEF OrcaInv, ReachableIsCounted
    <3>4. d \in Actor /\ (b # a \/ d \notin S)
      BY <1>3, <1>7, <3>1, <3>2
    <3> QED BY <1>5, <3>1, <3>3, <3>4
  <2> QED BY <1>2, <2>1 DEF ReachableIsCounted
<1>10. OrcaTypes'
  <2>1. refs' \in [Actor -> SUBSET (1 .. created)]
    BY <1>2, <1>7, <1>8
  <2>2. ASSUME NEW x \in Actor, x > created PROVE Unborn(x)'
    <3>1. Unborn(x)
      BY <2>2 DEF OrcaInv, OrcaTypes
    <3>2. x # a /\ x \notin S
      BY <1>2, <1>3, <3>1 DEF Unborn
    <3>3. gc'[x].rc = 0 /\ \A b \in Actor : gc'[b].foreign[x] = 0
      BY <1>5, <1>5a, <3>1, <3>2 DEF Unborn
    <3>4. queue'[x] = <<>>
      BY <1>2, <3>1, <3>2 DEF Unborn, SendReleases
    <3> QED BY <1>2, <1>8, <3>1, <3>2, <3>3, <3>4 DEF Unborn, OrcaInv, OrcaTypes
  <2>3. pc' \in [Actor -> {"busy", "run", "idle"}]
    BY <1>2 DEF OrcaInv, OrcaTypes
  <2> QED BY <1>2, <1>5, <2>1, <2>2, <2>3 DEF OrcaInv, OrcaTypes
<1> QED BY <1>6, <1>9, <1>10 DEF OrcaInv

\* ACQUIRE, RELEASE and CONF change the count of their receiver at most.
LEMMA HandleOk ==
  ASSUME OrcaInv, NEW a \in alive, queue[a] # <<>>,
         queue' = [queue EXCEPT ![a] = Tail(@)], Head(queue[a]).kind # "app",
         gc' = RcSet(gc, a, gc[a].rc + Change(Head(queue[a]))),
         UNCHANGED <<alive, pc, refs, created, perceived>>
  PROVE  OrcaInv'
<1>1. a \in Actor /\ a \in 1 .. created /\ created \in Nat
  BY RunsExist
<1>2. PICK m, i : m = Head(queue[a]) /\ i = gc[a].rc + Change(m)
  OBVIOUS
<1>3. GoodMsg(m, created) /\ GoodGc(gc) /\ GoodQueues(queue, created) /\ m.kind # "app"
  BY <1>1, <1>2, HeadTaken DEF OrcaInv, OrcaTypes
<1>4. /\ GoodGc(RcSet(gc, a, i)) /\ Handled(RcSet(gc, a, i), gc, queue, a, m)
      /\ \A b \in Actor : RcSet(gc, a, i)[b].foreign = gc[b].foreign
  BY <1>1, <1>2, <1>3, CountHandled
<1>5. /\ GoodGc(gc') /\ Handled(gc', gc, queue, a, m)
      /\ \A b \in Actor : gc'[b].foreign = gc[b].foreign
  BY <1>2, <1>4
<1>6. GoodQueues(queue', created') /\ Counts'
  BY <1>1, <1>2, <1>5, TakeOk
<1>7. ReachableIsCounted'
  BY <1>5, RunsExist DEF OrcaInv, ReachableIsCounted
<1>8. ASSUME NEW x \in Actor, x > created PROVE Unborn(x)'
  <2>1. Unborn(x) /\ x # a
    BY <1>1, <1>8 DEF OrcaInv, OrcaTypes, Actor
  <2>2. gc'[x].rc = 0
    BY <1>5, <2>1 DEF Handled, Unborn
  <2>3. queue'[x] = <<>>
    BY <2>1 DEF Unborn, OrcaInv, OrcaTypes, GoodQueues
  <2> QED BY <1>5, <2>1, <2>2, <2>3 DEF Unborn
<1>9. OrcaTypes'
  BY <1>5, <1>6, <1>8 DEF OrcaInv, OrcaTypes
<1> QED BY <1>6, <1>7, <1>9 DEF OrcaInv

\* ponyint_cycle_block empties the report and keeps the counts.
LEMMA EndRunOk ==
  ASSUME OrcaInv, NEW a \in Actor, EndRun(a), UNCHANGED perceived
  PROVE  OrcaInv'
<1>1. /\ pc[a] = "run" /\ pc' = [pc EXCEPT ![a] = "idle"]
      /\ UNCHANGED <<alive, refs, queue, created>>
      /\ gc' = gc \/ gc' = [gc EXCEPT ![a].delta = NoDelta]
  BY DEF EndRun
<1>2. /\ GoodGc(gc) /\ GoodQueues(queue, created)
      /\ pc \in [Actor -> {"busy", "run", "idle"}]
  BY DEF OrcaInv, OrcaTypes
<1>3. /\ GoodGc(gc')
      /\ \A b \in Actor : gc'[b].rc = gc[b].rc /\ gc'[b].foreign = gc[b].foreign
  <2>1. CASE gc' = gc
    BY <1>2, <2>1
  <2>2. CASE gc' = [gc EXCEPT ![a].delta = NoDelta]
    <3>1. NoDelta \in Deltas
      <4>1. NoDelta \in [{} -> Nat] /\ {} \in SUBSET Actor
        BY DEF NoDelta
      <4> QED BY <4>1 DEF Deltas
    <3>2. gc[a] \in [rc : Int, foreign : [Actor -> Nat], delta : Deltas]
      BY <1>2 DEF GoodGc
    <3>3. /\ gc' = [b \in Actor |-> gc'[b]] /\ \A b \in Actor : b # a => gc'[b] = gc[b]
          /\ gc'[a] = [rc |-> gc[a].rc, foreign |-> gc[a].foreign, delta |-> NoDelta]
      BY <1>2, <2>2, <3>2 DEF GoodGc
    <3>4. gc'[a] \in [rc : Int, foreign : [Actor -> Nat], delta : Deltas]
      BY <3>1, <3>2, <3>3
    <3>5. GoodGc(gc')
      BY <1>2, <3>3, <3>4 DEF GoodGc
    <3> QED BY <3>3, <3>5
  <2> QED BY <1>1, <2>1, <2>2
<1>4. Counts'
  <2>1. ASSUME NEW x \in Actor, Exact(gc, queue, x), Covered(gc, queue, x)
        PROVE  Exact(gc', queue, x) /\ Covered(gc', queue, x)
    <3>1. PICK g, h, q, n : g = gc /\ h = gc' /\ q = queue /\ n = created
      OBVIOUS
    <3>2. /\ GoodGc(g) /\ GoodGc(h) /\ GoodQueues(q, n) /\ x \in Actor
          /\ \A b \in Actor : h[b].rc = g[b].rc /\ h[b].foreign = g[b].foreign
          /\ Exact(g, q, x) /\ Covered(g, q, x)
      BY <1>2, <1>3, <2>1, <3>1
    <3>3. Exact(h, q, x) /\ Covered(h, q, x)
      BY ONLY <3>2, SameCounts
    <3> QED BY <3>1, <3>3
  <2> QED BY <1>1, <2>1 DEF OrcaInv, Counts
<1>5. ReachableIsCounted'
  BY <1>1, <1>3, RunsExist DEF OrcaInv, ReachableIsCounted
<1>6. \A x \in Actor : x > created => Unborn(x)'
  BY <1>1, <1>2, <1>3 DEF OrcaInv, OrcaTypes, Unborn
<1>7. pc' \in [Actor -> {"busy", "run", "idle"}]
  BY <1>1, <1>2
<1>8. OrcaTypes'
  BY <1>1, <1>3, <1>6, <1>7 DEF OrcaInv, OrcaTypes
<1> QED BY <1>4, <1>5, <1>8 DEF OrcaInv

\* What an actor does keeps the invariant.
LEMMA StepOk ==
  ASSUME OrcaInv, NEW a \in Actor, Step(a), UNCHANGED perceived
  PROVE  OrcaInv'
<1>0. GoodPerceived(perceived') /\ GoodGc(gc)
  BY DEF OrcaInv, OrcaTypes
<1>1. ASSUME NEW c \in Actor \cup {None}, Create(a, c) PROVE OrcaInv'
  BY <1>1, CreateOk
<1>2. ASSUME NEW b \in Actor, NEW c \in Actor \cup {None}, Send(a, b, c) PROVE OrcaInv'
  BY <1>2, SendOk
<1>3. CASE Receive(a)
  BY <1>3, ReceiveOk
<1>4. ASSUME NEW kept \in SUBSET refs[a], EndBehaviour(a, kept) PROVE OrcaInv'
  BY <1>4, EndBehaviourOk
<1>5. CASE StartRun(a)
  <2>1. /\ a \in alive /\ pc' = [pc EXCEPT ![a] = "run"]
        /\ UNCHANGED <<alive, refs, gc, queue, created>>
    BY <1>5 DEF StartRun
  <2>2. pc \in [Actor -> {"busy", "run", "idle"}]
    BY DEF OrcaInv, OrcaTypes
  <2>3. pc' \in [Actor -> {"busy", "run", "idle"}]
    BY <2>1, <2>2
  <2>4. ASSUME NEW x \in Actor, x > created PROVE pc'[x] = "idle"
    <3>1. x # a
      BY <2>1, <2>4, RunsExist DEF Actor
    <3> QED BY <2>1, <2>2, <2>4, <3>1 DEF OrcaInv, OrcaTypes, Unborn
  <2> QED BY <1>0, <2>1, <2>3, <2>4, OrcaSame
<1>6. CASE EndRun(a)
  BY <1>6, EndRunOk
<1>7. ASSUME NEW kind, kind # "app", Popped(a, kind)
      PROVE  /\ a \in alive /\ queue[a] # <<>> /\ Head(queue[a]).kind = kind
             /\ queue' = [queue EXCEPT ![a] = Tail(@)]
             /\ GoodMsg(Head(queue[a]), created)
             /\ gc[a].rc \in Int
  <2>1. /\ a \in alive /\ queue[a] # <<>> /\ Head(queue[a]).kind = kind
        /\ queue' = [queue EXCEPT ![a] = Tail(@)]
    BY <1>7 DEF Popped
  <2> QED BY <1>0, <2>1, HeadTaken DEF GoodGc
<1>8. CASE HandleAcquire(a)
  <2>1. /\ Popped(a, "acquire") /\ gc' = [gc EXCEPT ![a].rc = @ + Head(queue[a]).rc]
        /\ UNCHANGED <<alive, pc, refs, created>>
    BY <1>8 DEF HandleAcquire
  <2>2. PICK m : m = Head(queue[a])
    OBVIOUS
  <2>3. /\ a \in alive /\ queue[a] # <<>> /\ m.kind = "acquire"
        /\ queue' = [queue EXCEPT ![a] = Tail(@)]
    BY <1>7, <2>1, <2>2
  <2>4. Change(m) = m.rc
    BY <2>3 DEF Change
  <2>5. gc' = RcSet(gc, a, gc[a].rc + Change(m))
    BY <1>0, <2>1, <2>2, <2>4 DEF RcSet, GoodGc
  <2> QED BY <2>1, <2>2, <2>3, <2>5, HandleOk
<1>9. CASE HandleRelease(a)
  <2>1. /\ Popped(a, "release") /\ gc' = [gc EXCEPT ![a].rc = @ - Head(queue[a]).rc]
        /\ UNCHANGED <<alive, pc, refs, created>>
    BY <1>9 DEF HandleRelease
  <2>2. PICK m : m = Head(queue[a])
    OBVIOUS
  <2>3. /\ a \in alive /\ queue[a] # <<>> /\ m.kind = "release"
        /\ queue' = [queue EXCEPT ![a] = Tail(@)]
        /\ GoodMsg(m, created) /\ gc[a].rc \in Int
    BY <1>7, <2>1, <2>2
  <2>4. Change(m) = -m.rc /\ m.rc \in Nat
    BY <2>3 DEF Change, GoodMsg
  <2>5. gc[a].rc - m.rc = gc[a].rc + Change(m)
    BY <2>3, <2>4
  <2>6. gc' = RcSet(gc, a, gc[a].rc + Change(m))
    BY <1>0, <2>1, <2>2, <2>5 DEF RcSet, GoodGc
  <2> QED BY <2>1, <2>2, <2>3, <2>6, HandleOk
<1>10. CASE HandleConf(a)
  <2>1. Popped(a, "conf") /\ gc' = gc /\ UNCHANGED <<alive, pc, refs, created>>
    BY <1>10 DEF HandleConf
  <2>2. PICK m : m = Head(queue[a])
    OBVIOUS
  <2>3. /\ a \in alive /\ queue[a] # <<>> /\ m.kind = "conf"
        /\ queue' = [queue EXCEPT ![a] = Tail(@)] /\ gc[a].rc \in Int
    BY <1>7, <2>1, <2>2
  <2>4. Change(m) = 0
    BY <2>3 DEF Change
  <2>5. gc[a].rc + Change(m) = gc[a].rc
    BY <2>3, <2>4
  <2>6. RcSet(gc, a, gc[a].rc) = gc
    BY <1>0 DEF RcSet, GoodGc
  <2> QED BY <2>1, <2>2, <2>3, <2>5, <2>6, HandleOk
<1> QED BY <1>1, <1>2, <1>3, <1>4, <1>5, <1>6, <1>8, <1>9, <1>10 DEF Step

-----------------------------------------------------------------------------
(* The detector. *)

\* expire() only forgets cycles.
LEMMA ExpireGood ==
  ASSUME NEW vw, NEW per, NEW a, GoodPerceived(per)
  PROVE  GoodPerceived(ExpirePerceived(vw, per, a))
BY DEF GoodPerceived, ExpirePerceived

\* A scan finds actors.
LEMMA FoundActors ==
  ASSUME NEW vw, NEW known, NEW r
  PROVE  ScannedBy(vw, known, r) \subseteq Actor /\ FoundBy(vw, known, r) \subseteq Actor
<1>1. DOMAIN Blk(vw) = Actor
  BY DEF Blk
<1>2. ScannedBy(vw, known, r) \subseteq Actor
  BY <1>1 DEF ScannedBy, ScannedFrom
<1>3. FoundBy(vw, known, r) \subseteq ScannedFrom(r, Blk(vw), Edges(vw, known))
  BY DEF FoundBy, GarbageFrom
<1> QED BY <1>2, <1>3 DEF ScannedBy

\* CONF messages are sent.
LEMMA ConfOk ==
  ASSUME OrcaInv, NEW S, S \subseteq alive, NEW t, queue' = SendConf(queue, S, t),
         UNCHANGED <<alive, pc, refs, gc, created>>, GoodPerceived(perceived')
  PROVE  OrcaInv'
<1>1. PICK g, q, n : g = gc /\ q = queue /\ n = created
  OBVIOUS
<1>2. GoodGc(g) /\ GoodQueues(q, n) /\ n \in Nat
  BY <1>1, RunsExist DEF OrcaInv, OrcaTypes
<1>3. /\ GoodQueues(SendConf(q, S, t), n)
      /\ \A a \in Actor : Exact(g, q, a) /\ Covered(g, q, a) =>
           Exact(g, SendConf(q, S, t), a) /\ Covered(g, SendConf(q, S, t), a)
  BY <1>2, ConfKeeps
<1>4. queue' = SendConf(q, S, t)
  BY <1>1
<1>5. Counts'
  BY <1>1, <1>3, <1>4 DEF OrcaInv, Counts
<1>6. ASSUME NEW x \in Actor, x > created PROVE Unborn(x)'
  <2>1. x \notin S
    BY <1>6, RunsExist
  <2> QED BY <1>6, <2>1 DEF OrcaInv, OrcaTypes, Unborn, SendConf
<1>7. OrcaTypes'
  BY <1>1, <1>3, <1>4, <1>6 DEF OrcaInv, OrcaTypes
<1> QED BY <1>5, <1>7 DEF OrcaInv, ReachableIsCounted

\* detect()
LEMMA DetectOk ==
  ASSUME OrcaInv, NEW r, NEW vw, NEW known, NEW def, NEW per, GoodPerceived(per),
         DetectFrom(r, vw, known, def, per),
         UNCHANGED <<alive, pc, refs, gc, created>>
  PROVE  OrcaInv'
<1>1. PICK F : F = FoundBy(vw, known, r)
  OBVIOUS
<1>2. F \subseteq Actor
  BY <1>1, FoundActors
<1>3. CASE F = {}
  <2>1. perceived' = per /\ queue' = queue
    BY <1>1, <1>3 DEF DetectFrom
  <2>2. /\ pc' \in [Actor -> {"busy", "run", "idle"}]
        /\ \A x \in Actor : x > created => pc'[x] = "idle"
    BY DEF OrcaInv, OrcaTypes, Unborn
  <2> QED BY <2>1, <2>2, OrcaSame
<1>4. CASE F # {}
  <2>0. PICK t : t = FreshToken(per)
    OBVIOUS
  <2>1. PICK G \in NextGroups(F, {}) :
          /\ perceived' = [u \in DOMAIN per \cup {t} |->
                             IF u = t THEN [map |-> F, ack |-> 0, asked |-> G]
                             ELSE per[u]]
          /\ queue' = SendConf(queue, G \cap alive, t)
    BY <1>1, <1>4, <2>0 DEF DetectFrom
  <2>2. G \subseteq Actor
    BY <1>2 DEF NextGroups
  <2>3. GoodPerceived(perceived')
    BY <1>2, <2>1, <2>2 DEF GoodPerceived
  <2> QED BY <2>1, <2>3, ConfOk
<1> QED BY <1>3, <1>4

\* collect(): the actors of a confirmed cycle are destroyed.
LEMMA CollectOk ==
  ASSUME OrcaInv, NEW S, S \subseteq Actor, Collect(S),
         UNCHANGED <<pc, created>>, GoodPerceived(perceived')
  PROVE  OrcaInv'
<1>1. /\ alive' = alive \ S /\ queue' = ReleasedBy(S, queue)
      /\ gc' = [a \in Actor |-> IF a \in S THEN NewGc ELSE gc[a]]
      /\ refs' = [a \in Actor |-> IF a \in S THEN {} ELSE refs[a]]
  BY DEF Collect
<1>2. created \in Nat /\ GoodGc(gc) /\ GoodQueues(queue, created)
  BY RunsExist DEF OrcaInv, OrcaTypes
<1>3. /\ GoodGc(gc') /\ GoodQueues(queue', created)
      /\ \A a \in Actor : a \notin S /\ Exact(gc, queue, a) /\ Covered(gc, queue, a) =>
           Exact(gc', queue', a) /\ Covered(gc', queue', a)
  BY <1>1, <1>2, CollectKeeps
<1>4. \A b, d \in Actor : gc'[b].foreign[d] = IF b \in S THEN 0 ELSE gc[b].foreign[d]
  BY <1>1 DEF NewGc
<1>5. ASSUME NEW x \in Actor, x > created PROVE Unborn(x)'
  <2>1. Unborn(x)
    BY <1>5 DEF OrcaInv, OrcaTypes
  <2>2. gc'[x].rc = 0 /\ refs'[x] = {} /\ \A b \in Actor : gc'[b].foreign[x] = 0
    BY <1>1, <1>4, <2>1 DEF NewGc, Unborn
  <2>3. queue'[x] = <<>>
    <3>1. CASE x \in S
      BY <1>1, <2>1, <3>1 DEF ReleasedBy, Unborn
    <3>2. CASE x \notin S
      <4>1. PICK H, s : H = {b \in S : gc[b].foreign[x] > 0} /\ s = SetToSeq(H)
        OBVIOUS
      <4>2. H = {}
        BY <2>1, <4>1 DEF Unborn
      <4>3. IsFiniteSet(H) /\ Cardinality(H) = 0
        BY <4>2, FS_EmptySet
      <4>4. s \in [1 .. 0 -> H]
        BY <4>1, <4>3, SetListed
      <4>5. DOMAIN s = {}
        BY <4>4
      <4>6. queue'[x] = queue[x] \o [i \in DOMAIN s |-> Release(gc[s[i]].foreign[x])]
        BY <1>1, <3>2, <4>1 DEF ReleasedBy
      <4>7. [i \in DOMAIN s |-> Release(gc[s[i]].foreign[x])] = <<>>
        BY <4>5
      <4> QED BY <2>1, <4>6, <4>7 DEF Unborn
    <3> QED BY <3>1, <3>2
  <2> QED BY <2>1, <2>2, <2>3 DEF Unborn
<1>6. Counts'
  BY <1>1, <1>3 DEF OrcaInv, Counts
<1>7. ReachableIsCounted'
  <2>1. ASSUME NEW b \in alive', NEW d \in refs'[b] PROVE gc'[b].foreign[d] > 0
    <3>1. b \in Actor /\ b \in alive /\ b \notin S
      BY <1>1, RunsExist
    <3>2. d \in refs[b] /\ gc'[b] = gc[b]
      BY <1>1, <3>1
    <3> QED BY <3>1, <3>2 DEF OrcaInv, ReachableIsCounted
  <2> QED BY <2>1 DEF ReachableIsCounted
<1>8. OrcaTypes'
  <2>1. refs' \in [Actor -> SUBSET (1 .. created)]
    BY <1>1 DEF OrcaInv, OrcaTypes
  <2> QED BY <1>1, <1>3, <1>5, <2>1 DEF OrcaInv, OrcaTypes
<1> QED BY <1>6, <1>7, <1>8 DEF OrcaInv

\* ack()
LEMMA AckOk ==
  ASSUME OrcaInv, HandleAck
  PROVE  OrcaInv'
<1>1. PICK t, p : t = Head(cdq).token /\ p = [perceived[t] EXCEPT !.ack = @ + 1]
  OBVIOUS
<1>2. /\ UNCHANGED <<pc, created>>
      /\ \/ /\ t \notin DOMAIN perceived
            /\ UNCHANGED <<alive, refs, gc, queue, perceived>>
         \/ /\ t \in DOMAIN perceived
            /\ perceived' = [u \in DOMAIN perceived \ {t} |-> perceived[u]]
            /\ Collect(p.map)
         \/ /\ t \in DOMAIN perceived
            /\ \E g \in IF p.ack % ConfGroup = 0 THEN NextGroups(p.map, p.asked)
                                                 ELSE {{}} :
                 /\ perceived' = [perceived EXCEPT ![t] = [p EXCEPT !.asked = @ \cup g]]
                 /\ queue' = SendConf(queue, g \cap alive, t)
            /\ UNCHANGED <<alive, refs, gc>>
  BY <1>1 DEF HandleAck
<1>3. GoodPerceived(perceived)
  BY DEF OrcaInv, OrcaTypes
<1>4. ASSUME t \in DOMAIN perceived
      PROVE  p \in [map : SUBSET Actor, ack : Int, asked : SUBSET Actor]
  BY <1>1, <1>3, <1>4 DEF GoodPerceived
<1>5. CASE t \notin DOMAIN perceived
  <2>1. UNCHANGED <<alive, refs, gc, queue, created, perceived>>
    BY <1>2, <1>5
  <2>2. /\ pc' \in [Actor -> {"busy", "run", "idle"}]
        /\ \A x \in Actor : x > created => pc'[x] = "idle"
    BY <1>2 DEF OrcaInv, OrcaTypes, Unborn
  <2> QED BY <1>3, <2>1, <2>2, OrcaSame
<1>6. CASE /\ t \in DOMAIN perceived
           /\ perceived' = [u \in DOMAIN perceived \ {t} |-> perceived[u]]
           /\ Collect(p.map)
  <2>1. GoodPerceived(perceived')
    BY <1>3, <1>6 DEF GoodPerceived
  <2>2. p.map \subseteq Actor
    BY <1>4, <1>6
  <2> QED BY <1>2, <1>6, <2>1, <2>2, CollectOk
<1>7. ASSUME t \in DOMAIN perceived,
             NEW g \in IF p.ack % ConfGroup = 0 THEN NextGroups(p.map, p.asked) ELSE {{}},
             perceived' = [perceived EXCEPT ![t] = [p EXCEPT !.asked = @ \cup g]],
             queue' = SendConf(queue, g \cap alive, t), UNCHANGED <<alive, refs, gc>>
      PROVE  OrcaInv'
  <2>1. p \in [map : SUBSET Actor, ack : Int, asked : SUBSET Actor]
    BY <1>4, <1>7
  <2>2. g \subseteq Actor
    BY <2>1 DEF NextGroups
  <2>3. [p EXCEPT !.asked = @ \cup g] \in [map : SUBSET Actor, ack : Int, asked : SUBSET Actor]
    BY <2>1, <2>2
  <2>4. GoodPerceived(perceived')
    BY <1>3, <1>7, <2>3 DEF GoodPerceived
  <2> QED BY <1>2, <1>7, <2>4, ConfOk
<1> QED BY <1>2, <1>5, <1>6, <1>7

\* What the detector does keeps the invariant.
LEMMA DetectorOk ==
  ASSUME OrcaInv, Detector
  PROVE  OrcaInv'
<1>0. /\ pc \in [Actor -> {"busy", "run", "idle"}]
      /\ \A x \in Actor : x > created => pc[x] = "idle"
      /\ GoodPerceived(perceived)
  BY DEF OrcaInv, OrcaTypes, Unborn
<1>1. CASE HandleBlock
  <2>1. UNCHANGED <<alive, pc, refs, gc, created>>
    BY <1>1 DEF HandleBlock
  <2>2. PICK a, upd, vw, known, per :
          /\ per = ExpirePerceived(upd, perceived, a)
          /\ \/ DetectFrom(a, vw, known, deferred \ {a}, per)
             \/ perceived' = per /\ queue' = queue
    BY <1>1 DEF HandleBlock
  <2>3. GoodPerceived(per)
    BY <1>0, <2>2, ExpireGood
  <2>4. CASE DetectFrom(a, vw, known, deferred \ {a}, per)
    BY <2>1, <2>3, <2>4, DetectOk
  <2>5. CASE perceived' = per /\ queue' = queue
    BY <1>0, <2>1, <2>3, <2>5, OrcaSame
  <2> QED BY <2>2, <2>4, <2>5
<1>2. CASE HandleUnblock
  <2>1. /\ UNCHANGED <<alive, pc, refs, gc, queue, created>>
        /\ perceived' = ExpirePerceived(view, perceived, Head(cdq).actor)
    BY <1>2 DEF HandleUnblock
  <2>2. GoodPerceived(perceived')
    BY <1>0, <2>1, ExpireGood
  <2> QED BY <1>0, <2>1, <2>2, OrcaSame
<1>3. CASE HandleAck
  BY <1>3, AckOk
<1>4. CASE DeferredStep
  <2>1. PICK a \in deferred : DetectFrom(a, view, views, deferred \ {a}, perceived)
    BY <1>4 DEF DeferredStep
  <2>2. UNCHANGED <<alive, pc, refs, gc, created>>
    BY <1>4 DEF DeferredStep
  <2> QED BY <1>0, <2>1, <2>2, DetectOk
<1>5. CASE DeferredDone
  <2>1. UNCHANGED <<alive, pc, refs, gc, queue, created, perceived>>
    BY <1>5 DEF DeferredDone, actorVars
  <2> QED BY <1>0, <2>1, OrcaSame
<1> QED BY <1>1, <1>2, <1>3, <1>4, <1>5 DEF Detector

-----------------------------------------------------------------------------
(* The theorems. *)

\* Every step of the program keeps OrcaInv: the counts are exact, covered by
\* the queues, and cover what can be reached.
THEOREM OrcaInvariance == Spec => []OrcaInv
<1>1. Init => OrcaInv
  BY OrcaInitial
<1>2. OrcaInv /\ [Next]_vars => OrcaInv'
  <2> SUFFICES ASSUME OrcaInv, [Next]_vars PROVE OrcaInv'
    OBVIOUS
  <2>1. CASE Detector
    BY <2>1, DetectorOk
  <2>2. ASSUME NEW a \in Actor, ActorStep(a) PROVE OrcaInv'
    <3>1. Step(a) /\ UNCHANGED perceived
      BY <2>2 DEF ActorStep, detectorVars
    <3> QED BY <3>1, StepOk
  <2>3. CASE UNCHANGED vars
    <3>1. UNCHANGED <<alive, pc, refs, gc, queue, created, perceived>>
      BY <2>3 DEF vars, actorVars, detectorVars
    <3> QED BY <3>1, OrcaSame DEF OrcaInv, OrcaTypes, Unborn
  <2> QED BY <2>1, <2>2, <2>3 DEF Next
<1> QED BY <1>1, <1>2, PTL DEF Spec

\* A queue is worth the changes in it less the references it carries.
LEMMA GainParts ==
  ASSUME NEW q, NEW n, GoodSeq(q, n), NEW a, NEW b
  PROVE  LET P == SumFunction([i \in DOMAIN q |-> Change(q[i])])
             F == SumFunction([i \in DOMAIN q |-> Carries(q[i], a)])
         IN  /\ P \in Int /\ F \in Int
             /\ GainTo(q, a, b, Len(q)) = (IF a = b THEN P ELSE 0) - F
<1>1. Len(q) \in Nat /\ DOMAIN q = 1 .. Len(q)
  BY GainToType
<1>2. PICK I : I = 1 .. Len(q)
  OBVIOUS
<1>3. IsFiniteSet(I) /\ DOMAIN q = I
  BY <1>1, <1>2, FS_Interval
<1>4. PICK f, g, h, z : /\ f = Gains(q, a, b)
                        /\ g = [i \in I |-> Carries(q[i], a)]
                        /\ h = [i \in I |-> Change(q[i])]
                        /\ z = [i \in I |-> IF a = b THEN h[i] ELSE 0]
  OBVIOUS
<1>5. \A i \in I : GoodMsg(q[i], n)
  BY <1>2 DEF GoodSeq
<1>6. \A i \in I : g[i] \in Int /\ h[i] \in Int
  BY <1>4, <1>5 DEF GoodMsg, Carries, Change
<1>7. \A i \in I : f[i] = (IF a = b THEN h[i] ELSE 0) - g[i]
  BY <1>2, <1>4 DEF Gains, Gain
<1>8. \A i \in I : f[i] \in Int /\ g[i] \in Int /\ z[i] = f[i] + g[i]
  BY <1>4, <1>6, <1>7
<1>9. SumFunctionOnSet(z, I) = SumFunctionOnSet(f, I) + SumFunctionOnSet(g, I)
  BY ONLY <1>3, <1>8, SumPlus
<1>10. SumFunctionOnSet(z, I) = IF a = b THEN SumFunctionOnSet(h, I) ELSE 0
  <2>1. CASE a = b
    <3>1. \A i \in I : z[i] = h[i]
      BY <1>4, <2>1
    <3> QED BY <1>3, <2>1, <3>1, SumSame
  <2>2. CASE a # b
    <3>1. \A i \in I : z[i] = 0
      BY <1>4, <2>2
    <3> QED BY <1>3, <2>2, <3>1, SumZero
  <2> QED BY <2>1, <2>2
<1>11. /\ SumFunctionOnSet(f, I) \in Int /\ SumFunctionOnSet(g, I) \in Int
       /\ SumFunctionOnSet(h, I) \in Int
  BY <1>3, <1>6, <1>8, SumType
<1>12. /\ SumFunction(h) = SumFunctionOnSet(h, I)
       /\ SumFunction(g) = SumFunctionOnSet(g, I)
  BY <1>4 DEF SumFunction
<1>13. GainTo(q, a, b, Len(q)) = SumFunctionOnSet(f, I)
  BY <1>2, <1>4 DEF GainTo
<1>14. GainTo(q, a, b, Len(q)) = (IF a = b THEN SumFunction(h) ELSE 0) - SumFunction(g)
  BY <1>9, <1>10, <1>11, <1>12, <1>13
<1>15. /\ h = [i \in DOMAIN q |-> Change(q[i])]
       /\ g = [i \in DOMAIN q |-> Carries(q[i], a)]
  BY <1>3, <1>4
<1> QED BY <1>11, <1>12, <1>14, <1>15

\* The count of every actor is exact (send_remote_actor, recv_remote_actor,
\* ponyint_gc_acquire, ponyint_gc_release, collect), however many actors and
\* messages there are.
THEOREM CountsAreExact == Spec => []RcExact
<1>1. OrcaInv => RcExact
  <2> SUFFICES ASSUME OrcaInv, NEW a \in alive
               PROVE  gc[a].rc + Pending(a) =
                        SumFunction([b \in Actor |-> gc[b].foreign[a] + InFlight(b, a)])
    BY DEF RcExact
  <2>1. a \in Actor
    BY RunsExist
  <2>2. GoodGc(gc) /\ GoodQueues(queue, created) /\ Exact(gc, queue, a)
    BY <2>1 DEF OrcaInv, OrcaTypes, Counts
  <2>3. ASSUME NEW b \in Actor
        PROVE  /\ Pending(b) \in Int /\ InFlight(b, a) \in Int
               /\ GainTo(queue[b], a, b, Len(queue[b]))
                    = (IF a = b THEN Pending(b) ELSE 0) - InFlight(b, a)
    <3>1. PICK q : q = queue[b]
      OBVIOUS
    <3>2. GoodSeq(q, created)
      BY <2>2, <3>1 DEF GoodQueues
    <3>3. LET P == SumFunction([i \in DOMAIN q |-> Change(q[i])])
              F == SumFunction([i \in DOMAIN q |-> Carries(q[i], a)])
          IN  /\ P \in Int /\ F \in Int
              /\ GainTo(q, a, b, Len(q)) = (IF a = b THEN P ELSE 0) - F
      BY <3>2, GainParts
    <3> QED BY <3>1, <3>3 DEF Pending, InFlight
  <2>4. PICK f, g : /\ f = Column(gc, queue, a)
                    /\ g = [b \in Actor |-> gc[b].foreign[a] + InFlight(b, a)]
    OBVIOUS
  <2>5. \A b \in Actor : gc[b].foreign[a] \in Nat
    BY <2>1, <2>2 DEF GoodGc
  <2>6. \A b \in Actor : /\ g[b] = gc[b].foreign[a] + InFlight(b, a)
                         /\ f[b] = gc[b].foreign[a] - GainTo(queue[b], a, b, Len(queue[b]))
    BY <2>4 DEF Column
  <2>7. \A b \in Actor : f[b] \in Int /\ g[b] \in Int
    BY <2>3, <2>5, <2>6
  <2>8. \A b \in Actor : b # a => g[b] = f[b]
    BY <2>3, <2>5, <2>6
  <2>9. g[a] - f[a] = Pending(a)
    BY <2>1, <2>3, <2>5, <2>6
  <2>10. SumFunctionOnSet(g, Actor) = SumFunctionOnSet(f, Actor) + (g[a] - f[a])
    BY ONLY <2>1, <2>7, <2>8, ActorsFinite, SumUpdate
  <2>11. SumFunctionOnSet(f, Actor) = gc[a].rc
    BY <2>2, <2>4 DEF Exact, Owed
  <2>12. SumFunction(g) = SumFunctionOnSet(g, Actor)
    BY <2>4 DEF SumFunction
  <2>13. SumFunction(g) = gc[a].rc + Pending(a)
    BY <2>9, <2>10, <2>11, <2>12
  <2> QED BY <2>4, <2>13
<1> QED BY <1>1, OrcaInvariance, PTL

\* No count is ever decremented below 0 (the asserts of gc.c), in whatever
\* order ACQUIRE, RELEASE and the references arrive.
THEOREM CountsNeverUnderflow == Spec => []NoUnderflow
<1>1. OrcaInv => NoUnderflow
  <2> SUFFICES ASSUME OrcaInv, NEW a \in alive PROVE gc[a].rc >= 0
    BY DEF NoUnderflow
  <2>1. a \in Actor
    BY RunsExist
  <2>2. GoodSeq(queue[a], created) /\ Covered(gc, queue, a) /\ gc[a].rc \in Int
    BY <2>1 DEF OrcaInv, OrcaTypes, Counts, GoodQueues, GoodGc
  <2>3. Len(queue[a]) \in Nat /\ GainTo(queue[a], a, a, 0) = 0
    BY <2>2, GainToType
  <2>4. 0 \in 0 .. Len(queue[a])
    BY <2>3
  <2> QED BY <2>2, <2>3, <2>4 DEF Covered
<1> QED BY <1>1, OrcaInvariance, PTL

\* An actor holds a count for whatever it can reach (ponyint_gc_sendactor
\* never gives the last one away).
THEOREM ReachableCounted == Spec => []ReachableIsCounted
BY OrcaInvariance, PTL DEF OrcaInv
=============================================================================
