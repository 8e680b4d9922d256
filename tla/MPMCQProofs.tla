---------------------------- MODULE MPMCQProofs ----------------------------
(* Proofs about MPMCQ, for any number of threads, blocks and items.  The   *)
(* inductive invariant speaks of a function at, which gives the block that *)
(* each position of the queue occupies: position 0 is the stub, position i *)
(* the i-th item pushed.  The model does not record it; the invariant says *)
(* that there is one.                                                      *)
EXTENDS MPMCQ, FiniteSetTheorems, SequenceTheorems, TLAPS

Size == Len(pushed)

\* In push with a block that is not in the list yet; in pop with the tail won.
Preparing(t) == pc[t] \in {"exchange", "loadHead", "storeHead"}
Active(t) == pc[t] \in {"loadData", "clear", "spin"}
Reading(t) == pc[t] \in {"loadData", "clear"}

\* The positions whose blocks are not free: the list, and what the pops that
\* have won still have to free.
Held == (taken .. Size) \cup {claim[t] - 1 : t \in {t \in Thread : Active(t)}}

\* From tail to head the blocks are those of the positions taken .. Size, all
\* different; a link is there or still missing; items not taken are in place.
ChainInv(at) ==
  /\ taken <= Size
  /\ tail.aba = taken /\ tail.node = at[taken]
  /\ head = at[Size]
  /\ next[head] = NULL
  /\ \A i \in taken .. Size - 1 : next[at[i]] \in {at[i + 1], NULL}
  /\ \A i \in taken + 1 .. Size : data[at[i]] = pushed[i]
  /\ \A i, j \in Held : at[i] = at[j] => i = j

\* The allocated blocks are exactly those of the positions held and of the
\* pushes that have not reached the head.
LiveInv(at) ==
  live = {at[i] : i \in Held} \cup {node[t] : t \in {t \in Thread : Preparing(t)}}

\* A push owns its block until it is the head; then it stands at a missing
\* link of its own.
PrepareInv(at) ==
  \A t \in Thread : Preparing(t) =>
    /\ node[t] \in Node /\ data[node[t]] \in Item /\ next[node[t]] = NULL
    /\ \A i \in Held : node[t] # at[i]
    /\ \A u \in Thread : Preparing(u) /\ node[u] = node[t] => u = t

LinkInv(at) ==
  /\ \A t \in Thread : pc[t] = "link" =>
       \E i \in taken .. Size - 1 :
         prev[t] = at[i] /\ node[t] = at[i + 1] /\ next[at[i]] = NULL
  /\ \A t, u \in Thread :
       pc[t] = "link" /\ pc[u] = "link" /\ prev[t] = prev[u] => t = u

PushInv(at) ==
  /\ PrepareInv(at)
  /\ LinkInv(at)
  /\ \A t \in Thread : pc[t] = "storeHead" => prev[t] = head

\* push_single has its one pusher.
SingleInv ==
  \A t \in Thread :
    /\ Preparing(t) \/ pc[t] = "link" => t \in Pusher
    /\ pc[t] \in {"loadHead", "storeHead"} => Single
    /\ pc[t] = "exchange" => ~Single

\* A pop whose compare-and-swap will succeed has read the link of the tail
\* while it was the tail.
TailInv(at) ==
  \A t \in Thread :
    /\ pc[t] \in {"loadNode", "loadNext", "cas"} => cmp[t].aba <= taken
    /\ pc[t] = "cas" /\ cmp[t] = tail =>
         taken < Size /\ nxt[t] = at[taken + 1] /\ next[at[taken]] = nxt[t]

\* A pop that has won owns the position before its own.
ClaimInv(at) ==
  \A t \in Thread : Active(t) =>
    /\ claim[t] \in 1 .. taken
    /\ cmp[t].node = at[claim[t] - 1]
    /\ \A u \in Thread : Active(u) /\ claim[u] = claim[t] => u = t

\* Its item stays in place until it has been read and cleared: the pop that
\* will free the block has not won yet, or waits.
ReadInv(at) ==
  \A t \in Thread :
    /\ Reading(t) => /\ nxt[t] = at[claim[t]]
                     /\ data[at[claim[t]]] = pushed[claim[t]]
                     /\ claim[t] \in Held
    /\ pc[t] \in {"clear", "spin"} => got[t] = pushed[claim[t]]

PopInv(at) == TailInv(at) /\ ClaimInv(at) /\ ReadInv(at)

\* Every push that was begun has reached the head or is on its way.
CountInv ==
  LET pushing == {t \in Thread : Preparing(t)}
  IN  IsFiniteSet(pushing) /\ allocs = Size + Cardinality(pushing)

EndInv ==
  /\ \A t \in Thread : pc[t] = "ended" => Destroyed
  /\ Destroyed => /\ \A t \in Thread : pc[t] = "ended"
                  /\ IsFiniteSet(live)
                  /\ Cardinality(live) = Size - taken

QueueInv(at) ==
  /\ at \in [0 .. MaxPush -> Node]
  /\ ChainInv(at) /\ LiveInv(at) /\ PushInv(at) /\ PopInv(at)

\* The invariant while the queue is in use, for the function at.
InUse(at) ==
  /\ ~Destroyed
  /\ TypeOK /\ SingleInv /\ CountInv /\ EndInv
  /\ QueueInv(at)

Gone == Destroyed /\ TypeOK /\ SingleInv /\ CountInv /\ EndInv

IInv == Gone \/ \E at \in [0 .. MaxPush -> Node] : InUse(at)

-----------------------------------------------------------------------------
(* What the parts of the invariant say together. *)

\* The pool's link is a block or NULL.
LEMMA PoolFreeType ==
  ASSUME TypeOK, NEW n \in Node, PoolFree(n)
  PROVE  live' \subseteq Node /\ next' \in [Node -> Node \cup {NULL}]
BY DEF TypeOK, PoolFree

\* A push that reaches the head was one of those still on their way.
LEMMA PushEnds ==
  ASSUME TypeOK, CountInv, NEW t \in Thread, Preparing(t),
         pc' = [pc EXCEPT ![t] = "link"], NEW x \in Item,
         pushed' = Append(pushed, x), allocs' = allocs
  PROVE  CountInv' /\ Size' = Size + 1 /\ Size + 1 <= MaxPush
<1> DEFINE S == {u \in Thread : Preparing(u)}
<1>1. S' = S \ {t}
  BY DEF Preparing, TypeOK
<1>2. t \in S
  OBVIOUS
<1>3. IsFiniteSet(S) /\ Cardinality(S) \in Nat
      /\ allocs = Size + Cardinality(S)
  BY FS_CardinalityType DEF CountInv
<1>4. IsFiniteSet(S \ {t}) /\ Cardinality(S \ {t}) = Cardinality(S) - 1
  BY <1>2, <1>3, FS_RemoveElement
<1>5. Cardinality(S \ {t}) \in Nat
  BY <1>4, FS_CardinalityType
<1>6. Size' = Size + 1 /\ Size \in Nat
  BY DEF Size, TypeOK
<1>7. allocs \in 0 .. MaxPush /\ MaxPush \in Nat
  BY MPMCQAssumption DEF TypeOK
<1> HIDE DEF S
<1>8. CountInv'
  <2>1. allocs' = Size' + Cardinality(S')
    BY <1>1, <1>3, <1>4, <1>5, <1>6, <1>7
  <2>2. IsFiniteSet(S')
    BY <1>1, <1>4
  <2> QED BY <2>1, <2>2 DEF CountInv, S
<1> QED BY <1>3, <1>4, <1>5, <1>6, <1>7, <1>8

\* The positions that are held, and where their blocks are.
HeldOK(at) ==
  /\ taken \in Nat /\ Size \in Nat /\ taken <= Size
  /\ MaxPush \in Nat /\ Size <= MaxPush
  /\ \A i \in taken .. Size : i \in Held
  /\ \A t \in Thread : Active(t) => claim[t] \in Nat /\ claim[t] - 1 \in Held
  /\ \A i \in Held : i \in 0 .. Size /\ at[i] \in Node /\ at[i] \in live
  /\ \A i \in Held : i \in taken .. Size
                     \/ \E t \in Thread : Active(t) /\ i = claim[t] - 1
  /\ \A t \in Thread : Preparing(t) => node[t] \in live

\* Every position held is one of the list or of a pop that has won, and its
\* block is allocated.
LEMMA HeldFacts ==
  ASSUME NEW at, InUse(at)
  PROVE  HeldOK(at)
<1>1. /\ taken \in Nat /\ Size \in Nat /\ taken <= Size
      /\ MaxPush \in Nat /\ Size <= MaxPush
  BY MPMCQAssumption DEF InUse, TypeOK, Size, QueueInv, ChainInv
<1>2. \A t \in Thread : Active(t) => claim[t] \in 1 .. taken
  BY DEF InUse, QueueInv, PopInv, TailInv, ClaimInv, ReadInv
<1>3. \A i \in Held : i \in 0 .. Size
  BY <1>1, <1>2 DEF Held
<1>4. \A i \in Held : at[i] \in Node /\ at[i] \in live
  BY <1>1, <1>3 DEF InUse, QueueInv, LiveInv
<1>5. \A t \in Thread : Preparing(t) => node[t] \in live
  BY DEF InUse, QueueInv, LiveInv
<1> QED BY <1>1, <1>2, <1>3, <1>4, <1>5 DEF Held, HeldOK

\* The positions held stay the same when no push or pop moves an end.
LEMMA HeldSame ==
  ASSUME UNCHANGED <<taken, pushed, claim>>,
         \A t \in Thread : Active(t)' <=> Active(t)
  PROVE  Held' = Held /\ Size' = Size
BY DEF Held, Size

\* Threads come and go without changing who is on the way to the head.
LEMMA CountSame ==
  ASSUME CountInv, UNCHANGED <<allocs, pushed>>,
         \A t \in Thread : Preparing(t)' <=> Preparing(t)
  PROVE  CountInv'
<1>1. {t \in Thread : Preparing(t)}' = {t \in Thread : Preparing(t)}
  OBVIOUS
<1> QED BY <1>1 DEF CountInv, Size

\* Nor which blocks are allocated.
LEMMA LiveSame ==
  ASSUME NEW at, LiveInv(at), Held' = Held, UNCHANGED <<live, node>>,
         \A t \in Thread : Preparing(t)' <=> Preparing(t)
  PROVE  LiveInv(at)'
<1>1. {node[t] : t \in {t \in Thread : Preparing(t)}}'
        = {node[t] : t \in {t \in Thread : Preparing(t)}}
  OBVIOUS
<1> QED BY <1>1 DEF LiveInv

-----------------------------------------------------------------------------
(* Pop. *)

\* Reading one half of the tail changes nothing the queue depends on.
LEMMA PopLoadAbaStep ==
  ASSUME NEW at, InUse(at), NEW t \in Thread, PopLoadAba(t)
  PROVE  InUse(at)'
<1> USE DEF PopLoadAba, Goto, sharedVars, pushVars
<1>1. Held' = Held /\ Size' = Size
  BY HeldSame DEF InUse, TypeOK, Active
<1>2. TypeOK'
  BY DEF InUse, TypeOK, Place, Destroyed
<1>3. SingleInv'
  BY DEF InUse, SingleInv, TypeOK, Preparing
<1>4. CountInv'
  BY CountSame DEF InUse, TypeOK, Preparing
<1>5. EndInv' /\ ~Destroyed'
  BY DEF InUse, EndInv, Destroyed, TypeOK
<1>6. ChainInv(at)' /\ LiveInv(at)'
  <2>1. ChainInv(at)'
    BY <1>1 DEF InUse, QueueInv, ChainInv
  <2>2. LiveInv(at)'
    BY <1>1, LiveSame DEF InUse, QueueInv, TypeOK, Preparing
  <2> QED BY <2>1, <2>2
<1>7. PushInv(at)'
  BY <1>1 DEF InUse, QueueInv, PushInv, PrepareInv, LinkInv, TypeOK, Preparing
<1>8. PopInv(at)'
  BY <1>1 DEF InUse, QueueInv, ChainInv, PopInv, TailInv, ClaimInv, ReadInv, TypeOK, Active, Reading
<1> QED BY <1>2, <1>3, <1>4, <1>5, <1>6, <1>7, <1>8 DEF InUse, QueueInv

\* Nor does reading the other half.
LEMMA PopLoadNodeStep ==
  ASSUME NEW at, InUse(at), NEW t \in Thread, PopLoadNode(t)
  PROVE  InUse(at)'
<1> USE DEF PopLoadNode, Goto, sharedVars, pushVars
<1>1. Held' = Held /\ Size' = Size
  BY HeldSame DEF InUse, TypeOK, Active
<1>2. TypeOK'
  BY DEF InUse, TypeOK, Place, Destroyed
<1>3. SingleInv'
  BY DEF InUse, SingleInv, TypeOK, Preparing
<1>4. CountInv'
  BY CountSame DEF InUse, TypeOK, Preparing
<1>5. EndInv' /\ ~Destroyed'
  BY DEF InUse, EndInv, Destroyed, TypeOK
<1>6. ChainInv(at)' /\ LiveInv(at)'
  <2>1. ChainInv(at)'
    BY <1>1 DEF InUse, QueueInv, ChainInv
  <2>2. LiveInv(at)'
    BY <1>1, LiveSame DEF InUse, QueueInv, TypeOK, Preparing
  <2> QED BY <2>1, <2>2
<1>7. PushInv(at)'
  BY <1>1 DEF InUse, QueueInv, PushInv, PrepareInv, LinkInv, TypeOK, Preparing
<1>8. PopInv(at)'
  BY <1>1 DEF InUse, QueueInv, ChainInv, PopInv, TailInv, ClaimInv, ReadInv, TypeOK, Active, Reading
<1> QED BY <1>2, <1>3, <1>4, <1>5, <1>6, <1>7, <1>8 DEF InUse, QueueInv

\* A link read while the tail is still the one compared is the tail's link.
LEMMA PopLoadNextStep ==
  ASSUME NEW at, InUse(at), NEW t \in Thread, PopLoadNext(t)
  PROVE  InUse(at)'
<1> USE DEF PopLoadNext, Goto, sharedVars, pushVars
<1>1. Held' = Held /\ Size' = Size
  BY HeldSame DEF InUse, TypeOK, Active
<1>2. TypeOK'
  BY DEF InUse, TypeOK, Place, Destroyed
<1>3. SingleInv'
  BY DEF InUse, SingleInv, TypeOK, Preparing
<1>4. CountInv'
  BY CountSame DEF InUse, TypeOK, Preparing
<1>5. EndInv' /\ ~Destroyed'
  BY DEF InUse, EndInv, Destroyed, TypeOK
<1>6. ChainInv(at)' /\ LiveInv(at)'
  <2>1. ChainInv(at)'
    BY <1>1 DEF InUse, QueueInv, ChainInv
  <2>2. LiveInv(at)'
    BY <1>1, LiveSame DEF InUse, QueueInv, TypeOK, Preparing
  <2> QED BY <2>1, <2>2
<1>7. PushInv(at)'
  BY <1>1 DEF InUse, QueueInv, PushInv, PrepareInv, LinkInv, TypeOK, Preparing
<1>8. PopInv(at)'
  <2>1. \A u \in Thread : u # t =>
          pc'[u] = pc[u] /\ cmp'[u] = cmp[u] /\ nxt'[u] = nxt[u]
    BY DEF InUse, TypeOK
  <2>2. pc'[t] \in {"idle", "cas"} /\ cmp' = cmp /\ nxt'[t] = next[cmp[t].node]
        /\ cmp[t].aba <= taken
    BY DEF InUse, TypeOK, QueueInv, PopInv, TailInv, ClaimInv, ReadInv
  <2>3. ASSUME pc'[t] = "cas", cmp[t] = tail
        PROVE  /\ taken < Size /\ nxt'[t] = at[taken + 1]
               /\ next[at[taken]] = nxt'[t]
    <3>1. next[at[taken]] # NULL /\ nxt'[t] = next[at[taken]]
      BY <2>2, <2>3 DEF InUse, TypeOK, QueueInv, ChainInv
    <3>h. HeldOK(at)
      BY HeldFacts
    <3>2. taken < Size
      BY <3>1, <3>h DEF HeldOK, InUse, QueueInv, ChainInv
    <3>3. taken \in taken .. Size - 1
      BY <3>2, <3>h DEF HeldOK
    <3> QED BY <3>1, <3>2, <3>3 DEF InUse, QueueInv, ChainInv
  <2> QED
    BY <1>1, <2>1, <2>2, <2>3 DEF InUse, QueueInv, PopInv, TailInv, ClaimInv, ReadInv, TypeOK, Active, Reading
<1> QED BY <1>2, <1>3, <1>4, <1>5, <1>6, <1>7, <1>8 DEF InUse, QueueInv

\* The item is still in the block the pop has moved the tail to.
LEMMA PopLoadDataStep ==
  ASSUME NEW at, InUse(at), NEW t \in Thread, PopLoadData(t)
  PROVE  InUse(at)'
<1> USE DEF PopLoadData, Goto, sharedVars, pushVars
<1>1. Held' = Held /\ Size' = Size
  BY HeldSame DEF InUse, TypeOK, Active
<1>2. TypeOK'
  <2>1. nxt[t] \in Node
    <3>1. HeldOK(at) /\ Reading(t)
      BY HeldFacts DEF Reading
    <3> QED BY <3>1 DEF HeldOK, InUse, QueueInv, PopInv, TailInv, ClaimInv, ReadInv
  <2> QED BY <2>1, Zenon DEF InUse, TypeOK, Place, Destroyed
<1>3. SingleInv'
  BY DEF InUse, SingleInv, TypeOK, Preparing
<1>4. CountInv'
  BY CountSame DEF InUse, TypeOK, Preparing
<1>5. EndInv' /\ ~Destroyed'
  BY DEF InUse, EndInv, Destroyed, TypeOK
<1>6. ChainInv(at)' /\ LiveInv(at)'
  <2>1. ChainInv(at)'
    BY <1>1 DEF InUse, QueueInv, ChainInv
  <2>2. LiveInv(at)'
    BY <1>1, LiveSame DEF InUse, QueueInv, TypeOK, Preparing
  <2> QED BY <2>1, <2>2
<1>7. PushInv(at)'
  BY <1>1 DEF InUse, QueueInv, PushInv, PrepareInv, LinkInv, TypeOK, Preparing
<1>8. PopInv(at)'
  BY <1>1 DEF InUse, QueueInv, ChainInv, PopInv, TailInv, ClaimInv, ReadInv, TypeOK, Active, Reading
<1> QED BY <1>2, <1>3, <1>4, <1>5, <1>6, <1>7, <1>8 DEF InUse, QueueInv

\* A pop that fails reads the tail again; one that succeeds makes the next
\* position the tail and takes over the block of the old one.
LEMMA PopCasStep ==
  ASSUME NEW at, InUse(at), NEW t \in Thread, PopCas(t)
  PROVE  InUse(at)'
<1>h. HeldOK(at)
  BY HeldFacts
<1>a. ASSUME tail # cmp[t] PROVE InUse(at)'
  <2>b. /\ \A u \in Thread : u # t => pc'[u] = pc[u] /\ cmp'[u] = cmp[u]
        /\ pc[t] = "cas" /\ pc'[t] = "loadNext" /\ cmp'[t] = tail
        /\ UNCHANGED <<head, tail, next, data, live, node, prev, allocs, pushed,
                       nxt, got, taken, claim>>
    BY <1>a DEF PopCas, Goto, pushVars, InUse, TypeOK
  <2>1. Held' = Held /\ Size' = Size
    BY <2>b, HeldSame DEF InUse, TypeOK, Active
  <2>2. TypeOK'
    <3>1. pc' \in [Thread -> Place]
      BY <1>a DEF PopCas, Goto, InUse, TypeOK, Place
    <3>2. tail.node \in Node
      BY <2>b DEF InUse, TypeOK
    <3>3. cmp' \in [Thread -> [aba : Nat, node : Node]]
      BY <1>a, <3>2 DEF PopCas, InUse, TypeOK
    <3> QED BY <2>b, <3>1, <3>3 DEF InUse, TypeOK, Destroyed
  <2>3. SingleInv'
    BY <2>b DEF InUse, SingleInv, TypeOK, Preparing
  <2>4. CountInv'
    BY <2>b, CountSame DEF InUse, TypeOK, Preparing
  <2>5. EndInv' /\ ~Destroyed'
    BY <2>b DEF InUse, EndInv, Destroyed, TypeOK
  <2>6. ChainInv(at)'
    BY <2>b, <2>1 DEF InUse, QueueInv, ChainInv
  <2>7. LiveInv(at)'
    BY <2>b, <2>1, LiveSame DEF InUse, QueueInv, TypeOK, Preparing
  <2>8. PushInv(at)'
    BY <2>b, <2>1 DEF InUse, QueueInv, PushInv, PrepareInv, LinkInv, Preparing
  <2>9. PopInv(at)'
    <3>1. TailInv(at)'
      BY <1>h, <2>b, <2>1 DEF InUse, HeldOK, QueueInv, ChainInv, PopInv, TailInv
    <3>2. ClaimInv(at)'
      BY <2>b DEF InUse, QueueInv, PopInv, ClaimInv, Active
    <3>3. ReadInv(at)'
      BY <2>b, <2>1 DEF InUse, QueueInv, PopInv, ReadInv, Reading
    <3> QED BY <3>1, <3>2, <3>3 DEF PopInv
  <2> QED BY <2>2, <2>3, <2>4, <2>5, <2>6, <2>7, <2>8, <2>9 DEF InUse, QueueInv
<1>b. ASSUME tail = cmp[t] PROVE InUse(at)'
  <2>a. /\ taken < Size /\ nxt[t] = at[taken + 1] /\ nxt[t] \in Node
        /\ next[at[taken]] = nxt[t]
    BY <1>b, <1>h DEF PopCas, InUse, QueueInv, PopInv, TailInv, ClaimInv, ReadInv, HeldOK
  <2>b. /\ \A u \in Thread : u # t => pc'[u] = pc[u] /\ claim'[u] = claim[u]
        /\ pc[t] = "cas" /\ pc'[t] = "loadData" /\ claim'[t] = taken + 1 /\ taken' = taken + 1
        /\ UNCHANGED <<head, next, data, live, node, prev, allocs, pushed, cmp,
                       nxt, got>>
        /\ tail' = [aba |-> taken + 1, node |-> nxt[t]]
        /\ Size' = Size
        /\ cmp[t].node = at[taken]
    BY <1>b, <1>h DEF PopCas, Goto, pushVars, InUse, TypeOK, NewTail, Size, QueueInv, ChainInv
  <2>1. Held' = Held
    <3>1. \A i : i \in Held' => i \in Held
      BY <1>h, <2>a, <2>b DEF Held, HeldOK, Active
    <3>2. \A i : i \in Held => i \in Held'
      BY <1>h, <2>a, <2>b DEF Held, HeldOK, Active
    <3> QED BY <3>1, <3>2
  <2>2. TypeOK'
    <3>1. pc' \in [Thread -> Place]
      BY <1>b DEF PopCas, Goto, InUse, TypeOK, Place
    <3>2. claim' \in [Thread -> 0 .. MaxPush] /\ taken' \in 0 .. MaxPush
      <4>1. taken + 1 \in 0 .. MaxPush
        BY <1>h, <2>a DEF HeldOK
      <4>2. claim' = [claim EXCEPT ![t] = taken + 1] /\ claim \in [Thread -> 0 .. MaxPush]
        BY <1>b DEF PopCas, InUse, TypeOK
      <4> QED BY <4>1, <4>2, <2>b
    <3>3. tail' \in [aba : Nat, node : Node]
      BY <1>h, <2>a, <2>b DEF HeldOK
    <3>4. tail'.node # NULL
      BY <2>a, <2>b, MPMCQAssumption
    <3> QED BY <2>b, <3>1, <3>2, <3>3, <3>4 DEF InUse, TypeOK, Destroyed
  <2>3. SingleInv'
    BY <2>b DEF InUse, SingleInv, TypeOK, Preparing
  <2>4. CountInv'
    BY <2>b, CountSame DEF InUse, TypeOK, Preparing
  <2>5. EndInv' /\ ~Destroyed'
    BY <2>b DEF InUse, EndInv, Destroyed, TypeOK
  <2>6. ChainInv(at)'
    BY <1>h, <2>a, <2>b, <2>1 DEF InUse, QueueInv, ChainInv, HeldOK
  <2>7. LiveInv(at)'
    BY <2>1, <2>b, LiveSame DEF InUse, QueueInv, TypeOK, Preparing
  <2>8. PushInv(at)'
    <3>1. PrepareInv(at)'
      BY <2>b, <2>1 DEF InUse, QueueInv, PushInv, PrepareInv, Preparing
    <3>2. LinkInv(at)'
      <4>1. ASSUME NEW u \in Thread, pc'[u] = "link"
            PROVE  \E i \in taken + 1 .. Size - 1 :
                     prev[u] = at[i] /\ node[u] = at[i + 1] /\ next[at[i]] = NULL
        <5>1. PICK i \in taken .. Size - 1 :
                prev[u] = at[i] /\ node[u] = at[i + 1] /\ next[at[i]] = NULL
          BY <4>1, <2>b DEF InUse, QueueInv, PushInv, LinkInv
        <5>2. i # taken
          BY <5>1, <2>a, MPMCQAssumption
        <5> QED BY <5>1, <5>2, <1>h DEF HeldOK
      <4> QED BY <4>1, <2>b DEF InUse, QueueInv, PushInv, LinkInv
    <3> QED BY <2>b, <3>1, <3>2 DEF InUse, QueueInv, PushInv
  <2>9. PopInv(at)'
    <3>1. TailInv(at)'
      <4>1. \A u \in Thread : cmp[u].aba <= taken =>
              cmp[u] # tail' /\ cmp[u].aba <= taken + 1
        BY <1>h, <2>b DEF HeldOK, InUse, TypeOK
      <4> QED BY <4>1, <2>b DEF InUse, QueueInv, PopInv, TailInv
    <3>2. ClaimInv(at)'
      <4>1. \A u \in Thread : Active(u) => claim[u] \in 1 .. taken
        BY DEF InUse, QueueInv, PopInv, ClaimInv
      <4>2. ASSUME NEW u \in Thread, u # t, Active(u)'
            PROVE  Active(u) /\ claim'[u] \in 1 .. taken /\ cmp'[u].node = at[claim'[u] - 1]
        BY <4>2, <2>b DEF InUse, QueueInv, PopInv, ClaimInv, Active
      <4>3. claim'[t] \in 1 .. taken' /\ cmp'[t].node = at[claim'[t] - 1]
        BY <1>h, <2>b DEF HeldOK
      <4>4. ASSUME NEW u \in Thread, NEW w \in Thread, Active(u)', Active(w)',
                   claim'[u] = claim'[w]
            PROVE  u = w
        BY <4>1, <4>2, <4>4, <1>h, <2>b DEF HeldOK, InUse, QueueInv, PopInv, ClaimInv
      <4> QED BY <4>2, <4>3, <4>4, <1>h, <2>b DEF ClaimInv, HeldOK
    <3>3. ReadInv(at)'
      BY <1>h, <2>a, <2>b, <2>1
      DEF InUse, HeldOK, QueueInv, ChainInv, PopInv, ReadInv, Reading
    <3> QED BY <3>1, <3>2, <3>3 DEF PopInv
  <2> QED BY <2>2, <2>3, <2>4, <2>5, <2>6, <2>7, <2>8, <2>9 DEF InUse, QueueInv
<1> QED BY <1>a, <1>b

\* Clearing its own item disturbs no item still to be taken or read.
LEMMA PopClearStep ==
  ASSUME NEW at, InUse(at), NEW t \in Thread, PopClear(t)
  PROVE  InUse(at)'
<1>h. HeldOK(at)
  BY HeldFacts
<1>a. /\ \A u \in Thread : u # t => pc'[u] = pc[u]
      /\ pc[t] = "clear" /\ pc'[t] = "spin"
      /\ UNCHANGED <<head, tail, next, live, node, prev, allocs, pushed, cmp,
                     nxt, got, taken, claim>>
  BY DEF PopClear, Goto, pushVars, popVars, InUse, TypeOK
<1>b. /\ nxt[t] = at[claim[t]] /\ nxt[t] \in Node
      /\ claim[t] \in Held /\ claim[t] \in 1 .. taken
  BY <1>a, <1>h DEF HeldOK, InUse, QueueInv, PopInv, ClaimInv, ReadInv, Reading, Active
<1>c. \A i \in Held : i # claim[t] => at[i] # nxt[t]
  BY <1>b DEF InUse, QueueInv, ChainInv
<1>d. \A n \in Node : n # nxt[t] => data'[n] = data[n]
  BY DEF PopClear, InUse, TypeOK
<1>1. Held' = Held /\ Size' = Size
  BY <1>a, HeldSame DEF InUse, TypeOK, Active
<1>2. TypeOK'
  <2>1. pc' \in [Thread -> Place] /\ data' \in [Node -> Item \cup {NULL}]
    BY DEF PopClear, Goto, InUse, TypeOK, Place
  <2> QED BY <1>a, <2>1 DEF InUse, TypeOK, Destroyed
<1>3. SingleInv'
  BY <1>a DEF InUse, SingleInv, Preparing
<1>4. CountInv'
  BY <1>a, CountSame DEF InUse, Preparing
<1>5. EndInv' /\ ~Destroyed'
  BY <1>a DEF InUse, EndInv, Destroyed
<1>6. ChainInv(at)'
  <2>1. \A i \in taken + 1 .. Size : data'[at[i]] = pushed[i]
    BY <1>b, <1>c, <1>d, <1>h DEF HeldOK, InUse, QueueInv, ChainInv
  <2> QED BY <1>a, <1>1, <2>1 DEF InUse, QueueInv, ChainInv
<1>7. LiveInv(at)'
  BY <1>a, <1>1, LiveSame DEF InUse, QueueInv, Preparing
<1>8. PushInv(at)'
  <2>1. PrepareInv(at)'
    BY <1>a, <1>b, <1>d, <1>1 DEF InUse, QueueInv, PushInv, PrepareInv, Preparing
  <2> QED BY <1>a, <1>1, <2>1 DEF InUse, QueueInv, PushInv, LinkInv
<1>9. PopInv(at)'
  <2>1. TailInv(at)'
    BY <1>a, <1>1 DEF InUse, QueueInv, PopInv, TailInv
  <2>2. ClaimInv(at)'
    BY <1>a DEF InUse, QueueInv, PopInv, ClaimInv, Active
  <2>3. ReadInv(at)'
    <3>1. ASSUME NEW u \in Thread, Reading(u)'
          PROVE  /\ nxt[u] = at[claim[u]] /\ claim[u] \in Held
                 /\ data'[at[claim[u]]] = pushed[claim[u]]
      <4>1. u # t /\ Reading(u) /\ Active(u) /\ Active(t)
        BY <3>1, <1>a DEF Reading, Active
      <4>2. claim[u] # claim[t]
        BY <4>1 DEF InUse, QueueInv, PopInv, ClaimInv
      <4> QED BY <4>1, <4>2, <1>c, <1>d, <1>h DEF HeldOK, InUse, QueueInv, PopInv, ReadInv
    <3> QED BY <3>1, <1>a, <1>1 DEF InUse, QueueInv, PopInv, ReadInv
  <2> QED BY <2>1, <2>2, <2>3 DEF PopInv
<1> QED BY <1>2, <1>3, <1>4, <1>5, <1>6, <1>7, <1>8, <1>9 DEF InUse, QueueInv

\* When the old tail has no item left nobody reads it, and freeing it takes
\* its position, and only that, out of those held.
LEMMA PopFreeStep ==
  ASSUME NEW at, InUse(at), NEW t \in Thread, PopFree(t)
  PROVE  InUse(at)'
<1> DEFINE k == claim[t] - 1
<1>h. HeldOK(at)
  BY HeldFacts
<1>a. /\ \A u \in Thread : u # t => pc'[u] = pc[u]
      /\ pc[t] = "spin" /\ pc'[t] = "idle"
      /\ UNCHANGED <<head, tail, data, node, prev, allocs, pushed, cmp,
                     nxt, got, taken, claim>>
  BY DEF PopFree, Goto, pushVars, popVars, InUse, TypeOK
<1>b. /\ cmp[t].node = at[k] /\ at[k] \in Node /\ k \in Held
      /\ claim[t] \in 1 .. taken /\ data[at[k]] = NULL /\ PoolFree(at[k])
  BY <1>a, <1>h DEF PopFree, HeldOK, InUse, QueueInv, PopInv, ClaimInv, Active
<1>c. \A i \in Held : i # k => at[i] # at[k]
  BY <1>b DEF InUse, QueueInv, ChainInv
<1>d. /\ live' = live \ {at[k]}
      /\ \A n \in Node : n # at[k] => next'[n] = next[n]
  BY <1>b DEF PoolFree, InUse, TypeOK
<1>e. \A u \in Thread : Reading(u) => claim[u] # k
  <2> SUFFICES ASSUME NEW u \in Thread, Reading(u), claim[u] = k PROVE FALSE
    OBVIOUS
  <2>1. data[at[k]] = pushed[k] /\ Active(u)
    BY DEF Reading, Active, InUse, QueueInv, PopInv, ReadInv
  <2>2. k \in 1 .. Size
    BY <2>1, <1>h DEF HeldOK, InUse, QueueInv, PopInv, ClaimInv
  <2>3. pushed[k] \in Item
    BY <2>2 DEF InUse, TypeOK, Size
  <2> QED BY <1>b, <2>1, <2>3, MPMCQAssumption DEF Item
<1>f. \A u \in Thread : u # t /\ Active(u) => claim[u] # claim[t]
  BY <1>a DEF InUse, QueueInv, PopInv, ClaimInv, Active
<1>1. Size' = Size /\ Held' = Held \ {k}
  <2>1. Size' = Size
    BY <1>a DEF Size
  <2>2. \A i : i \in Held' => i \in Held /\ i # k
    BY <1>a, <1>b, <1>f, <1>h, <2>1 DEF Held, HeldOK, Active
  <2>3. \A i : i \in Held /\ i # k => i \in Held'
    BY <1>a, <1>b, <1>h, <2>1 DEF Held, HeldOK, Active
  <2> QED BY <2>1, <2>2, <2>3
<1>2. TypeOK'
  <2>1. pc' \in [Thread -> Place]
    BY DEF PopFree, Goto, InUse, TypeOK, Place
  <2>2. live' \subseteq Node /\ next' \in [Node -> Node \cup {NULL}]
    BY <1>b, PoolFreeType DEF InUse
  <2> QED BY <1>a, <2>1, <2>2 DEF InUse, TypeOK, Destroyed
<1>3. SingleInv'
  BY <1>a DEF InUse, SingleInv, Preparing
<1>4. CountInv'
  BY <1>a, CountSame DEF InUse, Preparing
<1>5. EndInv' /\ ~Destroyed'
  BY <1>a DEF InUse, EndInv, Destroyed
<1>6. ChainInv(at)'
  <2>1. \A i \in taken .. Size : i # k
    BY <1>b, <1>h DEF HeldOK
  <2>2. \A i \in taken .. Size : next'[at[i]] = next[at[i]]
    BY <2>1, <1>c, <1>d, <1>h DEF HeldOK
  <2> HIDE DEF k
  <2>3. Size \in taken .. Size
    BY <1>h DEF HeldOK
  <2>4. \A i \in taken .. Size - 1 : i \in taken .. Size
    BY <1>h DEF HeldOK
  <2> QED BY <1>a, <1>1, <2>2, <2>3, <2>4 DEF InUse, QueueInv, ChainInv
<1>7. LiveInv(at)'
  <2>1. {node[u] : u \in {u \in Thread : Preparing(u)}}'
          = {node[u] : u \in {u \in Thread : Preparing(u)}}
    BY <1>a DEF Preparing
  <2>2. \A u \in Thread : Preparing(u) => node[u] # at[k]
    BY <1>b DEF InUse, QueueInv, PushInv, PrepareInv
  <2> HIDE DEF k
  <2> QED BY <1>c, <1>d, <1>1, <2>1, <2>2 DEF InUse, QueueInv, LiveInv
<1>8. PushInv(at)'
  <2>1. PrepareInv(at)'
    BY <1>a, <1>b, <1>d, <1>1 DEF InUse, QueueInv, PushInv, PrepareInv, Preparing
  <2>2. \A i \in taken .. Size - 1 : next'[at[i]] = next[at[i]]
    BY <1>b, <1>c, <1>d, <1>h DEF HeldOK
  <2> QED BY <1>a, <1>1, <2>1, <2>2 DEF InUse, QueueInv, PushInv, LinkInv
<1>9. PopInv(at)'
  <2>1. TailInv(at)'
    <3>1. next'[at[taken]] = next[at[taken]]
      BY <1>b, <1>c, <1>d, <1>h DEF HeldOK
    <3> QED BY <1>a, <1>1, <3>1 DEF InUse, QueueInv, PopInv, TailInv
  <2>2. ClaimInv(at)'
    BY <1>a DEF InUse, QueueInv, PopInv, ClaimInv, Active
  <2>3. ReadInv(at)'
    BY <1>a, <1>1, <1>e DEF InUse, QueueInv, PopInv, ReadInv, Reading
  <2> QED BY <2>1, <2>2, <2>3 DEF PopInv
<1> QED BY <1>2, <1>3, <1>4, <1>5, <1>6, <1>7, <1>8, <1>9 DEF InUse, QueueInv

-----------------------------------------------------------------------------
(* Push. *)

\* A block that was free is in no position and belongs to no other push.
LEMMA PushAllocStep ==
  ASSUME NEW at, InUse(at), NEW t \in Thread, PushAlloc(t)
  PROVE  InUse(at)'
<1>h. HeldOK(at)
  BY HeldFacts
<1>a. PICK n \in Node \ live :
        /\ live' = live \cup {n}
        /\ data' = [data EXCEPT ![n] = allocs + 1]
        /\ next' = [next EXCEPT ![n] = NULL]
        /\ node' = [node EXCEPT ![t] = n]
  BY DEF PushAlloc
<1>b. /\ \A u \in Thread : u # t => pc'[u] = pc[u] /\ node'[u] = node[u]
      /\ pc[t] = "idle" /\ node'[t] = n /\ Preparing(t)' /\ pc'[t] # "storeHead"
      /\ UNCHANGED <<head, tail, prev, pushed, cmp, nxt, got, taken, claim>>
  BY <1>a DEF PushAlloc, Goto, popVars, InUse, TypeOK, Preparing
<1>c. allocs \in Nat /\ allocs < MaxPush /\ allocs' = allocs + 1 /\ allocs + 1 \in Item
  BY <1>h DEF PushAlloc, InUse, TypeOK, Item, HeldOK
<1>d. /\ \A m \in Node : m # n => data'[m] = data[m] /\ next'[m] = next[m]
      /\ data'[n] = allocs + 1 /\ next'[n] = NULL
  BY <1>a DEF InUse, TypeOK
<1>e. /\ \A i \in Held : at[i] # n
      /\ \A u \in Thread : Preparing(u) => node[u] # n
  BY <1>a, <1>h DEF HeldOK
<1>f. \A u \in Thread : Active(u)' <=> Active(u)
  BY <1>b DEF Active, Preparing
<1>1. Held' = Held /\ Size' = Size
  BY <1>b, <1>f, HeldSame
<1>2. TypeOK'
  <2>1. pc' \in [Thread -> Place]
    BY DEF PushAlloc, Goto, InUse, TypeOK, Place
  <2>2. data' \in [Node -> Item \cup {NULL}] /\ next' \in [Node -> Node \cup {NULL}]
    BY <1>a, <1>c DEF InUse, TypeOK
  <2>3. live' \subseteq Node /\ node' \in [Thread -> Node \cup {NULL}]
    BY <1>a DEF InUse, TypeOK
  <2>4. allocs' \in 0 .. MaxPush
    BY <1>c, <1>h DEF HeldOK
  <2> QED BY <1>b, <2>1, <2>2, <2>3, <2>4 DEF InUse, TypeOK, Destroyed
<1>3. SingleInv'
  BY <1>b DEF PushAlloc, Goto, InUse, TypeOK, SingleInv, Preparing
<1>4. CountInv'
  <2> DEFINE S == {u \in Thread : Preparing(u)}
  <2>1. S' = S \cup {t}
    BY <1>b DEF Preparing
  <2>2. t \notin S
    BY <1>b DEF Preparing
  <2>3. IsFiniteSet(S) /\ allocs = Size + Cardinality(S) /\ Cardinality(S) \in Nat
    BY FS_CardinalityType DEF InUse, CountInv
  <2>4. IsFiniteSet(S \cup {t}) /\ Cardinality(S \cup {t}) = Cardinality(S) + 1
    BY <2>2, <2>3, FS_AddElement
  <2> HIDE DEF S
  <2>5. IsFiniteSet(S') /\ allocs' = Size' + Cardinality(S')
    BY <1>c, <1>h, <1>1, <2>1, <2>3, <2>4 DEF HeldOK
  <2> QED BY <2>5 DEF CountInv, S
<1>5. EndInv' /\ ~Destroyed'
  BY <1>b DEF InUse, EndInv, Destroyed, Preparing
<1>6. ChainInv(at)'
  <2>1. \A i \in taken .. Size : next'[at[i]] = next[at[i]] /\ data'[at[i]] = data[at[i]]
    BY <1>d, <1>e, <1>h DEF HeldOK
  <2>2. Size \in taken .. Size /\ \A i \in taken .. Size - 1 : i \in taken .. Size
    BY <1>h DEF HeldOK
  <2>3. \A i \in taken + 1 .. Size : i \in taken .. Size
    BY <1>h DEF HeldOK
  <2> QED BY <1>b, <1>1, <2>1, <2>2, <2>3 DEF InUse, QueueInv, ChainInv
<1>7. LiveInv(at)'
  <2>1. {node[u] : u \in {u \in Thread : Preparing(u)}}'
          = {node[u] : u \in {u \in Thread : Preparing(u)}} \cup {n}
    BY <1>b DEF Preparing
  <2> QED BY <1>a, <1>1, <2>1 DEF InUse, QueueInv, LiveInv
<1>8. PushInv(at)'
  <2>1. PrepareInv(at)'
    BY <1>b, <1>c, <1>d, <1>e, <1>1
    DEF InUse, QueueInv, PushInv, PrepareInv, Preparing
  <2>2. \A i \in taken .. Size - 1 : next'[at[i]] = next[at[i]]
    BY <1>d, <1>e, <1>h DEF HeldOK
  <2>3. LinkInv(at)'
    BY <1>b, <1>1, <2>2 DEF InUse, QueueInv, PushInv, LinkInv, Preparing
  <2> QED BY <1>b, <2>1, <2>3 DEF InUse, QueueInv, PushInv
<1>9. PopInv(at)'
  <2>1. TailInv(at)'
    <3>1. next'[at[taken]] = next[at[taken]]
      BY <1>d, <1>e, <1>h DEF HeldOK
    <3> QED BY <1>b, <1>1, <3>1 DEF InUse, QueueInv, PopInv, TailInv, Preparing
  <2>2. ClaimInv(at)'
    BY <1>b, <1>f DEF InUse, QueueInv, PopInv, ClaimInv
  <2>3. ReadInv(at)'
    BY <1>b, <1>d, <1>e, <1>h, <1>1
    DEF HeldOK, InUse, QueueInv, PopInv, ReadInv, Reading, Preparing
  <2> QED BY <2>1, <2>2, <2>3 DEF PopInv
<1> QED BY <1>2, <1>3, <1>4, <1>5, <1>6, <1>7, <1>8, <1>9 DEF InUse, QueueInv

\* push_single reads the head, which nobody else changes.
LEMMA PushLoadHeadStep ==
  ASSUME NEW at, InUse(at), NEW t \in Thread, PushLoadHead(t)
  PROVE  InUse(at)'
<1> USE DEF PushLoadHead, Goto, sharedVars, popVars
<1>1. Held' = Held /\ Size' = Size
  BY HeldSame DEF InUse, TypeOK, Active
<1>2. TypeOK'
  BY DEF InUse, TypeOK, Place, Destroyed
<1>3. SingleInv'
  BY DEF InUse, SingleInv, TypeOK, Preparing
<1>4. CountInv'
  BY CountSame DEF InUse, TypeOK, Preparing
<1>5. EndInv' /\ ~Destroyed'
  BY DEF InUse, EndInv, Destroyed, TypeOK
<1>6. ChainInv(at)' /\ LiveInv(at)'
  <2>1. ChainInv(at)'
    BY <1>1 DEF InUse, QueueInv, ChainInv
  <2>2. LiveInv(at)'
    BY <1>1, LiveSame DEF InUse, QueueInv, TypeOK, Preparing
  <2> QED BY <2>1, <2>2
<1>7. PushInv(at)'
  <2>1. \A u \in Thread : u # t => pc'[u] = pc[u] /\ prev'[u] = prev[u]
    BY DEF InUse, TypeOK
  <2>2. pc'[t] = "storeHead" /\ prev'[t] = head /\ node' = node
        /\ next' = next /\ data' = data /\ taken' = taken
    BY DEF InUse, TypeOK
  <2> QED BY <1>1, <2>1, <2>2 DEF InUse, QueueInv, PushInv, PrepareInv, LinkInv, Preparing
<1>8. PopInv(at)'
  BY <1>1 DEF InUse, QueueInv, ChainInv, PopInv, TailInv, ClaimInv, ReadInv, TypeOK, Active, Reading
<1> QED BY <1>2, <1>3, <1>4, <1>5, <1>6, <1>7, <1>8 DEF InUse, QueueInv


\* The block of a push becomes the head, at the next position.
LEMMA PushHeadStep ==
  ASSUME NEW at, InUse(at), NEW t \in Thread, Preparing(t),
         pc[t] # "loadHead",
         head' = node[t], prev' = [prev EXCEPT ![t] = head],
         pushed' = Append(pushed, data[node[t]]),
         pc' = [pc EXCEPT ![t] = "link"],
         UNCHANGED <<tail, next, data, live, node, allocs, popVars>>,
         NEW b, b = [at EXCEPT ![Size + 1] = node[t]]
  PROVE  InUse(b)'
<1>h. HeldOK(at)
  BY HeldFacts
<1>a. /\ \A u \in Thread : u # t => pc'[u] = pc[u] /\ prev'[u] = prev[u]
      /\ pc'[t] = "link" /\ prev'[t] = head
      /\ UNCHANGED <<cmp, nxt, got, taken, claim>>
  BY DEF popVars, InUse, TypeOK
<1>b. /\ node[t] \in Node /\ data[node[t]] \in Item /\ next[node[t]] = NULL
      /\ \A i \in Held : at[i] # node[t]
      /\ \A u \in Thread : u # t /\ Preparing(u) => node[u] # node[t]
  BY DEF InUse, QueueInv, PushInv, PrepareInv
<1>c. CountInv' /\ Size' = Size + 1 /\ Size + 1 <= MaxPush
  BY <1>b, PushEnds DEF InUse
<1>d. /\ b \in [0 .. MaxPush -> Node]
      /\ b[Size + 1] = node[t]
      /\ \A i \in 0 .. Size : b[i] = at[i]
  BY <1>b, <1>c, <1>h DEF InUse, QueueInv, HeldOK
<1>e. \A i \in 1 .. Size : pushed'[i] = pushed[i]
  BY DEF InUse, TypeOK, Size
<1>f. pushed'[Size + 1] = data[node[t]]
  BY DEF InUse, TypeOK, Size
<1>g. \A u \in Thread : (Active(u)' <=> Active(u)) /\ (Reading(u)' <=> Reading(u))
  BY <1>a DEF Active, Reading, Preparing
<1>i. Size + 1 \notin Held
  BY <1>h DEF HeldOK
<1>j. \A i \in Held : b[i] = at[i]
  BY <1>d, <1>h DEF HeldOK
<1>1. Held' = Held \cup {Size + 1}
  <2>1. \A i : i \in Held' => i \in Held \/ i = Size + 1
    BY <1>a, <1>c, <1>g, <1>h DEF Held, HeldOK
  <2>2. \A i : i \in Held \/ i = Size + 1 => i \in Held'
    BY <1>a, <1>c, <1>g, <1>h DEF Held, HeldOK
  <2> QED BY <2>1, <2>2
<1>2. TypeOK'
  <2>1. pc' \in [Thread -> Place]
    BY DEF InUse, TypeOK, Place
  <2>2. pushed' \in Seq(Item) /\ Len(pushed') <= MaxPush
    BY <1>b, <1>c DEF InUse, TypeOK, Size
  <2>3. prev' \in [Thread -> Node \cup {NULL}] /\ head' \in Node
    BY <1>b DEF InUse, TypeOK
  <2>4. tail.node # NULL
    BY DEF InUse, TypeOK
  <2> QED BY <1>a, <2>1, <2>2, <2>3, <2>4 DEF InUse, TypeOK, Destroyed
<1>3. SingleInv'
  BY <1>a DEF InUse, SingleInv, Preparing
<1>5. EndInv' /\ ~Destroyed'
  BY <1>a, <1>b, MPMCQAssumption DEF InUse, EndInv, Destroyed, Preparing
<1>6. ChainInv(b)'
  <2>1. \A i, j \in Held' : b[i] = b[j] => i = j
    BY <1>b, <1>d, <1>i, <1>j, <1>1 DEF InUse, QueueInv, ChainInv
  <2>2. \A i \in taken .. Size : next[b[i]] \in {b[i + 1], NULL}
    <3> SUFFICES ASSUME NEW i \in taken .. Size PROVE next[b[i]] \in {b[i + 1], NULL}
      OBVIOUS
    <3>1. CASE i = Size
      BY <3>1, <1>d, <1>h DEF HeldOK, InUse, QueueInv, ChainInv
    <3>2. CASE i # Size
      <4>1. i \in taken .. Size - 1 /\ i \in 0 .. Size /\ i + 1 \in 0 .. Size
        BY <3>2, <1>h DEF HeldOK
      <4> QED BY <4>1, <1>d DEF InUse, QueueInv, ChainInv
    <3> QED BY <3>1, <3>2
  <2>3. \A i \in taken + 1 .. Size + 1 : data[b[i]] = pushed'[i]
    <3> SUFFICES ASSUME NEW i \in taken + 1 .. Size + 1 PROVE data[b[i]] = pushed'[i]
      OBVIOUS
    <3>1. CASE i = Size + 1
      BY <3>1, <1>d, <1>f
    <3>2. CASE i # Size + 1
      <4>1. i \in taken + 1 .. Size /\ i \in 0 .. Size /\ i \in 1 .. Size
        <5>1. taken \in Nat /\ Size \in Nat
          BY <1>h DEF HeldOK
        <5> QED BY <3>2, <5>1
      <4> QED BY <4>1, <1>d, <1>e DEF InUse, QueueInv, ChainInv
    <3> QED BY <3>1, <3>2
  <2>4. (Size + 1) - 1 = Size /\ b[taken] = at[taken] /\ taken <= Size + 1
    BY <1>d, <1>h DEF HeldOK
  <2> QED
    BY <1>a, <1>b, <1>c, <1>d, <2>1, <2>2, <2>3, <2>4 DEF InUse, QueueInv, ChainInv
<1>7. LiveInv(b)'
  <2>1. {b[i] : i \in Held'} = {at[i] : i \in Held} \cup {node[t]}
    BY <1>d, <1>j, <1>1
  <2>2. {node[u] : u \in {u \in Thread : Preparing(u)}}
          = {node[u] : u \in {u \in Thread : Preparing(u)}}' \cup {node[t]}
    BY <1>a DEF Preparing
  <2> QED BY <2>1, <2>2 DEF InUse, QueueInv, LiveInv
<1>8. PushInv(b)'
  <2>1. PrepareInv(b)'
    BY <1>a, <1>b, <1>d, <1>j, <1>1
    DEF InUse, QueueInv, PushInv, PrepareInv, Preparing
  <2>2. ASSUME NEW u \in Thread, pc'[u] = "link"
        PROVE  \E i \in taken .. Size :
                 prev'[u] = b[i] /\ node[u] = b[i + 1] /\ next[b[i]] = NULL
    <3>1. CASE u = t
      <4>1. Size \in taken .. Size /\ Size \in 0 .. Size
        BY <1>h DEF HeldOK
      <4>2. prev'[u] = b[Size] /\ node[u] = b[Size + 1] /\ next[b[Size]] = NULL
        BY <3>1, <4>1, <1>a, <1>d DEF InUse, QueueInv, ChainInv
      <4> QED BY <4>1, <4>2
    <3>2. CASE u # t
      <4>1. PICK i \in taken .. Size - 1 :
              prev[u] = at[i] /\ node[u] = at[i + 1] /\ next[at[i]] = NULL
        BY <2>2, <3>2, <1>a DEF InUse, QueueInv, PushInv, LinkInv
      <4>2. i \in 0 .. Size /\ i + 1 \in 0 .. Size /\ i \in taken .. Size
        BY <1>h DEF HeldOK
      <4> QED BY <3>2, <4>1, <4>2, <1>a, <1>d
    <3> QED BY <3>1, <3>2
  <2>3. ASSUME NEW u \in Thread, u # t, pc'[u] = "link" PROVE prev'[u] # prev'[t]
    <3>1. PICK i \in taken .. Size - 1 : prev[u] = at[i]
      BY <2>3, <1>a DEF InUse, QueueInv, PushInv, LinkInv
    <3>2. i \in Held /\ Size \in Held /\ i # Size
      BY <1>h DEF HeldOK
    <3> QED BY <2>3, <3>1, <3>2, <1>a DEF InUse, QueueInv, ChainInv
  <2>4. LinkInv(b)'
    <3>1. (Size + 1) - 1 = Size
      BY <1>h DEF HeldOK
    <3> QED BY <2>2, <2>3, <3>1, <1>a, <1>c DEF InUse, QueueInv, PushInv, LinkInv
  <2>5. ASSUME NEW u \in Thread, pc'[u] = "storeHead" PROVE FALSE
    <3>1. u # t /\ pc[u] = "storeHead" /\ u \in Pusher /\ Single
      BY <2>5, <1>a DEF InUse, SingleInv, Preparing
    <3>2. t \in Pusher
      BY DEF InUse, SingleInv
    <3> QED BY <3>1, <3>2, MPMCQAssumption
  <2> QED BY <2>1, <2>4, <2>5 DEF PushInv
<1>9. PopInv(b)'
  <2>1. TailInv(b)'
    <3>1. b[taken] = at[taken]
          /\ (taken < Size => b[taken + 1] = at[taken + 1] /\ taken < Size + 1)
      BY <1>d, <1>h DEF HeldOK
    <3> QED BY <3>1, <1>a, <1>c DEF InUse, QueueInv, PopInv, TailInv
  <2>2. ClaimInv(b)'
    BY <1>a, <1>g, <1>h, <1>j DEF HeldOK, InUse, QueueInv, PopInv, ClaimInv
  <2>3. ReadInv(b)'
    <3>1. \A u \in Thread : Active(u) => claim[u] \in 1 .. Size
      BY <1>h DEF HeldOK, InUse, QueueInv, PopInv, ClaimInv
    <3>2. \A u \in Thread : Reading(u) => Active(u)
      BY DEF Reading, Active
    <3>3. \A u \in Thread : pc[u] \in {"clear", "spin"} => Active(u)
      BY DEF Active
    <3>4. \A u \in Thread : pc'[u] \in {"clear", "spin"} => pc[u] \in {"clear", "spin"}
      BY <1>a
    <3>5. ASSUME NEW u \in Thread, Reading(u)
          PROVE  /\ nxt[u] = b[claim[u]] /\ claim[u] \in Held'
                 /\ data[b[claim[u]]] = pushed'[claim[u]]
      BY <3>5, <3>1, <3>2, <1>e, <1>j, <1>1 DEF InUse, QueueInv, PopInv, ReadInv
    <3>6. ASSUME NEW u \in Thread, pc[u] \in {"clear", "spin"}
          PROVE  got[u] = pushed'[claim[u]]
      BY <3>6, <3>1, <3>3, <1>e DEF InUse, QueueInv, PopInv, ReadInv
    <3>7. ASSUME NEW u \in Thread, Reading(u)'
          PROVE  (nxt[u] = b[claim[u]] /\ data[b[claim[u]]] = pushed[claim[u]]
                   /\ claim[u] \in Held)'
      BY <3>5, <3>7, <1>a, <1>g
    <3>8. ASSUME NEW u \in Thread, pc'[u] \in {"clear", "spin"}
          PROVE  got'[u] = pushed'[claim'[u]]
      BY <3>4, <3>6, <3>8, <1>a
    <3> QED
      BY <3>7, <3>8 DEF ReadInv
  <2> QED BY <2>1, <2>2, <2>3 DEF PopInv
<1>10. QueueInv(b)'
  BY <1>d, <1>6, <1>7, <1>8, <1>9 DEF QueueInv
<1> QED BY <1>c, <1>2, <1>3, <1>5, <1>10 DEF InUse

\* A missing link is filled in with the block of the next position.
LEMMA PushLinkStep ==
  ASSUME NEW at, InUse(at), NEW t \in Thread, PushLink(t)
  PROVE  InUse(at)'
<1>h. HeldOK(at)
  BY HeldFacts
<1>a. /\ \A u \in Thread : u # t => pc'[u] = pc[u]
      /\ pc[t] = "link" /\ pc'[t] = "idle"
      /\ UNCHANGED <<head, tail, data, live, node, prev, allocs, pushed, cmp,
                     nxt, got, taken, claim>>
  BY DEF PushLink, Goto, pushVars, popVars, InUse, TypeOK
<1>b. PICK k \in taken .. Size - 1 :
        prev[t] = at[k] /\ node[t] = at[k + 1] /\ next[at[k]] = NULL
  BY <1>a DEF InUse, QueueInv, PushInv, LinkInv
<1>c. k \in Held /\ at[k] \in Node /\ at[k + 1] \in Node /\ Size \in Held /\ k # Size
  BY <1>b, <1>h DEF HeldOK
<1>d. \A i \in Held : i # k => at[i] # at[k]
  BY <1>c DEF InUse, QueueInv, ChainInv
<1>e. next'[at[k]] = at[k + 1] /\ \A n \in Node : n # at[k] => next'[n] = next[n]
  BY <1>b, <1>c DEF PushLink, InUse, TypeOK
<1>1. Held' = Held /\ Size' = Size
  BY <1>a, HeldSame DEF Active
<1>2. TypeOK'
  <2>1. pc' \in [Thread -> Place]
    BY DEF PushLink, Goto, InUse, TypeOK, Place
  <2>2. next' \in [Node -> Node \cup {NULL}]
    BY <1>b, <1>c DEF PushLink, InUse, TypeOK
  <2> QED BY <1>a, <2>1, <2>2 DEF InUse, TypeOK, Destroyed
<1>3. SingleInv'
  BY <1>a DEF InUse, SingleInv, Preparing
<1>4. CountInv'
  BY <1>a, CountSame DEF InUse, Preparing
<1>5. EndInv' /\ ~Destroyed'
  BY <1>a DEF InUse, EndInv, Destroyed
<1>6. ChainInv(at)'
  <2>1. \A i \in taken .. Size - 1 : next'[at[i]] \in {at[i + 1], NULL}
    BY <1>d, <1>e, <1>h DEF HeldOK, InUse, QueueInv, ChainInv
  <2>2. next'[head] = NULL
    BY <1>c, <1>d, <1>e, <1>h DEF HeldOK, InUse, QueueInv, ChainInv
  <2> QED BY <1>a, <1>1, <2>1, <2>2 DEF InUse, QueueInv, ChainInv
<1>7. LiveInv(at)'
  BY <1>a, <1>1, LiveSame DEF InUse, QueueInv, Preparing
<1>8. PushInv(at)'
  <2>1. PrepareInv(at)'
    BY <1>a, <1>c, <1>e, <1>1 DEF InUse, QueueInv, PushInv, PrepareInv, Preparing
  <2>2. LinkInv(at)'
    <3>1. ASSUME NEW u \in Thread, pc'[u] = "link"
          PROVE  \E i \in taken .. Size - 1 :
                   prev[u] = at[i] /\ node[u] = at[i + 1] /\ next'[at[i]] = NULL
      <4>1. u # t /\ pc[u] = "link"
        BY <3>1, <1>a
      <4>2. PICK i \in taken .. Size - 1 :
              prev[u] = at[i] /\ node[u] = at[i + 1] /\ next[at[i]] = NULL
        BY <4>1 DEF InUse, QueueInv, PushInv, LinkInv
      <4>3. prev[u] # prev[t]
        BY <4>1, <1>a DEF InUse, QueueInv, PushInv, LinkInv
      <4>4. at[i] # at[k] /\ at[i] \in Node
        BY <4>2, <4>3, <1>b, <1>h DEF HeldOK
      <4> QED BY <4>2, <4>4, <1>e
    <3> QED BY <3>1, <1>a, <1>1 DEF InUse, QueueInv, PushInv, LinkInv
  <2> QED BY <1>a, <2>1, <2>2 DEF InUse, QueueInv, PushInv
<1>9. PopInv(at)'
  <2>1. TailInv(at)'
    <3>1. next[at[taken]] # NULL => next'[at[taken]] = next[at[taken]]
      BY <1>b, <1>e, <1>h DEF HeldOK
    <3>2. taken < Size => at[taken + 1] # NULL
      BY <1>h, MPMCQAssumption DEF HeldOK
    <3> QED BY <1>a, <1>1, <3>1, <3>2 DEF InUse, QueueInv, PopInv, TailInv
  <2>2. ClaimInv(at)'
    BY <1>a DEF InUse, QueueInv, PopInv, ClaimInv, Active
  <2>3. ReadInv(at)'
    BY <1>a, <1>1 DEF InUse, QueueInv, PopInv, ReadInv, Reading
  <2> QED BY <2>1, <2>2, <2>3 DEF PopInv
<1> QED BY <1>2, <1>3, <1>4, <1>5, <1>6, <1>7, <1>8, <1>9 DEF InUse, QueueInv

\* An exchange, or the store of push_single after its load, is such a step.
LEMMA PushExchangeStep ==
  ASSUME NEW at, InUse(at), NEW t \in Thread,
         PushExchange(t) \/ PushStoreHead(t)
  PROVE  \E b \in [0 .. MaxPush -> Node] : InUse(b)'
<1>1. /\ Preparing(t) /\ pc[t] # "loadHead"
      /\ head' = node[t] /\ pushed' = Append(pushed, data[node[t]])
      /\ pc' = [pc EXCEPT ![t] = "link"]
      /\ UNCHANGED <<tail, next, data, live, node, allocs, popVars>>
  BY DEF PushExchange, PushStoreHead, Goto, Preparing
<1>2. prev' = [prev EXCEPT ![t] = head]
  <2>1. CASE PushExchange(t)
    BY <2>1 DEF PushExchange
  <2>2. CASE PushStoreHead(t)
    <3>1. prev' = prev /\ prev[t] = head /\ prev \in [Thread -> Node \cup {NULL}]
      BY <2>2 DEF PushStoreHead, InUse, TypeOK, QueueInv, PushInv
    <3> QED BY <3>1
  <2> QED BY <2>1, <2>2
<1>3. PICK b : b = [at EXCEPT ![Size + 1] = node[t]]
  OBVIOUS
<1>4. InUse(b)'
  BY <1>1, <1>2, <1>3, PushHeadStep
<1> QED BY <1>4 DEF InUse, QueueInv

-----------------------------------------------------------------------------
(* Destruction. *)

\* Distinct positions have distinct blocks, so there are as many of both.
LEMMA BlocksOf ==
  ASSUME NEW at, NEW m \in Nat, NEW n \in Nat, m <= n,
         \A i, j \in m .. n : at[i] = at[j] => i = j
  PROVE  /\ IsFiniteSet({at[i] : i \in m .. n})
         /\ Cardinality({at[i] : i \in m .. n}) = n - m + 1
<1> DEFINE S == {at[i] : i \in m .. n}
           f == [i \in m .. n |-> at[i]]
<1>1. f \in Bijection(m .. n, S)
  BY DEF Bijection, Injection, Surjection, IsInjective
<1>2. IsFiniteSet(m .. n) /\ Cardinality(m .. n) = n - m + 1
  BY FS_Interval
<1>3. ExistsBijection(m .. n, S)
  BY <1>1 DEF ExistsBijection
<1> HIDE DEF S, f
<1>4. IsFiniteSet(S) /\ Cardinality(S) = Cardinality(m .. n)
  BY <1>2, <1>3, FS_Bijection
<1> QED BY <1>2, <1>4 DEF S

\* When every call has returned, the blocks are those of the list.
LEMMA JoinedBlocks ==
  ASSUME NEW at, InUse(at), Joined
  PROVE  /\ IsFiniteSet(live) /\ Cardinality(live) = Size - taken + 1
         /\ tail.node \in live
<1>h. HeldOK(at)
  BY HeldFacts
<1>1. Held = taken .. Size
  BY DEF Held, Active, Joined
<1>2. live = {at[i] : i \in taken .. Size}
  BY <1>1 DEF InUse, QueueInv, LiveInv, Preparing, Joined
<1>3. \A i, j \in taken .. Size : at[i] = at[j] => i = j
  BY <1>1 DEF InUse, QueueInv, ChainInv
<1>4. taken \in Nat /\ Size \in Nat /\ taken <= Size
  BY <1>h DEF HeldOK
<1>5. /\ IsFiniteSet({at[i] : i \in taken .. Size})
      /\ Cardinality({at[i] : i \in taken .. Size}) = Size - taken + 1
  BY <1>3, <1>4, BlocksOf
<1>6. tail.node \in live
  BY <1>2, <1>4 DEF InUse, QueueInv, ChainInv
<1> QED BY <1>2, <1>5, <1>6

\* Destruction frees the stub and leaves the blocks of the items not taken.
LEMMA DestroyStep ==
  ASSUME NEW at, InUse(at), Destroy
  PROVE  Gone'
<1>a. /\ Joined /\ PoolFree(tail.node) /\ head' = NULL
      /\ tail' = [tail EXCEPT !.node = NULL]
      /\ pc' = [t \in Thread |-> "ended"]
      /\ UNCHANGED <<data, node, prev, allocs, pushed, cmp, nxt, got, taken, claim>>
  BY DEF Destroy, pushVars, popVars
<1>b. /\ IsFiniteSet(live) /\ Cardinality(live) = Size - taken + 1
      /\ tail.node \in live
  BY <1>a, JoinedBlocks
<1>1. Destroyed'
  BY <1>a DEF Destroyed
<1>2. TypeOK'
  <2>1. tail.node \in Node
    BY <1>b DEF InUse, TypeOK
  <2>2. live' \subseteq Node /\ next' \in [Node -> Node \cup {NULL}]
    BY <1>a, <2>1, PoolFreeType DEF InUse
  <2>3. tail' \in [aba : Nat, node : Node \cup {NULL}]
    BY <1>a DEF InUse, TypeOK
  <2>4. pc' \in [Thread -> Place]
    BY <1>a DEF Place
  <2> QED BY <1>a, <1>1, <2>2, <2>3, <2>4 DEF InUse, TypeOK
<1>3. SingleInv'
  BY <1>a DEF SingleInv, Preparing
<1>4. CountInv'
  BY <1>a, CountSame DEF InUse, Preparing, Joined
<1>5. EndInv'
  <2>1. live' = live \ {tail.node}
    BY <1>a DEF PoolFree
  <2>2. IsFiniteSet(live') /\ Cardinality(live') = Cardinality(live) - 1
    BY <1>b, <2>1, FS_RemoveElement
  <2>3. Size' = Size /\ taken' = taken /\ Size \in Nat /\ taken \in Nat
    BY <1>a DEF Size, InUse, TypeOK
  <2>4. Cardinality(live') = Size' - taken'
    BY <1>b, <2>2, <2>3
  <2> QED BY <1>a, <1>1, <2>2, <2>4 DEF EndInv
<1> QED BY <1>1, <1>2, <1>3, <1>4, <1>5 DEF Gone

\* Nothing runs once the queue is gone.
LEMMA GoneStays ==
  ASSUME Gone, [Next]_vars
  PROVE  Gone' /\ UNCHANGED vars
<1>1. \A t \in Thread : pc[t] = "ended"
  BY DEF Gone, EndInv
<1>2. \A t \in Thread : ~Start(t) /\ ~Push(t) /\ ~Pop(t)
  BY <1>1 DEF Start, Push, Pop, PushAlloc, PushExchange, PushLoadHead,
     PushStoreHead, PushLink, PopLoadAba, PopLoadNode, PopLoadNext, PopCas,
     PopLoadData, PopClear, PopFree
<1>3. ~Destroy
  BY <1>1, MPMCQAssumption DEF Destroy, Joined
<1>4. UNCHANGED vars
  BY <1>2, <1>3 DEF Next, Exit
<1>5. Gone'
  <2>1. /\ UNCHANGED <<head, tail, next, data, live, pc, node, prev, allocs>>
        /\ UNCHANGED <<pushed, cmp, nxt, got, taken, claim>>
    BY <1>4 DEF vars, sharedVars, pushVars, popVars
  <2>2. TypeOK' /\ Destroyed' /\ SingleInv'
    BY <2>1 DEF Gone, Destroyed, TypeOK, SingleInv, Preparing
  <2>3. CountInv'
    BY <2>1, CountSame DEF Gone, Preparing
  <2>4. EndInv'
    BY <2>1 DEF Gone, EndInv, Size, Destroyed
  <2> QED BY <2>2, <2>3, <2>4 DEF Gone
<1> QED BY <1>4, <1>5

-----------------------------------------------------------------------------
(* The invariant. *)

\* Nor does the invariant change when nothing does.
LEMMA InUseStutter ==
  ASSUME NEW at, InUse(at), UNCHANGED vars
  PROVE  InUse(at)'
<1>1. /\ UNCHANGED <<head, tail, next, data, live, pc, node, prev, allocs>>
      /\ UNCHANGED <<pushed, cmp, nxt, got, taken, claim>>
  BY DEF vars, sharedVars, pushVars, popVars
<1>2. Held' = Held /\ Size' = Size
  BY <1>1, HeldSame DEF Active
<1>3. TypeOK' /\ ~Destroyed' /\ SingleInv'
  BY <1>1 DEF InUse, Destroyed, TypeOK, SingleInv, Preparing
<1>4. CountInv'
  BY <1>1, CountSame DEF InUse, Preparing
<1>5. EndInv'
  BY <1>1, <1>2 DEF InUse, EndInv, Destroyed
<1>6. LiveInv(at)'
  BY <1>1, <1>2, LiveSame DEF InUse, QueueInv, Preparing
<1>7. ChainInv(at)'
  BY <1>1, <1>2 DEF InUse, QueueInv, ChainInv
<1>8. PushInv(at)'
  BY <1>1, <1>2 DEF InUse, QueueInv, PushInv, PrepareInv, LinkInv, Preparing
<1>9. PopInv(at)'
  BY <1>1, <1>2 DEF InUse, QueueInv, PopInv, TailInv, ClaimInv, ReadInv,
     Active, Reading
<1> QED BY <1>3, <1>4, <1>5, <1>6, <1>7, <1>8, <1>9 DEF InUse, QueueInv

\* A step of a thread leaves the queue in use, with some function at.
LEMMA ThreadStep ==
  ASSUME NEW at, InUse(at), NEW t \in Thread, Start(t) \/ Push(t) \/ Pop(t)
  PROVE  \E b \in [0 .. MaxPush -> Node] : InUse(b)'
<1>1. CASE PushExchange(t) \/ PushStoreHead(t)
  BY <1>1, PushExchangeStep
<1>2. CASE ~(PushExchange(t) \/ PushStoreHead(t))
  <2>1. InUse(at)'
    BY <1>2, PushAllocStep, PushLoadHeadStep, PushLinkStep, PopLoadAbaStep,
       PopLoadNodeStep, PopLoadNextStep, PopCasStep, PopLoadDataStep,
       PopClearStep, PopFreeStep DEF Start, Push, Pop
  <2> QED BY <2>1 DEF InUse, QueueInv
<1> QED BY <1>1, <1>2

\* The empty queue has its stub at position 0.
LEMMA InitInUse == Init => IInv
<1> SUFFICES ASSUME Init PROVE IInv
  OBVIOUS
<1>1. PICK stub \in Node :
        /\ head = stub /\ tail = [aba |-> 0, node |-> stub]
        /\ next = [n \in Node |-> NULL] /\ data = [n \in Node |-> NULL]
        /\ live = {stub} /\ pc = [t \in Thread |-> "idle"]
        /\ node = [t \in Thread |-> NULL] /\ prev = [t \in Thread |-> NULL]
        /\ cmp = [t \in Thread |-> [aba |-> 0, node |-> stub]]
        /\ nxt = [t \in Thread |-> NULL] /\ got = [t \in Thread |-> NULL]
        /\ allocs = 0 /\ pushed = <<>> /\ taken = 0
        /\ claim = [t \in Thread |-> 0]
  BY DEF Init
<1>2. PICK at : at = [i \in 0 .. MaxPush |-> stub]
  OBVIOUS
<1>a. MaxPush \in Nat /\ at \in [0 .. MaxPush -> Node] /\ at[0] = stub
  BY <1>2, MPMCQAssumption
<1>b. Size = 0
  BY <1>1 DEF Size
<1>c. \A t \in Thread : ~Preparing(t) /\ ~Active(t) /\ ~Reading(t)
                        /\ pc[t] = "idle"
  BY <1>1 DEF Preparing, Active, Reading
<1>d. Held = {0}
  BY <1>1, <1>b, <1>c DEF Held
<1>3. TypeOK
  BY <1>1, <1>a, MPMCQAssumption DEF TypeOK, Place, Destroyed, Item
<1>4. SingleInv
  BY <1>c DEF SingleInv
<1>5. CountInv
  <2> DEFINE S == {t \in Thread : Preparing(t)}
  <2>1. S = {}
    BY <1>c
  <2> HIDE DEF S
  <2>2. Cardinality(S) = 0 /\ IsFiniteSet(S)
    BY <2>1, FS_EmptySet
  <2>3. allocs = Size + Cardinality(S)
    BY <1>1, <1>b, <2>2
  <2> QED BY <2>2, <2>3 DEF CountInv, S
<1>6. EndInv /\ ~Destroyed
  BY <1>1, <1>c, MPMCQAssumption DEF EndInv, Destroyed
<1>7. ChainInv(at)
  BY <1>1, <1>a, <1>b, <1>d DEF ChainInv
<1>8. LiveInv(at)
  BY <1>1, <1>a, <1>c, <1>d DEF LiveInv
<1>9. PushInv(at)
  BY <1>c DEF PushInv, PrepareInv, LinkInv
<1>10. PopInv(at)
  BY <1>c DEF PopInv, TailInv, ClaimInv, ReadInv
<1>11. InUse(at)
  BY <1>a, <1>3, <1>4, <1>5, <1>6, <1>7, <1>8, <1>9, <1>10 DEF InUse, QueueInv
<1> QED BY <1>a, <1>11 DEF IInv

\* IInv is an invariant of the queue, whatever the number of threads, blocks
\* and items.
THEOREM QueueInvariance == Spec => []IInv
<1>1. IInv /\ [Next]_vars => IInv'
  <2> SUFFICES ASSUME IInv, [Next]_vars PROVE IInv'
    OBVIOUS
  <2>1. CASE Gone
    BY <2>1, GoneStays DEF IInv
  <2>2. CASE ~Gone
    <3>1. PICK at \in [0 .. MaxPush -> Node] : InUse(at)
      BY <2>2 DEF IInv
    <3>2. CASE Destroy
      BY <3>1, <3>2, DestroyStep DEF IInv
    <3>3. CASE UNCHANGED vars
      BY <3>1, <3>3, InUseStutter DEF IInv
    <3>4. CASE \E t \in Thread : Start(t) \/ Push(t) \/ Pop(t)
      BY <3>1, <3>4, ThreadStep DEF IInv
    <3> QED BY <3>2, <3>3, <3>4 DEF Next, Exit
  <2> QED BY <2>1, <2>2
<1> QED BY <1>1, InitInUse, PTL DEF Spec

\* Every variable keeps its type; the tail is lost in destruction only.
THEOREM QueueTypes == Spec => []TypeOK
<1>1. IInv => TypeOK
  BY DEF IInv, Gone, InUse
<1> QED BY <1>1, QueueInvariance, PTL

\* The pop that wins the k-th compare-and-swap of mpmcq.c 76 returns the k-th
\* item pushed, whatever blocks were freed and given out again in between.
THEOREM PopsInOrder == Spec => []TakesInOrder
<1>1. IInv => TakesInOrder
  <2> SUFFICES ASSUME IInv, NEW t \in Thread, pc[t] \in {"clear", "spin"}
               PROVE  claim[t] <= Len(pushed) /\ got[t] = pushed[claim[t]]
    BY DEF TakesInOrder
  <2>1. ~Gone
    BY DEF Gone, EndInv
  <2>2. PICK at \in [0 .. MaxPush -> Node] : InUse(at)
    BY <2>1 DEF IInv
  <2>3. HeldOK(at)
    BY <2>2, HeldFacts
  <2>4. claim[t] \in 1 .. taken /\ got[t] = pushed[claim[t]]
    BY <2>2 DEF InUse, QueueInv, PopInv, ClaimInv, ReadInv, Active
  <2> QED BY <2>3, <2>4 DEF HeldOK, Size
<1> QED BY <1>1, QueueInvariance, PTL

\* The link of a push, the data a pop takes and clears and the old tail it
\* frees are in allocated blocks (mpmcq.c 37, 49, 77-89).
THEOREM QueueMemorySafe == Spec => []SafeAccess
<1>1. IInv => SafeAccess
  <2> SUFFICES ASSUME IInv, NEW t \in Thread
               PROVE  /\ pc[t] = "link" => prev[t] \in live
                      /\ pc[t] \in {"loadData", "clear"} => nxt[t] \in live
                      /\ pc[t] = "spin" => cmp[t].node \in live
    BY DEF SafeAccess
  <2>1. CASE Gone
    BY <2>1 DEF Gone, EndInv
  <2>2. CASE ~Gone
    <3>1. PICK at \in [0 .. MaxPush -> Node] : InUse(at)
      BY <2>2 DEF IInv
    <3>2. HeldOK(at)
      BY <3>1, HeldFacts
    <3>3. ASSUME pc[t] = "link" PROVE prev[t] \in live
      <4>1. PICK i \in taken .. Size - 1 : prev[t] = at[i]
        BY <3>1, <3>3 DEF InUse, QueueInv, PushInv, LinkInv
      <4> QED BY <3>2, <4>1 DEF HeldOK
    <3>4. ASSUME pc[t] \in {"loadData", "clear"} PROVE nxt[t] \in live
      <4>1. nxt[t] = at[claim[t]] /\ claim[t] \in Held
        BY <3>1, <3>4 DEF InUse, QueueInv, PopInv, ReadInv, Reading
      <4> QED BY <3>2, <4>1 DEF HeldOK
    <3>5. ASSUME pc[t] = "spin" PROVE cmp[t].node \in live
      <4>1. cmp[t].node = at[claim[t] - 1] /\ Active(t)
        BY <3>1, <3>5 DEF InUse, QueueInv, PopInv, ClaimInv, Active
      <4> QED BY <3>2, <4>1 DEF HeldOK
    <3> QED BY <3>3, <3>4, <3>5
  <2> QED BY <2>1, <2>2
<1> QED BY <1>1, QueueInvariance, PTL

\* Blocks are neither leaked nor freed twice (mpmcq.c 23-28, 89).
THEOREM QueueFreesAll == Spec => []NoLeak
<1>1. IInv => NoLeak
  <2> SUFFICES ASSUME IInv PROVE NoLeak
    OBVIOUS
  <2>1. CASE Gone
    <3>1. ~Joined
      BY <2>1, MPMCQAssumption DEF Gone, EndInv, Joined
    <3>2. Cardinality(live) = Len(pushed) - taken
      BY <2>1 DEF Gone, EndInv, Size
    <3> QED BY <3>1, <3>2 DEF NoLeak
  <2>2. CASE ~Gone
    <3>1. PICK at \in [0 .. MaxPush -> Node] : InUse(at)
      BY <2>2 DEF IInv
    <3>2. ~Destroyed
      BY <3>1 DEF InUse
    <3>3. Joined => Cardinality(live) = Len(pushed) - taken + 1
      BY <3>1, JoinedBlocks DEF Size
    <3> QED BY <3>2, <3>3 DEF NoLeak
  <2> QED BY <2>1, <2>2
<1> QED BY <1>1, QueueInvariance, PTL

-----------------------------------------------------------------------------
(* The queue implements ActorQueue. *)

\* The actors in the queue, and the one a thread has taken and not returned.
Waiting == SubSeq(pushed, taken + 1, Size)
Carried == [t \in Thread |-> IF pc[t] = "loadData" THEN pushed[claim[t]] ELSE NULL]

\* Pushing an item appends it to what waits.
LEMMA WaitingPush ==
  ASSUME NEW s \in Seq(Item), NEW k \in 0 .. Len(s), NEW x \in Item
  PROVE  SubSeq(Append(s, x), k + 1, Len(Append(s, x)))
           = Append(SubSeq(s, k + 1, Len(s)), x)
<1> DEFINE a == Append(s, x)
           l == SubSeq(a, k + 1, Len(s) + 1)
           m == SubSeq(s, k + 1, Len(s))
           r == Append(m, x)
<1>1. /\ Len(s) \in Nat /\ Len(a) = Len(s) + 1 /\ a[Len(s) + 1] = x
      /\ \A i \in 1 .. Len(s) : a[i] = s[i] /\ s[i] \in Item
  OBVIOUS
<1> HIDE DEF a
<1>2. /\ m \in Seq(Item) /\ Len(m) = Len(s) - k
      /\ \A i \in 1 .. Len(s) - k : m[i] = s[k + i]
  <2>1. \A i \in k + 1 .. Len(s) : s[i] \in Item
    BY <1>1
  <2>2. Len(m) = IF k + 1 <= Len(s) THEN Len(s) - (k + 1) + 1 ELSE 0
    BY <2>1, <1>1, SubSeqProperties
  <2>3. \A i \in 1 .. Len(s) - (k + 1) + 1 : m[i] = s[k + 1 + i - 1]
    BY <2>1, <1>1, SubSeqProperties
  <2>4. m \in Seq(Item)
    BY <2>1, <1>1, SubSeqProperties
  <2> HIDE DEF m
  <2> QED BY <2>2, <2>3, <2>4, <1>1
<1>3. /\ l \in Seq(Item) /\ Len(l) = Len(s) - k + 1
      /\ \A i \in 1 .. Len(s) - k + 1 : l[i] = a[k + i]
  <2>1. \A i \in k + 1 .. Len(s) + 1 : a[i] \in Item
    BY <1>1
  <2>2. Len(l) = IF k + 1 <= Len(s) + 1 THEN Len(s) + 1 - (k + 1) + 1 ELSE 0
    BY <2>1, <1>1, SubSeqProperties
  <2>3. \A i \in 1 .. Len(s) + 1 - (k + 1) + 1 : l[i] = a[k + 1 + i - 1]
    BY <2>1, <1>1, SubSeqProperties
  <2>4. l \in Seq(Item)
    BY <2>1, <1>1, SubSeqProperties
  <2> HIDE DEF l
  <2> QED BY <2>2, <2>3, <2>4, <1>1
<1> HIDE DEF l, m
<1>4. /\ r \in Seq(Item) /\ Len(r) = Len(s) - k + 1 /\ r[Len(s) - k + 1] = x
      /\ \A i \in 1 .. Len(s) - k : r[i] = m[i]
  BY <1>2
<1> HIDE DEF r
<1>5. ASSUME NEW i \in 1 .. Len(l) PROVE l[i] = r[i]
  <2>1. i \in 1 .. Len(s) - k + 1 /\ l[i] = a[k + i]
    BY <1>3
  <2>2. CASE i = Len(s) - k + 1
    <3>1. k + i = Len(s) + 1
      BY <2>2, <1>1
    <3> QED BY <2>1, <2>2, <3>1, <1>1, <1>4
  <2>3. CASE i # Len(s) - k + 1
    <3>1. i \in 1 .. Len(s) - k /\ k + i \in 1 .. Len(s)
      BY <2>1, <2>3, <1>1
    <3> QED BY <2>1, <3>1, <1>1, <1>2, <1>4
  <2> QED BY <2>2, <2>3
<1>6. l = r
  BY <1>3, <1>4, <1>5, SeqEqual
<1> QED BY <1>1, <1>6 DEF a, l, m, r

\* Moving the tail takes the oldest item.
LEMMA WaitingPop ==
  ASSUME NEW s \in Seq(Item), NEW k \in 0 .. Len(s) - 1
  PROVE  /\ SubSeq(s, k + 1, Len(s)) # <<>>
         /\ Head(SubSeq(s, k + 1, Len(s))) = s[k + 1]
         /\ Tail(SubSeq(s, k + 1, Len(s))) = SubSeq(s, k + 2, Len(s))
<1>1. k + 1 \in 1 .. Len(s) /\ Len(s) \in k + 1 .. Len(s) /\ (k + 1) + 1 = k + 2
  OBVIOUS
<1>2. SubSeq(s, k + 1, Len(s)) # <<>>
  <2>1. \A i \in k + 1 .. Len(s) : s[i] \in Item
    OBVIOUS
  <2>2. Len(SubSeq(s, k + 1, Len(s))) = Len(s) - (k + 1) + 1
    BY <2>1, <1>1, SubSeqProperties
  <2>3. Len(s) - (k + 1) + 1 # 0
    BY <1>1
  <2>4. ASSUME NEW w, Len(w) # 0 PROVE w # <<>>
    BY <2>4
  <2> QED BY <2>2, <2>3, <2>4
<1> QED BY <1>1, <1>2, HeadTailOfSubSeq

\* Every step of the queue is a put, a take or a return of ActorQueue, or
\* changes nothing there.
LEMMA QueueStep ==
  ASSUME NEW at, InUse(at), NEW t \in Thread, Start(t) \/ Push(t) \/ Pop(t)
  PROVE  [Abstract!Next]_(Abstract!vars)
<1>h. HeldOK(at)
  BY HeldFacts
<1>a. /\ pushed \in Seq(Item) /\ taken \in 0 .. Len(pushed)
      /\ pc \in [Thread -> Place] /\ got \in [Thread -> Item \cup {NULL}]
  BY <1>h DEF InUse, TypeOK, HeldOK, Size
<1>b. \A u \in Thread : pc[u] = "loadData" =>
        claim[u] \in 1 .. Len(pushed) /\ pushed[claim[u]] \in Item
  <2>1. \A u \in Thread : pc[u] = "loadData" => claim[u] \in 1 .. taken
    BY DEF InUse, QueueInv, PopInv, ClaimInv, Active
  <2> QED BY <2>1, <1>a
<1>1. CASE PushExchange(t) \/ PushStoreHead(t)
  <2>1. /\ Preparing(t) /\ pushed' = Append(pushed, data[node[t]])
        /\ pc' = [pc EXCEPT ![t] = "link"]
        /\ UNCHANGED <<taken, claim, got>>
    BY <1>1 DEF PushExchange, PushStoreHead, Goto, Preparing, popVars
  <2>2. data[node[t]] \in Item
    BY <2>1 DEF InUse, QueueInv, PushInv, PrepareInv
  <2>3. Waiting' = Append(Waiting, data[node[t]])
    BY <1>a, <2>1, <2>2, WaitingPush DEF Waiting, Size
  <2>4. \A u \in Thread : pc'[u] = "loadData" <=> pc[u] = "loadData"
    BY <1>a, <2>1 DEF Preparing
  <2>5. \A u \in Thread : pc[u] = "loadData" => pushed'[claim[u]] = pushed[claim[u]]
    BY <1>a, <1>b, <2>1, <2>2
  <2>6. Carried' = Carried
    BY <2>1, <2>4, <2>5 DEF Carried
  <2> QED BY <2>1, <2>2, <2>3, <2>6 DEF Abstract!Next, Abstract!Put, Waiting, Carried, Size
<1>2. CASE PopCas(t) /\ tail = cmp[t]
  <2>1. /\ pc[t] = "cas" /\ taken' = taken + 1
        /\ claim' = [claim EXCEPT ![t] = taken + 1]
        /\ pc' = [pc EXCEPT ![t] = "loadData"]
        /\ UNCHANGED <<pushed, got>>
    BY <1>2 DEF PopCas, Goto, pushVars
  <2>2. taken < Size
    BY <1>2, <2>1 DEF InUse, QueueInv, PopInv, TailInv
  <2>3. taken \in 0 .. Len(pushed) - 1
    BY <1>a, <2>2 DEF Size
  <2>4. Waiting # <<>> /\ Head(Waiting) = pushed[taken + 1] /\ Waiting' = Tail(Waiting)
    <3>1. taken' + 1 = taken + 2 /\ Size' = Size
      BY <2>1, <2>3 DEF Size
    <3>2. Waiting' = SubSeq(pushed, taken + 2, Len(pushed))
      BY <3>1, <2>1 DEF Waiting, Size
    <3> QED BY <1>a, <2>3, <3>2, WaitingPop DEF Waiting, Size
  <2>5. Carried[t] = NULL
    BY <2>1 DEF Carried
  <2>6. Carried' = [Carried EXCEPT ![t] = pushed[taken + 1]]
    BY <1>a, <2>1 DEF Carried, InUse, TypeOK
  <2>7. Abstract!Take(t)
    BY <2>1, <2>4, <2>5, <2>6 DEF Abstract!Take, Waiting, Carried, Size
  <2> QED BY <2>7 DEF Abstract!Next
<1>3. CASE PopLoadData(t)
  <2>1. /\ pc[t] = "loadData" /\ got' = [got EXCEPT ![t] = data[nxt[t]]]
        /\ pc' = [pc EXCEPT ![t] = "clear"]
        /\ UNCHANGED <<pushed, taken, claim>>
    BY <1>3 DEF PopLoadData, Goto, pushVars
  <2>2. data[nxt[t]] = pushed[claim[t]]
    BY <2>1 DEF InUse, QueueInv, PopInv, ReadInv, Reading
  <2>3. Carried[t] = data[nxt[t]] /\ Carried[t] # NULL
    BY <2>1, <2>2, <1>b, MPMCQAssumption DEF Carried, Item
  <2>4. Carried' = [Carried EXCEPT ![t] = NULL]
    BY <1>a, <2>1 DEF Carried
  <2>5. Waiting' = Waiting
    BY <2>1 DEF Waiting, Size
  <2>6. Abstract!Return(t)
    BY <2>1, <2>3, <2>4, <2>5 DEF Abstract!Return, Waiting, Carried, Size
  <2> QED BY <2>6 DEF Abstract!Next
<1>4. CASE ~(PushExchange(t) \/ PushStoreHead(t)) /\ ~(PopCas(t) /\ tail = cmp[t])
           /\ ~PopLoadData(t)
  <2>1. UNCHANGED <<pushed, taken, claim, got>>
    BY <1>4 DEF Start, Push, Pop, PushAlloc, PushLoadHead, PushLink, PopLoadAba,
       PopLoadNode, PopLoadNext, PopCas, PopClear, PopFree, pushVars, popVars
  <2>2. \A u \in Thread : pc'[u] = "loadData" <=> pc[u] = "loadData"
    BY <1>a, <1>4 DEF Start, Push, Pop, PushAlloc, PushLoadHead, PushLink, PopLoadAba,
       PopLoadNode, PopLoadNext, PopCas, PopClear, PopFree, Goto
  <2>3. Carried' = Carried /\ Waiting' = Waiting
    BY <2>1, <2>2 DEF Carried, Waiting, Size
  <2> QED BY <2>1, <2>3 DEF Abstract!vars, Carried, Waiting, Size
<1> QED BY <1>1, <1>2, <1>3, <1>4

\* mpmcq.c is a queue: an item pushed is taken once, by one thread, in the
\* order of the pushes (RefinesActorQueue).
THEOREM QueueImplements == Spec => RefinesActorQueue
<1>1. Init => Abstract!Init
  <2> SUFFICES ASSUME Init PROVE Abstract!Init
    OBVIOUS
  <2>1. /\ pc = [t \in Thread |-> "idle"] /\ got = [t \in Thread |-> NULL]
        /\ pushed = <<>> /\ taken = 0
    BY DEF Init
  <2>2. SubSeq(pushed, taken + 1, Len(pushed)) = <<>>
    BY <2>1
  <2> QED BY <2>1, <2>2 DEF Abstract!Init
<1>2. IInv /\ [Next]_vars => [Abstract!Next]_(Abstract!vars)
  <2> SUFFICES ASSUME IInv, [Next]_vars PROVE [Abstract!Next]_(Abstract!vars)
    OBVIOUS
  <2>1. CASE UNCHANGED vars
    BY <2>1 DEF vars, sharedVars, pushVars, popVars, Abstract!vars
  <2>2. CASE Gone
    BY <2>1, <2>2, GoneStays
  <2>3. CASE ~Gone /\ Destroy
    <3>1. UNCHANGED <<pushed, taken, claim, got>>
          /\ \A u \in Thread : pc'[u] # "loadData" /\ pc[u] # "loadData"
      BY <2>3 DEF Destroy, Joined, pushVars, popVars
    <3> QED BY <3>1 DEF Abstract!vars
  <2>4. CASE ~Gone /\ \E t \in Thread : Start(t) \/ Push(t) \/ Pop(t)
    <3>1. PICK at \in [0 .. MaxPush -> Node] : InUse(at)
      BY <2>4 DEF IInv
    <3> QED BY <3>1, <2>4, QueueStep
  <2> QED BY <2>1, <2>2, <2>3, <2>4 DEF Next, Exit
<1> QED BY <1>1, <1>2, QueueInvariance, PTL DEF Spec, RefinesActorQueue, Abstract!Spec
=============================================================================
