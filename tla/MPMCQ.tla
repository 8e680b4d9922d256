------------------------------- MODULE MPMCQ -------------------------------
(* The multi-producer, multi-consumer queue of src/libponyrt/sched/mpmcq.c *)
(* that holds the actors of a scheduler thread and of the inject queue, at *)
(* the grain of its loads, stores and atomic instructions. The tail is a   *)
(* pair, node and aba counter, replaced by a double-word compare-and-swap. *)
(* A node is a block of the memory pool: a freed one is given out again at *)
(* any time, and while it is free the pool keeps a link in the word that   *)
(* the queue calls next (pool.c 607-610). The instructions of a thread     *)
(* take effect in program order, except the two plain loads of the tail.   *)
EXTENDS Naturals, Sequences, FiniteSets

CONSTANTS
  Node,       \* the blocks of memory a node can occupy
  NULL,       \* the null pointer
  Thread,     \* the threads that pop
  Pusher,     \* those of them that also push
  Single,     \* pushes are push_single: there is one pusher
  MaxPush     \* bound: how many items are pushed

ASSUME MPMCQAssumption ==
  /\ NULL \notin Node /\ NULL \notin Nat
  /\ Thread # {} /\ Pusher \subseteq Thread
  /\ Single \in BOOLEAN
  /\ Single => \A t, u \in Pusher : t = u
  /\ MaxPush \in Nat

Item == 1..MaxPush

VARIABLES
  head,       \* q->head
  tail,       \* q->tail: its aba and its node
  next, data, \* the fields of every block
  live,       \* the blocks that are allocated
  pc,         \* the place of each thread in push or pop
  node, prev, \* locals of push
  cmp, nxt,   \* locals of pop: the tail as read, and the node after it
  got,        \* what the last pop of each thread returned, or will return
  \* History, read by the properties only.
  allocs,     \* how many pushes were started; the i-th one pushes item i
  pushed,     \* the items in the order in which they became the head
  taken,      \* how many compare-and-swaps on the tail succeeded
  claim       \* the place in pushed of the item a pop has won

sharedVars == <<head, tail, next, data, live>>
pushVars == <<node, prev, allocs, pushed>>
popVars == <<cmp, nxt, got, taken, claim>>
vars == <<sharedVars, pc, pushVars, popVars>>

Goto(t, place) == pc' = [pc EXCEPT ![t] = place]

Init ==
  \E stub \in Node :
    /\ head = stub
    /\ tail = [aba |-> 0, node |-> stub]
    /\ next = [n \in Node |-> NULL]
    /\ data = [n \in Node |-> NULL]
    /\ live = {stub}
    /\ pc = [t \in Thread |-> "idle"]
    /\ node = [t \in Thread |-> NULL]
    /\ prev = [t \in Thread |-> NULL]
    /\ cmp = [t \in Thread |-> [aba |-> 0, node |-> stub]]
    /\ nxt = [t \in Thread |-> NULL]
    /\ got = [t \in Thread |-> NULL]
    /\ allocs = 0
    /\ pushed = <<>>
    /\ taken = 0
    /\ claim = [t \in Thread |-> 0]

-----------------------------------------------------------------------------
(* ponyint_mpmcq_push and ponyint_mpmcq_push_single. *)

PushAlloc(t) ==
  /\ t \in Pusher
  /\ pc[t] = "idle"
  /\ allocs < MaxPush
  /\ allocs' = allocs + 1
  /\ \E n \in Node \ live :
       /\ live' = live \cup {n}
       /\ data' = [data EXCEPT ![n] = allocs + 1]
       /\ next' = [next EXCEPT ![n] = NULL]
       /\ node' = [node EXCEPT ![t] = n]
  /\ Goto(t, IF Single THEN "loadHead" ELSE "exchange")
  /\ UNCHANGED <<head, tail, prev, pushed, popVars>>

PushExchange(t) ==
  /\ pc[t] = "exchange"
  /\ prev' = [prev EXCEPT ![t] = head]
  /\ head' = node[t]
  /\ pushed' = Append(pushed, data[node[t]])
  /\ Goto(t, "link")
  /\ UNCHANGED <<tail, next, data, live, node, allocs, popVars>>

\* push_single reads and writes the head without an atomic instruction.
PushLoadHead(t) ==
  /\ pc[t] = "loadHead"
  /\ prev' = [prev EXCEPT ![t] = head]
  /\ Goto(t, "storeHead")
  /\ UNCHANGED <<sharedVars, node, allocs, pushed, popVars>>

PushStoreHead(t) ==
  /\ pc[t] = "storeHead"
  /\ head' = node[t]
  /\ pushed' = Append(pushed, data[node[t]])
  /\ Goto(t, "link")
  /\ UNCHANGED <<tail, next, data, live, node, prev, allocs, popVars>>

PushLink(t) ==
  /\ pc[t] = "link"
  /\ next' = [next EXCEPT ![prev[t]] = node[t]]
  /\ Goto(t, "idle")
  /\ UNCHANGED <<head, tail, data, live, pushVars, popVars>>

-----------------------------------------------------------------------------
(* ponyint_mpmcq_pop. *)

\* The two plain loads of the tail, in either order.
PopLoadAba(t) ==
  /\ pc[t] \in {"idle", "loadAba"}
  /\ cmp' = [cmp EXCEPT ![t].aba = tail.aba]
  /\ Goto(t, IF pc[t] = "idle" THEN "loadNode" ELSE "loadNext")
  /\ UNCHANGED <<sharedVars, pushVars, nxt, got, taken, claim>>

PopLoadNode(t) ==
  /\ pc[t] \in {"idle", "loadNode"}
  /\ cmp' = [cmp EXCEPT ![t].node = tail.node]
  /\ Goto(t, IF pc[t] = "idle" THEN "loadAba" ELSE "loadNext")
  /\ UNCHANGED <<sharedVars, pushVars, nxt, got, taken, claim>>

\* Mutant of PopLoadNext: the end of the list is not tested.
PopLoadNextUnchecked(t) ==
  /\ pc[t] = "loadNext"
  /\ nxt' = [nxt EXCEPT ![t] = next[cmp[t].node]]
  /\ Goto(t, "cas")
  /\ UNCHANGED <<sharedVars, pushVars, cmp, got, taken, claim>>

\* The node may have been freed since. NULL ends the pop with no item.
PopLoadNext(t) ==
  /\ pc[t] = "loadNext"
  /\ nxt' = [nxt EXCEPT ![t] = next[cmp[t].node]]
  /\ Goto(t, IF next[cmp[t].node] = NULL THEN "idle" ELSE "cas")
  /\ UNCHANGED <<sharedVars, pushVars, cmp, got, taken, claim>>

\* Mutant of NewTail: the counter stands still.
NewTailSameAba(t) == [aba |-> cmp[t].aba, node |-> nxt[t]]

NewTail(t) == [aba |-> cmp[t].aba + 1, node |-> nxt[t]]

\* Mutant of PopCas: a failure does not read the tail again.
PopCasNoReload(t) ==
  /\ pc[t] = "cas"
  /\ IF tail = cmp[t]
     THEN /\ tail' = NewTail(t)
          /\ taken' = taken + 1
          /\ claim' = [claim EXCEPT ![t] = taken + 1]
          /\ Goto(t, "loadData")
     ELSE /\ Goto(t, "loadNext")
          /\ UNCHANGED <<tail, taken, claim>>
  /\ UNCHANGED <<head, next, data, live, pushVars, cmp, nxt, got>>

\* The next node becomes the tail, or the tail has changed and is read again.
PopCas(t) ==
  /\ pc[t] = "cas"
  /\ IF tail = cmp[t]
     THEN /\ tail' = NewTail(t)
          /\ taken' = taken + 1
          /\ claim' = [claim EXCEPT ![t] = taken + 1]
          /\ Goto(t, "loadData")
          /\ UNCHANGED cmp
     ELSE /\ cmp' = [cmp EXCEPT ![t] = tail]
          /\ Goto(t, "loadNext")
          /\ UNCHANGED <<tail, taken, claim>>
  /\ UNCHANGED <<head, next, data, live, pushVars, nxt, got>>

\* Mutant of PopLoadData: the item is taken from the old tail.
PopLoadOldData(t) ==
  /\ pc[t] = "loadData"
  /\ got' = [got EXCEPT ![t] = data[cmp[t].node]]
  /\ Goto(t, "clear")
  /\ UNCHANGED <<sharedVars, pushVars, cmp, nxt, taken, claim>>

PopLoadData(t) ==
  /\ pc[t] = "loadData"
  /\ got' = [got EXCEPT ![t] = data[nxt[t]]]
  /\ Goto(t, "clear")
  /\ UNCHANGED <<sharedVars, pushVars, cmp, nxt, taken, claim>>

PopClear(t) ==
  /\ pc[t] = "clear"
  /\ data' = [data EXCEPT ![nxt[t]] = NULL]
  /\ Goto(t, "spin")
  /\ UNCHANGED <<head, tail, next, live, pushVars, popVars>>

\* The pool writes its own link, to another free block or NULL, over next.
PoolFree(n) ==
  /\ live' = live \ {n}
  /\ \E link \in (Node \ live) \cup {NULL} : next' = [next EXCEPT ![n] = link]

\* Mutants of PopFree: the old tail is freed without waiting for its reader;
\* it is not freed.
PopFreeAtOnce(t) ==
  /\ pc[t] = "spin"
  /\ PoolFree(cmp[t].node)
  /\ Goto(t, "idle")
  /\ UNCHANGED <<head, tail, data, pushVars, popVars>>

PopFreeForgotten(t) ==
  /\ pc[t] = "spin"
  /\ data[cmp[t].node] = NULL
  /\ Goto(t, "idle")
  /\ UNCHANGED <<sharedVars, pushVars, popVars>>

\* Wait until the data of the old tail has been taken, then free it.
PopFree(t) ==
  /\ pc[t] = "spin"
  /\ data[cmp[t].node] = NULL
  /\ PoolFree(cmp[t].node)
  /\ Goto(t, "idle")
  /\ UNCHANGED <<head, tail, data, pushVars, popVars>>

-----------------------------------------------------------------------------
(* ponyint_mpmcq_destroy, once the scheduler threads have been joined. *)

Joined == \A t \in Thread : pc[t] = "idle"

Destroy ==
  /\ Joined
  /\ PoolFree(tail.node)
  /\ head' = NULL
  /\ tail' = [tail EXCEPT !.node = NULL]
  /\ pc' = [t \in Thread |-> "ended"]
  /\ UNCHANGED <<data, pushVars, popVars>>

Destroyed == head = NULL

\* The process ends.
Exit == Destroyed /\ UNCHANGED vars

-----------------------------------------------------------------------------
Push(t) ==
  \/ PushExchange(t) \/ PushLoadHead(t) \/ PushStoreHead(t) \/ PushLink(t)

\* The rest of a pop that has loaded one half of the tail.
Pop(t) ==
  \/ pc[t] # "idle" /\ (PopLoadAba(t) \/ PopLoadNode(t))
  \/ PopLoadNext(t) \/ PopCas(t) \/ PopLoadData(t) \/ PopClear(t) \/ PopFree(t)

Start(t) ==
  PushAlloc(t) \/ (pc[t] = "idle" /\ (PopLoadAba(t) \/ PopLoadNode(t)))

Next == Destroy \/ Exit \/ \E t \in Thread : Start(t) \/ Push(t) \/ Pop(t)

Spec == Init /\ [][Next]_vars

\* A thread that is in a push or a pop goes on with it; nobody has to start.
FairSpec == Spec /\ \A t \in Thread : WF_vars(Push(t) \/ Pop(t))

-----------------------------------------------------------------------------
(* Properties. *)

Place == {"idle", "exchange", "loadHead", "storeHead", "link", "loadAba",
          "loadNode", "loadNext", "cas", "loadData", "clear", "spin",
          "ended"}

TypeOK ==
  /\ head \in Node \cup {NULL}
  /\ tail \in [aba : Nat, node : Node \cup {NULL}]
  /\ tail.node = NULL => Destroyed
  /\ next \in [Node -> Node \cup {NULL}]
  /\ data \in [Node -> Item \cup {NULL}]
  /\ live \subseteq Node
  /\ pc \in [Thread -> Place]
  /\ node \in [Thread -> Node \cup {NULL}]
  /\ prev \in [Thread -> Node \cup {NULL}]
  /\ cmp \in [Thread -> [aba : Nat, node : Node]]
  /\ nxt \in [Thread -> Node \cup {NULL}]
  /\ got \in [Thread -> Item \cup {NULL}]
  /\ allocs \in 0..MaxPush
  /\ pushed \in Seq(Item) /\ Len(pushed) <= MaxPush
  /\ taken \in 0..MaxPush
  /\ claim \in [Thread -> 0..MaxPush]

\* Whatever was recycled while a pop slept, the pop that wins the k-th
\* compare-and-swap returns the k-th item pushed: nothing is lost, taken
\* twice or out of order (mpmcq.c 62-77).
TakesInOrder ==
  \A t \in Thread :
    pc[t] \in {"clear", "spin"} =>
      claim[t] <= Len(pushed) /\ got[t] = pushed[claim[t]]

\* A store, or a load whose value is used, touches allocated blocks only: the
\* link of a push, the data a pop takes and clears, the old tail it waits for
\* and frees (mpmcq.c 37, 49, 77-89). The load of line 64 is the exception.
SafeAccess ==
  \A t \in Thread :
    /\ pc[t] = "link" => prev[t] \in live
    /\ pc[t] \in {"loadData", "clear"} => nxt[t] \in live
    /\ pc[t] = "spin" => cmp[t].node \in live

\* Blocks are neither leaked nor freed twice: when every call has returned
\* there is one for each queued item and one for the stub, and destroy, which
\* frees the tail only, leaves nothing of a queue that was emptied first
\* (mpmcq.c 23-28, 89).
NoLeak ==
  /\ Joined => Cardinality(live) = Len(pushed) - taken + 1
  /\ Destroyed => Cardinality(live) = Len(pushed) - taken

\* The queue is a queue of actors in the sense of ActorQueue.
Abstract == INSTANCE ActorQueue WITH
  Taker <- Thread,
  queue <- SubSeq(pushed, taken + 1, Len(pushed)),
  held <- [t \in Thread |-> IF pc[t] = "loadData" THEN pushed[claim[t]]
                            ELSE NULL],
  out <- got

RefinesActorQueue == Abstract!Spec

\* Every push and pop ends: a pop waits only for the reader of the old tail,
\* and never for one that waits for it (mpmcq.c 85).
CallsEnd == \A t \in Thread : pc[t] \notin {"idle", "ended"} ~> pc[t] = "idle"
=============================================================================
