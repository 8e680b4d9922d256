------------------------- MODULE ActorMailboxProofs -------------------------
(* Proofs about ActorMailbox, for any number of threads, message blocks    *)
(* and messages. The inductive invariant says who may schedule the actor   *)
(* (OwnerInv) and what the linked list looks like while producers have cut *)
(* it (ChainInv, LinkInv); the rest follows from the two.                  *)
EXTENDS ActorMailbox, Sequences, TLAPS

\* OneOwner, and what it needs of an unscheduled actor: nobody else holds it.
OwnerInv ==
  /\ OneOwner
  /\ unscheduled =>
       runq = 0 /\ ~empty /\ \A p \in Producer : ~Pending(p)
  /\ \A t \in Thread : tpc[t] \in {"mark", "cas"} => ~unscheduled
  /\ \A p \in Producer : ppc[p] = "add" => pwas[p]

\* The blocks from tail to head are those of the messages recvd .. sent, all
\* allocated and different; a link is either there or still missing.
ChainInv ==
  ~destroyed =>
    /\ recvd <= sent
    /\ at[recvd] = tail
    /\ at[sent] = head
    /\ next[head] = NULL
    /\ \A i \in recvd .. sent : at[i] \in live
    /\ \A i, j \in recvd .. sent : at[i] = at[j] => i = j
    /\ \A i \in recvd .. sent - 1 : next[at[i]] \in {at[i + 1], NULL}

\* A producer that has not linked yet stands at a missing link of its own.
LinkInv ==
  /\ \A p \in Producer : ppc[p] = "link" =>
       \E i \in recvd .. sent - 1 :
         pprev[p] = at[i] /\ pmsg[p] = at[i + 1] /\ next[at[i]] = NULL
  /\ \A p, q \in Producer :
       ppc[p] = "link" /\ ppc[q] = "link" /\ pprev[p] = pprev[q] => p = q

\* A thread about to mark the queue has no continuation left.
ContInv ==
  /\ \A t \in Thread :
       /\ tpc[t] \in {"pop", "handle", "after"} /\ tapp[t] = 0 => cont = 0
       /\ tpc[t] \in {"mark", "cas"} => cont = 0
  /\ NothingStranded

DestroyInv ==
  /\ destroyed => pendingdestroy
  /\ pendingdestroy => \A p \in Producer : ppc[p] = "idle"
  /\ destroyed => runq = 0 /\ ~empty /\ \A t \in Thread : ~Running(t)

IInv == TypeOK /\ OwnerInv /\ ChainInv /\ LinkInv /\ ContInv /\ DestroyInv

-----------------------------------------------------------------------------
(* Type correctness. *)

\* actor_run returns to the run loop of the scheduler within the types.
LEMMA ReturnType ==
  ASSUME TypeOK, NEW t \in Thread, NEW b \in BOOLEAN, Return(t, b)
  PROVE  /\ tpc' \in [Thread -> RunPc]
         /\ tapp' \in [Thread -> Nat]
         /\ runq' \in Nat
<1>1. /\ tpc \in [Thread -> RunPc]
      /\ tapp \in [Thread -> Nat]
      /\ runq \in Nat
  BY DEF TypeOK, RunType
<1>2. {"idle", "cont"} \subseteq RunPc
  BY DEF RunPc
<1> QED BY <1>1, <1>2 DEF Return

\* The effects of handling a message stay within the types.
LEMMA HandleMessageType ==
  ASSUME TypeOK, NEW app \in BOOLEAN, NEW left \in 0..MaxCont,
         HandleMessage(app, left)
  PROVE  /\ blocked' \in BOOLEAN /\ unscheduled' \in BOOLEAN
         /\ cont' \in 0..MaxCont
         /\ pendingdestroy' = pendingdestroy /\ destroyed' = destroyed
<1>1. blocked \in BOOLEAN /\ unscheduled \in BOOLEAN
  BY DEF TypeOK, ActorType
<1>2. blocked' \in BOOLEAN
  BY <1>1 DEF HandleMessage
<1>3. unscheduled' \in BOOLEAN
  BY <1>1, Zenon DEF HandleMessage
<1>4. cont' \in 0..MaxCont
  BY MaxContAssumption DEF HandleMessage
<1> QED BY <1>2, <1>3, <1>4 DEF HandleMessage

\* Every step of every thread keeps every variable within its type: the
\* memory, the flags and the locals of pony_sendv and ponyint_actor_run.
LEMMA TypeStep ==
  ASSUME TypeOK, DestroyInv, [Next]_vars
  PROVE  TypeOK'
<1> USE NullAssumption, MaxSendAssumption, MaxContAssumption
<1> USE DEF TypeOK
<1>1. ASSUME NEW p \in Producer, SendExchange(p) PROVE TypeOK'
  <2>1. PICK m \in Node, k \in {"app", "sys"} :
          /\ PushExchange(m)
          /\ kind' = [kind EXCEPT ![m] = k]
          /\ pmsg' = [pmsg EXCEPT ![p] = m]
    BY <1>1 DEF SendExchange
  <2>2. QueueType'
    <3>1. live' \in SUBSET Node
      BY <2>1 DEF PushExchange, QueueType
    <3>2. at' \in [0..MaxSend -> Node \cup {NULL}] /\ sent' \in 0..MaxSend
      BY <2>1 DEF PushExchange, QueueType
    <3>3. next' \in [Node -> Node \cup {NULL}]
      BY <2>1 DEF PushExchange, QueueType
    <3> QED BY <2>1, <3>1, <3>2, <3>3 DEF PushExchange, QueueType
  <2>3. ProducerType'
    BY <1>1, <2>1 DEF SendExchange, ProducerType, QueueType
  <2>4. RunType' /\ ActorType' /\ destroyed' = destroyed
    BY <1>1 DEF SendExchange, RunType, ActorType, runVars, actorVars
  <2>5. head' # NULL /\ tail' = tail
    BY <2>1 DEF PushExchange
  <2> QED BY <2>2, <2>3, <2>4, <2>5
<1>2. ASSUME NEW p \in Producer, SendLink(p) PROVE TypeOK'
  <2>1. QueueType' /\ head' = head /\ tail' = tail
    BY <1>2 DEF SendLink, PushLink, QueueType, ProducerType
  <2>2. ProducerType'
    BY <1>2 DEF SendLink, ProducerType
  <2>3. RunType' /\ ActorType' /\ destroyed' = destroyed
    BY <1>2 DEF SendLink, RunType, ActorType, runVars, actorVars
  <2> QED BY <2>1, <2>2, <2>3
<1>3. ASSUME NEW p \in Producer, SendAdd(p) PROVE TypeOK'
  <2>1. QueueType' /\ head' = head /\ tail' = tail
    BY <1>3 DEF SendAdd, queueVars, QueueType
  <2>2. ProducerType'
    BY <1>3 DEF SendAdd, ProducerType
  <2>3. RunType' /\ ActorType' /\ destroyed' = destroyed
    BY <1>3 DEF SendAdd, RunType, ActorType, runVars, actorVars
  <2> QED BY <2>1, <2>2, <2>3
<1>4. ASSUME NEW t \in Thread, Dequeue(t) PROVE TypeOK'
  <2>1. QueueType' /\ head' = head /\ tail' = tail
    BY <1>4 DEF Dequeue, queueVars, QueueType
  <2>2. ProducerType' /\ ActorType' /\ destroyed' = destroyed
    BY <1>4 DEF Dequeue, ProducerType, ActorType, prodVars, actorVars
  <2>3. RunType'
    BY <1>4 DEF Dequeue, RunType, RunPc
  <2> QED BY <2>1, <2>2, <2>3
<1>5. ASSUME NEW t \in Thread, RunContinuation(t) PROVE TypeOK'
  <2>1. QueueType' /\ ProducerType' /\ head' = head /\ tail' = tail
    BY <1>5 DEF RunContinuation, queueVars, prodVars, QueueType, ProducerType
  <2>2. cont - 1 \in 0..MaxCont
    BY <1>5 DEF RunContinuation, ActorType
  <2>3. ActorType' /\ destroyed' = destroyed
    <3>1. HandleMessage(TRUE, cont - 1)
      BY <1>5, Zenon DEF RunContinuation
    <3> QED BY <2>2, <3>1, HandleMessageType, Zenon DEF ActorType
  <2>4. RunType'
    <3>1. CASE tapp[t] + 1 = BatchOf(t)
      <4>1. Return(t, ~unscheduled') /\ thead' = thead
        BY <1>5, <3>1 DEF RunContinuation
      <4> QED BY <4>1, ReturnType, Zenon DEF RunType
    <3>2. CASE tapp[t] + 1 # BatchOf(t)
      BY <1>5, <3>2 DEF RunContinuation, RunType
    <3> QED BY <3>1, <3>2
  <2> QED BY <2>1, <2>3, <2>4
<1>6. ASSUME NEW t \in Thread, RunLoadHead(t) PROVE TypeOK'
  <2>1. QueueType' /\ ProducerType' /\ head' = head /\ tail' = tail
    BY <1>6 DEF RunLoadHead, queueVars, prodVars, QueueType, ProducerType
  <2>2. ActorType' /\ destroyed' = destroyed
    BY <1>6 DEF RunLoadHead, ActorType, actorVars
  <2>3. RunType'
    BY <1>6 DEF RunLoadHead, RunType, RunPc, QueueType
  <2> QED BY <2>1, <2>2, <2>3
<1>7. ASSUME NEW t \in Thread, RunPop(t) PROVE TypeOK'
  <2>1. ProducerType' /\ ActorType' /\ destroyed' = destroyed
    BY <1>7 DEF RunPop, ProducerType, ActorType, prodVars, actorVars
  <2>2. RunType'
    BY <1>7 DEF RunPop, RunType, RunPc
  <2>3. CASE Pop
    <3>1. tail \in Node
      BY <1>7 DEF RunPop, Running, DestroyInv, QueueType
    <3>2. QueueType'
      BY <2>3, <3>1 DEF Pop, QueueType
    <3>3. head' = head /\ tail' # NULL
      BY <2>3 DEF Pop
    <3> QED BY <2>1, <2>2, <3>2, <3>3
  <2>4. CASE PopNull
    BY <2>1, <2>2, <2>4 DEF PopNull, queueVars, QueueType
  <2> QED BY <1>7, <2>3, <2>4 DEF RunPop
<1>8. ASSUME NEW t \in Thread, RunHandle(t) PROVE TypeOK'
  <2> DEFINE app == kind[tail] = "app"
             count == IF app THEN tapp[t] + 1 ELSE tapp[t]
  <2>1. QueueType' /\ ProducerType' /\ head' = head /\ tail' = tail
    BY <1>8 DEF RunHandle, queueVars, prodVars, QueueType, ProducerType
  <2>2. HandleMessage(app, cont)
    BY <1>8 DEF RunHandle
  <2>3. cont \in 0..MaxCont /\ app \in BOOLEAN /\ count \in Nat
    BY DEF ActorType, RunType
  <2>4. ActorType' /\ destroyed' = destroyed
    BY <2>2, <2>3, HandleMessageType, Zenon DEF ActorType
  <2>5. RunType'
    <3>1. CASE app /\ count = BatchOf(t)
      <4>1. Return(t, ~unscheduled') /\ thead' = thead
        BY <1>8, <3>1 DEF RunHandle
      <4> QED BY <4>1, ReturnType, Zenon DEF RunType
    <3>2. CASE ~(app /\ count = BatchOf(t))
      BY <1>8, <2>3, <3>2 DEF RunHandle, RunType, RunPc
    <3> QED BY <3>1, <3>2
  <2> QED BY <2>1, <2>4, <2>5
<1>9. ASSUME NEW t \in Thread, RunAfter(t) PROVE TypeOK'
  <2>1. QueueType' /\ ProducerType' /\ head' = head /\ tail' = tail
    BY <1>9 DEF RunAfter, queueVars, prodVars, QueueType, ProducerType
  <2>2. ActorType' /\ destroyed' = destroyed
    BY <1>9, Zenon DEF RunAfter, ActorType
  <2>3. RunType'
    <3>1. CASE unscheduled \/ tapp[t] > 0
      <4>1. Return(t, ~unscheduled) /\ thead' = thead
        BY <1>9, <3>1 DEF RunAfter
      <4> QED BY <4>1, ReturnType, Zenon DEF RunType
    <3>2. CASE ~(unscheduled \/ tapp[t] > 0)
      BY <1>9, <3>2 DEF RunAfter, RunType, RunPc
    <3> QED BY <3>1, <3>2
  <2> QED BY <2>1, <2>2, <2>3
<1>10. ASSUME NEW t \in Thread, RunMark(t) PROVE TypeOK'
  <2>1. QueueType' /\ ProducerType' /\ head' = head /\ tail' = tail
    BY <1>10 DEF RunMark, queueVars, prodVars, QueueType, ProducerType
  <2>2. ActorType' /\ destroyed' = destroyed
    BY <1>10 DEF RunMark, ActorType, actorVars
  <2>3. RunType'
    <3>1. CASE MarkEmptyDecided
      <4>1. Return(t, ~empty) /\ thead' = thead
        BY <1>10, <3>1 DEF RunMark
      <4> QED BY <4>1, ReturnType, Zenon DEF RunType
    <3>2. CASE ~MarkEmptyDecided
      BY <1>10, <3>2 DEF RunMark, RunType, RunPc
    <3> QED BY <3>1, <3>2
  <2> QED BY <2>1, <2>2, <2>3
<1>11. ASSUME NEW t \in Thread, RunCas(t) PROVE TypeOK'
  <2>1. Return(t, ~CasSucceeds) /\ thead' = thead
    BY <1>11 DEF RunCas
  <2>2. RunType'
    BY <2>1, ReturnType, Zenon DEF RunType
  <2>3. QueueType' /\ head' = head /\ tail' = tail
    BY <1>11 DEF RunCas, MarkEmptyCas, QueueType
  <2>4. ProducerType' /\ ActorType' /\ destroyed' = destroyed
    BY <1>11 DEF RunCas, ProducerType, ActorType, prodVars, actorVars
  <2> QED BY <2>2, <2>3, <2>4
<1>12. ASSUME NEW e \in Embedder, Poll(e) PROVE TypeOK'
  <2>1. QueueType' /\ ProducerType' /\ head' = head /\ tail' = tail
    BY <1>12 DEF Poll, queueVars, prodVars, QueueType, ProducerType
  <2>2. ActorType' /\ destroyed' = destroyed
    BY <1>12 DEF Poll, ActorType, actorVars
  <2>3. RunType'
    BY <1>12 DEF Poll, Thread, RunType, RunPc
  <2> QED BY <2>1, <2>2, <2>3
<1>13. CASE Schedule
  <2>1. QueueType' /\ ProducerType' /\ head' = head /\ tail' = tail
    BY <1>13 DEF Schedule, queueVars, prodVars, QueueType, ProducerType
  <2>2. ActorType' /\ destroyed' = destroyed
    BY <1>13 DEF Schedule, ActorType
  <2>3. RunType'
    BY <1>13 DEF Schedule, runVars, RunType
  <2> QED BY <2>1, <2>2, <2>3
<1>14. CASE SetPendingDestroy
  <2>1. QueueType' /\ ProducerType' /\ head' = head /\ tail' = tail
    BY <1>14
    DEF SetPendingDestroy, queueVars, prodVars, QueueType, ProducerType
  <2>2. ActorType' /\ RunType' /\ destroyed' = destroyed
    BY <1>14 DEF SetPendingDestroy, runVars, ActorType, RunType
  <2> QED BY <2>1, <2>2
<1>15. CASE ActorDestroy
  <2>1. QueueType' /\ destroyed'
    BY <1>15 DEF ActorDestroy, MessageQDestroy, QueueType
  <2>2. ProducerType' /\ ActorType' /\ RunType'
    BY <1>15
    DEF ActorDestroy, prodVars, runVars, ProducerType, ActorType, RunType
  <2> QED BY <2>1, <2>2
<1>16. CASE UNCHANGED vars
  BY <1>16 DEF vars, queueVars, prodVars, runVars, actorVars, QueueType,
               ProducerType, RunType, ActorType
<1>17. ASSUME NEW p \in Producer, Send(p) PROVE TypeOK'
  BY <1>1, <1>2, <1>3, <1>17 DEF Send
<1>18. ASSUME NEW t \in Thread, Run(t) PROVE TypeOK'
  BY <1>5, <1>6, <1>7, <1>8, <1>9, <1>10, <1>11, <1>18 DEF Run
<1>19. CASE Next
  <2> HIDE DEF TypeOK
  <2> QED
    BY <1>4, <1>12, <1>13, <1>14, <1>15, <1>17, <1>18, <1>19 DEF Next
<1> QED BY <1>16, <1>19

-----------------------------------------------------------------------------
(* One owner at a time. *)

\* Where actor_run leaves its thread and the scheduler queues.
LEMMA ReturnEffect ==
  ASSUME RunType, NEW t \in Thread, NEW b \in BOOLEAN, Return(t, b)
  PROVE  /\ \A u \in Thread : u # t => tpc'[u] = tpc[u]
         /\ \/ tpc'[t] = "idle" /\ runq' = runq
            \/ tpc'[t] = "idle" /\ runq' = runq + 1 /\ b
            \/ tpc'[t] = "cont" /\ runq' = runq
BY DEF RunType, Return

\* A run that is about to return, or goes on, keeps the ownership: the flags
\* and the pc change as in ReturnEffect or the pc moves inside the run.
LEMMA OwnerRun ==
  ASSUME TypeOK, OwnerInv, NEW t \in Thread, Running(t),
         empty' = empty, UNCHANGED <<ppc, pwas>>,
         unscheduled' \in BOOLEAN,
         \A u \in Thread : u # t => tpc'[u] = tpc[u],
         \/ tpc'[t] = "idle" /\ runq' = runq
         \/ tpc'[t] = "idle" /\ runq' = runq + 1 /\ ~unscheduled'
         \/ tpc'[t] \notin {"idle", "mark", "cas"} /\ runq' = runq
         \/ tpc'[t] \in {"mark", "cas"} /\ runq' = runq /\ ~unscheduled'
  PROVE  OwnerInv'
<1> USE DEF Running, Pending
<1>1. /\ runq = 0 /\ ~empty
      /\ \A p \in Producer : ~Pending(p)
      /\ \A u \in Thread : u # t => tpc[u] = "idle"
      /\ \A p \in Producer : ppc[p] = "add" => pwas[p]
  BY DEF OwnerInv, OneOwner
<1>2. OneOwner'
  BY <1>1 DEF OneOwner
<1>3. \A u \in Thread : tpc'[u] \in {"mark", "cas"} => ~unscheduled'
  BY <1>1
<1>4. unscheduled' =>
        runq' = 0 /\ ~empty' /\ \A p \in Producer : ~Pending(p)'
  BY <1>1
<1> QED BY <1>1, <1>2, <1>3, <1>4 DEF OwnerInv

\* No step gives the actor a second owner: neither a send that finds the mark,
\* nor a run that ends, is rescheduled or sets the mark.
LEMMA OwnerStep ==
  ASSUME IInv, [Next]_vars
  PROVE  OwnerInv'
<1> USE DEF Running, Pending
<1>a. TypeOK /\ RunType /\ OwnerInv /\ DestroyInv
  BY DEF IInv, TypeOK
<1>b. TypeOK'
  BY <1>a, TypeStep
<1>c. unscheduled' \in BOOLEAN
  BY <1>b DEF TypeOK, ActorType
<1>1. ASSUME NEW p \in Producer, SendExchange(p) PROVE OwnerInv'
  <2>1. /\ empty' = FALSE /\ pwas' = [pwas EXCEPT ![p] = empty]
        /\ ppc[p] = "idle" /\ ppc' = [ppc EXCEPT ![p] = "link"]
        /\ UNCHANGED <<runq, tpc, unscheduled>>
    BY <1>1 DEF SendExchange, PushExchange, runVars, actorVars
  <2>2. /\ ppc \in [Producer -> {"idle", "link", "add"}]
        /\ pwas \in [Producer -> BOOLEAN] /\ empty \in BOOLEAN
        /\ runq \in Nat
    BY <1>a DEF TypeOK, ProducerType, QueueType, RunType
  <2>3. CASE empty
    <3>1. /\ runq = 0 /\ ~unscheduled
          /\ \A t \in Thread : ~Running(t)
          /\ \A q \in Producer : ~Pending(q)
      BY <1>a, <2>2, <2>3 DEF OwnerInv, OneOwner
    <3>2. \A q \in Producer : Pending(q)' => q = p
      BY <2>1, <2>2, <3>1
    <3> QED BY <1>a, <2>1, <2>2, <3>1, <3>2 DEF OwnerInv, OneOwner
  <2>4. CASE ~empty
    <3>1. \A q \in Producer : Pending(q)' => Pending(q)
      BY <2>1, <2>2, <2>4
    <3>2. \A q \in Producer : ppc'[q] = "add" => pwas'[q]
      BY <1>a, <2>1, <2>2 DEF OwnerInv
    <3> QED BY <1>a, <2>1, <3>1, <3>2 DEF OwnerInv, OneOwner
  <2> QED BY <2>3, <2>4
<1>2. ASSUME NEW p \in Producer, SendLink(p) PROVE OwnerInv'
  <2>1. /\ ppc[p] = "link"
        /\ ppc' = [ppc EXCEPT ![p] = IF pwas[p] THEN "add" ELSE "idle"]
        /\ UNCHANGED <<runq, tpc, unscheduled, pwas, empty>>
    BY <1>2 DEF SendLink, PushLink, runVars, actorVars
  <2>2. ppc \in [Producer -> {"idle", "link", "add"}]
    BY <1>a DEF TypeOK, ProducerType
  <2>3. \A q \in Producer : Pending(q)' => Pending(q)
    BY <2>1, <2>2
  <2>4. \A q \in Producer : ppc'[q] = "add" => pwas'[q]
    BY <1>a, <2>1, <2>2 DEF OwnerInv
  <2> QED BY <1>a, <2>1, <2>3, <2>4 DEF OwnerInv, OneOwner
<1>3. ASSUME NEW p \in Producer, SendAdd(p) PROVE OwnerInv'
  <2>1. /\ ppc[p] = "add" /\ ppc' = [ppc EXCEPT ![p] = "idle"]
        /\ runq' = IF unscheduled THEN runq ELSE runq + 1
        /\ UNCHANGED <<tpc, unscheduled, pwas, empty>>
    BY <1>3 DEF SendAdd, queueVars, runVars, actorVars
  <2>2. ppc \in [Producer -> {"idle", "link", "add"}]
    BY <1>a DEF TypeOK, ProducerType
  <2>3. Pending(p)
    BY <1>a, <2>1 DEF OwnerInv
  <2>4. /\ runq = 0 /\ ~empty /\ ~unscheduled
        /\ \A t \in Thread : ~Running(t)
        /\ \A q \in Producer : q # p => ~Pending(q)
    BY <1>a, <2>3 DEF OwnerInv, OneOwner
  <2>5. \A q \in Producer : ~Pending(q)'
    BY <2>1, <2>2, <2>4
  <2>6. \A q \in Producer : ppc'[q] = "add" => pwas'[q]
    BY <1>a, <2>1, <2>2 DEF OwnerInv
  <2>7. runq' = 1
    BY <2>1, <2>4
  <2> QED BY <2>1, <2>4, <2>5, <2>6, <2>7 DEF OwnerInv, OneOwner
<1>4. ASSUME NEW t \in Thread, Dequeue(t) PROVE OwnerInv'
  <2>1. /\ runq > 0 /\ runq' = runq - 1
        /\ tpc' = [tpc EXCEPT ![t] = "cont"]
        /\ UNCHANGED <<ppc, pwas, unscheduled, empty>>
    BY <1>4 DEF Dequeue, queueVars, prodVars, actorVars
  <2>2. /\ runq = 1 /\ ~empty /\ ~unscheduled
        /\ \A u \in Thread : ~Running(u)
        /\ \A q \in Producer : ~Pending(q)
    BY <1>a, <2>1 DEF OwnerInv, OneOwner, RunType
  <2>3. tpc \in [Thread -> RunPc]
    BY <1>a DEF RunType
  <2>4. \A u \in Thread : (Running(u)' => u = t)
                        /\ tpc'[u] \notin {"mark", "cas"}
    BY <2>1, <2>2, <2>3
  <2>5. \A q \in Producer : ~Pending(q)' /\ (ppc'[q] = "add" => pwas'[q])
    BY <1>a, <2>1, <2>2 DEF OwnerInv
  <2>6. runq' = 0
    BY <2>1, <2>2
  <2> QED BY <2>1, <2>2, <2>4, <2>5, <2>6 DEF OwnerInv, OneOwner
<1>5. ASSUME NEW t \in Thread, RunContinuation(t) PROVE OwnerInv'
  <2>1. Running(t) /\ empty' = empty /\ UNCHANGED <<ppc, pwas>>
    BY <1>5 DEF RunContinuation, queueVars, prodVars
  <2>2. CASE tapp[t] + 1 = BatchOf(t)
    <3>1. Return(t, ~unscheduled')
      BY <1>5, <2>2 DEF RunContinuation
    <3> QED BY <1>a, <1>c, <2>1, <3>1, ReturnEffect, OwnerRun, Zenon
  <2>3. CASE tapp[t] + 1 # BatchOf(t)
    <3>1. UNCHANGED <<tpc, runq>> /\ tpc[t] = "cont"
      BY <1>5, <2>3 DEF RunContinuation
    <3> QED BY <1>a, <1>c, <2>1, <3>1, OwnerRun
  <2> QED BY <2>2, <2>3
<1>6. ASSUME NEW t \in Thread, RunLoadHead(t) PROVE OwnerInv'
  <2>1. /\ Running(t) /\ empty' = empty /\ UNCHANGED <<ppc, pwas, runq>>
        /\ tpc' = [tpc EXCEPT ![t] = "pop"]
    BY <1>6 DEF RunLoadHead, queueVars, prodVars
  <2> QED BY <1>a, <1>c, <2>1, OwnerRun DEF RunType
<1>7. ASSUME NEW t \in Thread, RunPop(t) PROVE OwnerInv'
  <2>1. /\ Running(t) /\ empty' = empty /\ UNCHANGED <<ppc, pwas, runq>>
        /\ \/ tpc' = [tpc EXCEPT ![t] = "handle"]
           \/ tpc' = [tpc EXCEPT ![t] = "after"]
    BY <1>7 DEF RunPop, Pop, PopNull, queueVars, prodVars
  <2> QED BY <1>a, <1>c, <2>1, OwnerRun DEF RunType
<1>8. ASSUME NEW t \in Thread, RunHandle(t) PROVE OwnerInv'
  <2> DEFINE app == kind[tail] = "app"
             count == IF app THEN tapp[t] + 1 ELSE tapp[t]
  <2>1. Running(t) /\ empty' = empty /\ UNCHANGED <<ppc, pwas>>
    BY <1>8 DEF RunHandle, queueVars, prodVars
  <2>2. CASE app /\ count = BatchOf(t)
    <3>1. Return(t, ~unscheduled')
      BY <1>8, <2>2 DEF RunHandle
    <3> QED BY <1>a, <1>c, <2>1, <3>1, ReturnEffect, OwnerRun, Zenon
  <2>3. CASE ~(app /\ count = BatchOf(t))
    <3>1. /\ tpc' = [tpc EXCEPT ![t] = IF tail = thead[t] THEN "after"
                                                          ELSE "pop"]
          /\ UNCHANGED runq
      BY <1>8, <2>3 DEF RunHandle
    <3> QED BY <1>a, <1>c, <2>1, <3>1, OwnerRun DEF RunType
  <2> QED BY <2>2, <2>3
<1>9. ASSUME NEW t \in Thread, RunAfter(t) PROVE OwnerInv'
  <2>1. /\ Running(t) /\ empty' = empty
        /\ UNCHANGED <<ppc, pwas, unscheduled>>
    BY <1>9 DEF RunAfter, queueVars, prodVars
  <2>2. CASE unscheduled \/ tapp[t] > 0
    <3>1. Return(t, ~unscheduled)
      BY <1>9, <2>2 DEF RunAfter
    <3> QED BY <1>a, <1>c, <2>1, <3>1, ReturnEffect, OwnerRun, Zenon
  <2>3. CASE ~(unscheduled \/ tapp[t] > 0)
    <3>1. tpc' = [tpc EXCEPT ![t] = "mark"] /\ UNCHANGED runq
      BY <1>9, <2>3 DEF RunAfter
    <3> QED BY <1>a, <1>c, <2>1, <2>3, <3>1, OwnerRun DEF RunType
  <2> QED BY <2>2, <2>3
<1>10. ASSUME NEW t \in Thread, RunMark(t) PROVE OwnerInv'
  <2>1. /\ Running(t) /\ empty' = empty
        /\ UNCHANGED <<ppc, pwas, unscheduled>>
    BY <1>10 DEF RunMark, queueVars, prodVars, actorVars
  <2>2. ~unscheduled'
    BY <1>a, <1>10, <2>1 DEF RunMark, OwnerInv
  <2>3. CASE MarkEmptyDecided
    <3>1. Return(t, ~empty)
      BY <1>10, <2>3 DEF RunMark
    <3> QED BY <1>a, <1>c, <2>1, <2>2, <3>1, ReturnEffect, OwnerRun, Zenon
  <2>4. CASE ~MarkEmptyDecided
    <3>1. tpc' = [tpc EXCEPT ![t] = "cas"] /\ UNCHANGED runq
      BY <1>10, <2>4 DEF RunMark
    <3> QED BY <1>a, <1>c, <2>1, <2>2, <3>1, OwnerRun DEF RunType
  <2> QED BY <2>3, <2>4
<1>11. ASSUME NEW t \in Thread, RunCas(t) PROVE OwnerInv'
  <2>1. /\ Running(t) /\ UNCHANGED <<ppc, pwas, unscheduled>>
        /\ empty' = (empty \/ CasSucceeds)
    BY <1>11 DEF RunCas, MarkEmptyCas, prodVars, actorVars
  <2>2. ~unscheduled'
    BY <1>a, <1>11, <2>1 DEF RunCas, OwnerInv
  <2>3. Return(t, ~CasSucceeds)
    BY <1>11 DEF RunCas
  <2>4. CASE ~CasSucceeds
    <3>1. empty' = empty
      BY <1>a, <2>1, <2>4 DEF TypeOK, QueueType
    <3> QED BY <1>a, <1>c, <2>1, <2>2, <2>3, <3>1, ReturnEffect, OwnerRun,
               Zenon
  <2>5. CASE CasSucceeds
    <3>1. /\ tpc'[t] \in {"idle", "cont"}
          /\ \A u \in Thread : u # t => tpc'[u] = tpc[u]
      BY <1>a, <2>3, ReturnEffect, Zenon
    <3>2. /\ runq = 0
          /\ \A p \in Producer : ~Pending(p)
          /\ \A u \in Thread : u # t => tpc[u] = "idle"
      BY <1>a, <2>1 DEF OwnerInv, OneOwner
    <3>3. tpc'[t] = "idle" /\ runq' = runq
      BY <1>a, <2>3, <2>5 DEF Return, RunType
    <3> QED BY <1>a, <2>1, <2>2, <3>1, <3>2, <3>3 DEF OwnerInv, OneOwner
  <2> QED BY <2>4, <2>5
<1>12. ASSUME NEW e \in Embedder, Poll(e) PROVE OwnerInv'
  <2>1. /\ \A t \in Thread : tpc[t] = "idle"
        /\ unscheduled
        /\ tpc' = [tpc EXCEPT ![e] = "cont"]
        /\ UNCHANGED <<ppc, pwas, unscheduled, empty, runq>>
    BY <1>12 DEF Poll, Parked, queueVars, prodVars, actorVars
  <2>2. e \in Thread /\ tpc \in [Thread -> RunPc]
    BY <1>a DEF Thread, RunType
  <2>3. runq = 0 /\ ~empty /\ \A p \in Producer : ~Pending(p)
    BY <1>a, <2>1 DEF OwnerInv
  <2>4. \A u \in Thread : (Running(u)' => u = e)
                        /\ tpc'[u] \notin {"mark", "cas"}
    BY <2>1, <2>2
  <2> QED BY <1>a, <2>1, <2>3, <2>4 DEF OwnerInv, OneOwner
<1>13. CASE Schedule
  <2>1. /\ \A t \in Thread : tpc[t] = "idle"
        /\ unscheduled /\ ~unscheduled' /\ runq' = runq + 1
        /\ UNCHANGED <<ppc, pwas, tpc, empty>>
    BY <1>13 DEF Schedule, Parked, queueVars, prodVars, runVars
  <2>2. runq = 0 /\ ~empty /\ \A p \in Producer : ~Pending(p)
    BY <1>a, <2>1 DEF OwnerInv
  <2> QED BY <1>a, <2>1, <2>2 DEF OwnerInv, OneOwner
<1>14. CASE SetPendingDestroy
  BY <1>a, <1>14
  DEF SetPendingDestroy, queueVars, prodVars, runVars, OwnerInv, OneOwner
<1>15. CASE ActorDestroy
  <2>1. ~empty' /\ UNCHANGED <<ppc, pwas, tpc, runq, unscheduled>>
    BY <1>15 DEF ActorDestroy, MessageQDestroy, prodVars, runVars
  <2> QED BY <1>a, <2>1 DEF OwnerInv, OneOwner
<1>16. CASE UNCHANGED vars
  BY <1>a, <1>16 DEF vars, queueVars, prodVars, runVars, actorVars, OwnerInv,
                     OneOwner
<1>17. ASSUME NEW p \in Producer, Send(p) PROVE OwnerInv'
  BY <1>1, <1>2, <1>3, <1>17 DEF Send
<1>18. ASSUME NEW t \in Thread, Run(t) PROVE OwnerInv'
  BY <1>5, <1>6, <1>7, <1>8, <1>9, <1>10, <1>11, <1>18 DEF Run
<1> QED
  BY <1>4, <1>12, <1>13, <1>14, <1>15, <1>16, <1>17, <1>18 DEF Next

-----------------------------------------------------------------------------
(* The linked list. *)

\* What the actions that do not touch the list leave as it is.
ListVars == <<head, tail, next, live, sent, recvd, at, pprev, pmsg>>

\* A step that leaves the list alone and starts no push keeps its shape.
LEMMA ListUnchanged ==
  ASSUME ChainInv, LinkInv, UNCHANGED ListVars, destroyed' = destroyed,
         \A p \in Producer : ppc'[p] = "link" => ppc[p] = "link"
  PROVE  ChainInv' /\ LinkInv'
<1>1. ChainInv'
  BY DEF ListVars, ChainInv
<1>2. LinkInv'
  BY DEF ListVars, LinkInv
<1> QED BY <1>1, <1>2

\* The exchange on head extends the list by a fresh block behind a missing
\* link that belongs to the producer (messageq.c 50-55).
LEMMA ChainExchange ==
  ASSUME IInv, NEW p \in Producer, SendExchange(p)
  PROVE  ChainInv' /\ LinkInv'
<1>a. TypeOK /\ ChainInv /\ LinkInv /\ DestroyInv
  BY DEF IInv
<1>b. /\ next \in [Node -> Node \cup {NULL}] /\ live \in SUBSET Node
      /\ sent \in 0..MaxSend /\ recvd \in Nat
      /\ at \in [0..MaxSend -> Node \cup {NULL}]
      /\ ppc \in [Producer -> {"idle", "link", "add"}]
      /\ pmsg \in [Producer -> Node \cup {NULL}]
      /\ pprev \in [Producer -> Node \cup {NULL}]
  BY <1>a DEF TypeOK, QueueType, ProducerType
<1>c. ~destroyed
  BY <1>a DEF SendExchange, DestroyInv
<1>d. /\ recvd <= sent /\ at[recvd] = tail /\ at[sent] = head
      /\ next[head] = NULL
      /\ \A i \in recvd .. sent : at[i] \in live
      /\ \A i, j \in recvd .. sent : at[i] = at[j] => i = j
      /\ \A i \in recvd .. sent - 1 : next[at[i]] \in {at[i + 1], NULL}
  BY <1>a, <1>c DEF ChainInv
<1>1. PICK m \in Node :
        /\ sent < MaxSend
        /\ m \notin live
        /\ live' = live \cup {m}
        /\ next' = [next EXCEPT ![m] = NULL]
        /\ head' = m
        /\ sent' = sent + 1
        /\ at' = [at EXCEPT ![sent + 1] = m]
        /\ tail' = tail /\ recvd' = recvd
        /\ pmsg' = [pmsg EXCEPT ![p] = m]
  BY DEF SendExchange, PushExchange
<1>2. /\ pprev' = [pprev EXCEPT ![p] = head]
      /\ ppc' = [ppc EXCEPT ![p] = "link"] /\ ppc[p] = "idle"
      /\ destroyed' = destroyed
  BY DEF SendExchange, actorVars
<1>3. /\ \A i \in recvd .. sent : at'[i] = at[i] /\ at[i] \in live
      /\ at'[sent + 1] = m
  BY <1>b, <1>d, <1>1, MaxSendAssumption
<1>4. ChainInv'
  <2>1. \A i \in recvd .. sent + 1 : at'[i] \in live'
    BY <1>b, <1>1, <1>3
  <2>2. \A i, j \in recvd .. sent + 1 : at'[i] = at'[j] => i = j
    BY <1>b, <1>d, <1>1, <1>3
  <2>3. \A i \in recvd .. sent : next'[at'[i]] \in {at'[i + 1], NULL}
    <3> SUFFICES ASSUME NEW i \in recvd .. sent
                 PROVE  next'[at'[i]] \in {at'[i + 1], NULL}
      OBVIOUS
    <3>1. at[i] # m /\ at[i] \in Node /\ next'[at'[i]] = next[at[i]]
      BY <1>b, <1>1, <1>3
    <3>2. CASE i = sent
      BY <1>d, <3>1, <3>2
    <3>3. CASE i # sent
      <4>1. i \in recvd .. sent - 1 /\ i + 1 \in recvd .. sent
        BY <1>b, <3>3
      <4> QED BY <1>d, <1>3, <3>1, <4>1
    <3> QED BY <3>2, <3>3
  <2>4. next'[m] = NULL
    BY <1>b, <1>1
  <2>5. at'[recvd] = tail
    BY <1>b, <1>d, <1>3
  <2>6. sent' - 1 = sent /\ recvd' <= sent'
    BY <1>b, <1>d, <1>1
  <2> QED BY <1>1, <1>3, <2>1, <2>2, <2>3, <2>4, <2>5, <2>6 DEF ChainInv
<1>5. LinkInv'
  <2>1. ASSUME NEW q \in Producer, q # p, ppc'[q] = "link"
        PROVE  \E i \in recvd .. sent - 1 :
                 /\ pprev'[q] = at'[i] /\ pmsg'[q] = at'[i + 1]
                 /\ next'[at'[i]] = NULL
    <3>1. PICK i \in recvd .. sent - 1 :
            pprev[q] = at[i] /\ pmsg[q] = at[i + 1] /\ next[at[i]] = NULL
      BY <1>a, <1>b, <1>2, <2>1 DEF LinkInv
    <3>2. i \in recvd .. sent /\ i + 1 \in recvd .. sent
      BY <1>b
    <3>3. next'[at'[i]] = NULL
      BY <1>b, <1>1, <1>3, <3>1, <3>2
    <3> QED BY <1>b, <1>1, <1>2, <1>3, <2>1, <3>1, <3>2, <3>3
  <2>2. /\ pprev'[p] = at'[sent] /\ pmsg'[p] = at'[sent + 1]
        /\ next'[at'[sent]] = NULL
    BY <1>b, <1>d, <1>1, <1>2, <1>3
  <2>3. \A q \in Producer : q # p /\ ppc'[q] = "link" => pprev'[q] # pprev'[p]
    <3> SUFFICES ASSUME NEW q \in Producer, q # p, ppc'[q] = "link"
                 PROVE  pprev'[q] # pprev'[p]
      OBVIOUS
    <3>1. PICK i \in recvd .. sent - 1 : pprev'[q] = at'[i]
      BY <2>1
    <3>2. i \in recvd .. sent /\ i # sent
      BY <1>b
    <3> QED BY <1>b, <1>d, <1>3, <2>2, <3>1, <3>2
  <2>4. \A q \in Producer : ppc'[q] = "link" =>
          \E i \in recvd' .. sent' - 1 :
            /\ pprev'[q] = at'[i] /\ pmsg'[q] = at'[i + 1]
            /\ next'[at'[i]] = NULL
    <3> SUFFICES ASSUME NEW q \in Producer, ppc'[q] = "link"
                 PROVE  \E i \in recvd .. sent :
                          /\ pprev'[q] = at'[i] /\ pmsg'[q] = at'[i + 1]
                          /\ next'[at'[i]] = NULL
      BY <1>b, <1>1
    <3>1. CASE q = p
      BY <1>b, <1>d, <2>2, <3>1
    <3>2. CASE q # p
      <4>1. PICK i \in recvd .. sent - 1 :
              /\ pprev'[q] = at'[i] /\ pmsg'[q] = at'[i + 1]
              /\ next'[at'[i]] = NULL
        BY <2>1, <3>2
      <4> QED BY <1>b, <4>1
    <3> QED BY <3>1, <3>2
  <2>5. ASSUME NEW q \in Producer, NEW r \in Producer, ppc'[q] = "link",
               ppc'[r] = "link", pprev'[q] = pprev'[r]
        PROVE  q = r
    <3>1. CASE q # p /\ r # p
      <4>1. ppc[q] = "link" /\ ppc[r] = "link" /\ pprev[q] = pprev[r]
        BY <1>b, <1>2, <2>5, <3>1
      <4> QED BY <1>a, <4>1 DEF LinkInv
    <3> QED BY <2>3, <2>5, <3>1
  <2> QED BY <2>4, <2>5 DEF LinkInv
<1> QED BY <1>4, <1>5

\* Storing the link closes the gap of this producer and no other
\* (messageq.c:57).
LEMMA ChainLink ==
  ASSUME IInv, NEW p \in Producer, SendLink(p)
  PROVE  ChainInv' /\ LinkInv'
<1>a. TypeOK /\ ChainInv /\ LinkInv /\ DestroyInv
  BY DEF IInv
<1>b. /\ next \in [Node -> Node \cup {NULL}] /\ live \in SUBSET Node
      /\ sent \in 0..MaxSend /\ recvd \in Nat
      /\ ppc \in [Producer -> {"idle", "link", "add"}]
  BY <1>a DEF TypeOK, QueueType, ProducerType
<1>c. ~destroyed
  BY <1>a DEF SendLink, DestroyInv
<1>d. /\ recvd <= sent /\ at[recvd] = tail /\ at[sent] = head
      /\ next[head] = NULL
      /\ \A i \in recvd .. sent : at[i] \in live
      /\ \A i, j \in recvd .. sent : at[i] = at[j] => i = j
      /\ \A i \in recvd .. sent - 1 : next[at[i]] \in {at[i + 1], NULL}
  BY <1>a, <1>c DEF ChainInv
<1>1. /\ ppc[p] = "link"
      /\ next' = [next EXCEPT ![pprev[p]] = pmsg[p]]
      /\ UNCHANGED <<head, tail, live, sent, recvd, at, pprev, pmsg, destroyed>>
      /\ \A q \in Producer : ppc'[q] = "link" => ppc[q] = "link" /\ q # p
  BY <1>b DEF SendLink, PushLink, actorVars
<1>2. PICK k \in recvd .. sent - 1 :
        pprev[p] = at[k] /\ pmsg[p] = at[k + 1] /\ next[at[k]] = NULL
  BY <1>a, <1>1 DEF LinkInv
<1>3. k \in recvd .. sent /\ k # sent /\ at[k] \in Node
  BY <1>b, <1>d
<1>4. \A i \in recvd .. sent : i # k => next'[at[i]] = next[at[i]]
  BY <1>b, <1>d, <1>1, <1>2, <1>3
<1>5. next'[at[k]] = at[k + 1]
  BY <1>b, <1>1, <1>2, <1>3
<1>6. ChainInv'
  <2>1. next'[head] = NULL
    BY <1>b, <1>d, <1>3, <1>4
  <2>2. \A i \in recvd .. sent - 1 : next'[at[i]] \in {at[i + 1], NULL}
    BY <1>b, <1>d, <1>4, <1>5
  <2> QED BY <1>d, <1>1, <2>1, <2>2 DEF ChainInv
<1>7. LinkInv'
  <2>1. ASSUME NEW q \in Producer, ppc'[q] = "link"
        PROVE  \E i \in recvd .. sent - 1 :
                 /\ pprev[q] = at[i] /\ pmsg[q] = at[i + 1]
                 /\ next'[at[i]] = NULL
    <3>1. PICK i \in recvd .. sent - 1 :
            pprev[q] = at[i] /\ pmsg[q] = at[i + 1] /\ next[at[i]] = NULL
      BY <1>a, <1>1, <2>1 DEF LinkInv
    <3>2. pprev[q] # pprev[p]
      BY <1>a, <1>1, <2>1 DEF LinkInv
    <3>3. i # k /\ i \in recvd .. sent
      BY <1>b, <1>2, <3>1, <3>2
    <3> QED BY <1>4, <3>1, <3>3
  <2>2. \A q, r \in Producer :
          ppc'[q] = "link" /\ ppc'[r] = "link" /\ pprev[q] = pprev[r] => q = r
    BY <1>a, <1>1 DEF LinkInv
  <2> QED BY <1>1, <2>1, <2>2 DEF LinkInv
<1> QED BY <1>6, <1>7

\* A pop moves the tail to the next message in exchange order and frees a
\* block that no producer still has to link (messageq.c 64-70).
LEMMA ChainPop ==
  ASSUME IInv, NEW t \in Thread, RunPop(t), Pop
  PROVE  /\ ChainInv' /\ LinkInv'
         /\ recvd < sent /\ tail' = at[recvd + 1]
<1>a. TypeOK /\ ChainInv /\ LinkInv /\ DestroyInv
  BY DEF IInv
<1>b. /\ live \in SUBSET Node
      /\ sent \in 0..MaxSend /\ recvd \in Nat
  BY <1>a DEF TypeOK, QueueType
<1>c. ~destroyed
  BY <1>a DEF RunPop, DestroyInv, Running
<1>d. /\ recvd <= sent /\ at[recvd] = tail /\ at[sent] = head
      /\ next[head] = NULL
      /\ \A i \in recvd .. sent : at[i] \in live
      /\ \A i, j \in recvd .. sent : at[i] = at[j] => i = j
      /\ \A i \in recvd .. sent - 1 : next[at[i]] \in {at[i + 1], NULL}
  BY <1>a, <1>c DEF ChainInv
<1>1. /\ next[tail] # NULL /\ tail' = next[tail] /\ live' = live \ {tail}
      /\ recvd' = recvd + 1
      /\ UNCHANGED <<head, next, sent, at>>
  BY DEF Pop
<1>2. UNCHANGED <<ppc, pprev, pmsg, destroyed>>
  BY DEF RunPop, prodVars, actorVars
<1>3. recvd < sent
  BY <1>b, <1>d, <1>1
<1>4. next[tail] = at[recvd + 1]
  BY <1>b, <1>d, <1>1, <1>3
<1>5. ChainInv'
  <2>1. \A i \in recvd + 1 .. sent : i \in recvd .. sent /\ at[i] # tail
    BY <1>b, <1>d
  <2>2. \A i \in recvd + 1 .. sent : at[i] \in live'
    BY <1>d, <1>1, <2>1
  <2>3. \A i, j \in recvd + 1 .. sent : at[i] = at[j] => i = j
    BY <1>d, <2>1
  <2>4. \A i \in recvd + 1 .. sent - 1 : next[at[i]] \in {at[i + 1], NULL}
    BY <1>b, <1>d
  <2>5. recvd + 1 <= sent
    BY <1>b, <1>3
  <2> QED BY <1>d, <1>1, <1>4, <2>2, <2>3, <2>4, <2>5 DEF ChainInv
<1>6. LinkInv'
  <2>1. ASSUME NEW q \in Producer, ppc[q] = "link"
        PROVE  \E i \in recvd + 1 .. sent - 1 :
                 /\ pprev[q] = at[i] /\ pmsg[q] = at[i + 1]
                 /\ next[at[i]] = NULL
    <3>1. PICK i \in recvd .. sent - 1 :
            pprev[q] = at[i] /\ pmsg[q] = at[i + 1] /\ next[at[i]] = NULL
      BY <1>a, <2>1 DEF LinkInv
    <3>2. i # recvd
      BY <1>d, <1>1, <3>1
    <3>3. i \in recvd + 1 .. sent - 1
      BY <1>b, <3>2
    <3> QED BY <3>1, <3>3
  <2>2. \A q, r \in Producer :
          ppc[q] = "link" /\ ppc[r] = "link" /\ pprev[q] = pprev[r] => q = r
    BY <1>a DEF LinkInv
  <2> QED BY <1>1, <1>2, <2>1, <2>2 DEF LinkInv
<1> QED BY <1>1, <1>3, <1>4, <1>5, <1>6

\* Every step keeps the shape of the list.
LEMMA ListStep ==
  ASSUME IInv, [Next]_vars
  PROVE  ChainInv' /\ LinkInv'
<1> USE DEF ListVars
<1>a. ChainInv /\ LinkInv /\ TypeOK /\ DestroyInv
  BY DEF IInv
<1>1. ASSUME NEW p \in Producer, Send(p) PROVE ChainInv' /\ LinkInv'
  <2>1. CASE SendAdd(p)
    <3>1. UNCHANGED ListVars /\ destroyed' = destroyed
      BY <2>1 DEF SendAdd, queueVars, actorVars
    <3>2. \A q \in Producer : ppc'[q] = "link" => ppc[q] = "link"
      BY <1>a, <2>1 DEF SendAdd, TypeOK, ProducerType
    <3> QED BY <1>a, <3>1, <3>2, ListUnchanged
  <2> QED BY <1>1, <2>1, ChainExchange, ChainLink DEF Send
<1>2. ASSUME NEW t \in Thread, Dequeue(t) \/ Run(t)
      PROVE  ChainInv' /\ LinkInv'
  <2>1. CASE RunPop(t) /\ Pop
    BY <2>1, ChainPop
  <2>2. CASE RunPop(t) /\ PopNull
    BY <1>a, <2>2, ListUnchanged
    DEF RunPop, PopNull, queueVars, prodVars, actorVars
  <2>3. CASE Dequeue(t)
    BY <1>a, <2>3, ListUnchanged DEF Dequeue, queueVars, prodVars, actorVars
  <2>4. CASE RunContinuation(t)
    BY <1>a, <2>4, ListUnchanged
    DEF RunContinuation, HandleMessage, queueVars, prodVars
  <2>5. CASE RunLoadHead(t)
    BY <1>a, <2>5, ListUnchanged
    DEF RunLoadHead, queueVars, prodVars, actorVars
  <2>6. CASE RunHandle(t)
    BY <1>a, <2>6, ListUnchanged
    DEF RunHandle, HandleMessage, queueVars, prodVars
  <2>7. CASE RunAfter(t)
    BY <1>a, <2>7, ListUnchanged DEF RunAfter, queueVars, prodVars
  <2>8. CASE RunMark(t)
    BY <1>a, <2>8, ListUnchanged DEF RunMark, queueVars, prodVars, actorVars
  <2>9. CASE RunCas(t)
    BY <1>a, <2>9, ListUnchanged
    DEF RunCas, MarkEmptyCas, prodVars, actorVars
  <2> QED
    BY <1>2, <2>1, <2>2, <2>3, <2>4, <2>5, <2>6, <2>7, <2>8, <2>9
    DEF Run, RunPop
<1>3. ASSUME NEW e \in Embedder, Poll(e) PROVE ChainInv' /\ LinkInv'
  BY <1>a, <1>3, ListUnchanged DEF Poll, queueVars, prodVars, actorVars
<1>4. CASE Schedule
  BY <1>a, <1>4, ListUnchanged DEF Schedule, queueVars, prodVars
<1>5. CASE SetPendingDestroy
  BY <1>a, <1>5, ListUnchanged DEF SetPendingDestroy, queueVars, prodVars
<1>6. CASE ActorDestroy
  <2>1. destroyed' /\ \A p \in Producer : ppc'[p] # "link"
    BY <1>a, <1>6 DEF ActorDestroy, DestroyInv, prodVars
  <2> QED BY <2>1 DEF ChainInv, LinkInv
<1>7. CASE UNCHANGED vars
  BY <1>a, <1>7, ListUnchanged DEF vars, queueVars, prodVars, actorVars
<1> QED BY <1>1, <1>2, <1>3, <1>4, <1>5, <1>6, <1>7 DEF Next

-----------------------------------------------------------------------------
(* Nothing is stranded. *)

\* A step inside a run, which does not mark the queue, keeps ContInv: the
\* thread has a continuation left only when it has counted an application
\* message, or is at the start of a run.
LEMMA ContRun ==
  ASSUME IInv, NEW t \in Thread, Running(t), empty' = empty,
         \A u \in Thread : u # t => tpc'[u] = tpc[u],
         tpc'[t] \in {"pop", "handle", "after"} /\ tapp'[t] = 0 => cont' = 0,
         tpc'[t] \in {"mark", "cas"} => cont' = 0
  PROVE  ContInv'
<1>1. ~empty /\ \A u \in Thread : u # t => tpc[u] = "idle"
  BY DEF IInv, OwnerInv, OneOwner, Running
<1>2. \A u \in Thread :
        /\ tpc'[u] \in {"pop", "handle", "after"} /\ tapp'[u] = 0 => cont' = 0
        /\ tpc'[u] \in {"mark", "cas"} => cont' = 0
  BY <1>1
<1> QED BY <1>1, <1>2 DEF ContInv, NothingStranded

\* The mark is only set when nothing is left, and only cleared by a send.
LEMMA ContStep ==
  ASSUME IInv, [Next]_vars
  PROVE  ContInv'
<1> USE DEF Running
<1>a. TypeOK /\ OwnerInv /\ ChainInv /\ ContInv /\ DestroyInv
  BY DEF IInv
<1>b. /\ RunType /\ cont \in Nat
      /\ tpc \in [Thread -> RunPc] /\ tapp \in [Thread -> Nat]
  BY <1>a DEF TypeOK, RunType, ActorType
<1>1. ASSUME NEW p \in Producer, SendExchange(p) PROVE ContInv'
  <2>1. ~empty' /\ UNCHANGED <<tpc, tapp, cont>>
    BY <1>1 DEF SendExchange, PushExchange, runVars, actorVars
  <2> QED BY <1>a, <2>1 DEF ContInv, NothingStranded
<1>2. ASSUME NEW p \in Producer, SendLink(p) \/ SendAdd(p) PROVE ContInv'
  <2>1. UNCHANGED <<tpc, tapp, cont, empty, sent, recvd>>
    BY <1>2 DEF SendLink, SendAdd, PushLink, queueVars, runVars, actorVars
  <2> QED BY <1>a, <2>1 DEF ContInv, NothingStranded
<1>3. ASSUME NEW t \in Thread, Dequeue(t) PROVE ContInv'
  <2>1. /\ UNCHANGED <<cont, empty, sent, recvd>>
        /\ tpc' = [tpc EXCEPT ![t] = "cont"]
        /\ tapp' = [tapp EXCEPT ![t] = 0]
    BY <1>3 DEF Dequeue, queueVars, actorVars
  <2> QED BY <1>a, <1>b, <2>1 DEF ContInv, NothingStranded
<1>4. ASSUME NEW t \in Thread, RunContinuation(t) PROVE ContInv'
  <2>1. Running(t) /\ empty' = empty
    BY <1>4 DEF RunContinuation, queueVars
  <2>2. CASE tapp[t] + 1 = BatchOf(t)
    <3>1. Return(t, ~unscheduled')
      BY <1>4, <2>2 DEF RunContinuation
    <3>2. /\ \A u \in Thread : u # t => tpc'[u] = tpc[u]
          /\ tpc'[t] \in {"idle", "cont"}
      BY <1>b, <3>1, ReturnEffect, Zenon
    <3> QED BY <2>1, <3>2, ContRun
  <2>3. CASE tapp[t] + 1 # BatchOf(t)
    <3>1. tpc' = tpc /\ tpc[t] = "cont"
      BY <1>4, <2>3 DEF RunContinuation
    <3> QED BY <2>1, <3>1, ContRun
  <2> QED BY <2>2, <2>3
<1>5. ASSUME NEW t \in Thread, RunLoadHead(t) PROVE ContInv'
  <2>1. /\ Running(t) /\ empty' = empty /\ cont' = 0
        /\ tpc' = [tpc EXCEPT ![t] = "pop"]
    BY <1>5 DEF RunLoadHead, queueVars, actorVars
  <2> QED BY <1>b, <2>1, ContRun
<1>6. ASSUME NEW t \in Thread, RunPop(t) PROVE ContInv'
  <2>1. /\ Running(t) /\ empty' = empty /\ UNCHANGED <<cont, tapp>>
        /\ tpc[t] = "pop"
        /\ \/ tpc' = [tpc EXCEPT ![t] = "handle"]
           \/ tpc' = [tpc EXCEPT ![t] = "after"]
    BY <1>6 DEF RunPop, Pop, PopNull, queueVars, actorVars
  <2>2. tapp'[t] = 0 => cont' = 0
    BY <1>a, <2>1 DEF ContInv
  <2> QED BY <1>b, <2>1, <2>2, ContRun
<1>7. ASSUME NEW t \in Thread, RunHandle(t) PROVE ContInv'
  <2> DEFINE app == kind[tail] = "app"
             count == IF app THEN tapp[t] + 1 ELSE tapp[t]
  <2>1. Running(t) /\ empty' = empty /\ tpc[t] = "handle"
    BY <1>7 DEF RunHandle, queueVars
  <2>2. CASE app /\ count = BatchOf(t)
    <3>1. Return(t, ~unscheduled')
      BY <1>7, <2>2 DEF RunHandle
    <3>2. /\ \A u \in Thread : u # t => tpc'[u] = tpc[u]
          /\ tpc'[t] \in {"idle", "cont"}
      BY <1>b, <3>1, ReturnEffect, Zenon
    <3> QED BY <2>1, <3>2, ContRun
  <2>3. CASE ~(app /\ count = BatchOf(t))
    <3>1. /\ tpc' = [tpc EXCEPT ![t] = IF tail = thead[t] THEN "after"
                                                          ELSE "pop"]
          /\ tapp' = [tapp EXCEPT ![t] = count]
      BY <1>7, <2>3 DEF RunHandle
    <3>2. tapp'[t] = 0 => cont' = 0
      <4>1. CASE app
        BY <1>b, <3>1, <4>1
      <4>2. CASE ~app
        <5>1. cont' = cont
          BY <1>7, <4>2 DEF RunHandle, HandleMessage
        <5>2. tapp'[t] = tapp[t]
          BY <1>b, <3>1, <4>2
        <5> QED BY <1>a, <2>1, <5>1, <5>2 DEF ContInv
      <4> QED BY <4>1, <4>2
    <3>3. /\ \A u \in Thread : u # t => tpc'[u] = tpc[u]
          /\ tpc'[t] \in {"after", "pop"}
      BY <1>b, <3>1
    <3> QED BY <2>1, <3>2, <3>3, ContRun
  <2> QED BY <2>2, <2>3
<1>8. ASSUME NEW t \in Thread, RunAfter(t) PROVE ContInv'
  <2>1. /\ Running(t) /\ empty' = empty /\ cont' = cont
        /\ tpc[t] = "after"
    BY <1>8 DEF RunAfter, queueVars
  <2>2. CASE unscheduled \/ tapp[t] > 0
    <3>1. Return(t, ~unscheduled)
      BY <1>8, <2>2 DEF RunAfter
    <3>2. /\ \A u \in Thread : u # t => tpc'[u] = tpc[u]
          /\ tpc'[t] \in {"idle", "cont"}
      BY <1>b, <3>1, ReturnEffect, Zenon
    <3> QED BY <2>1, <3>2, ContRun
  <2>3. CASE ~(unscheduled \/ tapp[t] > 0)
    <3>1. tpc' = [tpc EXCEPT ![t] = "mark"] /\ tapp' = tapp
      BY <1>8, <2>3 DEF RunAfter
    <3>2. cont' = 0
      BY <1>a, <1>b, <2>1, <2>3 DEF ContInv
    <3> QED BY <1>b, <2>1, <3>1, <3>2, ContRun
  <2> QED BY <2>2, <2>3
<1>9. ASSUME NEW t \in Thread, RunMark(t) PROVE ContInv'
  <2>1. /\ Running(t) /\ empty' = empty /\ cont' = cont
        /\ tpc[t] = "mark"
    BY <1>9 DEF RunMark, queueVars, actorVars
  <2>2. cont' = 0
    BY <1>a, <2>1 DEF ContInv
  <2>3. CASE MarkEmptyDecided
    <3>1. Return(t, ~empty)
      BY <1>9, <2>3 DEF RunMark
    <3>2. /\ \A u \in Thread : u # t => tpc'[u] = tpc[u]
          /\ tpc'[t] \in {"idle", "cont"}
      BY <1>b, <3>1, ReturnEffect, Zenon
    <3> QED BY <2>1, <3>2, ContRun
  <2>4. CASE ~MarkEmptyDecided
    <3>1. tpc' = [tpc EXCEPT ![t] = "cas"]
      BY <1>9, <2>4 DEF RunMark
    <3> QED BY <1>b, <2>1, <2>2, <3>1, ContRun
  <2> QED BY <2>3, <2>4
<1>10. ASSUME NEW t \in Thread, RunCas(t) PROVE ContInv'
  <2>1. /\ Running(t) /\ tpc[t] = "cas" /\ cont' = cont
        /\ empty' = (empty \/ CasSucceeds)
        /\ UNCHANGED <<sent, recvd>>
    BY <1>10 DEF RunCas, MarkEmptyCas, actorVars
  <2>2. cont' = 0
    BY <1>a, <2>1 DEF ContInv
  <2>3. Return(t, ~CasSucceeds)
    BY <1>10 DEF RunCas
  <2>4. /\ \A u \in Thread : u # t => tpc'[u] = tpc[u]
        /\ tpc'[t] \in {"idle", "cont"}
    BY <1>b, <2>3, ReturnEffect, Zenon
  <2>5. CASE CasSucceeds
    <3>1. recvd = sent
      <4>1. recvd \in recvd .. sent /\ sent \in recvd .. sent
        BY <1>a, <2>1 DEF TypeOK, QueueType, DestroyInv, ChainInv
      <4> QED BY <1>a, <2>1, <2>5, <4>1 DEF CasSucceeds, DestroyInv, ChainInv
    <3>2. \A u \in Thread : u # t => tpc[u] = "idle"
      BY <1>a, <2>1 DEF OwnerInv, OneOwner
    <3> QED BY <2>1, <2>2, <2>4, <3>1, <3>2 DEF ContInv, NothingStranded
  <2>6. CASE ~CasSucceeds
    <3>1. empty' = empty
      BY <1>a, <2>1, <2>6 DEF TypeOK, QueueType
    <3> QED BY <2>1, <2>4, <3>1, ContRun
  <2> QED BY <2>5, <2>6
<1>11. ASSUME NEW e \in Embedder, Poll(e) PROVE ContInv'
  <2>1. /\ UNCHANGED <<cont, empty, sent, recvd>>
        /\ tpc' = [tpc EXCEPT ![e] = "cont"]
        /\ tapp' = [tapp EXCEPT ![e] = 0]
    BY <1>11 DEF Poll, queueVars, actorVars
  <2>2. e \in Thread
    BY DEF Thread
  <2> QED BY <1>a, <1>b, <2>1, <2>2 DEF ContInv, NothingStranded
<1>12. CASE Schedule \/ SetPendingDestroy \/ UNCHANGED vars
  <2>1. UNCHANGED <<tpc, tapp, cont, empty, sent, recvd>>
    BY <1>12 DEF Schedule, SetPendingDestroy, vars, queueVars, runVars,
                 actorVars
  <2> QED BY <1>a, <2>1 DEF ContInv, NothingStranded
<1>13. CASE ActorDestroy
  <2>1. ~empty' /\ UNCHANGED <<tpc, tapp, cont>>
    BY <1>13 DEF ActorDestroy, MessageQDestroy, runVars
  <2> QED BY <1>a, <2>1 DEF ContInv, NothingStranded
<1>14. ASSUME NEW p \in Producer, Send(p) PROVE ContInv'
  BY <1>1, <1>2, <1>14 DEF Send
<1>15. ASSUME NEW t \in Thread, Run(t) PROVE ContInv'
  BY <1>4, <1>5, <1>6, <1>7, <1>8, <1>9, <1>10, <1>15 DEF Run
<1> QED BY <1>3, <1>11, <1>12, <1>13, <1>14, <1>15 DEF Next

-----------------------------------------------------------------------------
(* Destruction. *)

\* Nobody comes back to an actor that was destroyed.
LEMMA DestroyStep ==
  ASSUME IInv, [Next]_vars
  PROVE  DestroyInv'
<1> USE DEF Running
<1>a. TypeOK /\ OwnerInv /\ DestroyInv
  BY DEF IInv
<1>b. ppc \in [Producer -> {"idle", "link", "add"}] /\ runq \in Nat
  BY <1>a DEF TypeOK, ProducerType, RunType
<1>1. ASSUME NEW p \in Producer, Send(p) PROVE DestroyInv'
  <2>1. ~pendingdestroy /\ ~destroyed
    BY <1>a, <1>1 DEF Send, SendExchange, SendLink, SendAdd, DestroyInv
  <2>2. UNCHANGED <<pendingdestroy, destroyed>>
    BY <1>1 DEF Send, SendExchange, SendLink, SendAdd, actorVars
  <2> QED BY <2>1, <2>2 DEF DestroyInv
<1>2. ASSUME NEW t \in Thread, Dequeue(t) \/ Run(t) PROVE DestroyInv'
  <2>1. ~destroyed
    <3>1. CASE Dequeue(t)
      BY <1>a, <3>1 DEF Dequeue, DestroyInv
    <3>2. CASE Run(t)
      <4>1. tpc[t] # "idle"
        BY <3>2 DEF Run, RunContinuation, RunLoadHead, RunPop, RunHandle,
          RunAfter, RunMark, RunCas
      <4> QED BY <1>a, <4>1 DEF DestroyInv
    <3> QED BY <1>2, <3>1, <3>2
  <2>2. UNCHANGED <<pendingdestroy, destroyed, ppc>>
    BY <1>2 DEF Dequeue, Run, RunContinuation, RunLoadHead, RunPop,
      RunHandle, RunAfter, RunMark, RunCas, HandleMessage, prodVars, actorVars
  <2> QED BY <1>a, <2>1, <2>2 DEF DestroyInv
<1>3. ASSUME NEW e \in Embedder, Poll(e) PROVE DestroyInv'
  BY <1>a, <1>3 DEF Poll, Parked, prodVars, actorVars, DestroyInv
<1>4. CASE Schedule
  BY <1>a, <1>4 DEF Schedule, Parked, prodVars, DestroyInv
<1>5. CASE SetPendingDestroy
  BY <1>a, <1>5
  DEF SetPendingDestroy, queueVars, prodVars, runVars, DestroyInv
<1>6. CASE ActorDestroy
  <2>1. runq = 0 /\ \A t \in Thread : ~Running(t)
    BY <1>a, <1>b, <1>6 DEF ActorDestroy, OwnerInv, OneOwner
  <2> QED
    BY <1>a, <1>6, <2>1
    DEF ActorDestroy, MessageQDestroy, prodVars, runVars, DestroyInv
<1>7. CASE UNCHANGED vars
  BY <1>a, <1>7 DEF vars, queueVars, prodVars, runVars, actorVars, DestroyInv
<1> QED BY <1>1, <1>2, <1>3, <1>4, <1>5, <1>6, <1>7 DEF Next

-----------------------------------------------------------------------------
(* The theorems. *)

\* The invariant holds when the actor is created with an empty, marked queue.
LEMMA InitInv == Init => IInv
<1> SUFFICES ASSUME Init PROVE IInv
  OBVIOUS
<1>1. PICK stub \in Node :
        /\ head = stub /\ empty = TRUE /\ tail = stub
        /\ next = [n \in Node |-> NULL] /\ live = {stub}
        /\ sent = 0 /\ recvd = 0
        /\ at = [i \in 0..MaxSend |-> IF i = 0 THEN stub ELSE NULL]
  BY DEF Init, MessageQInit
<1>2. TypeOK
  <2>1. QueueType
    BY <1>1, MaxSendAssumption DEF QueueType
  <2>2. ProducerType
    BY DEF Init, ProducerType
  <2>3. RunType
    BY DEF Init, RunType, RunPc
  <2>4. ActorType
    <3>1. cont \in 0..MaxCont
      BY MaxContAssumption DEF Init
    <3> QED BY <3>1, Zenon DEF Init, ActorType
  <2> QED BY <1>1, <2>1, <2>2, <2>3, <2>4, NullAssumption DEF TypeOK
<1>3. OwnerInv
  BY DEF Init, OwnerInv, OneOwner, Running, Pending
<1>4. ChainInv
  BY <1>1, MaxSendAssumption DEF ChainInv
<1>5. LinkInv
  BY DEF Init, LinkInv
<1>6. ContInv
  BY <1>1 DEF Init, ContInv, NothingStranded
<1>7. DestroyInv
  BY DEF Init, DestroyInv
<1> QED BY <1>2, <1>3, <1>4, <1>5, <1>6, <1>7 DEF IInv

\* IInv is an inductive invariant of the mailbox, its senders and its runners.
THEOREM Invariance == Spec => []IInv
<1>1. IInv /\ [Next]_vars => IInv'
  <2> SUFFICES ASSUME IInv, [Next]_vars PROVE IInv'
    OBVIOUS
  <2>1. TypeOK'
    BY TypeStep DEF IInv
  <2> QED
    BY <2>1, OwnerStep, ListStep, ContStep, DestroyStep DEF IInv
<1> QED BY <1>1, InitInv, PTL DEF Spec

\* Type correctness of the queue, pony_sendv, ponyint_actor_run and
\* ponyint_actor_destroy.
THEOREM TypeCorrect == Spec => []TypeOK
<1>1. IInv => TypeOK
  BY DEF IInv
<1> QED BY <1>1, Invariance, PTL

\* At most one thread runs the actor, and the actor is on at most one
\* scheduler queue, for any number of senders and scheduler threads: the
\* empty mark of messageq.c is as good as a lock. That is of the actors of
\* Init: not of one unscheduled before its first message (pony.h:368-373).
THEOREM SingleOwner == Spec => []OneOwner
<1>1. IInv => OneOwner
  BY DEF IInv, OwnerInv
<1> QED BY <1>1, Invariance, PTL

\* No message block is read or written after it went back to the pool, for
\* any number of blocks and any interleaving of pushes with pops.
THEOREM MemorySafe == Spec => []NoUseAfterFree
<1>1. IInv => NoUseAfterFree
  <2> SUFFICES ASSUME IInv PROVE NoUseAfterFree
    OBVIOUS
  <2>a. TypeOK /\ ChainInv /\ LinkInv /\ DestroyInv
    BY DEF IInv
  <2>b. sent \in Nat /\ recvd \in Nat
    BY <2>a DEF TypeOK, QueueType
  <2>1. ASSUME NEW p \in Producer, ppc[p] = "link"
        PROVE  {pprev[p], pmsg[p]} \subseteq live
    <3>1. ~destroyed
      BY <2>a, <2>1 DEF DestroyInv
    <3>2. PICK i \in recvd .. sent - 1 :
            pprev[p] = at[i] /\ pmsg[p] = at[i + 1]
      BY <2>a, <2>1 DEF LinkInv
    <3>3. i \in recvd .. sent /\ i + 1 \in recvd .. sent
      BY <2>b
    <3> QED BY <2>a, <3>1, <3>2, <3>3 DEF ChainInv
  <2>2. ~destroyed => head \in live /\ tail \in live
    BY <2>a, <2>b DEF ChainInv
  <2>3. ASSUME NEW t \in Thread, tpc[t] \in {"pop", "handle"}
        PROVE  ~destroyed
    BY <2>a, <2>3 DEF DestroyInv, Running
  <2> QED BY <2>1, <2>2, <2>3 DEF NoUseAfterFree
<1> QED BY <1>1, Invariance, PTL

\* An actor that nobody is going to run has nothing left to handle: no
\* wakeup is lost between a push and the attempt to mark the queue.
THEOREM NoLostWakeup == Spec => []NothingStranded
<1>1. IInv => NothingStranded
  BY DEF IInv, ContInv
<1> QED BY <1>1, Invariance, PTL

\* The assertion of ponyint_messageq_destroy never fails and nobody is inside
\* the actor once ponyint_actor_destroy has seen the mark.
THEOREM SafeDestruction == Spec => []DestroyIsSafe
<1>1. IInv => DestroyIsSafe
  <2> SUFFICES ASSUME IInv PROVE DestroyIsSafe
    OBVIOUS
  <2>1. ASSUME pendingdestroy, empty PROVE head = tail
    <3>1. ~destroyed /\ sent = recvd
      BY <2>1 DEF IInv, DestroyInv, ContInv, NothingStranded
    <3> QED BY <3>1 DEF IInv, ChainInv
  <2> QED BY <2>1 DEF IInv, DestroyInv, DestroyIsSafe
<1> QED BY <1>1, Invariance, PTL

-----------------------------------------------------------------------------
(* The mailbox implements its abstract specification.                      *)

\* The messages between two positions of the history, oldest first.
Window(a, r, s) == [i \in 1 .. (s - r) |-> a[r + i]]

\* Every message between two positions is in S; two histories have the same
\* messages there.
AllIn(a, r, s, S) == \A i \in r + 1 .. s : a[i] \in S
Agree(a, b, r, s) == \A i \in r + 1 .. s : b[i] = a[i]

\* A window of the history is a sequence as long as the two positions are
\* apart.
LEMMA WindowIsSeq ==
  ASSUME NEW S, NEW a, NEW r \in Nat, NEW s \in Nat, r <= s,
         AllIn(a, r, s, S)
  PROVE  Window(a, r, s) \in Seq(S) /\ Len(Window(a, r, s)) = s - r
<1>1. s - r \in Nat
  OBVIOUS
<1>2. \A i \in 1 .. (s - r) : a[r + i] \in S
  BY DEF AllIn
<1> QED BY <1>1, <1>2 DEF Window

\* The window of b is the one of a with the next message of b at its end.
OneMore(a, b, r, s) ==
  Window(b, r, s + 1) = Append(Window(a, r, s), b[s + 1])

\* An exchange on head appends the new message to the window.
LEMMA WindowAppend ==
  ASSUME NEW S, NEW a, NEW b, NEW r \in Nat, NEW s \in Nat, r <= s,
         AllIn(a, r, s, S), Agree(a, b, r, s),
         b[s + 1] \in S
  PROVE  OneMore(a, b, r, s)
<1> DEFINE w == Window(a, r, s)
           v == Window(b, r, s + 1)
           x == Append(w, b[s + 1])
<1>1. w \in Seq(S) /\ Len(w) = s - r /\ \A i \in 1 .. (s - r) : w[i] = a[r + i]
  <2>1. \A i \in 1 .. (s - r) : w[i] = a[r + i]
    BY DEF Window
  <2>2. Window(a, r, s) \in Seq(S) /\ Len(Window(a, r, s)) = s - r
    BY WindowIsSeq
  <2> QED BY <2>1, <2>2
<1>2. AllIn(b, r, s + 1, S)
  BY DEF AllIn, Agree
<1>3. v \in Seq(S) /\ Len(v) = s + 1 - r
      /\ \A i \in 1 .. (s + 1 - r) : v[i] = b[r + i]
  <2>1. \A i \in 1 .. (s + 1 - r) : v[i] = b[r + i]
    BY DEF Window
  <2>2. s + 1 \in Nat /\ r <= s + 1
    OBVIOUS
  <2> QED BY <1>2, <2>1, <2>2, WindowIsSeq
<1> HIDE DEF w, v
<1>4. x \in Seq(S) /\ Len(x) = s + 1 - r
      /\ \A i \in 1 .. (s - r) : x[i] = w[i]
      /\ x[s + 1 - r] = b[s + 1]
  BY <1>1
<1>5. \A i \in 1 .. (s + 1 - r) : v[i] = x[i]
  <2> SUFFICES ASSUME NEW i \in 1 .. (s + 1 - r) PROVE v[i] = x[i]
    OBVIOUS
  <2>1. CASE i = s + 1 - r
    BY <1>3, <1>4, <2>1
  <2>2. CASE i # s + 1 - r
    <3>1. i \in 1 .. (s - r) /\ r + i \in r + 1 .. s
      BY <2>2
    <3> QED BY <1>1, <1>3, <1>4, <3>1 DEF Agree
  <2> QED BY <2>1, <2>2
<1> HIDE DEF x
<1>6. v = x
  BY <1>3, <1>4, <1>5
<1> QED BY <1>6 DEF v, x, w, OneMore

\* A pop takes the first message of the window away.
LEMMA WindowTail ==
  ASSUME NEW S, NEW a, NEW r \in Nat, NEW s \in Nat, r < s,
         AllIn(a, r, s, S)
  PROVE  /\ Window(a, r, s) # <<>>
         /\ Head(Window(a, r, s)) = a[r + 1]
         /\ Window(a, r + 1, s) = Tail(Window(a, r, s))
<1> DEFINE w == Window(a, r, s)
           v == Window(a, r + 1, s)
<1>1. w \in Seq(S) /\ Len(w) = s - r /\ \A i \in 1 .. (s - r) : w[i] = a[r + i]
  <2>1. \A i \in 1 .. (s - r) : w[i] = a[r + i]
    BY DEF Window
  <2>2. r <= s
    OBVIOUS
  <2>3. Window(a, r, s) \in Seq(S) /\ Len(Window(a, r, s)) = s - r
    BY <2>2, WindowIsSeq
  <2> QED BY <2>1, <2>3
<1>2. v \in Seq(S) /\ Len(v) = s - r - 1
      /\ \A i \in 1 .. (s - r - 1) : v[i] = a[r + 1 + i]
  <2>1. \A i \in 1 .. (s - (r + 1)) : v[i] = a[r + 1 + i]
    BY DEF Window
  <2>2. r + 1 \in Nat /\ r + 1 <= s /\ s - (r + 1) = s - r - 1
        /\ AllIn(a, r + 1, s, S)
    BY DEF AllIn
  <2>3. Window(a, r + 1, s) \in Seq(S) /\ Len(Window(a, r + 1, s)) = s - (r + 1)
    BY <2>2, WindowIsSeq
  <2> QED BY <2>1, <2>2, <2>3
<1> HIDE DEF w, v
<1>3. Len(w) > 0 /\ w # <<>> /\ Head(w) = a[r + 1]
  BY <1>1
<1>4. Tail(w) \in Seq(S) /\ Len(Tail(w)) = s - r - 1
      /\ \A i \in 1 .. (s - r - 1) : Tail(w)[i] = w[i + 1]
  BY <1>1, <1>3
<1>5. \A i \in 1 .. (s - r - 1) : Tail(w)[i] = v[i]
  <2> SUFFICES ASSUME NEW i \in 1 .. (s - r - 1) PROVE Tail(w)[i] = v[i]
    OBVIOUS
  <2>1. i + 1 \in 1 .. (s - r) /\ r + (i + 1) = r + 1 + i
    OBVIOUS
  <2> QED BY <1>1, <1>2, <1>4, <2>1
<1>6. v = Tail(w)
  BY <1>2, <1>4, <1>5
<1> QED BY <1>3, <1>6 DEF v, w

\* The threads that run the actor: the abstract runner.
Inside == {t \in Thread : Running(t)}

\* A step that keeps the history, the block handled last and the threads
\* inside the actor is no step of the abstract mailbox.
LEMMA MailboxStutter ==
  ASSUME UNCHANGED <<sent, recvd, at, tail, destroyed>>, Inside' = Inside
  PROVE  UNCHANGED Abstract!vars
BY DEF Abstract!vars, Contents, Inside

\* A step of the one thread inside the actor that keeps the queue is no step
\* of the abstract mailbox, or it is Leave.
LEMMA MailboxRun ==
  ASSUME IInv, NEW t \in Thread, Running(t),
         UNCHANGED <<sent, recvd, at, tail, destroyed>>,
         \A u \in Thread : u # t => tpc'[u] = tpc[u]
  PROVE  [Abstract!Next]_(Abstract!vars)
<1>1. Inside = {t}
  BY DEF IInv, OwnerInv, OneOwner, Inside
<1>2. \A u \in Thread : u # t => ~Running(u)'
  BY <1>1 DEF Inside, Running
<1>3. CASE Running(t)'
  <2>1. Inside' = Inside
    BY <1>1, <1>2, <1>3 DEF Inside
  <2> QED BY <2>1, MailboxStutter
<1>4. CASE ~Running(t)'
  <2>1. Inside' = {}
    BY <1>2, <1>4 DEF Inside
  <2>2. Abstract!Leave
    BY <1>1, <2>1 DEF Abstract!Leave, Inside, Contents
  <2> QED BY <2>2 DEF Abstract!Next
<1> QED BY <1>3, <1>4

\* A thread that starts to run the actor is an Enter: nobody else is inside.
LEMMA MailboxEnter ==
  ASSUME IInv, NEW t \in Thread,
         UNCHANGED <<sent, recvd, at, tail, destroyed>>,
         \A u \in Thread : ~Running(u),
         tpc' = [tpc EXCEPT ![t] = "cont"]
  PROVE  Abstract!Next
<1>1. tpc \in [Thread -> RunPc]
  BY DEF IInv, TypeOK, RunType
<1>2. Inside = {} /\ Inside' = {t}
  BY <1>1 DEF Inside, Running
<1>3. Abstract!Enter
  BY <1>2 DEF Abstract!Enter, Inside, Contents
<1> QED BY <1>3 DEF Abstract!Next

\* The exchange on head is where the abstract mailbox accepts the message.
LEMMA MailboxAccept ==
  ASSUME IInv, NEW p \in Producer, SendExchange(p)
  PROVE  Abstract!Next
<1>1. PICK m \in Node : PushExchange(m)
  BY DEF SendExchange
<1>2. /\ sent \in Nat /\ recvd \in Nat /\ sent + 1 \in 0 .. MaxSend
      /\ at \in [0 .. MaxSend -> Node \cup {NULL}]
  BY <1>1, MaxSendAssumption DEF PushExchange, IInv, TypeOK, QueueType
<1>3. ~destroyed /\ recvd <= sent
  BY DEF SendExchange, IInv, DestroyInv, ChainInv
<1>4. /\ sent' = sent + 1 /\ recvd' = recvd /\ at'[sent + 1] = m
      /\ Agree(at, at', recvd, sent)
      /\ UNCHANGED <<tail, destroyed, tpc>>
  BY <1>1, <1>2 DEF PushExchange, SendExchange, runVars, actorVars, Agree
<1>5. AllIn(at, recvd, sent, Node \cup {NULL})
  <2>1. \A i \in recvd + 1 .. sent : i \in 0 .. MaxSend
    BY <1>2, MaxSendAssumption
  <2> QED BY <1>2, <2>1 DEF AllIn
<1>6. at'[sent + 1] \in Node \cup {NULL}
  BY <1>4
<1>7. OneMore(at, at', recvd, sent)
  <2>1. PICK S : S = Node \cup {NULL}
    OBVIOUS
  <2>2. AllIn(at, recvd, sent, S) /\ at'[sent + 1] \in S
    BY <1>5, <1>6, <2>1
  <2> QED BY <1>2, <1>3, <1>4, <2>2, WindowAppend
<1>8. Contents' = Append(Contents, m)
  BY <1>4, <1>7 DEF OneMore, Window, Contents
<1>9. Inside' = Inside
  BY <1>4 DEF Inside, Running
<1>10. Abstract!Accept
  BY <1>3, <1>4, <1>8, <1>9 DEF Abstract!Accept, Inside
<1> QED BY <1>10 DEF Abstract!Next

\* A pop that finds a link delivers the oldest message: the chain has no
\* other block behind the tail.
LEMMA MailboxDeliver ==
  ASSUME IInv, NEW t \in Thread, RunPop(t), Pop
  PROVE  Abstract!Next
<1>1. /\ sent \in Nat /\ recvd \in Nat /\ sent \in 0 .. MaxSend
      /\ at \in [0 .. MaxSend -> Node \cup {NULL}]
      /\ tpc \in [Thread -> RunPc]
  BY DEF IInv, TypeOK, QueueType, RunType
<1>2. Running(t) /\ ~destroyed
  BY DEF RunPop, Running, IInv, DestroyInv
<1>3. /\ recvd' = recvd + 1 /\ tail' = next[tail] /\ next[tail] # NULL
      /\ UNCHANGED <<sent, at, destroyed>>
      /\ tpc[t] = "pop" /\ tpc' = [tpc EXCEPT ![t] = "handle"]
  BY DEF RunPop, Pop, PopNull, actorVars
<1>4. recvd < sent /\ next[tail] = at[recvd + 1]
  <2>1. recvd # sent
    BY <1>2, <1>3 DEF IInv, ChainInv
  <2>2. recvd < sent
    BY <1>1, <1>2, <2>1 DEF IInv, ChainInv
  <2>3. recvd \in recvd .. sent - 1
    BY <1>1, <2>2
  <2>4. next[at[recvd]] \in {at[recvd + 1], NULL} /\ at[recvd] = tail
    BY <1>2, <2>3 DEF IInv, ChainInv
  <2> QED BY <1>3, <2>2, <2>4
<1>5. AllIn(at, recvd, sent, Node \cup {NULL})
  <2>1. \A i \in recvd + 1 .. sent : i \in 0 .. MaxSend
    BY <1>1, MaxSendAssumption
  <2> QED BY <1>1, <2>1 DEF AllIn
<1>6. /\ Window(at, recvd, sent) # <<>>
      /\ Head(Window(at, recvd, sent)) = at[recvd + 1]
      /\ Window(at, recvd + 1, sent) = Tail(Window(at, recvd, sent))
  BY <1>1, <1>4, <1>5, WindowTail
<1>7. Contents # <<>> /\ Head(Contents) = at[recvd + 1]
      /\ Contents' = Tail(Contents)
  BY <1>3, <1>6 DEF Window, Contents
<1>8. Inside' = Inside /\ Inside # {}
  BY <1>1, <1>2, <1>3 DEF Inside, Running
<1>9. Abstract!Deliver
  BY <1>2, <1>3, <1>4, <1>7, <1>8 DEF Abstract!Deliver, Inside
<1> QED BY <1>9 DEF Abstract!Next

\* Every step of a thread that runs the actor is a step of the abstract
\* mailbox or changes nothing of it.
LEMMA MailboxRunStep ==
  ASSUME IInv, NEW t \in Thread, Run(t)
  PROVE  [Abstract!Next]_(Abstract!vars)
<1>a. TypeOK /\ RunType /\ tpc \in [Thread -> RunPc]
  BY DEF IInv, TypeOK, RunType
<1>b. Running(t)
  BY DEF Run, RunContinuation, RunLoadHead, RunPop, RunHandle, RunAfter,
         RunMark, RunCas, Running
<1>c. ASSUME NEW b \in BOOLEAN, Return(t, b)
      PROVE  \A u \in Thread : u # t => tpc'[u] = tpc[u]
  BY <1>a, <1>c, ReturnEffect, Zenon
<1>1. CASE RunPop(t) /\ Pop
  BY <1>1, MailboxDeliver
<1>2. CASE ~(RunPop(t) /\ Pop)
  <2>1. UNCHANGED <<sent, recvd, at, tail, destroyed>>
    BY <1>2 DEF Run, RunContinuation, RunLoadHead, RunPop, PopNull, RunHandle,
      RunAfter, RunMark, RunCas, MarkEmptyCas, HandleMessage, queueVars,
      actorVars
  <2>2. \A u \in Thread : u # t => tpc'[u] = tpc[u]
    <3>1. CASE RunContinuation(t)
      BY <1>a, <1>c, <3>1 DEF RunContinuation
    <3>2. CASE RunLoadHead(t) \/ RunPop(t)
      BY <1>a, <3>2 DEF RunLoadHead, RunPop
    <3>3. CASE RunHandle(t)
      BY <1>a, <1>c, <3>3 DEF RunHandle
    <3>4. CASE RunAfter(t)
      BY <1>a, <1>c, <3>4 DEF RunAfter
    <3>5. CASE RunMark(t)
      BY <1>a, <1>c, <3>5 DEF RunMark
    <3>6. CASE RunCas(t)
      BY <1>a, <1>c, <3>6 DEF RunCas
    <3> QED BY <3>1, <3>2, <3>3, <3>4, <3>5, <3>6 DEF Run
  <2> QED BY <1>b, <2>1, <2>2, MailboxRun
<1> QED BY <1>1, <1>2

\* The queue of messageq.c, the scheduling of the actor through its empty mark
\* and the loop of ponyint_actor_run together implement the abstract mailbox:
\* every accepted message is delivered at most once, in the order of the
\* exchanges on head, to one thread at a time.
THEOREM MailboxImplements == Spec => RefinesMailbox
<1>1. Init => Abstract!Init
  <2> SUFFICES ASSUME Init PROVE Abstract!Init
    OBVIOUS
  <2>1. sent = 0 /\ recvd = 0 /\ tail \in Node /\ ~destroyed
        /\ \A t \in Thread : ~Running(t)
    BY DEF Init, MessageQInit, Running
  <2>2. Contents = <<>>
    BY <2>1 DEF Contents
  <2> QED BY <2>1, <2>2 DEF Abstract!Init
<1>2. IInv /\ [Next]_vars => [Abstract!Next]_(Abstract!vars)
  <2> SUFFICES ASSUME IInv, [Next]_vars PROVE [Abstract!Next]_(Abstract!vars)
    OBVIOUS
  <2>1. ASSUME NEW p \in Producer, Send(p)
        PROVE  [Abstract!Next]_(Abstract!vars)
    <3>1. CASE SendExchange(p)
      BY <3>1, MailboxAccept
    <3>2. CASE SendLink(p) \/ SendAdd(p)
      <4>1. UNCHANGED <<sent, recvd, at, tail, destroyed, tpc>>
        BY <3>2
        DEF SendLink, SendAdd, PushLink, queueVars, runVars, actorVars
      <4> QED BY <4>1, MailboxStutter DEF Inside, Running
    <3> QED BY <2>1, <3>1, <3>2 DEF Send
  <2>2. ASSUME NEW t \in Thread, Dequeue(t)
        PROVE  [Abstract!Next]_(Abstract!vars)
    <3>1. UNCHANGED <<sent, recvd, at, tail, destroyed>>
          /\ tpc' = [tpc EXCEPT ![t] = "cont"] /\ runq # 0
      BY <2>2 DEF Dequeue, queueVars, actorVars
    <3>2. \A u \in Thread : ~Running(u)
      BY <3>1 DEF IInv, OwnerInv, OneOwner
    <3> QED BY <3>1, <3>2, MailboxEnter
  <2>3. ASSUME NEW e \in Embedder, Poll(e)
        PROVE  [Abstract!Next]_(Abstract!vars)
    <3>1. UNCHANGED <<sent, recvd, at, tail, destroyed>>
          /\ tpc' = [tpc EXCEPT ![e] = "cont"]
          /\ \A u \in Thread : ~Running(u)
      BY <2>3 DEF Poll, Parked, Running, queueVars, actorVars
    <3>2. e \in Thread
      BY DEF Thread
    <3> QED BY <3>1, <3>2, MailboxEnter
  <2>4. CASE Schedule \/ SetPendingDestroy \/ UNCHANGED vars
    <3>1. UNCHANGED <<sent, recvd, at, tail, destroyed, tpc>>
      BY <2>4
      DEF Schedule, SetPendingDestroy, vars, queueVars, runVars, actorVars
    <3> QED BY <3>1, MailboxStutter DEF Inside, Running
  <2>5. CASE ActorDestroy
    <3>1. UNCHANGED <<sent, recvd, at, tpc>> /\ ~destroyed /\ destroyed'
      BY <2>5 DEF ActorDestroy, MessageQDestroy, runVars
    <3>2. at[recvd] = tail
      BY <3>1 DEF IInv, ChainInv
    <3> QED BY <3>1, <3>2 DEF Abstract!vars, Contents, Running
  <2> QED BY <2>1, <2>2, <2>3, <2>4, <2>5, MailboxRunStep DEF Next
<1> QED
  BY <1>1, <1>2, Invariance, PTL DEF Spec, RefinesMailbox, Abstract!Spec
=============================================================================
