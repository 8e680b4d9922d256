---------------------------- MODULE ActorMailbox ----------------------------
(* One actor and its mailbox: pony_sendv by any number of threads, the     *)
(* scheduler queues the actor may be on, ponyint_actor_run on a scheduler  *)
(* thread or, for an unscheduled actor, by pony_poll on a foreign thread,  *)
(* and the destruction of the actor by the cycle detector (actor.c,        *)
(* scheduler.c 263-297). The queue itself is MessageQ.                     *)
EXTENDS MessageQ, FiniteSets

CONSTANTS
  Producer,    \* the threads that send to the actor
  Scheduler,   \* the scheduler threads
  Embedder,    \* the foreign threads that poll and reschedule the actor
  SchedBatch,  \* SCHED_BATCH: application messages handled per run
  MaxCont      \* bound: continuation messages waiting at the same time

ASSUME SchedBatchAssumption == SchedBatch \in Nat \ {0}
ASSUME MaxContAssumption == MaxCont \in Nat

VARIABLES
  kind,        \* the id of the message in a block: application or runtime
  ppc, pmsg, pprev, pwas,  \* a producer's place in pony_sendv and its locals
  runq,        \* how many times the actor is on a scheduler queue
  tpc, thead, tapp,        \* a thread's place in ponyint_actor_run, its locals
  cont,        \* how many messages are on actor->continuation
  blocked,     \* FLAG_BLOCKED
  unscheduled, \* FLAG_UNSCHEDULED
  pendingdestroy, \* FLAG_PENDINGDESTROY
  destroyed    \* the actor's memory went back to the pool

Thread == Scheduler \cup Embedder

prodVars == <<kind, ppc, pmsg, pprev, pwas>>
runVars == <<tpc, thead, tapp>>
actorVars == <<cont, blocked, unscheduled, pendingdestroy, destroyed>>
vars == <<queueVars, prodVars, runq, runVars, actorVars>>

Init ==
  /\ MessageQInit
  /\ kind = [n \in Node |-> "sys"]
  /\ ppc = [p \in Producer |-> "idle"]
  /\ pmsg = [p \in Producer |-> NULL]
  /\ pprev = [p \in Producer |-> NULL]
  /\ pwas = [p \in Producer |-> FALSE]
  /\ runq = 0
  /\ tpc = [t \in Thread |-> "idle"]
  /\ thead = [t \in Thread |-> NULL]
  /\ tapp = [t \in Thread |-> 0]
  /\ cont = 0
  /\ blocked = FALSE
  /\ pendingdestroy = FALSE
  /\ destroyed = FALSE
  /\ unscheduled = FALSE

-----------------------------------------------------------------------------
(* pony_sendv. *)

\* An actor that is garbage is sent nothing any more.
SendExchange(p) ==
  /\ ppc[p] = "idle"
  /\ ~pendingdestroy
  /\ \E m \in Node, k \in {"app", "sys"} :
       /\ PushExchange(m)
       /\ kind' = [kind EXCEPT ![m] = k]
       /\ pmsg' = [pmsg EXCEPT ![p] = m]
  /\ pprev' = [pprev EXCEPT ![p] = head]
  /\ pwas' = [pwas EXCEPT ![p] = empty]
  /\ ppc' = [ppc EXCEPT ![p] = "link"]
  /\ UNCHANGED <<runq, runVars, actorVars>>

\* Mutant of SendLink: the sender schedules the actor whatever the mark was.
SendLinkAlwaysAdd(p) ==
  /\ ppc[p] = "link"
  /\ PushLink(pprev[p], pmsg[p])
  /\ ppc' = [ppc EXCEPT ![p] = "add"]
  /\ UNCHANGED <<kind, pmsg, pprev, pwas, runq, runVars, actorVars>>

SendLink(p) ==
  /\ ppc[p] = "link"
  /\ PushLink(pprev[p], pmsg[p])
  /\ ppc' = [ppc EXCEPT ![p] = IF pwas[p] THEN "add" ELSE "idle"]
  /\ UNCHANGED <<kind, pmsg, pprev, pwas, runq, runVars, actorVars>>

\* The queue was marked empty, so this producer schedules the actor.
SendAdd(p) ==
  /\ ppc[p] = "add"
  /\ runq' = IF unscheduled THEN runq ELSE runq + 1
  /\ ppc' = [ppc EXCEPT ![p] = "idle"]
  /\ UNCHANGED <<queueVars, kind, pmsg, pprev, pwas, runVars, actorVars>>

-----------------------------------------------------------------------------
(* ponyint_actor_run. *)

BatchOf(t) == IF t \in Scheduler THEN SchedBatch ELSE 1

\* A scheduler thread pops the actor from a queue and calls actor_run.
Dequeue(t) ==
  /\ t \in Scheduler
  /\ tpc[t] = "idle"
  /\ runq > 0
  /\ runq' = runq - 1
  /\ tpc' = [tpc EXCEPT ![t] = "cont"]
  /\ tapp' = [tapp EXCEPT ![t] = 0]
  /\ UNCHANGED <<queueVars, prodVars, thead, actorVars>>

\* actor_run returns. A scheduler thread told to reschedule puts the actor on
\* the back of its queue, or keeps it when it has nothing else to run.
Return(t, reschedule) ==
  \/ /\ t \in Scheduler /\ reschedule
     /\ tpc' = [tpc EXCEPT ![t] = "idle"]
     /\ tapp' = [tapp EXCEPT ![t] = 0]
     /\ runq' = runq + 1
  \/ /\ t \in Scheduler /\ reschedule
     /\ tpc' = [tpc EXCEPT ![t] = "cont"]
     /\ tapp' = [tapp EXCEPT ![t] = 0]
     /\ UNCHANGED runq
  \/ /\ t \in Embedder \/ ~reschedule
     /\ tpc' = [tpc EXCEPT ![t] = "idle"]
     /\ tapp' = [tapp EXCEPT ![t] = 0]
     /\ UNCHANGED runq

\* The actor's flags after handle_message: an application message unblocks
\* it, and its behaviour may unschedule the actor or queue a continuation.
HandleMessage(app, left) ==
  /\ blocked' = (blocked /\ ~app)
  /\ cont' \in IF app /\ left < MaxCont THEN {left, left + 1} ELSE {left}
  /\ unscheduled' \in IF app /\ Embedder # {} THEN {unscheduled, TRUE}
                                              ELSE {unscheduled}
  /\ UNCHANGED <<pendingdestroy, destroyed>>

\* A continuation is handled before anything in the queue.
RunContinuation(t) ==
  /\ tpc[t] = "cont"
  /\ cont > 0
  /\ HandleMessage(TRUE, cont - 1)
  /\ IF tapp[t] + 1 = BatchOf(t)
     THEN Return(t, ~unscheduled')
     ELSE /\ tapp' = [tapp EXCEPT ![t] = tapp[t] + 1]
          /\ UNCHANGED <<tpc, runq>>
  /\ UNCHANGED <<queueVars, prodVars, thead>>

\* The head is read once; the batch stops when that message is reached.
RunLoadHead(t) ==
  /\ tpc[t] = "cont"
  /\ cont = 0
  /\ thead' = [thead EXCEPT ![t] = head]
  /\ tpc' = [tpc EXCEPT ![t] = "pop"]
  /\ UNCHANGED <<queueVars, prodVars, runq, tapp, actorVars>>

RunPop(t) ==
  /\ tpc[t] = "pop"
  /\ \/ Pop /\ tpc' = [tpc EXCEPT ![t] = "handle"]
     \/ PopNull /\ tpc' = [tpc EXCEPT ![t] = "after"]
  /\ UNCHANGED <<prodVars, runq, thead, tapp, actorVars>>

\* The message just popped is the tail.
RunHandle(t) ==
  LET app == kind[tail] = "app"
      count == IF app THEN tapp[t] + 1 ELSE tapp[t]
  IN
  /\ tpc[t] = "handle"
  /\ HandleMessage(app, cont)
  /\ IF app /\ count = BatchOf(t)
     THEN Return(t, ~unscheduled')
     ELSE /\ tapp' = [tapp EXCEPT ![t] = count]
          /\ tpc' = [tpc EXCEPT ![t] = IF tail = thead[t] THEN "after"
                                                          ELSE "pop"]
          /\ UNCHANGED runq
  /\ UNCHANGED <<queueVars, prodVars, thead>>

\* The queue looks empty: leave when unscheduled, come back when application
\* messages were handled, otherwise tell the cycle detector and try to mark
\* the queue.
RunAfter(t) ==
  /\ tpc[t] = "after"
  /\ IF unscheduled \/ tapp[t] > 0
     THEN /\ Return(t, ~unscheduled)
          /\ UNCHANGED blocked
     ELSE /\ tpc' = [tpc EXCEPT ![t] = "mark"]
          /\ blocked' = TRUE
          /\ UNCHANGED <<runq, tapp>>
  /\ UNCHANGED <<queueVars, prodVars, thead, cont, unscheduled,
                 pendingdestroy, destroyed>>

\* Mutant of RunMark: the run never asks to be rescheduled here.
RunMarkNoReschedule(t) ==
  /\ tpc[t] = "mark"
  /\ IF MarkEmptyDecided
     THEN Return(t, FALSE)
     ELSE tpc' = [tpc EXCEPT ![t] = "cas"] /\ UNCHANGED <<runq, tapp>>
  /\ UNCHANGED <<queueVars, prodVars, thead, actorVars>>

RunMark(t) ==
  /\ tpc[t] = "mark"
  /\ IF MarkEmptyDecided
     THEN Return(t, ~empty)
     ELSE tpc' = [tpc EXCEPT ![t] = "cas"] /\ UNCHANGED <<runq, tapp>>
  /\ UNCHANGED <<queueVars, prodVars, thead, actorVars>>

\* Mutant of RunCas: the result of the compare-and-swap is ignored.
RunCasIgnored(t) ==
  /\ tpc[t] = "cas"
  /\ MarkEmptyCas
  /\ Return(t, FALSE)
  /\ UNCHANGED <<prodVars, thead, actorVars>>

RunCas(t) ==
  /\ tpc[t] = "cas"
  /\ MarkEmptyCas
  /\ Return(t, ~CasSucceeds)
  /\ UNCHANGED <<prodVars, thead, actorVars>>

-----------------------------------------------------------------------------
(* A foreign thread owns an unscheduled actor that no thread runs; pony.h  *)
(* 362-364 makes it responsible for knowing that.                          *)

Parked == unscheduled /\ ~destroyed /\ \A t \in Thread : tpc[t] = "idle"

\* pony_become, then pony_poll.
Poll(e) ==
  /\ Parked
  /\ e \in Embedder
  /\ tpc' = [tpc EXCEPT ![e] = "cont"]
  /\ tapp' = [tapp EXCEPT ![e] = 0]
  /\ UNCHANGED <<queueVars, prodVars, runq, thead, actorVars>>

\* pony_schedule.
Schedule ==
  /\ Parked
  /\ Embedder # {}
  /\ unscheduled' = FALSE
  /\ runq' = runq + 1
  /\ UNCHANGED <<queueVars, prodVars, runVars, cont, blocked, pendingdestroy,
                 destroyed>>

-----------------------------------------------------------------------------
(* The cycle detector collects the actor: it has told that it is blocked,  *)
(* no application message is on its way and nobody can send to it again.   *)

SetPendingDestroy ==
  /\ blocked
  /\ ~pendingdestroy
  /\ cont = 0
  /\ \A p \in Producer : ppc[p] = "idle"
  /\ \A i \in recvd + 1 .. sent : kind[at[i]] = "sys"
  /\ pendingdestroy' = TRUE
  /\ UNCHANGED <<queueVars, prodVars, runq, runVars, cont, blocked,
                 unscheduled, destroyed>>

\* Mutant of ActorDestroy: it does not wait for the mark.
ActorDestroyAtOnce ==
  /\ pendingdestroy
  /\ ~destroyed
  /\ MessageQDestroy
  /\ destroyed' = TRUE
  /\ UNCHANGED <<prodVars, runq, runVars, cont, blocked, unscheduled,
                 pendingdestroy>>

\* ponyint_actor_destroy spins until the queue is marked empty.
ActorDestroy ==
  /\ pendingdestroy
  /\ ~destroyed
  /\ empty
  /\ MessageQDestroy
  /\ destroyed' = TRUE
  /\ UNCHANGED <<prodVars, runq, runVars, cont, blocked, unscheduled,
                 pendingdestroy>>

-----------------------------------------------------------------------------
Send(p) == SendExchange(p) \/ SendLink(p) \/ SendAdd(p)

Run(t) ==
  \/ RunContinuation(t) \/ RunLoadHead(t) \/ RunPop(t) \/ RunHandle(t)
  \/ RunAfter(t) \/ RunMark(t) \/ RunCas(t)

Next ==
  \/ \E p \in Producer : Send(p)
  \/ \E t \in Thread : Dequeue(t) \/ Run(t)
  \/ \E e \in Embedder : Poll(e)
  \/ Schedule
  \/ SetPendingDestroy
  \/ ActorDestroy

Spec == Init /\ [][Next]_vars

\* A thread that has begun to send, and one that runs the actor, is never
\* stopped for ever; scheduler queues are drained; the cycle detector spins.
Fairness ==
  /\ \A p \in Producer : WF_vars(SendLink(p) \/ SendAdd(p))
  /\ \A t \in Thread : WF_vars(Run(t))
  /\ WF_vars(\E t \in Scheduler : Dequeue(t))
  /\ WF_vars(ActorDestroy)

FairSpec == Spec /\ Fairness

-----------------------------------------------------------------------------
(* Properties. *)

RunPc == {"idle", "cont", "pop", "handle", "after", "mark", "cas"}

QueueType ==
  /\ head \in Node \cup {NULL}
  /\ tail \in Node \cup {NULL}
  /\ empty \in BOOLEAN
  /\ next \in [Node -> Node \cup {NULL}]
  /\ live \in SUBSET Node
  /\ sent \in 0..MaxSend
  /\ recvd \in Nat
  /\ at \in [0..MaxSend -> Node \cup {NULL}]

ProducerType ==
  /\ kind \in [Node -> {"app", "sys"}]
  /\ ppc \in [Producer -> {"idle", "link", "add"}]
  /\ pmsg \in [Producer -> Node \cup {NULL}]
  /\ pprev \in [Producer -> Node \cup {NULL}]
  /\ pwas \in [Producer -> BOOLEAN]

RunType ==
  /\ runq \in Nat
  /\ tpc \in [Thread -> RunPc]
  /\ thead \in [Thread -> Node \cup {NULL}]
  /\ tapp \in [Thread -> Nat]

ActorType ==
  /\ cont \in 0..MaxCont
  /\ blocked \in BOOLEAN
  /\ unscheduled \in BOOLEAN
  /\ pendingdestroy \in BOOLEAN
  /\ destroyed \in BOOLEAN

\* Every variable has its type, and the two ends of the queue are null only
\* once the queue was destroyed (messageq.c 44-45, the null test of 67).
TypeOK ==
  /\ QueueType
  /\ ProducerType
  /\ RunType
  /\ ActorType
  /\ head = NULL \/ tail = NULL => destroyed

Running(t) == tpc[t] # "idle"

\* A producer that saw the empty mark and has not scheduled the actor yet.
Pending(p) == ppc[p] # "idle" /\ pwas[p]

\* The right to schedule and run the actor is held by one place at a time:
\* the empty mark, a producer that took the mark away, one entry of one
\* scheduler queue, or one running thread. So no two threads ever run the
\* actor (scheduler.c keeps no lock for this: it rests on the mark). Init leaves
\* out an actor that pony_unschedule was called on before its first message,
\* as pony.h:368-373 allows: it has the empty mark, which pony_schedule leaves,
\* so that the next sender schedules it a second time.
OneOwner ==
  /\ runq <= 1
  /\ \A t, u \in Thread : Running(t) /\ Running(u) => t = u
  /\ \A p, q \in Producer : Pending(p) /\ Pending(q) => p = q
  /\ (\E t \in Thread : Running(t)) =>
       /\ runq = 0 /\ ~empty
       /\ \A p \in Producer : ~Pending(p)
  /\ (\E p \in Producer : Pending(p)) => runq = 0 /\ ~empty
  /\ runq = 1 => ~empty

\* A message block is used only while it is allocated: the previous head a
\* producer is about to write its link to, the message being handled, and
\* the two ends of the queue (messageq.c 57, 65, 70).
NoUseAfterFree ==
  /\ \A p \in Producer : ppc[p] = "link" => {pprev[p], pmsg[p]} \subseteq live
  /\ (\E t \in Thread : tpc[t] \in {"pop", "handle"}) => tail \in live
  /\ ~destroyed => head \in live

\* When nobody is going to run the actor, nothing is left for it to do: an
\* actor whose queue is marked empty has handled every accepted message and
\* every continuation (no lost wakeup).
NothingStranded ==
  empty => sent = recvd /\ cont = 0

\* The assertion of ponyint_messageq_destroy (messageq.c:41) at the place
\* ponyint_actor_destroy calls it, and nobody is inside the actor then: the
\* spin of actor.c:209-212 is enough.
DestroyIsSafe ==
  /\ pendingdestroy /\ empty => head = tail
  /\ destroyed =>
       /\ runq = 0
       /\ \A t \in Thread : ~Running(t)
       /\ \A p \in Producer : ppc[p] = "idle"

\* The mailbox the threads implement together delivers, once and in the order
\* of the exchanges on head, what was accepted, to one thread at a time.
Contents == [i \in 1 .. (sent - recvd) |-> at[recvd + i]]

Abstract == INSTANCE Mailbox WITH
  Message <- Node,
  Runner <- Thread,
  queue <- Contents,
  current <- IF destroyed THEN at[recvd] ELSE tail,
  runner <- {t \in Thread : Running(t)}

RefinesMailbox == Abstract!Spec

\* Every accepted message is handed to the actor in the end.
Delivered == \A i \in 1..MaxSend : sent >= i ~> recvd >= i

\* The spin of ponyint_actor_destroy ends.
DestroyEnds == pendingdestroy ~> destroyed
=============================================================================
