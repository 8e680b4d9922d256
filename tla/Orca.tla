------------------------------- MODULE Orca -------------------------------
(***************************************************************************)
(* The reference counts of actors (gc/gc.c, gc/actormap.c, gc/delta.c) and *)
(* the part of actor.c that keeps them: each actor counts the references   *)
(* to it (rc), each holder counts what it may still hand out (foreign),    *)
(* and ACQUIRE and RELEASE messages keep the two in step.  The cycle       *)
(* detector, which acts on what actors report, is module CycleDetector.    *)
(*                                                                         *)
(* A message carries at most one reference, to an actor; references to     *)
(* objects are left out, and with them the actors that are only reached    *)
(* through immutable objects.  Sending is one step: the trace of the       *)
(* argument, the ACQUIRE it may cause and the push of the message, in this *)
(* order in the queues.  Actors are numbered in the order they are created.*)
(***************************************************************************)
EXTENDS Integers, Sequences, SequencesExt, FiniteSets, FiniteSetsExt

CONSTANTS
  NActors,  \* bound: actors created
  Threads,  \* scheduler threads: how many actors run at a time
  IncMore,  \* GC_INC_MORE, 256 in the code
  MaxOps    \* bound: messages sent by behaviours

Actor == 1..NActors
Main == 1
None == 0

ASSUME OrcaAssumption ==
  /\ NActors \in Nat \ {0} /\ Threads \in Nat \ {0}
  /\ IncMore \in Nat /\ IncMore > 1
  /\ MaxOps \in Nat

VARIABLES
  alive,      \* actors created and not destroyed
  pc,         \* "busy": in a behaviour; "run": in a run without one; "idle"
  due,        \* messages a run without a behaviour has still to handle
  refs,       \* what the actor can really reach: its fields and its frame
  gc,         \* gc_t of each actor: rc, foreign (0: not in the map), delta
  queue,      \* the mailbox
  blocked,    \* FLAG_BLOCKED
  rcChanged,  \* FLAG_RC_CHANGED
  cdq,        \* the mailbox of the cycle detector
  ops,        \* messages sent by behaviours so far
  created     \* actors created so far

actorVars == <<alive, pc, due, refs, gc, queue, blocked, rcChanged, cdq, ops,
               created>>

NoDelta == [c \in {} |-> 0]

App(c) == [kind |-> "app", ref |-> c]
Acquire(n) == [kind |-> "acquire", rc |-> n]
Release(n) == [kind |-> "release", rc |-> n]
Conf(t) == [kind |-> "conf", token |-> t]

BlockMsg(a, n, d) == [kind |-> "block", actor |-> a, rc |-> n, delta |-> d]
UnblockMsg(a) == [kind |-> "unblock", actor |-> a]
AckMsg(t) == [kind |-> "ack", token |-> t]

(* pony_create without a current actor: nothing refers to the first one.   *)
NewGc == [rc |-> 0, foreign |-> [c \in Actor |-> 0], delta |-> NoDelta]

(* The Main actor runs its constructor.                                    *)
OrcaInit ==
  /\ alive = {Main}
  /\ pc = [a \in Actor |-> IF a = Main THEN "busy" ELSE "idle"]
  /\ due = [a \in Actor |-> 0]
  /\ refs = [a \in Actor |-> {}]
  /\ gc = [a \in Actor |-> NewGc]
  /\ queue = [a \in Actor |-> <<>>]
  /\ blocked = [a \in Actor |-> FALSE]
  /\ rcChanged = [a \in Actor |-> FALSE]
  /\ cdq = <<>>
  /\ ops = 0
  /\ created = 1

-----------------------------------------------------------------------------
(* deltamap_update: the last count of each holder and actor is reported.   *)
DeltaUpdate(d, c, n) ==
  [x \in DOMAIN d \cup {c} |-> IF x = c THEN n ELSE d[x]]

(* The holder's count becomes n, and the change will be reported.          *)
Held(g, a, c, n) == [g EXCEPT ![a].foreign[c] = n,
                              ![a].delta = DeltaUpdate(@, c, n)]

\* Mutant of MustAcquire: the last reference is handed out.
MustAcquireAtZero(g, a, c) == c \notin {None, a} /\ g[a].foreign[c] < 1

(* send_remote_actor may spend a reference only when it keeps one;         *)
(* otherwise it invents more and tells the owner.                          *)
MustAcquire(g, a, c) == c \notin {None, a} /\ g[a].foreign[c] <= 1

\* Mutant of SendTrace: the reference in the message is not counted.
SendTraceKeepsAll(g, a, c) ==
  CASE c = None -> g
    [] c = a -> [g EXCEPT ![a].rc = @ + 1]
    [] OTHER -> Held(g, a, c, IF MustAcquire(g, a, c)
                              THEN g[a].foreign[c] + IncMore
                              ELSE g[a].foreign[c] - 1)

\* Mutant of SendTrace: an actor that sends itself does not count it.
SendTraceNotSelf(g, a, c) ==
  IF c \in {None, a} THEN g
  ELSE Held(g, a, c, IF MustAcquire(g, a, c)
                     THEN g[a].foreign[c] + IncMore - 1
                     ELSE g[a].foreign[c] - 1)

(* ponyint_gc_sendactor                                                    *)
SendTrace(g, a, c) ==
  CASE c = None -> g
    [] c = a -> [g EXCEPT ![a].rc = @ + 1]
    [] OTHER -> Held(g, a, c, IF MustAcquire(g, a, c)
                              THEN g[a].foreign[c] + IncMore - 1
                              ELSE g[a].foreign[c] - 1)

(* pony_send_done: the ACQUIRE goes out before the message itself.         *)
SendAcquire(q, g, a, c) ==
  IF MustAcquire(g, a, c) THEN [q EXCEPT ![c] = Append(@, Acquire(IncMore))]
                          ELSE q

(* pony_create with a current actor, and the constructor's message.        *)
Create(a, c) ==
  LET n == created + 1
      g == [Held(gc, a, n, IncMore) EXCEPT ![n].rc = IncMore]
  IN
  /\ pc[a] = "busy" /\ n \in Actor /\ ops < MaxOps
  /\ c \in refs[a] \cup {a, None}
  /\ created' = n
  /\ alive' = alive \cup {n}
  /\ refs' = [refs EXCEPT ![a] = @ \cup {n}]
  /\ gc' = SendTrace(g, a, c)
  /\ queue' = [SendAcquire(queue, g, a, c) EXCEPT ![n] = Append(@, App(c))]
  /\ ops' = ops + 1
  /\ UNCHANGED <<pc, due, blocked, rcChanged, cdq>>

(* A behaviour sends b a message that carries c.                           *)
Send(a, b, c) ==
  /\ pc[a] = "busy" /\ ops < MaxOps
  /\ b \in refs[a] \cup {a} /\ c \in refs[a] \cup {a, None}
  /\ gc' = SendTrace(gc, a, c)
  /\ queue' = [SendAcquire(queue, gc, a, c) EXCEPT ![b] = Append(@, App(c))]
  /\ ops' = ops + 1
  /\ UNCHANGED <<alive, pc, due, refs, blocked, rcChanged, cdq, created>>

(* ponyint_gc_recvactor                                                    *)
RecvTrace(g, a, c) ==
  CASE c = None -> g
    [] c = a -> [g EXCEPT ![a].rc = @ - 1]
    [] OTHER -> Held(g, a, c, g[a].foreign[c] + 1)

(* There is a scheduler thread to run another actor on.                    *)
ThreadFree == Cardinality({a \in alive : pc[a] # "idle"}) < Threads

(* handle_message, an application message: UNBLOCK goes out first, and a   *)
(* count that changed since the last BLOCK need not be reported.           *)
Receive(a) ==
  /\ a \in alive /\ pc[a] = "idle" /\ ThreadFree
  /\ queue[a] # <<>> /\ Head(queue[a]).kind = "app"
  /\ LET c == Head(queue[a]).ref IN
     /\ gc' = RecvTrace(gc, a, c)
     /\ refs' = [refs EXCEPT ![a] = @ \cup ({c} \ {a, None})]
  /\ queue' = [queue EXCEPT ![a] = Tail(@)]
  /\ pc' = [pc EXCEPT ![a] = "busy"]
  /\ cdq' = IF blocked[a] THEN Append(cdq, UnblockMsg(a)) ELSE cdq
  /\ blocked' = [blocked EXCEPT ![a] = FALSE]
  /\ rcChanged' = [rcChanged EXCEPT ![a] = FALSE]
  /\ UNCHANGED <<alive, due, ops, created>>

(* ponyint_actormap_sweep: what the mark did not reach leaves the map, is  *)
(* reported as 0 and released to its owner.                                *)
Swept(a, kept) == {c \in Actor : gc[a].foreign[c] > 0 /\ c \notin kept}

SweepGc(g, a, S) ==
  [g EXCEPT ![a].foreign = [c \in Actor |-> IF c \in S THEN 0 ELSE @[c]],
            ![a].delta = [c \in DOMAIN @ \cup S |-> IF c \in S THEN 0 ELSE @[c]]]

(* send_release to the owners in S, for those that are not being destroyed.*)
SendReleases(q, a, S) ==
  [c \in Actor |-> IF c \in S THEN Append(q[c], Release(gc[a].foreign[c]))
                              ELSE q[c]]

(* The behaviour ends, and try_gc sweeps what the actor does not keep.  An *)
(* actor that drops references and does not collect yet is one that still  *)
(* keeps them.                                                             *)
EndBehaviour(a, kept) ==
  LET S == Swept(a, kept) IN
  /\ pc[a] = "busy" /\ kept \subseteq refs[a]
  /\ pc' = [pc EXCEPT ![a] = "idle"]
  /\ refs' = [refs EXCEPT ![a] = kept]
  /\ gc' = SweepGc(gc, a, S)
  /\ queue' = SendReleases(queue, a, S)
  /\ UNCHANGED <<alive, due, blocked, rcChanged, cdq, ops, created>>

Waiting(a, kind) == \E i \in DOMAIN queue[a] : queue[a][i].kind = kind

(* ponyint_actor_run with no application message before the head it finds: *)
(* a run that will block.                                                  *)
StartRun(a) ==
  /\ a \in alive /\ pc[a] = "idle" /\ ThreadFree
  /\ ~Waiting(a, "app")
  /\ \/ ~blocked[a] \/ rcChanged[a]
     \/ Waiting(a, "acquire") \/ Waiting(a, "release")
  /\ pc' = [pc EXCEPT ![a] = "run"]
  /\ due' = [due EXCEPT ![a] = Len(queue[a])]
  /\ UNCHANGED <<alive, refs, gc, queue, blocked, rcChanged, cdq, ops, created>>

(* The actor may pop its next message: in a run that will block only those *)
(* the run found, otherwise on the way to an application message.          *)
Popped(a, kind) ==
  /\ a \in alive
  /\ \/ pc[a] = "run" /\ due[a] > 0
     \/ pc[a] = "idle" /\ ThreadFree /\ (kind = "conf" \/ Waiting(a, "app"))
  /\ queue[a] # <<>> /\ Head(queue[a]).kind = kind
  /\ queue' = [queue EXCEPT ![a] = Tail(@)]
  /\ due' = [due EXCEPT ![a] = IF pc[a] = "run" THEN @ - 1 ELSE @]

(* ponyint_gc_acquire and ponyint_gc_release; a blocked actor has to       *)
(* report the change before it confirms anything.                          *)
HandleAcquire(a) ==
  /\ Popped(a, "acquire")
  /\ gc' = [gc EXCEPT ![a].rc = @ + Head(queue[a]).rc]
  /\ rcChanged' = [rcChanged EXCEPT ![a] = @ \/ blocked[a]]
  /\ UNCHANGED <<alive, pc, refs, blocked, cdq, ops, created>>

HandleRelease(a) ==
  /\ Popped(a, "release")
  /\ gc' = [gc EXCEPT ![a].rc = @ - Head(queue[a]).rc]
  /\ rcChanged' = [rcChanged EXCEPT ![a] = @ \/ blocked[a]]
  /\ UNCHANGED <<alive, pc, refs, blocked, cdq, ops, created>>

\* Mutant of MayConfirm: a changed count need not be reported first.
MayConfirmStale(a) == blocked[a]

(* CONF is confirmed only by an actor whose last BLOCK is still true.      *)
MayConfirm(a) == blocked[a] /\ ~rcChanged[a]

HandleConf(a) ==
  /\ Popped(a, "conf")
  /\ cdq' = IF MayConfirm(a) THEN Append(cdq, AckMsg(Head(queue[a]).token))
                             ELSE cdq
  /\ UNCHANGED <<alive, pc, refs, gc, blocked, rcChanged, ops, created>>

(* The end of a run without a behaviour: ponyint_cycle_block, if there is  *)
(* something to report.                                                    *)
EndRun(a) ==
  /\ pc[a] = "run" /\ due[a] = 0
  /\ pc' = [pc EXCEPT ![a] = "idle"]
  /\ IF ~blocked[a] \/ rcChanged[a]
     THEN /\ cdq' = Append(cdq, BlockMsg(a, gc[a].rc, gc[a].delta))
          /\ gc' = [gc EXCEPT ![a].delta = NoDelta]
     ELSE UNCHANGED <<cdq, gc>>
  /\ blocked' = [blocked EXCEPT ![a] = TRUE]
  /\ rcChanged' = [rcChanged EXCEPT ![a] = FALSE]
  /\ UNCHANGED <<alive, due, refs, queue, ops, created>>

Step(a) ==
  \/ \E c \in Actor \cup {None} : Create(a, c)
  \/ \E b \in Actor, c \in Actor \cup {None} : Send(a, b, c)
  \/ Receive(a)
  \/ \E kept \in SUBSET refs[a] : EndBehaviour(a, kept)
  \/ StartRun(a) \/ EndRun(a)
  \/ HandleAcquire(a) \/ HandleRelease(a) \/ HandleConf(a)
-----------------------------------------------------------------------------
(* What handling a message adds to the count of its receiver, and whether  *)
(* it carries a reference to a.                                            *)
Change(m) ==
  CASE m.kind = "acquire" -> m.rc
    [] m.kind = "release" -> -m.rc
    [] OTHER -> 0

Carries(m, a) == IF m.kind = "app" /\ m.ref = a THEN 1 ELSE 0

(* The changes that wait in a's queue, and the references to a in b's.     *)
Pending(a) == SumFunction([i \in DOMAIN queue[a] |-> Change(queue[a][i])])
InFlight(b, a) == SumFunction([i \in DOMAIN queue[b] |-> Carries(queue[b][i], a)])

(* The count an actor will have once it has handled what is in its queue   *)
(* is the number of references others may hand out, and of those in        *)
(* messages: no reference is ever uncounted, and none is counted twice     *)
(* (send_remote_actor, recv_remote_actor, ponyint_gc_acquire,              *)
(* ponyint_gc_release).                                                    *)
RcExact ==
  \A a \in alive :
    gc[a].rc + Pending(a) =
      SumFunction([b \in Actor |-> gc[b].foreign[a] + InFlight(b, a)])

(* The asserts of gc.c:54 and gc.c:650: a count is never decremented below *)
(* 0, although ACQUIRE, RELEASE and the references they account for come   *)
(* from different actors in different queues.                              *)
NoUnderflow == \A a \in alive : gc[a].rc >= 0

(* An actor holds a count for whatever it can reach, so the owner knows of *)
(* the reference.                                                          *)
ReachableIsCounted ==
  \A a \in alive : \A c \in refs[a] : gc[a].foreign[c] > 0

=============================================================================
