----------------------------- MODULE Scheduler -----------------------------
(* The scheduler threads of src/libponyrt/sched/scheduler.c: work stealing *)
(* from the other queues and the inject queue, the BLOCK / UNBLOCK / CNF / *)
(* ACK / TERMINATE protocol by which thread 0 finds out that the program   *)
(* is quiescent, and the ASIO thread it stops on the way. An actor is an   *)
(* opaque token that is in one place at a time (ActorMailbox, OneOwner);   *)
(* an actor in no place is waiting for a message. The queues of actors are *)
(* FIFO (MPMCQ) and so are the message queues of the threads (MessageQ);   *)
(* the pop of either may return NULL although something is queued.         *)
EXTENDS Naturals, Sequences, FiniteSets, SequencesExt

CONSTANTS
  N,         \* scheduler_count
  Actor,     \* the actors of the program, the cycle detector among them
  Main,      \* the actor that has work when the threads start
  CD,        \* the cycle detector
  NONE,      \* no actor
  Options    \* how the runtime may be started, see Option

ASSUME SchedulerAssumption ==
  /\ N \in Nat \ {0}
  /\ {Main, CD} \subseteq Actor /\ Main # CD /\ NONE \notin Actor
  /\ \A o \in Options :
       {o.library, o.noblock, o.events} \subseteq BOOLEAN /\ o.work \in Nat

\* library: pony_start was called with library = true; noblock: actors tell
\* the cycle detector nothing (--ponynoblock); events: the ASIO thread has
\* events to send; work, a bound: wakeups, reschedulings and subscriptions.
Option(library, noblock, events, work) ==
  [library |-> library, noblock |-> noblock, events |-> events, work |-> work]

Thread == 0 .. N - 1

VARIABLES
  opt,         \* the options the runtime was started with
  pc,          \* the place of each thread in run, steal, quiescent, read_msg
  actor,       \* the actor run() holds; in steal, its argument prev
  got,         \* the actor steal() has found
  q,           \* the queue of actors of each thread
  inject,      \* the queue for everyone who is not a scheduler thread
  mq,          \* the message queue of each thread
  last,        \* last_victim
  stale,       \* the threads in a pop of actors that holds a tail since popped
  missed,      \* history: the actors in the queue of a thread when it blocked
  terminate,   \* the terminate flag of each thread
  blockCount, ackToken, ackCount, asioStopped, \* fields used in thread 0 only
  detect,      \* detect_quiescence
  asio,        \* the ASIO thread: it runs, was told to stop, or has exited
  noisy,       \* noisy_count: subscriptions that keep the program alive
  work         \* what is left of opt.work

stealVars == <<got, last, stale, missed>>
protoVars == <<mq, terminate, blockCount, ackToken, ackCount, asioStopped>>
envVars == <<opt, detect, asio, noisy, work>>
vars == <<pc, actor, q, inject, stealVars, protoVars, envVars>>

Init ==
  /\ opt \in Options
  /\ pc = [s \in Thread |-> "next"]
  /\ actor = [s \in Thread |-> NONE]
  /\ got = [s \in Thread |-> NONE]
  /\ q = [s \in Thread |-> IF s = 0 THEN <<Main>> ELSE <<>>]
  /\ inject = <<>>
  /\ mq = [s \in Thread |-> <<>>]
  /\ last = [s \in Thread |-> s]
  /\ stale = {}
  /\ missed = {}
  /\ terminate = [s \in Thread |-> FALSE]
  /\ blockCount = 0
  /\ ackToken = 0
  /\ ackCount = 0
  /\ asioStopped = FALSE
  /\ detect = ~opt.library
  /\ asio = "running"
  /\ noisy = 0
  /\ work = opt.work

Held == {actor[s] : s \in Thread} \cup {got[s] : s \in Thread}
Queued == ToSet(inject) \cup UNION {ToSet(q[s]) : s \in Thread}

\* The actors whose mailbox is marked empty, and those of them that a running
\* actor may send to.
Waiting == Actor \ (Held \cup Queued)
Wakeable == IF opt.noblock THEN Waiting \ {CD} ELSE Waiting

Goto(s, place) == pc' = [pc EXCEPT ![s] = place]

Msg(type, arg) == [type |-> type, arg |-> arg]

\* send_msg to one thread, and to every thread.
SendTo0(type, arg) == mq' = [mq EXCEPT ![0] = Append(@, Msg(type, arg))]

SendAll(type, arg) ==
  mq' = [s \in Thread |-> Append(mq[s], Msg(type, arg))]

-----------------------------------------------------------------------------
(* ponyint_mpmcq_pop, on the queues of actors. A pop reads the tail, then   *)
(* the next link of that node. When another pop has succeeded in between it *)
(* has freed the node: the link may be NULL, and the pop returns NULL with  *)
(* actors in the queue, or it is not, the exchange fails and the pop starts *)
(* again. The tail is read as soon as the thread reaches the place of the   *)
(* pop: all that can follow a later read can follow this one.               *)

\* The threads in a pop of the inject queue, and of the queue of thread v.
InjectPoppers == {s \in Thread : pc[s] \in {"next", "steal"}}
LocalPoppers(v) ==
  {s \in Thread : (pc[s] = "nextLocal" /\ s = v)
                    \/ (pc[s] = "stealVictim" /\ last[s] = v)}

InjectPop(s) ==
  /\ inject # <<>>
  /\ inject' = Tail(inject)
  /\ stale' = (stale \cup InjectPoppers) \ {s}

\* Only an embedded runtime has several threads that inject actors: what one
\* has pushed is not seen while another, before it, has not linked its node.
Unlinked == opt.library /\ (~detect \/ asio # "exited")

InjectNull(s) ==
  /\ inject = <<>> \/ s \in stale \/ Unlinked
  /\ stale' = stale \ {s}

LocalPop(s, v) ==
  /\ q[v] # <<>>
  /\ stale' = (stale \cup LocalPoppers(v)) \ {s}

LocalNull(s, v) ==
  /\ q[v] = <<>> \/ s \in stale
  /\ stale' = stale \ {s}

-----------------------------------------------------------------------------
(* run: ponyint_actor_run on the actor held, then the next actor. *)

\* The actor sends to another one and schedules it on this thread.
RunWake(s) ==
  /\ pc[s] = "run"
  /\ work > 0
  /\ work' = work - 1
  /\ \E a \in Wakeable : q' = [q EXCEPT ![s] = Append(@, a)]
  /\ UNCHANGED <<pc, actor, inject, stealVars, protoVars, opt, detect, asio,
                 noisy>>

\* The actor subscribes to, or unsubscribes from, a noisy ASIO event. Once
\* the ASIO thread has ended the back end is gone and the call is not made
\* in the model, although the code may make it (see AllWaiting).
RunNoisy(s) ==
  /\ pc[s] = "run"
  /\ asio # "exited"
  /\ \/ work > 0 /\ work' = work - 1 /\ noisy' = noisy + 1
     \/ noisy > 0 /\ noisy' = noisy - 1 /\ UNCHANGED work
  /\ UNCHANGED <<pc, actor, q, inject, stealVars, protoVars, opt, detect, asio>>

\* ponyint_actor_run returns: keep the actor to reschedule it, or let it go.
RunReturn(s) ==
  /\ pc[s] = "run"
  /\ \/ work > 0 /\ work' = work - 1 /\ UNCHANGED actor
     \/ actor' = [actor EXCEPT ![s] = NONE] /\ UNCHANGED work
  /\ Goto(s, "next")
  /\ UNCHANGED <<q, inject, stealVars, protoVars, opt, detect, asio, noisy>>

\* An actor to reschedule goes to the back of the queue when there is another.
Take(s, a, queues) ==
  /\ q' = IF actor[s] = NONE THEN queues
          ELSE [queues EXCEPT ![s] = Append(@, actor[s])]
  /\ actor' = [actor EXCEPT ![s] = a]
  /\ Goto(s, "run")

\* pop_global(sched): the inject queue first.
NextInject(s) ==
  /\ pc[s] = "next"
  /\ \/ InjectPop(s) /\ Take(s, Head(inject), q)
     \/ InjectNull(s) /\ Goto(s, "nextLocal") /\ UNCHANGED <<actor, q, inject>>
  /\ UNCHANGED <<got, last, missed, protoVars, envVars>>

\* Then the thread's own queue. When nothing is found an actor to reschedule
\* is run again, except that a thread with no actor, or with only the cycle
\* detector, tries to steal.
NextLocal(s) ==
  /\ pc[s] = "nextLocal"
  /\ \/ /\ LocalPop(s, s)
        /\ Take(s, Head(q[s]), [q EXCEPT ![s] = Tail(@)])
        /\ UNCHANGED missed
     \/ /\ LocalNull(s, s)
        /\ IF actor[s] \in {NONE, CD}
           THEN Goto(s, "block") /\ missed' = missed \cup ToSet(q[s])
           ELSE Goto(s, "run") /\ UNCHANGED missed
        /\ UNCHANGED <<actor, q>>
  /\ UNCHANGED <<inject, got, last, protoVars, envVars>>

-----------------------------------------------------------------------------
(* steal. *)

StealBlock(s) ==
  /\ pc[s] = "block"
  /\ SendTo0("BLOCK", 0)
  /\ Goto(s, "steal")
  /\ UNCHANGED <<actor, q, inject, stealVars, terminate, blockCount, ackToken,
                 ackCount, asioStopped, envVars>>

\* Mutant of Back: the wrap is one past the end of the array.
BackTooFar(v) == IF v = 0 THEN N ELSE v - 1

Back(v) == IF v = 0 THEN N - 1 ELSE v - 1

\* choose_victim: back up from the last victim, skip ourself, stop when all
\* were tried; then the victim is the thread itself.
Victim(s) ==
  LET c == Back(last[s])
      d == IF c = s /\ c # last[s] THEN Back(c) ELSE c
  IN  IF d = last[s] THEN s ELSE d

\* Mutant of StealInject: only the victim's queue is looked at.
StealSkipsInject(s) ==
  /\ pc[s] = "steal"
  /\ last' = [last EXCEPT ![s] = Victim(s)]
  /\ stale' = stale \ {s}
  /\ Goto(s, "stealVictim")
  /\ UNCHANGED <<actor, got, q, inject, missed, protoVars, envVars>>

\* pop_global(victim): the inject queue first.
StealInject(s) ==
  /\ pc[s] = "steal"
  /\ last' = [last EXCEPT ![s] = Victim(s)]
  /\ \/ /\ InjectPop(s)
        /\ got' = [got EXCEPT ![s] = Head(inject)]
        /\ Goto(s, "unblock")
     \/ InjectNull(s) /\ Goto(s, "stealVictim") /\ UNCHANGED <<got, inject>>
  /\ UNCHANGED <<actor, q, missed, protoVars, envVars>>

StealVictim(s) ==
  LET v == last[s] IN
  /\ pc[s] = "stealVictim"
  /\ \/ /\ LocalPop(s, v)
        /\ got' = [got EXCEPT ![s] = Head(q[v])]
        /\ q' = [q EXCEPT ![v] = Tail(@)]
        /\ Goto(s, "unblock")
     \/ LocalNull(s, v) /\ Goto(s, "read") /\ UNCHANGED <<got, q>>
  /\ UNCHANGED <<actor, inject, last, missed, protoVars, envVars>>

\* With the cycle detector in hand, enough time may have passed (10^10 ticks).
StealExpire(s) ==
  /\ pc[s] = "expire"
  /\ \/ Goto(s, "steal") /\ UNCHANGED got
     \/ Goto(s, "unblock") /\ got' = [got EXCEPT ![s] = actor[s]]
  /\ UNCHANGED <<actor, q, inject, last, stale, missed, protoVars, envVars>>

\* Mutants of StealUnblock: thread 0 is not told; the cycle detector is pushed
\* also when it is the actor that runs next.
StealUnblockQuiet(s) ==
  /\ pc[s] = "unblock"
  /\ q' = IF actor[s] \in {NONE, got[s]} THEN q
          ELSE [q EXCEPT ![s] = Append(@, actor[s])]
  /\ actor' = [actor EXCEPT ![s] = got[s]]
  /\ got' = [got EXCEPT ![s] = NONE]
  /\ Goto(s, "run")
  /\ UNCHANGED <<inject, last, stale, missed, protoVars, envVars>>

StealUnblockAlwaysPush(s) ==
  /\ pc[s] = "unblock"
  /\ SendTo0("UNBLOCK", 0)
  /\ q' = IF actor[s] = NONE THEN q
          ELSE [q EXCEPT ![s] = Append(@, actor[s])]
  /\ actor' = [actor EXCEPT ![s] = got[s]]
  /\ got' = [got EXCEPT ![s] = NONE]
  /\ Goto(s, "run")
  /\ UNCHANGED <<inject, last, stale, missed, terminate, blockCount, ackToken,
                 ackCount, asioStopped, envVars>>

\* Tell thread 0, put the cycle detector back and run what was found.
StealUnblock(s) ==
  /\ pc[s] = "unblock"
  /\ SendTo0("UNBLOCK", 0)
  /\ q' = IF actor[s] \in {NONE, got[s]} THEN q
          ELSE [q EXCEPT ![s] = Append(@, actor[s])]
  /\ actor' = [actor EXCEPT ![s] = got[s]]
  /\ got' = [got EXCEPT ![s] = NONE]
  /\ Goto(s, "run")
  /\ UNCHANGED <<inject, last, stale, missed, terminate, blockCount, ackToken,
                 ackCount, asioStopped, envVars>>

-----------------------------------------------------------------------------
(* quiescent. *)

\* Where steal goes on after quiescent has returned false: only a thread that
\* was passed an actor looks at the clock.
Again(s) == IF actor[s] = NONE THEN "steal" ELSE "expire"

\* The cases of read_msg for a message with argument arg; rest is what the
\* queues hold without it.
ToAll(rest, type, arg) == [t \in Thread |-> Append(rest[t], Msg(type, arg))]

OnBlock(rest) ==
  /\ blockCount' = blockCount + 1
  /\ mq' = IF detect /\ blockCount + 1 = N THEN ToAll(rest, "CNF", ackToken)
           ELSE rest
  /\ UNCHANGED <<terminate, ackToken, ackCount>>

\* Mutant of OnUnblock: the acks read so far stay counted.
OnUnblockKeepsAcks(rest) ==
  /\ blockCount' = blockCount - 1
  /\ ackToken' = ackToken + 1
  /\ mq' = rest
  /\ UNCHANGED <<terminate, ackCount>>

OnUnblock(rest) ==
  /\ blockCount' = blockCount - 1
  /\ ackToken' = ackToken + 1
  /\ ackCount' = 0
  /\ mq' = rest
  /\ UNCHANGED terminate

OnCnf(rest, arg) ==
  /\ mq' = [rest EXCEPT ![0] = Append(@, Msg("ACK", arg))]
  /\ UNCHANGED <<terminate, blockCount, ackToken, ackCount>>

\* Mutant of OnAck: an ack of any round counts.
OnAckAnyToken(rest, arg) ==
  /\ ackCount' = ackCount + 1
  /\ mq' = rest
  /\ UNCHANGED <<terminate, blockCount, ackToken>>

OnAck(rest, arg) ==
  /\ ackCount' = IF arg = ackToken THEN ackCount + 1 ELSE ackCount
  /\ mq' = rest
  /\ UNCHANGED <<terminate, blockCount, ackToken>>

OnTerminate(rest, s) ==
  /\ terminate' = [terminate EXCEPT ![s] = TRUE]
  /\ mq' = rest
  /\ UNCHANGED <<blockCount, ackToken, ackCount>>

\* One turn of read_msg. Only thread 0 is sent BLOCK, UNBLOCK and ACK.
ReadMsg(s) ==
  LET m == Head(mq[s])
      rest == [mq EXCEPT ![s] = Tail(@)]
  IN
  /\ pc[s] = "read"
  /\ mq[s] # <<>>
  /\ \/ m.type = "BLOCK" /\ OnBlock(rest)
     \/ m.type = "UNBLOCK" /\ OnUnblock(rest)
     \/ m.type = "CNF" /\ OnCnf(rest, m.arg)
     \/ m.type = "ACK" /\ OnAck(rest, m.arg)
     \/ m.type = "TERMINATE" /\ OnTerminate(rest, s)
  /\ UNCHANGED <<pc, actor, q, inject, stealVars, asioStopped, envVars>>

\* The pop returns NULL: the queue is empty, or its next message is behind one
\* that another thread has not linked yet. A thread told to terminate leaves,
\* thread 0 acts on a full set of acks.
ReadEnd(s) ==
  /\ pc[s] = "read"
  /\ Goto(s, IF terminate[s] THEN "done"
             ELSE IF s = 0 /\ ackCount = N THEN "acked" ELSE Again(s))
  /\ UNCHANGED <<actor, q, inject, stealVars, protoVars, envVars>>

\* The second full set of acks: everybody terminates.
Terminate(s) ==
  /\ pc[s] = "acked"
  /\ asioStopped
  /\ SendAll("TERMINATE", 0)
  /\ ackToken' = ackToken + 1
  /\ ackCount' = 0
  /\ Goto(s, Again(s))
  /\ UNCHANGED <<actor, q, inject, stealVars, terminate, blockCount,
                 asioStopped, envVars>>

\* The first one: ponyint_asio_stop fails while something is noisy, else it
\* tells the ASIO thread to end and waits for it.
AsioStop(s) ==
  /\ pc[s] = "acked"
  /\ ~asioStopped
  /\ IF noisy > 0
     THEN Goto(s, Again(s)) /\ UNCHANGED asio
     ELSE Goto(s, "join") /\ asio' = "stopping"
  /\ UNCHANGED <<actor, q, inject, stealVars, protoVars, opt, detect, noisy,
                 work>>

\* Mutant of AsioJoin: the second round is not started.
AsioJoinSilent(s) ==
  /\ pc[s] = "join"
  /\ asio = "exited"
  /\ asioStopped' = TRUE
  /\ ackToken' = ackToken + 1
  /\ ackCount' = 0
  /\ Goto(s, Again(s))
  /\ UNCHANGED <<actor, q, inject, stealVars, mq, terminate, blockCount,
                 envVars>>

\* The ASIO thread has ended: another round of CNF and ACK.
AsioJoin(s) ==
  /\ pc[s] = "join"
  /\ asio = "exited"
  /\ asioStopped' = TRUE
  /\ ackToken' = ackToken + 1
  /\ ackCount' = 0
  /\ SendAll("CNF", ackToken + 1)
  /\ Goto(s, Again(s))
  /\ UNCHANGED <<actor, q, inject, stealVars, terminate, blockCount, envVars>>

-----------------------------------------------------------------------------
(* The other threads of the process. *)

\* The ASIO thread sends an event to an actor that was waiting.
AsioSend ==
  /\ asio # "exited"
  /\ opt.events
  /\ work > 0
  /\ work' = work - 1
  /\ \E a \in Waiting \ {CD} : inject' = Append(inject, a)
  /\ UNCHANGED <<pc, actor, q, stealVars, protoVars, opt, detect, asio, noisy>>

AsioExit ==
  /\ asio = "stopping"
  /\ asio' = "exited"
  /\ UNCHANGED <<pc, actor, q, inject, stealVars, protoVars, opt, detect, noisy,
                 work>>

\* The program that embeds the runtime sends to an actor.
ForeignSend ==
  /\ opt.library /\ ~detect
  /\ work > 0
  /\ work' = work - 1
  /\ \E a \in Waiting \ {CD} : inject' = Append(inject, a)
  /\ UNCHANGED <<pc, actor, q, stealVars, protoVars, opt, detect, asio, noisy>>

\* ponyint_sched_stop, the first half of pony_stop; the rest waits for every
\* thread to end.
SchedStop ==
  /\ opt.library /\ ~detect
  /\ detect' = TRUE
  /\ UNCHANGED <<pc, actor, q, inject, stealVars, protoVars, opt, asio, noisy,
                 work>>

-----------------------------------------------------------------------------
Run(s) == RunWake(s) \/ RunNoisy(s) \/ RunReturn(s)
Find(s) == NextInject(s) \/ NextLocal(s)
Steal(s) ==
  \/ StealBlock(s) \/ StealInject(s) \/ StealVictim(s) \/ StealExpire(s)
  \/ StealUnblock(s)
Quiescent(s) ==
  ReadMsg(s) \/ ReadEnd(s) \/ Terminate(s) \/ AsioStop(s) \/ AsioJoin(s)

Step(s) == Run(s) \/ Find(s) \/ Steal(s) \/ Quiescent(s)

AllDone == \A s \in Thread : pc[s] = "done"

\* Once every thread has ended the process goes on to shut down.
Finished == AllDone /\ UNCHANGED vars

Next ==
  \/ \E s \in Thread : Step(s)
  \/ AsioSend \/ AsioExit
  \/ ForeignSend \/ SchedStop
  \/ Finished

Spec == Init /\ [][Next]_vars
\* The operating system runs every thread; a message that was sent is linked
\* in the end, so a thread that reads again and again gets it; the ASIO
\* thread ends when told to.
Fairness ==
  /\ \A s \in Thread : WF_vars(Step(s)) /\ SF_vars(ReadMsg(s))
  /\ WF_vars(AsioExit)

FairSpec == Spec /\ Fairness

-----------------------------------------------------------------------------
(* Properties. *)

Place == {"run", "next", "nextLocal", "block", "steal", "stealVictim", "read",
          "acked", "join", "expire", "unblock", "done"}

MsgSet == [type : {"BLOCK", "UNBLOCK", "CNF", "ACK", "TERMINATE"}, arg : Nat]

TypeOK ==
  /\ pc \in [Thread -> Place]
  /\ actor \in [Thread -> Actor \cup {NONE}]
  /\ got \in [Thread -> Actor \cup {NONE}]
  /\ q \in [Thread -> Seq(Actor)]
  /\ inject \in Seq(Actor)
  /\ mq \in [Thread -> Seq(MsgSet)]
  /\ last \in [Thread -> Thread]
  /\ stale \subseteq Thread /\ missed \subseteq Actor
  /\ terminate \in [Thread -> BOOLEAN]
  /\ blockCount \in 0..N /\ ackToken \in Nat /\ ackCount \in 0..N
  /\ asioStopped \in BOOLEAN /\ detect \in BOOLEAN
  /\ asio \in {"running", "stopping", "exited"}
  /\ noisy \in Nat /\ work \in 0..opt.work /\ opt \in Options

\* The threads between the BLOCK and the UNBLOCK of a call of steal.
Blocked ==
  {s \in Thread : pc[s] \notin {"run", "next", "nextLocal", "block"}}

\* How many copies of the message m the thread s has not read.
Unread(s, m) == Cardinality({i \in 1 .. Len(mq[s]) : mq[s][i] = m})

\* block_count, with the messages on their way to thread 0, is the number of
\* threads that are blocked: no BLOCK or UNBLOCK is lost or sent twice, and
\* the unsigned counter never goes below zero (scheduler.c 84, 99, 206, 237).
BlockAccounting ==
  blockCount + Unread(0, Msg("BLOCK", 0))
    = Cardinality(Blocked) + Unread(0, Msg("UNBLOCK", 0))

\* The confirmations and acks of the current token, read and unread.
Answers ==
  ackCount + Unread(0, Msg("ACK", ackToken))
    + SumFunction([s \in Thread |-> Unread(s, Msg("CNF", ackToken))])

\* They are none or one for each thread. So ack_count cannot step over
\* scheduler_count, and acks of an older round never complete a newer one
\* (scheduler.c 86-117).
AckAccounting == Answers \in {0, N}

\* What is left when a thread ends, and when the last one has: nothing but
\* actors that the owner of their queue has blocked over, because a thief
\* raced its last pop, and the cycle detector. In particular the inject queue
\* is empty, however the pops of it race (scheduler.c 153-161, 205-239, 258).
NothingLeftAtExit ==
  /\ \A s \in Thread : pc[s] = "done" => ToSet(q[s]) \subseteq missed
  /\ AllDone => inject = <<>> /\ Actor \ (missed \cup {CD}) \subseteq Waiting

\* The assertion of scheduler.c:258, "assert(pop(sched) == NULL);", which a
\* thread reaches that has not been passed the cycle detector.
AssertAtExit ==
  \A s \in Thread : pc[s] = "done" /\ actor[s] = NONE => q[s] = <<>>

\* The actors a thread has in its hands.
InHand(s) == {actor[s], got[s]} \ {NONE}

\* An actor is in one place at a time: once in one queue, or in the hands of
\* one thread.
OnePlace ==
  /\ \A i, j \in 1 .. Len(inject) : inject[i] = inject[j] => i = j
  /\ \A s, t \in Thread : \A i \in 1 .. Len(q[s]), j \in 1 .. Len(q[t]) :
       q[s][i] = q[t][j] => s = t /\ i = j
  /\ \A s \in Thread :
       /\ \A i \in 1 .. Len(q[s]), j \in 1 .. Len(inject) : q[s][i] # inject[j]
       /\ InHand(s) \cap Queued = {}
       /\ \A t \in Thread : s # t => InHand(s) \cap InHand(t) = {}

\* scheduler.c:132, "If all schedulers are waiting, one of them will stop the
\* ASIO back end": when the back end is told to stop, and when the threads
\* are, every thread is looking for work and holds no actor, provided that
\* nothing wakes a thread that has confirmed: no event, no cycle detector, no
\* message that an embedding program sent before pony_stop, and no actor that
\* a thread has blocked over.
AllWaiting == Blocked = Thread /\ \A s \in Thread : got[s] = NONE

StopsWhenWaiting ==
  [][opt.noblock /\ ~opt.events /\ ~opt.library /\ missed = {}
       /\ (\E s \in Thread : Terminate(s) \/ (AsioStop(s) /\ noisy = 0))
     => AllWaiting]_vars

\* As long as some BLOCK is still to be read when quiescence is being looked
\* for, a program that runs out of work terminates, with nothing noisy left.
\* So a program that is not embedded terminates, and an embedded one does
\* whatever was sent to it before an early pony_stop. After a late one no BLOCK
\* makes thread 0 ask (scheduler.c:86), and pony_stop does not return although
\* the program has no work, against pony.h:345-349.
StopsIfEarly ==
  <>[](noisy = 0) => ((detect /\ blockCount < N) ~> AllDone)
=============================================================================
