# A verification project for the Pony runtime

TLA+ models of the concurrent core of `libponyrt`, the runtime linked into every
Pony program: the mailbox of an actor, the queues of actors, the scheduler
threads and their termination protocol, the reference counts of actors and the
cycle detector that destroys them; and of the reference-capability rules of the
compiler, which are what keeps actors from sharing mutable state. The models are
checked by TLC on small instances; the safety invariants of the mailbox, of the
queue of actors, of the scheduler, of the reference counts, of a detection attempt,
of the cycles the detector perceives and of the capability rules are proved by
TLAPS for any number of threads, actors, messages, memory blocks, objects and
variables. Paths below are relative to the root of the repository.

## The system

A Pony program is a set of actors. Each has a mailbox; a *scheduler thread* pops
an actor from a queue, lets it handle a batch of messages and puts it back, or
lets it go when its mailbox is empty. There are no locks: everything rests on
atomic instructions and on a few protocols that say who may touch what.

| component | state | operations | how it meets the others |
|---|---|---|---|
| message queue, `actor/messageq.c` | `head` with the *empty* mark in its low bit, `tail`, `next` links | init, push, pop, markempty, destroy | the mailbox of an actor; the control queue of a scheduler thread; the request queue of the ASIO thread |
| actor, `actor/actor.c` | queue, flags, continuation list, heap, reference counts | `pony_sendv`, `ponyint_actor_run`, (un)schedule, poll, destroy | senders schedule it, scheduler threads run it, the cycle detector destroys it |
| actor queue, `sched/mpmcq.c` | `head`, (`aba`, `tail`), nodes from the pool | push, push_single, pop, destroy | one per scheduler thread, and the *inject* queue for everybody else |
| scheduler, `sched/scheduler.c` | per thread: queue, control queue, `last_victim`, `terminate`; thread 0: `block_count`, `ack_token`, `ack_count`, `asio_stopped` | run, steal, read_msg, quiescent, start, stop | runs actors, stops the ASIO thread, ends the program |
| ASIO dispatcher, `asio/*.c` | back end, `noisy_count`, request queue, events | subscribe, unsubscribe, dispatch, stop | sends event messages to actors through the inject queue |
| ORCA, `gc/gc.c`, `gc/actormap.c`, `gc/objectmap.c`, `gc/delta.c`, `gc/trace.c` | reference counts of actors and objects, foreign maps, deltas | send, receive, mark, acquire, release, sweep | on every message sent or received, and in `try_gc` |
| cycle detector, `gc/cycle.c` | a view of every blocked actor, perceived cycles, tokens | block, unblock, ack, detect, collect | a system actor that others send BLOCK, UNBLOCK and ACK to |
| memory, `mem/pool.c`, `mem/heap.c`, `mem/pagemap.c` | thread-local and central free lists; chunks with slot bitmaps; a radix tree | alloc, free; mark, sweep; get, set | under everything above |
| containers, `ds/*.c` | hash map, list, stack | | in the collector and the compiler |
| capability rules of the compiler, `libponyc/type/{cap,alias,viewpoint,safeto}.c`, used in `expr/` | none: functions of types | subtype, match, compatible, view, alias, consume, recover, sendable, safe to write | decide which programs run at all |
| the rest of the compiler, `src/libponyc`; standard library, `packages` | | | produce the code the runtime runs |

What is hard: a push is two instructions and the list is cut in between; the
decision to let an actor go races with a send; blocks of memory are reused while
other threads still hold pointers to them; thread 0 decides that the program has
ended from messages that are old when it reads them; the ASIO thread injects
work until it has ended; a foreign thread may poll and reschedule an actor; the
owner of a count learns of references to it from messages that are on their way
while others already act on old counts; capability rules are right or wrong only
in combination, over programs nobody has written.
`PROJECT.json` lists these hazards with their lines.

What makes each part correct:

* mailbox: one thread runs an actor at a time; each message is handled once, in
  order, and in the end; no block is used after it was freed; the actor is
  destroyed when nobody is inside it;
* actor queue: each actor pushed is popped once, in order; nodes are neither
  leaked nor used after they were freed, but for one harmless load;
* scheduler: the counters of thread 0 agree with the threads; no actor is lost
  or duplicated; the threads end, and only when there is nothing left to do (with the
  exceptions below under scheduler.c:132 and 258);
* cycle detector: an attempt finds exactly the blocked actors whose references
  are all accounted for among themselves, leaves the views as it found them, and
  destroys only actors that have all confirmed;
* counts and detector together: every reference is counted once, and an actor is
  destroyed only if it can never run again;
* capability rules: no program they accept, four expressions apart (`Gap`), lets one
  actor write what another can read, and a variable's capability denies to other variables what it says.

## Modules

| module | models | notes |
|---|---|---|
| `Mailbox` | what a mailbox promises | abstract specification |
| `MessageQ` | `actor/messageq.c` | one operator per atomic step; used by `ActorMailbox` |
| `ActorMailbox` | `actor/actor.c`, and `run` of `scheduler.c` for one actor | composes the queue with senders, scheduler threads, an embedder and the cycle detector |
| `ActorMailboxProofs` | | theorems about `ActorMailbox`, the refinement of `Mailbox` among them |
| `ActorQueue` | what a queue of actors promises | abstract specification |
| `MPMCQ` | `sched/mpmcq.c` | one action per load, store or atomic instruction |
| `MPMCQProofs` | | theorems about `MPMCQ`, the refinement of `ActorQueue` among them |
| `Scheduler` | `sched/scheduler.c`, the stop of `asio/asio.c` | actors are tokens, queues are sequences |
| `SchedulerProofs` | | theorems about `Scheduler` |
| `ViewGraph` | what a detection attempt looks for | the reference definition, used by the next three |
| `CycleDetect` | `gc/cycle.c`, one detection attempt | views, the three scans, CONF and ACK |
| `CycleDetectProofs` | | theorems about `CycleDetect` |
| `ActorCollection` | what collecting actors promises | abstract specification |
| `Orca` | the counts of actors in `gc/gc.c`, `gc/actormap.c`, `gc/delta.c`; `handle_message`, `try_gc` and blocking in `actor/actor.c` | one action per message or end of a run |
| `CycleDetector` | `gc/cycle.c`, the handlers | composes the detector with `Orca`; implements `ActorCollection` |
| `OrcaProofs` | | theorems about the counts of `Orca`, in the specification of `CycleDetector` |
| `CycleDetectorProofs` | | theorems about the perceived cycles of `CycleDetector`, on top of `OrcaProofs` |
| `SumTheorems` | | the sum of a function over a finite set, used by the proofs about the scheduler, the detector and the counts |
| `Capability` | `libponyc/type/cap.c`, `alias.c` | pure operators: the tables |
| `RefCaps` | the rules of `libponyc/expr` that use them | programs run expression by expression |
| `RefCapsProofs` | | theorems about `Capability` and `RefCaps` |
| `MC_Mailbox`, `MC_MPMCQ`, `MC_Scheduler`, `MC_CycleDetect`, `MC_Orca`, `MC_RefCaps` | | symmetry sets, options and initial states; the modules TLC runs |

The modules stack: `Scheduler` takes from `ActorMailbox` that an actor is in one
place at a time (`OneOwner`) and that a waiting actor is one whose queue is
marked empty; it takes from `MPMCQ` that a queue of actors is FIFO
(`RefinesActorQueue`) with a pop that may find nothing when another pop overtakes
it (`InjectNull`, `LocalNull`), and from `MessageQ` that a control queue is FIFO with a
pop that may miss messages behind an unlinked one (`ReadEnd` is enabled whatever
the queue holds). `CycleDetector` takes from `CycleDetect` that an attempt finds
exactly `GarbageFrom` and leaves the views as they were (`FindsExactlyGarbage`,
`ScansRestoreViews`), and from `ActorMailbox` that mailboxes are FIFO and that a
destroyed actor is left by its thread first (`DestroyIsSafe`).

### MessageQ and ActorMailbox

`head` and `empty` are the two parts of `q->head`. `PushExchange` and `PushLink`
are the two halves of `ponyint_messageq_push`, `Pop`/`PopNull` the two outcomes
of a pop, `MarkEmptyDecided` the early returns of `markempty` and `MarkEmptyCas`
its compare-and-swap. `live` is the set of allocated blocks: `Pop` frees the old
tail, and `PushExchange` takes any free block, so blocks are reused in every
possible way. `sent`, `recvd` and `at` are history variables.

A sender goes through `SendExchange`, `SendLink` and, if it saw the mark,
`SendAdd`. `runq` counts the entries of the actor on all scheduler queues;
`Dequeue` and `Return` are the ends of a turn of `run` around
`ponyint_actor_run`, whose body is the actions `RunContinuation` to `RunCas`.
A message is of kind `app` (application) or `sys` (ACQUIRE, RELEASE, CONF): only
the former counts for the batch and unblocks the actor. `HandleMessage` may, as
a behaviour may, unschedule the actor or queue a continuation. `blocked` is set
as for an actor without `FLAG_SYSTEM`. `Poll` and `Schedule` are the embedder's
calls; `pony.h` (361-364) makes it responsible for calling them only on an
unscheduled actor nobody runs, which is the guard `Parked`.
`SetPendingDestroy` stands for the cycle detector's decision, with what it
guarantees as its guard: the actor has told that it is blocked and no
application message can reach it any more (runtime messages may be queued).
`ActorDestroy` is `ponyint_actor_destroy`, enabled when its spin ends.

### MPMCQ

Threads pop; some of them also push, with `PushExchange` (`push`) or, when
`Single`, with `PushLoadHead` and `PushStoreHead` (`push_single`). The two plain
loads of the tail happen in either order. A freed node's `next` holds the pool's
own link, any free block or NULL; the load of line 64 may see it. `pushed`,
`taken` and `claim` are history.

### Scheduler

`pc` is the place of a thread in `run` (`run`, `next`, `nextLocal`), `steal`
(`block`, `steal`, `stealVictim`, `expire`, `unblock`) and `quiescent` (`read`,
`acked`, `join`). An actor is a token: while it is run it may wake another
actor (`RunWake`), subscribe or unsubscribe (`RunNoisy`), and then asks to be
rescheduled or not (`RunReturn`). The cycle detector `CD` is the actor a thread
keeps in hand while it steals, until the clock lets it run (`StealExpire`).
`AsioSend` is an event for an actor that waits, `ForeignSend` a send by the
embedder before `pony_stop`. `opt` is how the program was started: as a library
or not, with `--ponynoblock` or not, with events or not, and how much work it
has; it is chosen in `Init` from the constant `Options`.

A pop of actors reads the tail and then the `next` field of that node; if another
pop has succeeded in between, the field may be NULL and the pop returns NULL although
actors are queued (mpmcq.c:57-68). `stale` holds the threads in a pop whose tail was
popped since: the places `next` and `steal` are pops of the inject queue, `nextLocal`
and `stealVictim` pops of a thread's queue, and whoever pops an actor makes all the
others at the same queue stale (`InjectPop`, `LocalPop`). A stale pop may find nothing
(`InjectNull`, `LocalNull`) or start again and succeed. The tail counts as read when
the thread arrives at the place, which allows all that a later read would. `Unlinked`
is the other reason for a pop to find nothing: in library mode several threads inject,
and an actor pushed behind one whose node is not linked yet is not seen. `missed` is a
history variable: the actors that were in the queue of a thread when it blocked.

### CycleDetect

`blocked`, `rc`, `map`, `delta` and `color` are the fields of a `view_t`, `views`
and `deferred` the sets of the detector, `per`, `ack` and `asked` the perceived
cycle. `phase` is the place in `detect` (`grey`, `white`, `black` inside `white`,
`collect`) and then the fate of the cycle (`none`, `conf`, `collected`,
`expired`). One step pops one viewref. The order of a scan comes from the hash
maps, so the stack is a set from which any element may be taken. Counts are
`size_t` and wrap at `RcMod`. The initial states are all combinations of views:
views are reported at different times and the code (line 256) expects a count
below the references found. `Garbage` is the reference definition: the largest
set of scanned views whose reported counts are exactly the references they hold
to each other. A member that reports a new count (`block`) expires the cycle as
`Unblock` does and then starts another attempt, which is not part of this module
but of `CycleDetector`.

### Orca and CycleDetector

`gc[a]` is the `gc_t` of actor `a`: its own count `rc`, what it may hand out of
others (`foreign`, 0 when not in the map) and the changes it has not reported
(`delta`). `refs[a]` is the truth the counts stand for: what `a` can reach from
its fields and its frame. A behaviour creates actors, sends messages with at most
one reference and ends keeping some of what it could reach (`EndBehaviour`, with
the sweep of `try_gc`). A run that handles no application message goes from
`StartRun` over `HandleAcquire`, `HandleRelease` and `HandleConf` to `EndRun`,
which reports BLOCK; as in `ponyint_actor_run` it handles what was queued when it
began, so a message can arrive between its last pop and its BLOCK.

`view`, `views`, `deferred`, `perceived`, `nextDeferred` and `sinceDeferred` are
the fields of the detector. An attempt is one step (`DetectFrom`); the loop over
the deferred set is one step per view, in any order, and the rest of the program
waits meanwhile, because what actors do then only adds to the ends of queues the
loop does not read. `reported` records an assertion that fails: with `Asserts` the
program stops there, without (a release build) it goes on until a destroyed actor
is used. Views are numbered by their actors; actors are not numbered again, so the
number also stands for the view that stays in another's map after its actor was
collected. A view that a late delta makes for a collected actor is never blocked
and plays no part; it is left out. So are object references and with them actors
reached only through immutable objects, finalisers, and `final()` at shutdown.

### Capability and RefCaps

A type is a capability with an ephemerality. The tables of `Capability` have one
row per `case` of the C code; the capabilities that only bind constraints
(`_BIND`) are left out. `RefCaps` runs programs: `var` is the bag of variables
that are in scope, each with the actor that has it, its object, its capability and
whether it belongs to the frame its actor is in; `field` and `decl` are the fields
of each object and their declared capabilities. A frame is a recover expression,
or the call of a method whose receiver is unique and is not aliased for the call
(`StartCall`, `EndCall`; `auto_recover_call` in `expr/call.c`). A step is an
expression the checker accepts (`Assign`, `AssignField`, `Send` and the frames), so
the reachable states are those of all well-typed programs with these objects and
variables. Types are nominal with concrete capabilities and variables are declared
without `^` or `!`. Other methods are their bodies, so what `expr_fieldref` refuses
directly inside of a recover expression is still reached through methods. Compound
types, type parameters and pattern matching are not modelled. The constant `Gaps`
says which of four kinds of expressions programs use that the rules accept and
that lead to a data race (see below): `refcaps` and the proofs leave all of them
out.

Memory model: steps interleave, that is, the instructions of a thread take effect
in program order. The code uses relaxed exchanges and acquire loads and relies on
x86 for the rest.

## Runs

| run | instance | shows |
|---|---|---|
| `mailbox_safety` | 2 senders, 2 scheduler threads, 1 embedder, 3 blocks, 3 messages, batch of 2, 1 continuation | types, `OneOwner`, `NoUseAfterFree`, `NothingStranded`, `DestroyIsSafe` |
| `mailbox_refines` | 2 senders, 1 scheduler thread, 3 blocks, 3 messages, fair | implements `Mailbox`; messages are `Delivered`; `DestroyEnds` |
| `mpmcq_inject` | 2 threads that push and pop, 3 nodes, 4 items | types, `TakesInOrder`, `SafeAccess`, `NoLeak` |
| `mpmcq_local` | an owner with `push_single`, a thief, fair | implements `ActorQueue`; `CallsEnd` |
| `scheduler_safety` | 2 threads, main, another actor and the cycle detector, ASIO events, 2 units of work | types, `BlockAccounting`, `AckAccounting`, `NothingLeftAtExit`, `OnePlace` |
| `scheduler_ends` | a program without ASIO events and cycle detector, and an embedded one with both, fair | `StopsWhenWaiting`, `StopsIfEarly` |
| `scheduler_exit` | 3 threads, main and two other actors, no events, 2 units of work | violation of `AssertAtExit`: the assertion of scheduler.c:258 |
| `cycle_detect` | every graph of 3 views, counts 0..2, one pending delta, groups of 2, fair | types, `FindsExactlyGarbage`, `ScansRestoreViews`, `CountsAgree`, `ColouredViewsAreQuiet`, `CollectedCycleConfirmed`, `ScanEnds`, `CycleResolved` |
| `orca` | 3 actors, `GC_INC_MORE` 2, 2 messages, 1 thread, groups of 2, asserts on | `RcExact`, `NoUnderflow`, `ReachableIsCounted`, `NothingLeftBehind`, `CyclesAreDisjoint`; implements `ActorCollection` (`CollectsOnlyGarbage`) |
| `orca_release` | the same, asserts off | violation: the assertion of cycle.c:534 |
| `refcaps` | 2 actors, 2 objects with a field of every capability but tag, 3 variables | `NoDataRace`, `DeniesKept`, `TablesAgree`, `ViewBoundsHold`, `AskingIsWeaker` |
| `refcaps_call` | the same, with trn results of methods with recovered receivers | violation of `NoDataRace`: the comment of safeto.c:162 |

Bounds. `MaxSend`, `MaxPush` and `MaxWork` bound the length of a behaviour,
`MaxCont` the continuations waiting at once. Three messages over three blocks
are enough for a block to be freed and to come back as the head of the same
queue while a producer is between its two steps, for two producers to be cut
off behind each other, and for a batch to end at its limit, at the head read
first and at an empty queue. Four items over three nodes let the tail return to
a node a sleeping pop has read, which is what the `aba` counter is for (without
it the run fails). Two units of work let a thread block, unblock and block
again, so that rounds of CNF and ACK overlap; with the cycle detector they also
let a thread steal with it in hand. Two scheduler threads make thread 0 and
"another one"; the counters are compared with `N` everywhere. They are enough for a
thief to make the pop of an owner fail, for the owner to block with an actor in its
queue and for the program to end after that. But with two threads the owner looks at its
own queue again, as every other turn of `choose_victim` finds no victim; that takes
three threads to go wrong, and `scheduler_exit` has three. Its full state space is too
large: the constraint `Race` leaves out noisy events, long control queues, and
the rounds that begin before an actor was missed. A constraint can hide states but not
make any up, so that what the run finds is a behaviour of the model. Three views are enough for a white view to be turned back by a
`scan_black` that starts elsewhere, for a reference from a view the scan does not
reach, and for a cycle larger than a group of CONF messages; counts up to 2 with
two references to a view make a count exact, too large and too small. The run
stops when the attempt is over and does not check deadlock. `mailbox_safety` and
`mailbox_refines` do not check deadlock: a behaviour ends when everything was sent
and handled, or the actor is destroyed.

`orca` starts in two places. One is the start of the program, where two messages
are spent on creating actors. The other (`Settled` in `MC_Orca`) is a later moment:
Main has created the other two and is in a behaviour of which it has not reported
anything yet, and the others have run their constructors, which got no reference,
and have reported that they are blocked. From there two more messages are enough
for a count to run out (`IncMore` is 2), for an ACQUIRE to be on its way while
others block, for two perceived cycles to wait at a time, and for an actor to be
destroyed while others go on. One thread is enough for every order of messages in
queues, since each handler is one step and a run that will block is several; that the
detector may destroy an actor another thread is still leaving is for the mailbox
runs (`DestroyIsSafe`, `DestroyEnds`), not for this one. The
runs stop when nothing is left to do, so deadlock is not checked. `refcaps` lets
two variables for one object and a third for another exist at a time, over objects
that may refer to each other and to themselves; one actor at a time is inside a
frame. Fields are not declared tag: nothing is reached through such a field (with
tag the instance has 452 thousand states instead of 260, and passes too). Objects
with several fields are left to the proofs: three objects with two fields each are
beyond TLC in five minutes. The last three properties of `refcaps` are about the
tables only and are evaluated before the first expression; a program may stop
anywhere, so deadlock is not checked.

Fairness. Every thread is run by the operating system: weak fairness of the
steps of a send, a run, a pop or a scheduler thread once begun; nobody has to
start a send. `Dequeue` is fair because a scheduler thread pops again and again
(`StopsIfEarly` and `NothingLeftAtExit` are about that loop). Reading a control
message has strong fairness: its sender links it in the end, so a thread that
keeps reading gets it. The detector runs an attempt to its end in one handler,
and an actor that was sent CONF answers or unblocks (actor.c:72-93). `mailbox_refines` has no continuations: they are handled
before the queue, and an actor that queues one each time would never look at its
queue, so `Delivered` is false for it by design.

## Disagreements with comments and documentation

Found by runs:

* scheduler.c:258, `assert(pop(sched) == NULL)` (`scheduler_exit`). Thread 0 has two
  actors in its queue and is between the two loads of a pop when thread 1 steals the
  first. The node thread 0 looks at is free, its `next` is NULL, and thread 0 blocks with
  an actor in its queue. With three or more threads `choose_victim` goes round the
  others and never comes to NULL, so that thread 0 does not look at its own queue again
  before it has confirmed twice and is told to terminate; if the others do not
  look there in between, thread 0 reaches the assertion with an actor in its queue. In
  a release build that actor's messages are dropped. `NothingLeftAtExit` says that this
  is the only way to lose an actor, the cycle detector apart.
* cycle.c:350 and 534, `assert(view->perceived == NULL)` and
  `assert(view->perceived == per)` (`orca_release`). Main sends actor 2 to actor 3
  until its `GC_INC_MORE` references are spent and it has to invent more; the
  ACQUIRE waits at 2. It drops 3, which blocks with count 0 and the references it
  received: {2, 3} is perceived. Main then blocks with count 0 and reports the
  references it still holds, and with the old count of 2 the set {1, 2} is isolated
  too: the first assertion fails. A release build overwrites the pointer in the
  view of 2. When 2 handles the ACQUIRE its BLOCK expires the second cycle only;
  2 and 3 then confirm the first and 2 is destroyed while Main refers to it. As long
  as the first assertion holds, cycles are disjoint and only garbage is collected
  (`orca`). With the real `GC_INC_MORE` this takes 256 messages.
* safeto.c:162-163, "An argument or result is safe for autorecover if it would be
  safe to write into the receiver" (`refcaps_call`). A trn may be written into a
  trn, so a method whose trn receiver is recovered for the call may return a trn.
  But the method may also have kept a box of it in the receiver. The caller keeps
  the result as ref, consumes the receiver as val and sends it: the other actor
  reads what the caller writes. Without such results `NoDataRace` holds
  (`refcaps`), so it is the results and not the arguments for which the comment
  is wrong.

Observed while modelling, and not the subject of a run:

* pony.h:345-349 on `pony_stop`: "Signals that the pony runtime may terminate. [...]
  This call won't return until the runtime actually terminates." CNF is sent only when a
  BLOCK is read while `detect_quiescence` is set (scheduler.c:86). If all threads had
  blocked and thread 0 had read that before the call, nobody sends CNF and the
  call never returns. `StopsIfEarly` (its premise `blockCount < N`) shows that this is the
  only way for it to hang in the model; without the premise TLC finds the hang.
* actor.c:149, "If we have been scheduled, the head will not be marked as
  empty." Not for an actor unscheduled before its first message, as pony.h
  allows: `pony_schedule` leaves the mark, and the next sender schedules the
  actor again. The initial states of `ActorMailbox` leave such an actor out.
* mpmcq.c:79-82 says that the spin makes sure "no other consumer is still
  reading the old tail". It does so for the data; the load of `next` may still
  read a freed node. `TakesInOrder` and `SafeAccess` show that this cannot
  corrupt the queue: a pop may return NULL although something is queued, never
  a wrong item.
* scheduler.c:132, "If all schedulers are waiting, one of them will stop the
  ASIO back end". With ASIO events the acks may be out of date: the back end is
  stopped, or termination begins, while a thread holds an actor it has just
  taken from the inject queue. In library mode the same happens without events: a
  foreign thread sends just before `pony_stop`, after every thread has looked at
  the inject queue, and the actor is found when its finder has already confirmed.
  A thread that has confirmed with the cycle detector in hand runs it when the
  clock says so. And a thread that blocked over an actor, because a thief raced its pop,
  confirms and may find that actor in its own queue a turn later, while thread 0 has the
  full set of acks.
  `StopsWhenWaiting` is therefore stated for programs with none of the first three, and
  as long as the fourth has not happened (`missed = {}`); `NothingLeftAtExit` holds with
  all of them. Where it does not apply, an actor may be at work when thread 0 sets the
  pointer to the back end to NULL (asio.c:57), and may use it.
* operator.c:518-525, "right side must be a subtype of left side". For a field the
  left side is the type as the owner sees it, an upper bound that is fit for
  reading: a trn or ref field of an iso object is seen as tag. A tag may be assigned
  to it, `safe_to_write` agrees because a tag is sendable (safeto.c:74-86), and the
  field is a trn again for whoever sees it through a ref. With "seen type" in `Gaps`
  `NoDataRace` fails in this way.
* A consumed trn gives up what it owns: `(consume t).f` of an iso field is iso^
  (cap.c, `cap_view_upper`), although a box alias of `t` may exist. Inside of a
  recover expression that box recovers as val (alias.c:86), and the val then sees
  as val what was sent away as iso. With "consumed trn" in `Gaps` `NoDataRace` fails
  in this way.
* The value of an assignment to a field is what the field held, consumed
  (operator.c:606): a trn field of a trn owner gives up its old value as trn^. But
  the owner may have a box of the same object in another field, and it need not be
  consumed: a trn `o` holds a trn `p` in `f` and a box of `p` in `g`; `o.f = q` gives
  `p` to a new trn variable; `o` is consumed as val and sent, and the other actor
  reads `p` through `g` while the first writes it. The proof of `NoDataRace` failed
  here, and TLC found the race with "old trn" in `Gaps`, two fields and three objects.
  (With one field and two objects there is none.) An iso owner is safe, as it sees a
  trn field as tag.
* `consume` with a capability, of a borrowed variable: `consume_single`
  (alias.c:139-178) checks the capability without the ephemerality, so
  `consume ref` of an `iso!`, which is a tag, is a ref. `AskingIsWeaker` excludes
  borrowed types.
* cap.h calls the relation of `is_cap_compat_cap` symmetric, and cap.c:662 relies
  on compatible capabilities being ordered. Both hold for concrete capabilities
  (`TablesAgree`). Of the generic ones, share is compatible with box and with alias
  but not the other way round, and alias is compatible with box and read without
  being above or below them.
* `next_deferred` starts at the exponent `min_deferred` (cycle.c:863), while the
  help of `--ponycdmin` says 2^N; at 0 doubling leaves it at 0 and there is no
  back-off. The model keeps this.

## Proofs

Seven modules are proved about, for every value of their constants. In each the
invariants of the runs are not inductive; an inductive invariant was found,
checked by TLC on the instance of the run where it can be evaluated, and proved in
three facts: it holds initially, every step keeps it, and it implies the properties.
The assumptions are the `ASSUME`s of the modules: distinguished values are not
elements of the sets, bounds are naturals, sizes are positive.

### The mailbox (`ActorMailboxProofs`)

Any sets of blocks, producers, scheduler threads and embedders, any batch and
bound. `TypeCorrect`, `SingleOwner`, `MemorySafe`, `NoLostWakeup` and
`SafeDestruction` are the invariants of `mailbox_safety`; `MailboxImplements` is the
refinement of `Mailbox` that `mailbox_refines` checks. `IInv` adds

* `OwnerInv`: besides `OneOwner`, an unscheduled actor is on no queue, unmarked
  and owed to no producer, and a thread about to mark the queue runs an actor
  that is not unscheduled;
* `ChainInv`: until the actor is destroyed, the history names distinct allocated
  blocks from the tail to the head, one for each message not yet popped, and the
  `next` field of each is the following block or NULL;
* `LinkInv`: a producer between its two steps stands at a missing link of that
  chain, and no two producers at the same one;
* `ContInv`: a thread that is about to mark the queue has no continuation left;
* `DestroyInv`: once the cycle detector has chosen the actor no producer is in a
  send, and once it is destroyed nobody owns it.

`ChainInv` and `LinkInv` are what makes a recycled block harmless: a producer's
previous head stays in the chain until its own store, because the consumer can
only step over a link that is there.

The refinement maps the exchange on `head` to `Accept`, a pop that finds a link to
`Deliver`, taking the actor from a scheduler queue or polling it to `Enter`, and
the return of `ponyint_actor_run` to `Leave`; all else stutters. `Enter` needs
`OneOwner` (nobody is inside), `Deliver` needs `ChainInv` (the block behind the tail
is the oldest message, not a recycled one), and the destruction stutters because
the block handled last is the one it frees.

### The queue of actors (`MPMCQProofs`)

Any number of threads, blocks and items, with `push` or `push_single`.
`QueueTypes`, `PopsInOrder`, `QueueMemorySafe` and `QueueFreesAll` are the
invariants of `mpmcq_inject`; `QueueImplements` is the refinement of `ActorQueue`
that `mpmcq_local` checks. The model does not record which block holds which item,
so `IInv` says that there is a function `at` from positions to blocks such that

* `ChainInv`: positions `taken` to `Len(pushed)` are a chain of different blocks from
  the tail to the head, whose links are there or still missing;
* `LiveInv`: the allocated blocks are exactly those of the chain, those that pops
  have won and not freed, and those of pushes that have not reached the head;
* `TailInv`: a pop whose compare-and-swap would succeed now has read its `next`
  while its block was the tail. This is the `aba` counter: `cmp.aba` never exceeds
  `taken`, and the two are equal only if no pop has won in between;
* `ClaimInv`, `ReadInv`: a pop that has won owns the block before its own position,
  and nobody frees the block it reads, because whoever will waits for the cleared
  `data` field.

The function changes at one position only, when a push reaches the head. The
constant `Thread` is assumed not to be empty: a queue nobody uses is not destroyed.

### The scheduler (`SchedulerProofs`)

Any number of scheduler threads and actors, any options. `SchedulerTypes`,
`BlocksAreCounted`, `AcksAreCounted`, `ActorsInOnePlace` and `ThreadsLeaveNothing`
are the invariants of `scheduler_safety`. `IInv` adds

* `MailInv`: only thread 0 is sent BLOCK, UNBLOCK and ACK; no message carries a
  token that was not given out yet; TERMINATE is sent after the ASIO thread has
  ended;
* `BlockInv`: `BlockAccounting`, and after every first part of its queue thread 0
  has a `block_count` between 0 and `N`: the order in which it reads BLOCK and
  UNBLOCK, and not only their number, keeps the unsigned counter in range;
* `AckInv`: a round of confirmations is under way only while `block_count` is `N`,
  and only thread 0 with a full set of acks gets to `acked` and `join`;
* `StealInv`: whoever steals has in hand at most the cycle detector and in its queue
  only actors that are in `missed`; only a thread in a pop is stale;
* `EndInv`: once the ASIO thread has ended nothing is injected, and as long as the
  inject queue is not empty some thread `Looks`: it will pop from it, with a fresh tail,
  before it reads messages.

That a pop may find nothing makes the second part of `EndInv` the hard one: no thread
in particular can be relied on to see the inject queue empty. At first it is thread 0,
which goes back to stealing after the join of the ASIO thread and has no tail yet. A pop
by another thread may make it stale, so that it finds nothing; but that other thread has
an actor now, and has to come back to the inject queue after it has run it. So the last
thread to have popped from the inject queue is the witness, until one finds it empty.
For the queue of a single thread there is no such argument, and `scheduler_exit` shows
that there cannot be: `ThreadsLeaveNothing` says that what is left there was missed.

`StopsOnlyWhenWaiting` is the action property of `scheduler_ends`. It needs a second
invariant, `QuietInv`: in a program without events, cycle detector and embedding,
as long as no thread has missed an actor and whenever a round is under way, all threads wait; or a thread has found an actor and
has not confirmed, so that its UNBLOCK goes before its ack; or an UNBLOCK is on its
way to thread 0 before the last ack of the round. With a full set of acks only the
first is left. (The attempt to prove it without excluding library mode failed for
the reason given above under scheduler.c:132, and TLC confirmed it.) The condition
`missed = {}` is needed where a thread steals from one that waits: without it the queue
of a waiting thread need not be empty.

### A detection attempt (`CycleDetectProofs`)

Any finite set of views, any graph and counts, any unapplied deltas, any order of
the scans and any group size. `DetectTypes`, `DetectsGarbage`,
`AttemptLeavesNoTrace`, `DetectCounts`, `ColoursAreQuiet` and `CollectsConfirmed`
are the invariants of `cycle_detect`. `IInv` has one part for each phase:

* in all scans the count of a blocked view is what it reported minus the references
  that are out, wrapped at `RcMod` (`LeftOver`). In `scan_grey` these are the edges
  of grey views that are not on the stack any more (`TakenOut`); in the other scans
  the edges of scanned views that are not black, and the edges on the stack of
  `scan_black` or `collect_white` (`StillOut`). A popped viewref changes this set by
  one edge, and one count by its references;
* `GreyInv`: the grey views are closed under references to scanned views, but for
  those on the stack; with an empty stack they are all the scanned views;
* `WhiteInv`: the black views are closed in the same way and none of them is
  garbage; a white view's count is its references from scanned views; what a white
  view refers to is not grey, or is on a stack. With empty stacks no scanned view
  is grey, the white views are isolated, and the rest is not garbage: the white
  views are the largest isolated set;
* `CollectInv`: the white views and the perceived cycle make up the garbage;
* `DoneInv`: the counts are the reported ones, and while members confirm, `ack` is
  the number of the different members that have.

One assumption is about size: the references to a view, all deltas applied, add up
to less than `RcMod` (`NoOverflow`). It is needed, since references that wrapped
around would make a count look exact, and the code relies on it with 2^64.

### The counts of actors (`OrcaProofs`)

Any number of actors, threads and messages, in the full specification of
`CycleDetector`, asserts on or off. `CountsAreExact`, `CountsNeverUnderflow` and
`ReachableCounted` are the first three invariants of `orca`. `OrcaInv` adds

* `Exact`: the count of an actor is what others hold of it, in their foreign maps
  and in messages, minus what its own queue has still to do to it; the sum is over
  actors and queues of any length;
* `Covered`: no first part of an actor's queue takes its count below 0. A RELEASE
  never overtakes the ACQUIRE that covers it, since what it gives back was counted
  when it was sent;
* `Unborn`: an actor that is not created yet holds nothing, is held by none and has
  no messages.

### Perceived cycles (`CycleDetectorProofs`)

The same specification, any number of actors and of perceived cycles, any group
size and back-off. `PerceivedDisjoint` is the invariant `CyclesAreDisjoint` of `orca`.
`DetectorInv` adds the types of views, perceived cycles and reports, that finitely
many cycles are perceived at a time, and that deferred views are blocked, which is
why everything a later attempt finds is blocked too. The argument: a new token is
none of those in use (`FreshIsNew`: they are finitely many, so the least unused
number exists); a new cycle takes no view of an older one, or the assert of
mark_white has failed; `expire()` removes one cycle, and by disjointness no other
cycle had any of the views it frees. `DebugCollectsPerceived` is the other side of
the run `orca_release`: with asserts on, the assert of cycle.c:534, which that run
violates, cannot fail, so the overlap of two cycles that cycle.c:350 asserts against
is the only way to it.

### Programs without data races (`RefCapsProofs`)

Any numbers of actors and objects, any set of fields of any capabilities, any bound
on the variables, chains of fields of any length; programs without the four gaps
(`Gaps = {}`), one frame at a time. `NoDataRaceHolds` and `DeniesKeptHolds` are the
first two invariants of `refcaps`; `TablesAgreeHolds`, `ViewBounds` and
`AskedNeverStrengthens` are the other three, proved from the tables row by row.

Neither of the first two is inductive: which step is safe depends on who can reach
an object through fields, not only on variables. The inductive invariant `Regions`
says that the state can be divided into *regions*. A state is a graph: its nodes are
the objects, one node for each actor and one for the frame; its references are the
variables, the fields and, within a step, the values not bound yet. There are
(`Divided`) a set `imm` of frozen nodes, a set `dead` of nodes that cannot be reached
any more, a set `hk` of husks, a region `cell[n]` for each node and for each region the
regions `anc` that see into it, such that

* `Order`: the regions that see into a region form a chain, so that regions hang
  below each other as trees;
* `RefsFit`: a ref stays within its region; a box looks into its own region or one
  below; a trn refers to a region that hangs directly below; an iso to one that
  nobody else sees into; val and box may refer to frozen nodes, whose own
  references are to frozen nodes; anything may be a tag;
* `OwnersUnique`: a region has one iso or trn into it;
* `Scoped`: an actor is a region that nobody sees into or owns. The frame is one
  too, except in a call of a unique receiver: then it is in the region of the
  receiver, and the caller, whose variables wait, may look into it.

Each expression is a change of the division: an alias adds a reference that fits;
`consume` and a send move a unique one; binding a trn as ref merges two regions;
binding it as val freezes a region and all that can be got at from it; storing a
unique reference in a field hangs one region below another; the end of a recover
expression cuts the result and what hangs below it off the region of the frame, or
freezes it, and the rest of the frame is dead. Taking a trn out of a consumed trn,
which other box references may still see, is the hard case: the objects left behind
become husks, seen as box only, whose ref and trn fields count as box from then on
(`Effective`). The gaps are the expressions for which no such change exists.

The properties follow. A region that an actor gets at, directly or from region to
region, is got at by no other (`BelowDisjoint`: nothing leads into the regions of an
actor from outside, and each other region has one way in), and what is seen in it
as mutable is there; what two actors see is frozen. `Access` is a recursive function
of the number of steps; that every step stays within these regions is proved by
induction written as a set of numbers that contains 0 and all successors
(`CountUp`), as is that the function exists.

TLC cannot evaluate `Regions`, which says that there is a division; it checks what
follows from it on the instance of `refcaps`.

### Sums

`SumTheorems` proves what the sums of the community module `Functions` do when one
term changes, for any finite set. The definition is a recursive function on
subsets that takes away an element of its choice; that the choice does not matter
is proved by induction on the number of elements, written as a set of naturals
without a smallest element outside of it, since the induction theorems that take
an operator cannot be used.

### Only model-checked

Every liveness property (`Delivered`, `DestroyEnds`, `CallsEnd`, `StopsIfEarly`,
`ScanEnds`, `CycleResolved`): fairness and ENABLED are beyond the prover. The
refinement of `ActorCollection` (`CollectsOnlyGarbage`) and `NothingLeftBehind`: that the
counts actors have confirmed were never stale together is the correctness of the
whole protocol, for which no inductive invariant is known here.

## Not modelled, and the plan

1. Proofs: `NothingLeftBehind` of `CycleDetector` and the refinement of
   `ActorCollection`.
2. The counts of objects (`gc/objectmap.c`), which follow the same scheme as those
   of actors with a third party, the owner of the object.
3. ASIO events: create, subscribe, unsubscribe, dispose and destroy, the request
   queue and its end.
4. The pool (central list with its `aba` counter, page list), the page map's race
   and the heap's mark and sweep; the hash map of `ds/hash.c` against a function.
5. The timing wheel of `packages/time`.

Left out for good: system calls and their wrappers (`lang/`, epoll, kqueue and
IOCP themselves), CPU affinity, options, telemetry, serialisation. So is the bulk
of the compiler, by far the largest part of the repository: lexer, parser, sugar,
name resolution, structural subtyping and LLVM code generation are long sequential
transformations of syntax trees, whose models would be transliterations. What the
compiler promises the runtime, that actors do not race, is in `RefCaps`. The
vendored test framework, the benchmarks and the standard library are not modelled
either. The wrap of 64-bit counters is modelled in `CycleDetect` only.
