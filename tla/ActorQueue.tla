----------------------------- MODULE ActorQueue -----------------------------
(* What the scheduler expects of a queue of actors, however mpmcq.c stores *)
(* it: an actor that was put is taken once, by one thread, in the order of *)
(* the puts. A thread may look and find nothing; that changes nothing.     *)
EXTENDS Sequences

CONSTANTS
  Item,      \* what is queued: never NULL
  NULL,
  Taker      \* the threads that pop

VARIABLES
  queue,     \* the items put and not taken yet
  held,      \* the item a thread has taken and not yet returned, or NULL
  out        \* the item the last pop of each thread returned, or NULL

vars == <<queue, held, out>>

Init ==
  /\ queue = <<>>
  /\ held = [t \in Taker |-> NULL]
  /\ out = [t \in Taker |-> NULL]

Put ==
  /\ \E i \in Item : queue' = Append(queue, i)
  /\ UNCHANGED <<held, out>>

Take(t) ==
  /\ queue # <<>>
  /\ held[t] = NULL
  /\ held' = [held EXCEPT ![t] = Head(queue)]
  /\ queue' = Tail(queue)
  /\ UNCHANGED out

Return(t) ==
  /\ held[t] # NULL
  /\ out' = [out EXCEPT ![t] = held[t]]
  /\ held' = [held EXCEPT ![t] = NULL]
  /\ UNCHANGED queue

Next == Put \/ \E t \in Taker : Take(t) \/ Return(t)

Spec == Init /\ [][Next]_vars
=============================================================================
