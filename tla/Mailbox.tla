------------------------------ MODULE Mailbox ------------------------------
(* What the mailbox of a Pony actor promises to the rest of the runtime,   *)
(* independently of how messageq.c stores it: messages are accepted one    *)
(* after the other, each is handed to the actor once and in the order of   *)
(* acceptance, and never while another thread is running the actor.        *)
EXTENDS Naturals, Sequences

CONSTANTS
  Message,   \* what a message carries
  Runner     \* the threads that may run the actor

VARIABLES
  queue,     \* the accepted messages that are not delivered yet
  current,   \* the message delivered last
  runner     \* the thread running the actor, as a set of at most one

vars == <<queue, current, runner>>

Init ==
  /\ queue = <<>>
  /\ current \in Message
  /\ runner = {}

Accept ==
  /\ \E m \in Message : queue' = Append(queue, m)
  /\ UNCHANGED <<current, runner>>

\* A thread starts to run the actor, when no other one does.
Enter ==
  /\ runner = {}
  /\ \E t \in Runner : runner' = {t}
  /\ UNCHANGED <<queue, current>>

Leave ==
  /\ runner # {}
  /\ runner' = {}
  /\ UNCHANGED <<queue, current>>

\* The running thread takes the oldest message.
Deliver ==
  /\ runner # {}
  /\ queue # <<>>
  /\ current' = Head(queue)
  /\ queue' = Tail(queue)
  /\ UNCHANGED runner

Next == Accept \/ Enter \/ Leave \/ Deliver

Spec == Init /\ [][Next]_vars
=============================================================================
