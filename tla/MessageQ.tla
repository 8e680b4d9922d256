------------------------------ MODULE MessageQ ------------------------------
(* The multi-producer, single-consumer queue of src/libponyrt/actor/       *)
(* messageq.c, at the grain of its atomic instructions. A push is two      *)
(* steps, an exchange on head and a store to the previous node's next      *)
(* field; between them the list is cut. The low bit of head says that the  *)
(* queue is marked empty. A node is a block of the memory pool: the        *)
(* consumer frees the old tail when it pops, and any producer may be given *)
(* the same block again.                                                   *)
EXTENDS Naturals

CONSTANTS
  Node,       \* the blocks of memory a message can occupy
  NULL,       \* the null pointer
  MaxSend     \* bound: how many messages are pushed in a behaviour

ASSUME NullAssumption == NULL \notin Node
ASSUME MaxSendAssumption == MaxSend \in Nat

VARIABLES
  head,       \* q->head without its low bit
  empty,      \* the low bit of q->head
  tail,       \* q->tail
  next,       \* the next field of every block
  live,       \* the blocks that are allocated
  \* History, read by the properties only.
  sent,       \* how many messages went through the exchange
  recvd,      \* how many messages were popped
  at          \* at[i] is the block of the i-th message (0: the stub)

queueVars == <<head, empty, tail, next, live, sent, recvd, at>>

MessageQInit ==
  \E stub \in Node :
    /\ head = stub
    /\ empty = TRUE
    /\ tail = stub
    /\ next = [n \in Node |-> NULL]
    /\ live = {stub}
    /\ sent = 0
    /\ recvd = 0
    /\ at = [i \in 0..MaxSend |-> IF i = 0 THEN stub ELSE NULL]

\* Mutant of PushExchange: the next field of the new head is not cleared.
PushExchangeStaleNext(m) ==
  /\ sent < MaxSend
  /\ m \in Node \ live
  /\ live' = live \cup {m}
  /\ head' = m
  /\ empty' = FALSE
  /\ sent' = sent + 1
  /\ at' = [at EXCEPT ![sent + 1] = m]
  /\ UNCHANGED <<tail, next, recvd>>

\* The first half of a push: m is a fresh block, its next is cleared and it
\* becomes the head. The caller keeps the old head and the old low bit.
PushExchange(m) ==
  /\ sent < MaxSend
  /\ m \in Node \ live
  /\ live' = live \cup {m}
  /\ next' = [next EXCEPT ![m] = NULL]
  /\ head' = m
  /\ empty' = FALSE
  /\ sent' = sent + 1
  /\ at' = [at EXCEPT ![sent + 1] = m]
  /\ UNCHANGED <<tail, recvd>>

\* The second half of a push: the old head is linked to the new one.
PushLink(prev, m) ==
  /\ next' = [next EXCEPT ![prev] = m]
  /\ UNCHANGED <<head, empty, tail, live, sent, recvd, at>>

\* Mutants of Pop: the end of the list is not tested; the message returned is
\* freed instead of the old tail.
PopUnchecked ==
  /\ tail' = next[tail]
  /\ live' = live \ {tail}
  /\ recvd' = recvd + 1
  /\ UNCHANGED <<head, empty, next, sent, at>>

PopFreesMessage ==
  /\ next[tail] # NULL
  /\ tail' = next[tail]
  /\ live' = live \ {next[tail]}
  /\ recvd' = recvd + 1
  /\ UNCHANGED <<head, empty, next, sent, at>>

\* A pop that finds a linked message: the new tail is the message returned,
\* the old tail goes back to the pool.
Pop ==
  /\ next[tail] # NULL
  /\ tail' = next[tail]
  /\ live' = live \ {tail}
  /\ recvd' = recvd + 1
  /\ UNCHANGED <<head, empty, next, sent, at>>

\* A pop that returns NULL, although an unlinked message may be there.
PopNull ==
  /\ next[tail] = NULL
  /\ UNCHANGED queueVars

\* The loads of markempty decide at once unless head is tail, unmarked.
MarkEmptyDecided == empty \/ head # tail

\* Mutant of CasSucceeds: a plain store in place of the compare-and-swap.
CasIsStore == TRUE

\* The compare-and-swap of markempty, from tail to tail | 1, and whether it
\* succeeds.
CasSucceeds == ~empty /\ head = tail

MarkEmptyCas ==
  /\ empty' = (empty \/ CasSucceeds)
  /\ UNCHANGED <<head, tail, next, live, sent, recvd, at>>

\* The stub goes back to the pool and the queue is gone.
MessageQDestroy ==
  /\ live' = live \ {tail}
  /\ head' = NULL
  /\ empty' = FALSE
  /\ tail' = NULL
  /\ UNCHANGED <<next, sent, recvd, at>>
=============================================================================
