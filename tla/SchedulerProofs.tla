-------------------------- MODULE SchedulerProofs --------------------------
(* Proofs about the scheduler threads and the protocol by which they end,  *)
(* for any number of threads and actors.                                   *)
EXTENDS Scheduler, SumTheorems

-----------------------------------------------------------------------------
(* The inductive invariant. *)

BLOCK == Msg("BLOCK", 0)
UNBLOCK == Msg("UNBLOCK", 0)
CNF(token) == Msg("CNF", token)
ACK(token) == Msg("ACK", token)

\* How many of the first k messages are copies of m.
CountTo(msgs, m, k) == Cardinality({i \in 1 .. k : msgs[i] = m})

\* Who is sent what.  Nothing carries a token that was not given out yet, and
\* nobody is told to terminate before the ASIO thread has ended.
GoodMail(s, m, token, asking, stopped) ==
  /\ s # 0 => m.type \in {"CNF", "TERMINATE"}
  /\ m.type \in {"BLOCK", "UNBLOCK"} => m.arg = 0
  /\ m.type \in {"CNF", "ACK"} => m.arg <= token /\ asking
  /\ m.type = "TERMINATE" => stopped

GoodMails(w, token, asking, stopped) ==
  \A s \in Thread : \A i \in 1 .. Len(w[s]) :
    GoodMail(s, w[s][i], token, asking, stopped)

MailInv == GoodMails(mq, ackToken, detect, asioStopped)

\* What block_count is, and will be as more of v is read, when c threads are
\* blocked.
Accounted(v, b, c) ==
  /\ b + CountTo(v, BLOCK, Len(v)) = c + CountTo(v, UNBLOCK, Len(v))
  /\ \A k \in 0 .. Len(v) :
       b + CountTo(v, BLOCK, k) - CountTo(v, UNBLOCK, k) \in 0 .. N

BlockInv == Accounted(mq[0], blockCount, Cardinality(Blocked))

\* A round of confirmations is under way only while all threads are counted
\* as blocked.
AckInv ==
  /\ AckAccounting
  /\ Answers = N => blockCount = N /\ detect
  /\ pc[0] \in {"acked", "join"} => ackCount = N
  /\ \A s \in Thread \ {0} : pc[s] \notin {"acked", "join"}

\* A thread that steals has at most the cycle detector, and in its queue at
\* most actors that it has missed. Only a thread in a pop has a stale tail.
StealInv ==
  \A s \in Thread :
    /\ pc[s] \notin {"run", "next", "nextLocal"} =>
         /\ actor[s] \in {NONE, CD}
         /\ \A i \in 1 .. Len(q[s]) : q[s][i] \in missed
    /\ got[s] # NONE <=> pc[s] = "unblock"
    /\ pc[s] = "expire" => actor[s] # NONE
    /\ pc[s] = "done" => terminate[s]
    /\ s \in stale => pc[s] \in {"next", "nextLocal", "steal", "stealVictim"}

\* The thread will see what is in the inject queue before it reads messages.
Looks(s) ==
  \/ pc[s] \in {"unblock", "run", "next", "nextLocal", "block", "expire"}
  \/ pc[s] = "steal" /\ s \notin stale

\* Once the ASIO thread has ended nothing is injected any more, and as long as
\* there is something in the inject queue some thread will see it. That is
\* thread 0 at first, and then whoever was the last to pop an actor from it.
EndInv ==
  /\ asioStopped => asio = "exited" /\ detect
  /\ \A s \in Thread : terminate[s] => asioStopped
  /\ asioStopped /\ inject # <<>> => \E s \in Thread : Looks(s)

IInv ==
  TypeOK /\ MailInv /\ BlockInv /\ AckInv /\ StealInv /\ EndInv /\ OnePlace

\* A program that has neither events nor a cycle detector and is not embedded.
Closed == opt.noblock /\ ~opt.events /\ ~opt.library

\* What stops a round of token k in a closed program: all threads wait; or a
\* thread has found an actor and has not confirmed, so its UNBLOCK comes
\* first; or an UNBLOCK will be read before the last ack.
Waits(p, g) ==
  \A s \in Thread :
    p[s] \notin {"run", "next", "nextLocal", "block"} /\ g[s] = NONE

Unblocks(p, w, k) ==
  \E s \in Thread : p[s] = "unblock" /\ CountTo(w[s], CNF(k), Len(w[s])) > 0

Doomed(v, k, n) ==
  \E i \in 1 .. Len(v) : v[i] = UNBLOCK /\ n + CountTo(v, ACK(k), i) < N

Settled(p, g, w, k, n) == Waits(p, g) \/ Unblocks(p, w, k) \/ Doomed(w[0], k, n)

\* In such a program nothing is injected and the cycle detector has no work,
\* and as long as no thread has missed an actor all rounds are settled.
NoDetector ==
  \A s \in Thread :
    actor[s] # CD /\ got[s] # CD /\ \A i \in 1 .. Len(q[s]) : q[s][i] # CD

QuietInv ==
  Closed =>
    /\ inject = <<>> /\ NoDetector
    /\ Answers = N /\ missed = {} => Settled(pc, got, mq, ackToken, ackCount)

-----------------------------------------------------------------------------
(* Counting messages. *)

\* The threads are numbered from 0.
LEMMA ThreadFacts ==
  /\ N \in Nat /\ N > 0 /\ 0 \in Thread /\ Thread \subseteq Nat
  /\ IsFiniteSet(Thread) /\ Cardinality(Thread) = N
<1>1. N \in Nat /\ N > 0
  BY SchedulerAssumption
<1>2. IsFiniteSet(0 .. N - 1) /\ Cardinality(0 .. N - 1) = N
  BY <1>1, FS_Interval
<1> QED BY <1>1, <1>2 DEF Thread

\* 1 if the message x is a copy of m.
Is(x, m) == IF x = m THEN 1 ELSE 0

\* A message more.
LEMMA CountToStep ==
  ASSUME NEW msgs, NEW m, NEW k \in Nat
  PROVE  /\ CountTo(msgs, m, 0) = 0
         /\ CountTo(msgs, m, k) \in Nat
         /\ CountTo(msgs, m, k + 1) = CountTo(msgs, m, k) + Is(msgs[k + 1], m)
<1> DEFINE S(j) == {i \in 1 .. j : msgs[i] = m}
<1>1. \A j \in Nat : IsFiniteSet(S(j)) /\ Cardinality(S(j)) \in Nat
  <2>1. \A j \in Nat : IsFiniteSet(1 .. j)
    BY FS_Interval
  <2>2. \A j \in Nat : S(j) \subseteq 1 .. j
    OBVIOUS
  <2> HIDE DEF S
  <2> QED BY <2>1, <2>2, FS_Subset, FS_CardinalityType
<1>2. S(0) = {}
  OBVIOUS
<1>3. CASE msgs[k + 1] = m
  <2>1. S(k + 1) = S(k) \cup {k + 1} /\ k + 1 \notin S(k)
    BY <1>3
  <2> HIDE DEF S
  <2>2. Cardinality(S(k + 1)) = Cardinality(S(k)) + 1
    BY <1>1, <2>1, FS_AddElement
  <2> USE DEF S
  <2> QED BY <1>1, <1>2, <1>3, <2>2, FS_EmptySet DEF CountTo, Is
<1>4. CASE msgs[k + 1] # m
  <2>1. S(k + 1) = S(k)
    BY <1>4
  <2> QED BY <1>1, <1>2, <1>4, <2>1, FS_EmptySet DEF CountTo, Is
<1> QED BY <1>3, <1>4

\* Only the messages counted matter.
LEMMA CountToSame ==
  ASSUME NEW v, NEW w, NEW m, NEW k \in Nat, \A i \in 1 .. k : v[i] = w[i]
  PROVE  CountTo(v, m, k) = CountTo(w, m, k)
<1>1. {i \in 1 .. k : v[i] = m} = {i \in 1 .. k : w[i] = m}
  OBVIOUS
<1> QED BY <1>1 DEF CountTo

\* What is sent comes last.
LEMMA CountAppend ==
  ASSUME NEW M, NEW v \in Seq(M), NEW x \in M, NEW m
  PROVE  /\ Append(v, x) \in Seq(M) /\ Len(v) \in Nat
         /\ Len(Append(v, x)) = Len(v) + 1
         /\ \A k \in 0 .. Len(v) : CountTo(Append(v, x), m, k) = CountTo(v, m, k)
         /\ CountTo(Append(v, x), m, Len(v) + 1)
              = CountTo(v, m, Len(v)) + Is(x, m)
<1>1. /\ Append(v, x) \in Seq(M) /\ Len(v) \in Nat
      /\ Len(Append(v, x)) = Len(v) + 1
      /\ \A i \in 1 .. Len(v) : Append(v, x)[i] = v[i]
      /\ Append(v, x)[Len(v) + 1] = x
  OBVIOUS
<1> HIDE DEF CountTo
<1>2. \A k \in 0 .. Len(v) : CountTo(Append(v, x), m, k) = CountTo(v, m, k)
  <2> TAKE k \in 0 .. Len(v)
  <2>1. k \in Nat /\ \A i \in 1 .. k : Append(v, x)[i] = v[i]
    BY <1>1
  <2> QED BY <2>1, CountToSame
<1>3. CountTo(Append(v, x), m, Len(v) + 1)
        = CountTo(Append(v, x), m, Len(v)) + Is(x, m)
  <2>1. PICK w : w = Append(v, x)
    OBVIOUS
  <2>a. PICK n \in Nat : n = Len(v)
    BY <1>1
  <2>2. CountTo(w, m, n + 1) = CountTo(w, m, n) + Is(w[n + 1], m)
    BY CountToStep
  <2> QED BY <1>1, <2>1, <2>a, <2>2
<1>4. Len(v) \in 0 .. Len(v)
  BY <1>1
<1> QED BY <1>1, <1>2, <1>3, <1>4

\* What is read comes first.
LEMMA CountTail ==
  ASSUME NEW M, NEW v \in Seq(M), v # <<>>, NEW m
  PROVE  /\ Head(v) \in M /\ Tail(v) \in Seq(M)
         /\ Len(v) \in Nat \ {0} /\ Len(Tail(v)) = Len(v) - 1
         /\ \A k \in 0 .. Len(v) - 1 :
              CountTo(v, m, k + 1) = CountTo(Tail(v), m, k) + Is(Head(v), m)
<1>1. /\ Head(v) \in M /\ Head(v) = v[1] /\ Tail(v) \in Seq(M)
      /\ Len(v) \in Nat \ {0} /\ Len(Tail(v)) = Len(v) - 1
      /\ \A i \in 1 .. Len(v) - 1 : Tail(v)[i] = v[i + 1]
  OBVIOUS
<1> DEFINE T == {k \in Nat : k <= Len(v) - 1 =>
                   CountTo(v, m, k + 1) = CountTo(Tail(v), m, k) + Is(Head(v), m)}
<1>2. 0 \in T
  <2>1. CountTo(v, m, 0 + 1) = CountTo(v, m, 0) + Is(v[0 + 1], m)
    BY CountToStep
  <2>2. CountTo(v, m, 0) = 0 /\ CountTo(Tail(v), m, 0) = 0
    BY CountToStep
  <2> QED BY <1>1, <2>1, <2>2
<1>3. ASSUME NEW k \in Nat, k \in T PROVE k + 1 \in T
  <2> SUFFICES ASSUME k + 1 <= Len(v) - 1
               PROVE  CountTo(v, m, (k + 1) + 1)
                        = CountTo(Tail(v), m, k + 1) + Is(Head(v), m)
    OBVIOUS
  <2>1. CountTo(v, m, (k + 1) + 1) = CountTo(v, m, k + 1) + Is(v[(k + 1) + 1], m)
    BY CountToStep
  <2>2. CountTo(Tail(v), m, k + 1) = CountTo(Tail(v), m, k) + Is(Tail(v)[k + 1], m)
    BY CountToStep
  <2>3. Tail(v)[k + 1] = v[(k + 1) + 1]
    BY <1>1
  <2>4. CountTo(v, m, k + 1) = CountTo(Tail(v), m, k) + Is(Head(v), m)
    BY <1>1, <1>3
  <2>5. CountTo(Tail(v), m, k) \in Nat
    BY CountToStep
  <2> QED BY <2>1, <2>2, <2>3, <2>4, <2>5 DEF Is
<1> HIDE DEF T
<1>4. \A k \in Nat : k \in T
  BY <1>2, <1>3, Induction
<1>5. ASSUME NEW k \in 0 .. Len(v) - 1
      PROVE  CountTo(v, m, k + 1) = CountTo(Tail(v), m, k) + Is(Head(v), m)
  <2>1. k \in T /\ k <= Len(v) - 1
    BY <1>1, <1>4
  <2> QED BY <2>1 DEF T
<1> QED BY <1>1, <1>5
-----------------------------------------------------------------------------
(* Who is blocked. *)

\* A thread sends to thread 0, and is blocked or not after it.
LEMMA AccountedAppend ==
  ASSUME NEW M, NEW v \in Seq(M), NEW x \in M, NEW b \in Nat, NEW c \in Nat,
         Accounted(v, b, c), NEW d \in 0 .. N,
         d = c + Is(x, BLOCK) - Is(x, UNBLOCK)
  PROVE  Accounted(Append(v, x), b, d)
<1>1. PICK w : w = Append(v, x)
  OBVIOUS
<1>2. PICK n \in Nat : n = Len(v)
  OBVIOUS
<1>3. /\ Len(w) = n + 1
      /\ \A k \in 0 .. n : CountTo(w, BLOCK, k) = CountTo(v, BLOCK, k)
      /\ \A k \in 0 .. n : CountTo(w, UNBLOCK, k) = CountTo(v, UNBLOCK, k)
      /\ CountTo(w, BLOCK, n + 1) = CountTo(v, BLOCK, n) + Is(x, BLOCK)
      /\ CountTo(w, UNBLOCK, n + 1) = CountTo(v, UNBLOCK, n) + Is(x, UNBLOCK)
  BY <1>1, <1>2, CountAppend
<1>4. /\ Is(x, BLOCK) \in Nat /\ Is(x, UNBLOCK) \in Nat
  BY DEF Is
<1>5. CountTo(v, BLOCK, n) \in Nat /\ CountTo(v, UNBLOCK, n) \in Nat
  BY CountToStep
<1>6. b + CountTo(v, BLOCK, n) = c + CountTo(v, UNBLOCK, n)
  BY <1>2 DEF Accounted
<1>7. b + CountTo(w, BLOCK, n + 1) = d + CountTo(w, UNBLOCK, n + 1)
  <2>1. PICK y \in Nat, z \in Nat : y = CountTo(v, BLOCK, n) /\ z = CountTo(v, UNBLOCK, n)
    BY <1>5
  <2>2. PICK p \in Nat, r \in Nat : p = Is(x, BLOCK) /\ r = Is(x, UNBLOCK)
    BY <1>4
  <2>3. b + y = c + z /\ d = c + p - r
    BY <1>6, <2>1, <2>2
  <2>4. b + (y + p) = d + (z + r)
    BY <2>3
  <2> QED BY <1>3, <2>1, <2>2, <2>4
<1>8. ASSUME NEW k \in 0 .. n + 1
      PROVE  b + CountTo(w, BLOCK, k) - CountTo(w, UNBLOCK, k) \in 0 .. N
  <2>1. CASE k \in 0 .. n
    BY <1>2, <1>3, <2>1 DEF Accounted
  <2>2. CASE k = n + 1
    <3>1. /\ CountTo(w, BLOCK, n + 1) \in Nat /\ CountTo(w, UNBLOCK, n + 1) \in Nat
      BY <1>3, <1>4, <1>5
    <3> QED BY <1>7, <2>2, <3>1, ThreadFacts
  <2> QED BY <2>1, <2>2
<1> QED BY <1>1, <1>3, <1>7, <1>8 DEF Accounted

\* Thread 0 reads a message.
LEMMA AccountedTail ==
  ASSUME NEW M, NEW v \in Seq(M), v # <<>>, NEW b \in Nat, NEW c \in Nat,
         Accounted(v, b, c), NEW d \in Int,
         d = b + Is(Head(v), BLOCK) - Is(Head(v), UNBLOCK)
  PROVE  Accounted(Tail(v), d, c) /\ d \in 0 .. N
<1>1. PICK w : w = Tail(v)
  OBVIOUS
<1>2. PICK n \in Nat : Len(v) = n + 1
  <2>1. Len(v) \in Nat /\ Len(v) # 0
    OBVIOUS
  <2>2. Len(v) - 1 \in Nat /\ Len(v) = (Len(v) - 1) + 1
    BY <2>1
  <2> QED BY <2>2
<1>3. /\ Len(w) = n
      /\ \A k \in 0 .. n :
           CountTo(v, BLOCK, k + 1) = CountTo(w, BLOCK, k) + Is(Head(v), BLOCK)
      /\ \A k \in 0 .. n :
           CountTo(v, UNBLOCK, k + 1) = CountTo(w, UNBLOCK, k) + Is(Head(v), UNBLOCK)
  <2>1. Len(v) - 1 = n
    BY <1>2
  <2> QED BY <1>1, <2>1, CountTail
<1>4. PICK p \in Nat, r \in Nat : p = Is(Head(v), BLOCK) /\ r = Is(Head(v), UNBLOCK)
  BY DEF Is
<1>5. \A k \in Nat : CountTo(w, BLOCK, k) \in Nat /\ CountTo(w, UNBLOCK, k) \in Nat
  BY CountToStep
<1>6. ASSUME NEW k \in 0 .. n
      PROVE  d + CountTo(w, BLOCK, k) - CountTo(w, UNBLOCK, k) \in 0 .. N
  <2>0. k \in Nat
    OBVIOUS
  <2>1. PICK x \in Nat, y \in Nat : x = CountTo(w, BLOCK, k) /\ y = CountTo(w, UNBLOCK, k)
    BY <1>5, <2>0
  <2>2. k + 1 \in 0 .. Len(v)
    BY <1>2
  <2>3. b + CountTo(v, BLOCK, k + 1) - CountTo(v, UNBLOCK, k + 1) \in 0 .. N
    BY <2>2 DEF Accounted
  <2>4. b + (x + p) - (y + r) \in 0 .. N
    BY <1>3, <1>4, <2>1, <2>3
  <2>5. b + (x + p) - (y + r) = d + x - y
    BY <1>4
  <2> QED BY <2>1, <2>4, <2>5
<1>7. d + CountTo(w, BLOCK, n) = c + CountTo(w, UNBLOCK, n)
  <2>1. PICK x \in Nat, y \in Nat : x = CountTo(w, BLOCK, n) /\ y = CountTo(w, UNBLOCK, n)
    BY <1>5
  <2>2. b + CountTo(v, BLOCK, n + 1) = c + CountTo(v, UNBLOCK, n + 1)
    BY <1>2 DEF Accounted
  <2>3. n \in 0 .. n
    OBVIOUS
  <2>4. b + (x + p) = c + (y + r)
    BY <1>3, <1>4, <2>1, <2>2, <2>3
  <2>5. d = b + p - r
    BY <1>4
  <2>6. d + x = c + y
    BY <2>4, <2>5
  <2> QED BY <2>1, <2>6
<1>8. d \in 0 .. N
  <2>1. CountTo(w, BLOCK, 0) = 0 /\ CountTo(w, UNBLOCK, 0) = 0
    BY CountToStep
  <2>2. 0 \in 0 .. n
    OBVIOUS
  <2>3. d + 0 - 0 \in 0 .. N
    BY <1>6, <2>1, <2>2
  <2> QED BY <2>3
<1> QED BY <1>1, <1>3, <1>6, <1>7, <1>8 DEF Accounted
-----------------------------------------------------------------------------
(* Who has confirmed. *)

Mail == [Thread -> Seq(MsgSet)]

\* The copies of m on their way to s.
CountIn(w, s, m) == CountTo(w[s], m, Len(w[s]))

\* The confirmations that threads have still to read.
Asked(w, token) == [s \in Thread |-> CountIn(w, s, CNF(token))]
AskedSum(w, token) == SumFunctionOnSet(Asked(w, token), Thread)

\* They are counted by natural numbers.
LEMMA CountInType ==
  ASSUME NEW w \in Mail, NEW s \in Thread, NEW m
  PROVE  CountIn(w, s, m) \in Nat
<1>1. w[s] \in Seq(MsgSet)
  BY DEF Mail
<1>2. Len(w[s]) \in Nat
  BY <1>1
<1> QED BY <1>2, CountToStep DEF CountIn

\* Their sum is one too, and as large as any of them.
LEMMA AskedType ==
  ASSUME NEW w \in Mail, NEW k
  PROVE  /\ AskedSum(w, k) \in Nat
         /\ \A s \in Thread : CountIn(w, s, CNF(k)) <= AskedSum(w, k)
<1>1. \A s \in Thread : Asked(w, k)[s] = CountIn(w, s, CNF(k)) /\ Asked(w, k)[s] \in Nat
  BY CountInType DEF Asked
<1>2. PICK f : f = Asked(w, k)
  OBVIOUS
<1>3. /\ SumFunctionOnSet(f, Thread) \in Nat
      /\ \A s \in Thread : f[s] <= SumFunctionOnSet(f, Thread)
  BY <1>1, <1>2, ThreadFacts, SumNat
<1> QED BY <1>1, <1>2, <1>3 DEF AskedSum

\* What the properties say in terms of the messages.
LEMMA AnswersIs ==
  /\ Answers = ackCount + CountIn(mq, 0, ACK(ackToken)) + AskedSum(mq, ackToken)
  /\ \A s, m : Unread(s, m) = CountIn(mq, s, m)
<1>1. \A s, m : Unread(s, m) = CountIn(mq, s, m)
  BY DEF Unread, CountIn, CountTo
<1>2. PICK f : f = [s \in Thread |-> Unread(s, Msg("CNF", ackToken))]
  OBVIOUS
<1>3. f = Asked(mq, ackToken) /\ DOMAIN f = Thread
  BY <1>1, <1>2 DEF Asked, CNF
<1>4. SumFunction(f) = AskedSum(mq, ackToken)
  BY <1>3 DEF SumFunction, AskedSum
<1> QED BY <1>1, <1>2, <1>4 DEF Answers, ACK

\* A confirmation is read by one thread.
LEMMA AskedLess ==
  ASSUME NEW w \in Mail, NEW u \in Mail, NEW k, NEW s \in Thread, NEW d \in Nat,
         \A t \in Thread : CountIn(w, t, CNF(k))
           = CountIn(u, t, CNF(k)) + (IF t = s THEN d ELSE 0)
  PROVE  AskedSum(w, k) = AskedSum(u, k) + d
<1>1. PICK f : f = Asked(u, k)
  OBVIOUS
<1>2. PICK g : g = Asked(w, k)
  OBVIOUS
<1>3. \A t \in Thread : /\ f[t] = CountIn(u, t, CNF(k)) /\ f[t] \in Int
                        /\ g[t] = CountIn(w, t, CNF(k)) /\ g[t] \in Int
  BY <1>1, <1>2, CountInType DEF Asked
<1>4. \A t \in Thread : f[t] \in Int /\ g[t] \in Int
  BY <1>3
<1>5. \A t \in Thread : t # s => g[t] = f[t]
  BY <1>3
<1>6. SumFunctionOnSet(g, Thread) = SumFunctionOnSet(f, Thread) + (g[s] - f[s])
  BY <1>4, <1>5, ThreadFacts, SumUpdate
<1>7. g[s] - f[s] = d
  BY <1>3
<1> QED BY <1>1, <1>2, <1>6, <1>7 DEF AskedSum

\* Every thread is asked.
LEMMA AskedAll ==
  ASSUME NEW w \in Mail, NEW k, \A t \in Thread : CountIn(w, t, CNF(k)) = 1
  PROVE  AskedSum(w, k) = N
<1>1. PICK f : f = Asked(w, k)
  OBVIOUS
<1>2. \A t \in Thread : f[t] = 1
  BY <1>1 DEF Asked
<1> QED BY <1>1, <1>2, ThreadFacts, SumOnes DEF AskedSum

\* Nobody is.
LEMMA AskedNone ==
  ASSUME NEW w \in Mail, NEW k, \A t \in Thread : CountIn(w, t, CNF(k)) = 0
  PROVE  AskedSum(w, k) = 0
<1>1. PICK f : f = Asked(w, k)
  OBVIOUS
<1>2. \A t \in Thread : f[t] = 0
  BY <1>1 DEF Asked
<1> QED BY <1>1, <1>2, ThreadFacts, SumZero DEF AskedSum

\* A message that is not in the queue is counted 0 times.
LEMMA CountNone ==
  ASSUME NEW v, NEW m, NEW k \in Nat, \A i \in 1 .. k : v[i] # m
  PROVE  CountTo(v, m, k) = 0
<1>1. {i \in 1 .. k : v[i] = m} = {}
  OBVIOUS
<1> QED BY <1>1, FS_EmptySet DEF CountTo

\* Sending to one thread and to all, and reading.
LEMMA MailPost ==
  ASSUME NEW w \in Mail, NEW x \in MsgSet
  PROVE  LET u == [w EXCEPT ![0] = Append(@, x)] IN
         /\ u \in Mail
         /\ \A t \in Thread : \A m : CountIn(u, t, m)
              = CountIn(w, t, m) + (IF t = 0 THEN Is(x, m) ELSE 0)
<1>1. PICK u : u = [w EXCEPT ![0] = Append(@, x)]
  OBVIOUS
<1>2. w[0] \in Seq(MsgSet)
  BY ThreadFacts DEF Mail
<1>3. /\ u \in Mail /\ u[0] = Append(w[0], x)
      /\ \A t \in Thread : t # 0 => u[t] = w[t]
  BY <1>1, <1>2, ThreadFacts DEF Mail
<1>4. ASSUME NEW t \in Thread, NEW m
      PROVE  CountIn(u, t, m) = CountIn(w, t, m) + (IF t = 0 THEN Is(x, m) ELSE 0)
  <2>1. CASE t = 0
    <3>1. /\ Len(Append(w[0], x)) = Len(w[0]) + 1
          /\ CountTo(Append(w[0], x), m, Len(w[0]) + 1)
               = CountTo(w[0], m, Len(w[0])) + Is(x, m)
      BY <1>2, CountAppend
    <3> QED BY <1>3, <2>1, <3>1 DEF CountIn
  <2>2. CASE t # 0
    BY <1>3, <2>2, CountInType DEF CountIn
  <2> QED BY <2>1, <2>2
<1> QED BY <1>1, <1>3, <1>4

\* ToAll
LEMMA MailPostAll ==
  ASSUME NEW w \in Mail, NEW x \in MsgSet
  PROVE  LET u == [t \in Thread |-> Append(w[t], x)] IN
         /\ u \in Mail
         /\ \A t \in Thread : \A m : CountIn(u, t, m) = CountIn(w, t, m) + Is(x, m)
<1>1. PICK u : u = [t \in Thread |-> Append(w[t], x)]
  OBVIOUS
<1>2. \A t \in Thread : w[t] \in Seq(MsgSet)
  BY DEF Mail
<1>3. u \in Mail /\ \A t \in Thread : u[t] = Append(w[t], x)
  BY <1>1, <1>2 DEF Mail
<1>4. ASSUME NEW t \in Thread, NEW m
      PROVE  CountIn(u, t, m) = CountIn(w, t, m) + Is(x, m)
  <2>1. /\ Len(Append(w[t], x)) = Len(w[t]) + 1
        /\ CountTo(Append(w[t], x), m, Len(w[t]) + 1)
             = CountTo(w[t], m, Len(w[t])) + Is(x, m)
    BY <1>2, CountAppend
  <2> QED BY <1>3, <2>1 DEF CountIn
<1> QED BY <1>1, <1>3, <1>4

\* ponyint_messageq_pop
LEMMA MailPop ==
  ASSUME NEW w \in Mail, NEW s \in Thread, w[s] # <<>>
  PROVE  LET u == [w EXCEPT ![s] = Tail(@)] IN
         /\ u \in Mail /\ Head(w[s]) \in MsgSet
         /\ \A t \in Thread : \A m : CountIn(w, t, m)
              = CountIn(u, t, m) + (IF t = s THEN Is(Head(w[s]), m) ELSE 0)
<1>1. PICK u : u = [w EXCEPT ![s] = Tail(@)]
  OBVIOUS
<1>2. w[s] \in Seq(MsgSet)
  BY DEF Mail
<1>3. /\ u \in Mail /\ u[s] = Tail(w[s]) /\ Head(w[s]) \in MsgSet
      /\ \A t \in Thread : t # s => u[t] = w[t]
  BY <1>1, <1>2 DEF Mail
<1>4. ASSUME NEW t \in Thread, NEW m
      PROVE  CountIn(w, t, m)
               = CountIn(u, t, m) + (IF t = s THEN Is(Head(w[s]), m) ELSE 0)
  <2>1. CASE t = s
    <3>1. /\ Len(w[s]) \in Nat \ {0} /\ Len(Tail(w[s])) = Len(w[s]) - 1
          /\ \A k \in 0 .. Len(w[s]) - 1 :
               CountTo(w[s], m, k + 1) = CountTo(Tail(w[s]), m, k) + Is(Head(w[s]), m)
      BY <1>2, CountTail
    <3>2. Len(w[s]) - 1 \in 0 .. Len(w[s]) - 1 /\ (Len(w[s]) - 1) + 1 = Len(w[s])
      BY <3>1
    <3>3. CountTo(w[s], m, Len(w[s]))
            = CountTo(Tail(w[s]), m, Len(w[s]) - 1) + Is(Head(w[s]), m)
      BY <3>1, <3>2
    <3> QED BY <1>3, <2>1, <3>1, <3>3 DEF CountIn
  <2>2. CASE t # s
    BY <1>3, <2>2, CountInType DEF CountIn
  <2> QED BY <2>1, <2>2
<1> QED BY <1>1, <1>3, <1>4
\* The confirmations and acks of a token.
Answered(w, k, n) == n + CountIn(w, 0, ACK(k)) + AskedSum(w, k)

\* What the properties say in terms of these.
LEMMA AnsweredIs ==
  Answers = Answered(mq, ackToken, ackCount)
BY AnswersIs DEF Answered

\* The same after a step.
LEMMA AnsweredNext ==
  Answers' = Answered(mq', ackToken', ackCount')
<1>1. PICK f : f = [s \in Thread |-> Unread(s, Msg("CNF", ackToken))']
  OBVIOUS
<1>2. \A s, m : CountIn(mq', s, m) = Cardinality({i \in 1 .. Len(mq'[s]) : mq'[s][i] = m})
  BY DEF CountIn, CountTo
<1>3. f = Asked(mq', ackToken') /\ DOMAIN f = Thread
  BY <1>1, <1>2 DEF Asked, CNF, Unread
<1>4. SumFunction(f) = AskedSum(mq', ackToken')
  BY <1>3 DEF SumFunction, AskedSum
<1> QED BY <1>1, <1>2, <1>4 DEF Answers, Answered, ACK, Unread

\* It is a number.
LEMMA AnsweredType ==
  ASSUME NEW w \in Mail, NEW k, NEW n \in Nat
  PROVE  /\ Answered(w, k, n) \in Nat
         /\ n + CountIn(w, 0, ACK(k)) <= Answered(w, k, n)
         /\ \A t \in Thread :
              n + CountIn(w, 0, ACK(k)) + CountIn(w, t, CNF(k)) <= Answered(w, k, n)
         /\ CountIn(w, 0, ACK(k)) \in Nat
         /\ \A t \in Thread : CountIn(w, t, CNF(k)) \in Nat
<1>1. CountIn(w, 0, ACK(k)) \in Nat /\ \A t \in Thread : CountIn(w, t, CNF(k)) \in Nat
  BY CountInType, ThreadFacts
<1>2. /\ AskedSum(w, k) \in Nat
      /\ \A s \in Thread : CountIn(w, s, CNF(k)) <= AskedSum(w, k)
  BY AskedType
<1>3. PICK a \in Nat, b \in Nat : a = CountIn(w, 0, ACK(k)) /\ b = AskedSum(w, k)
  BY <1>1, <1>2
<1>4. n + a + b \in Nat /\ n + a <= n + a + b
  OBVIOUS
<1>5. ASSUME NEW t \in Thread
      PROVE  n + a + CountIn(w, t, CNF(k)) <= n + a + b
  BY <1>1, <1>2, <1>3
<1> QED BY <1>1, <1>3, <1>4, <1>5 DEF Answered

\* A message to thread 0.
LEMMA AnsweredPost ==
  ASSUME NEW w \in Mail, NEW x \in MsgSet, NEW k, NEW n \in Nat, x # CNF(k)
  PROVE  Answered([w EXCEPT ![0] = Append(@, x)], k, n)
           = Answered(w, k, n) + Is(x, ACK(k))
<1>1. PICK u : u = [w EXCEPT ![0] = Append(@, x)]
  OBVIOUS
<1>2. /\ u \in Mail
      /\ \A t \in Thread : \A m :
           CountIn(u, t, m) = CountIn(w, t, m) + (IF t = 0 THEN Is(x, m) ELSE 0)
  BY <1>1, MailPost
<1>3. CountIn(u, 0, ACK(k)) = CountIn(w, 0, ACK(k)) + Is(x, ACK(k))
  BY <1>2, ThreadFacts
<1>4. \A t \in Thread : CountIn(u, t, CNF(k)) = CountIn(w, t, CNF(k)) + (IF t = 0 THEN 0 ELSE 0)
  BY <1>2 DEF Is
<1>5. AskedSum(u, k) = AskedSum(w, k) + 0
  BY <1>2, <1>4, ThreadFacts, AskedLess
<1>6. CountIn(w, 0, ACK(k)) \in Nat /\ AskedSum(w, k) \in Nat
  BY CountInType, ThreadFacts, AskedType
<1>7. Is(x, ACK(k)) \in Nat
  BY DEF Is
<1>8. PICK a \in Nat, b \in Nat, c \in Nat :
        a = CountIn(w, 0, ACK(k)) /\ b = AskedSum(w, k) /\ c = Is(x, ACK(k))
  BY <1>6, <1>7
<1>9. n + (a + c) + (b + 0) = (n + a + b) + c
  OBVIOUS
<1> QED BY <1>1, <1>3, <1>5, <1>8, <1>9 DEF Answered

\* A message is read.
LEMMA AnsweredPop ==
  ASSUME NEW w \in Mail, NEW s \in Thread, w[s] # <<>>, NEW k, NEW n \in Nat
  PROVE  Answered(w, k, n)
           = Answered([w EXCEPT ![s] = Tail(@)], k, n)
               + (IF s = 0 THEN Is(Head(w[s]), ACK(k)) ELSE 0) + Is(Head(w[s]), CNF(k))
<1>0. /\ [w EXCEPT ![s] = Tail(@)] \in Mail
      /\ \A t \in Thread : \A m : CountIn(w, t, m)
           = CountIn([w EXCEPT ![s] = Tail(@)], t, m)
               + (IF t = s THEN Is(Head(w[s]), m) ELSE 0)
  BY MailPop
<1>1. PICK u : u = [w EXCEPT ![s] = Tail(@)]
  OBVIOUS
<1>2. /\ u \in Mail
      /\ \A t \in Thread : \A m : CountIn(w, t, m)
           = CountIn(u, t, m) + (IF t = s THEN Is(Head(w[s]), m) ELSE 0)
  BY <1>0, <1>1
<1>3. PICK d \in Nat, e \in Nat : /\ d = Is(Head(w[s]), CNF(k))
                                  /\ e = IF s = 0 THEN Is(Head(w[s]), ACK(k)) ELSE 0
  BY DEF Is
<1>4. CountIn(w, 0, ACK(k)) = CountIn(u, 0, ACK(k)) + e
  BY <1>2, <1>3, ThreadFacts
<1>5. \A t \in Thread : CountIn(w, t, CNF(k)) = CountIn(u, t, CNF(k)) + (IF t = s THEN d ELSE 0)
  BY <1>2, <1>3
<1>6. AskedSum(w, k) = AskedSum(u, k) + d
  BY <1>2, <1>5, AskedLess
<1>7. PICK a \in Nat, b \in Nat : a = CountIn(u, 0, ACK(k)) /\ b = AskedSum(u, k)
  BY <1>2, CountInType, ThreadFacts, AskedType
<1>8. n + (a + e) + (b + d) = (n + a + b) + e + d
  OBVIOUS
<1> QED BY <1>1, <1>3, <1>4, <1>6, <1>7, <1>8 DEF Answered

\* A message to all threads that is neither, and one that asks them all.
LEMMA AnsweredPostAll ==
  ASSUME NEW w \in Mail, NEW x \in MsgSet, NEW k, NEW n \in Nat, x # ACK(k)
  PROVE  LET u == [t \in Thread |-> Append(w[t], x)] IN
         /\ x # CNF(k) => Answered(u, k, n) = Answered(w, k, n)
         /\ x = CNF(k) /\ Answered(w, k, n) = 0 =>
              /\ Answered(u, k, n) = N
              /\ \A t \in Thread : CountIn(u, t, CNF(k)) = 1
<1>1. PICK u : u = [t \in Thread |-> Append(w[t], x)]
  OBVIOUS
<1>2. /\ u \in Mail
      /\ \A t \in Thread : \A m : CountIn(u, t, m) = CountIn(w, t, m) + Is(x, m)
  BY <1>1, MailPostAll
<1>3. CountIn(u, 0, ACK(k)) = CountIn(w, 0, ACK(k))
  BY <1>2, ThreadFacts, CountInType DEF Is
<1>4. CASE x # CNF(k)
  <2>1. \A t \in Thread : CountIn(u, t, CNF(k)) = CountIn(w, t, CNF(k)) + (IF t = 0 THEN 0 ELSE 0)
    BY <1>2, <1>4 DEF Is
  <2>2. AskedSum(u, k) = AskedSum(w, k) + 0
    BY <1>2, <2>1, ThreadFacts, AskedLess
  <2>3. AskedSum(w, k) \in Nat
    BY AskedType
  <2> QED BY <1>1, <1>3, <1>4, <2>2, <2>3 DEF Answered
<1>5. CASE x = CNF(k) /\ Answered(w, k, n) = 0
  <2>1. /\ n = 0 /\ CountIn(w, 0, ACK(k)) = 0
        /\ \A t \in Thread : CountIn(w, t, CNF(k)) = 0
    <3>1. PICK a \in Nat : a = CountIn(w, 0, ACK(k))
      BY AnsweredType
    <3>2. n + a <= 0
      BY <1>5, <3>1, AnsweredType
    <3>3. ASSUME NEW t \in Thread PROVE CountIn(w, t, CNF(k)) = 0
      <4>1. PICK c \in Nat : c = CountIn(w, t, CNF(k))
        BY AnsweredType
      <4>2. n + a + c <= 0
        BY <1>5, <3>1, <4>1, AnsweredType
      <4> QED BY <4>1, <4>2
    <3> QED BY <3>1, <3>2, <3>3
  <2>2. \A t \in Thread : CountIn(u, t, CNF(k)) = 1
    BY <1>2, <1>5, <2>1 DEF Is
  <2>3. AskedSum(u, k) = N
    BY <1>2, <2>2, AskedAll
  <2> QED BY <1>1, <1>3, <1>5, <2>1, <2>2, <2>3, ThreadFacts DEF Answered
<1> QED BY <1>1, <1>4, <1>5

\* A token that nothing carries.
LEMMA AnsweredFresh ==
  ASSUME NEW w \in Mail, NEW k \in Nat, NEW j \in Nat, k < j, NEW d, NEW a,
         GoodMails(w, k, d, a)
  PROVE  Answered(w, j, 0) = 0
<1>1. \A t \in Thread : Len(w[t]) \in Nat
  BY DEF Mail
<1>2. ASSUME NEW t \in Thread, NEW i \in 1 .. Len(w[t])
      PROVE  w[t][i] # CNF(j) /\ w[t][i] # ACK(j)
  <2>1. GoodMail(t, w[t][i], k, d, a)
    BY DEF GoodMails
  <2>2. w[t] \in Seq(MsgSet)
    BY DEF Mail
  <2>3. w[t][i].type \in {"CNF", "ACK"} => w[t][i].arg <= k
    BY <2>1 DEF GoodMail
  <2>4. /\ CNF(j).type = "CNF" /\ CNF(j).arg = j
        /\ ACK(j).type = "ACK" /\ ACK(j).arg = j
    BY DEF CNF, ACK, Msg
  <2>5. ~(j <= k)
    OBVIOUS
  <2> QED BY <2>3, <2>4, <2>5
<1>3. \A t \in Thread : CountIn(w, t, CNF(j)) = 0 /\ CountIn(w, t, ACK(j)) = 0
  BY <1>1, <1>2, CountNone DEF CountIn
<1>4. AskedSum(w, j) = 0
  BY <1>3, AskedNone
<1> QED BY <1>3, <1>4, ThreadFacts DEF Answered

-----------------------------------------------------------------------------
(* What is in the queues. *)

\* Tokens only grow, and the rest is never taken back.
LEMMA GoodLater ==
  ASSUME NEW w \in Mail, NEW k \in Nat, NEW d, NEW a, GoodMails(w, k, d, a),
         NEW j \in Nat, k <= j, NEW e, d => e, NEW b, a => b
  PROVE  GoodMails(w, j, e, b)
<1> SUFFICES ASSUME NEW s \in Thread, NEW i \in 1 .. Len(w[s])
             PROVE  GoodMail(s, w[s][i], j, e, b)
  BY DEF GoodMails
<1>1. GoodMail(s, w[s][i], k, d, a)
  BY DEF GoodMails
<1>2. w[s] \in Seq(MsgSet)
  BY DEF Mail
<1>3. w[s][i] \in MsgSet
  BY <1>2
<1>4. w[s][i].arg \in Nat
  BY <1>3 DEF MsgSet
<1> QED BY <1>1, <1>4 DEF GoodMail

\* The rules hold for what is added.
LEMMA GoodPost ==
  ASSUME NEW w \in Mail, NEW k, NEW d, NEW a, GoodMails(w, k, d, a),
         NEW x \in MsgSet, GoodMail(0, x, k, d, a)
  PROVE  GoodMails([w EXCEPT ![0] = Append(@, x)], k, d, a)
<1>1. PICK u : u = [w EXCEPT ![0] = Append(@, x)]
  OBVIOUS
<1>2. w[0] \in Seq(MsgSet)
  BY ThreadFacts DEF Mail
<1>3. u[0] = Append(w[0], x) /\ \A t \in Thread : t # 0 => u[t] = w[t]
  BY <1>1, <1>2, ThreadFacts DEF Mail
<1>4. ASSUME NEW s \in Thread, NEW i \in 1 .. Len(u[s])
      PROVE  GoodMail(s, u[s][i], k, d, a)
  <2>1. CASE s # 0
    BY <1>3, <2>1 DEF GoodMails
  <2>2. CASE s = 0
    <3>1. i \in 1 .. Len(w[0]) + 1
      BY <1>2, <1>3, <2>2
    <3>2. CASE i = Len(w[0]) + 1
      BY <1>2, <1>3, <2>2, <3>2
    <3>3. CASE i \in 1 .. Len(w[0])
      <4>1. u[0][i] = w[0][i]
        BY <1>2, <1>3, <3>3
      <4> QED BY <2>2, <3>3, <4>1 DEF GoodMails
    <3> QED BY <1>2, <3>1, <3>2, <3>3
  <2> QED BY <2>1, <2>2
<1> QED BY <1>1, <1>4 DEF GoodMails

\* And for what is added everywhere.
LEMMA GoodPostAll ==
  ASSUME NEW w \in Mail, NEW k, NEW d, NEW a, GoodMails(w, k, d, a),
         NEW x \in MsgSet, \A s \in Thread : GoodMail(s, x, k, d, a)
  PROVE  GoodMails([t \in Thread |-> Append(w[t], x)], k, d, a)
<1>1. PICK u : u = [t \in Thread |-> Append(w[t], x)]
  OBVIOUS
<1>2. ASSUME NEW s \in Thread, NEW i \in 1 .. Len(u[s])
      PROVE  GoodMail(s, u[s][i], k, d, a)
  <2>1. w[s] \in Seq(MsgSet) /\ u[s] = Append(w[s], x)
    BY <1>1 DEF Mail
  <2>2. i \in 1 .. Len(w[s]) + 1
    BY <2>1
  <2>3. CASE i = Len(w[s]) + 1
    BY <2>1, <2>3
  <2>4. CASE i \in 1 .. Len(w[s])
    <3>1. u[s][i] = w[s][i]
      BY <2>1, <2>4
    <3> QED BY <2>4, <3>1 DEF GoodMails
  <2> QED BY <2>1, <2>2, <2>3, <2>4
<1> QED BY <1>1, <1>2 DEF GoodMails

\* And for what is left.
LEMMA GoodPop ==
  ASSUME NEW w \in Mail, NEW k, NEW d, NEW a, GoodMails(w, k, d, a),
         NEW s \in Thread, w[s] # <<>>
  PROVE  /\ GoodMails([w EXCEPT ![s] = Tail(@)], k, d, a)
         /\ GoodMail(s, Head(w[s]), k, d, a)
<1>1. PICK u : u = [w EXCEPT ![s] = Tail(@)]
  OBVIOUS
<1>2. w[s] \in Seq(MsgSet) /\ Len(w[s]) \in Nat \ {0} /\ Head(w[s]) = w[s][1]
  BY DEF Mail
<1>3. u[s] = Tail(w[s]) /\ \A t \in Thread : t # s => u[t] = w[t]
  BY <1>1 DEF Mail
<1>4. ASSUME NEW t \in Thread, NEW i \in 1 .. Len(u[t])
      PROVE  GoodMail(t, u[t][i], k, d, a)
  <2>1. CASE t # s
    BY <1>3, <2>1 DEF GoodMails
  <2>2. CASE t = s
    <3>a. i \in 1 .. Len(Tail(w[s]))
      BY <1>3, <2>2
    <3>b. Len(Tail(w[s])) = Len(w[s]) - 1
      BY <1>2
    <3>1. i \in 1 .. Len(w[s]) - 1
      BY <3>a, <3>b
    <3>2. i + 1 \in 1 .. Len(w[s])
      BY <1>2, <3>1
    <3>3. u[s][i] = w[s][i + 1]
      BY <1>2, <1>3, <3>1
    <3> QED BY <2>2, <3>2, <3>3 DEF GoodMails
  <2> QED BY <2>1, <2>2
<1>5. GoodMail(s, Head(w[s]), k, d, a)
  <2>1. 1 \in 1 .. Len(w[s])
    BY <1>2
  <2> QED BY <1>2, <2>1 DEF GoodMails
<1> QED BY <1>1, <1>4, <1>5 DEF GoodMails
-----------------------------------------------------------------------------
(* The protocol. *)

\* The places of a thread that is not blocked.
Free == {"run", "next", "nextLocal", "block"}

\* A thread that moves.
LEMMA BlockedMove ==
  ASSUME pc \in [Thread -> Place], NEW s \in Thread, NEW p, Goto(s, p)
  PROVE  /\ Cardinality(Blocked) \in 0 .. N /\ Cardinality(Blocked') \in 0 .. N
         /\ (pc[s] \in Free <=> p \in Free) => Blocked' = Blocked
         /\ pc[s] \in Free /\ p \notin Free =>
              Cardinality(Blocked') = Cardinality(Blocked) + 1
         /\ pc[s] \notin Free /\ p \in Free =>
              Cardinality(Blocked') = Cardinality(Blocked) - 1
<1>1. pc'[s] = p /\ \A t \in Thread : t # s => pc'[t] = pc[t]
  BY DEF Goto
<1>2. \A B \in SUBSET Thread :
        IsFiniteSet(B) /\ Cardinality(B) \in Nat /\ Cardinality(B) <= N
  BY ThreadFacts, FS_Subset, FS_CardinalityType
<1>3. Blocked \in SUBSET Thread /\ Blocked' \in SUBSET Thread
  BY DEF Blocked
<1>4. Cardinality(Blocked) \in 0 .. N /\ Cardinality(Blocked') \in 0 .. N
  BY <1>2, <1>3, ThreadFacts
<1>5. (pc[s] \in Free <=> p \in Free) => Blocked' = Blocked
  BY <1>1 DEF Blocked, Free
<1>6. ASSUME pc[s] \in Free, p \notin Free
      PROVE  Cardinality(Blocked') = Cardinality(Blocked) + 1
  <2>1. Blocked' = Blocked \cup {s} /\ s \notin Blocked
    BY <1>1, <1>6 DEF Blocked, Free
  <2> QED BY <1>2, <1>3, <2>1, FS_AddElement
<1>7. ASSUME pc[s] \notin Free, p \in Free
      PROVE  Cardinality(Blocked') = Cardinality(Blocked) - 1
  <2>1. Blocked' = Blocked \ {s} /\ s \in Blocked
    BY <1>1, <1>7 DEF Blocked, Free
  <2> QED BY <1>2, <1>3, <2>1, FS_RemoveElement
<1> QED BY <1>4, <1>5, <1>6, <1>7

\* The parts of the invariant that are about it.
ProtoInv ==
  /\ MailInv /\ BlockInv /\ AckInv
  /\ blockCount \in 0 .. N /\ ackCount \in 0 .. N /\ ackToken \in Nat /\ mq \in Mail

\* The types that the proofs about it use.
LEMMA ProtoTypes ==
  ASSUME TypeOK
  PROVE  /\ mq \in Mail /\ ackToken \in Nat /\ ackCount \in Nat /\ blockCount \in Nat
         /\ pc \in [Thread -> Place] /\ Cardinality(Blocked) \in 0 .. N
         /\ mq[0] \in Seq(MsgSet) /\ N \in Nat
<1>1. /\ mq \in Mail /\ ackToken \in Nat /\ ackCount \in Nat /\ blockCount \in Nat
      /\ pc \in [Thread -> Place] /\ N \in Nat
  BY ThreadFacts DEF TypeOK, Mail
<1>2. Blocked \in SUBSET Thread
  BY DEF Blocked
<1>3. Cardinality(Blocked) \in Nat /\ Cardinality(Blocked) <= N
  BY <1>2, ThreadFacts, FS_Subset, FS_CardinalityType
<1> QED BY <1>1, <1>3, ThreadFacts DEF Mail

\* The counts stay within the number of threads.
LEMMA ProtoFrom ==
  ASSUME mq' \in Mail, blockCount' \in Int, ackCount' \in Nat, ackToken' \in Nat,
         MailInv', BlockInv', Answers' \in {0, N},
         Answers' = N => blockCount' = N /\ detect',
         pc'[0] \in {"acked", "join"} => ackCount' = N,
         \A s \in Thread \ {0} : pc'[s] \notin {"acked", "join"}
  PROVE  ProtoInv'
<1>1. mq'[0] \in Seq(MsgSet)
  BY ThreadFacts DEF Mail
<1>2. blockCount' + CountTo(mq'[0], BLOCK, 0) - CountTo(mq'[0], UNBLOCK, 0) \in 0 .. N
  BY <1>1 DEF BlockInv, Accounted
<1>3. blockCount' \in 0 .. N
  BY <1>2, CountToStep
<1>4. /\ ackCount' + CountIn(mq', 0, ACK(ackToken')) <= Answers'
      /\ CountIn(mq', 0, ACK(ackToken')) \in Nat
  BY AnsweredNext, AnsweredType
<1>5. ackCount' \in 0 .. N
  BY <1>4, ThreadFacts
<1> QED BY <1>3, <1>5 DEF ProtoInv, AckInv, AckAccounting

\* Steps that send and read no message.
LEMMA PlainKeeps ==
  ASSUME IInv, UNCHANGED <<mq, blockCount, ackToken, ackCount, asioStopped>>,
         detect => detect', Cardinality(Blocked') = Cardinality(Blocked),
         pc'[0] \in {"acked", "join"} => ackCount = N,
         \A s \in Thread \ {0} : pc'[s] \notin {"acked", "join"}
  PROVE  ProtoInv'
<1>1. MailInv'
  <2>1. GoodMails(mq, ackToken, detect', asioStopped)
    BY ProtoTypes, GoodLater DEF IInv, MailInv
  <2> QED BY <2>1 DEF MailInv
<1>2. BlockInv'
  BY DEF IInv, BlockInv
<1>3. Answers' = Answers
  BY DEF Answers, Unread
<1>4. mq' \in Mail /\ blockCount' \in Int /\ ackCount' \in Nat /\ ackToken' \in Nat
  BY ProtoTypes DEF IInv
<1>5. Answers' \in {0, N} /\ (Answers' = N => blockCount' = N /\ detect')
  BY <1>3 DEF IInv, AckInv, AckAccounting
<1> QED BY <1>1, <1>2, <1>4, <1>5, ProtoFrom

\* A thread tells thread 0 that it is blocked, or that it no longer is.
LEMMA TellKeeps ==
  ASSUME IInv, NEW s \in Thread, NEW x \in {BLOCK, UNBLOCK},
         mq' = [mq EXCEPT ![0] = Append(@, x)],
         UNCHANGED <<blockCount, ackToken, ackCount, asioStopped, detect>>,
         NEW p \in Place \ {"acked", "join"}, Goto(s, p),
         x = BLOCK => pc[s] \in Free /\ p \notin Free,
         x = UNBLOCK => pc[s] \notin Free /\ p \in Free
  PROVE  ProtoInv'
<1>1. /\ mq \in Mail /\ ackToken \in Nat /\ ackCount \in Nat /\ blockCount \in Nat
      /\ mq[0] \in Seq(MsgSet) /\ Cardinality(Blocked) \in Nat
      /\ pc \in [Thread -> Place]
  BY ProtoTypes DEF IInv
<1>2. x \in MsgSet /\ x # CNF(ackToken) /\ Is(x, ACK(ackToken)) = 0 /\ BLOCK # UNBLOCK
  BY DEF MsgSet, BLOCK, UNBLOCK, CNF, ACK, Msg, Is
<1>3. mq' \in Mail
  BY <1>1, <1>2, MailPost
<1>4. GoodMail(0, x, ackToken, detect, asioStopped)
  BY DEF GoodMail, BLOCK, UNBLOCK, Msg
<1>5. MailInv'
  <2>1. GoodMails(mq', ackToken, detect, asioStopped)
    BY <1>1, <1>2, <1>4, GoodPost DEF IInv, MailInv
  <2> QED BY <2>1 DEF MailInv
<1>6. BlockInv'
  <2>1. PICK c \in Nat : c = Cardinality(Blocked)
    BY <1>1
  <2>2. PICK d \in 0 .. N : d = Cardinality(Blocked')
    BY <1>1, BlockedMove
  <2>3. d = c + Is(x, BLOCK) - Is(x, UNBLOCK)
    <3>1. CASE x = BLOCK
      BY <1>1, <1>2, <2>1, <2>2, <3>1, BlockedMove DEF Is
    <3>2. CASE x = UNBLOCK
      BY <1>1, <1>2, <2>1, <2>2, <3>2, BlockedMove DEF Is
    <3> QED BY <3>1, <3>2
  <2>4. Accounted(mq[0], blockCount, c)
    BY <2>1 DEF IInv, BlockInv
  <2>5. Accounted(Append(mq[0], x), blockCount, d)
    BY <1>1, <1>2, <2>3, <2>4, AccountedAppend
  <2>6. mq'[0] = Append(mq[0], x)
    BY <1>1, ThreadFacts DEF Mail
  <2> QED BY <2>2, <2>5, <2>6 DEF BlockInv
<1>7. Answers' = Answers
  <2>1. Answered(mq', ackToken, ackCount) = Answered(mq, ackToken, ackCount) + 0
    BY <1>1, <1>2, AnsweredPost
  <2>2. Answered(mq, ackToken, ackCount) \in Nat
    BY <1>1, AnsweredType
  <2>3. Answers = Answered(mq, ackToken, ackCount)
    BY AnsweredIs
  <2>4. Answers' = Answered(mq', ackToken', ackCount')
    BY AnsweredNext
  <2> QED BY <2>1, <2>2, <2>3, <2>4
<1>8. /\ pc'[0] \in {"acked", "join"} => ackCount' = N
      /\ \A t \in Thread \ {0} : pc'[t] \notin {"acked", "join"}
  BY <1>1 DEF IInv, AckInv, Goto
<1>9. Answers' \in {0, N} /\ (Answers' = N => blockCount' = N /\ detect')
  BY <1>7 DEF IInv, AckInv, AckAccounting
<1>10. blockCount' \in Int /\ ackCount' \in Nat /\ ackToken' \in Nat
  BY <1>1
<1> QED BY <1>3, <1>5, <1>6, <1>8, <1>9, <1>10, ProtoFrom
\* The message m that thread s reads, and the queues w without it.
Reads(s, m, w) ==
  /\ s \in Thread /\ mq[s] # <<>> /\ m = Head(mq[s])
  /\ w = [mq EXCEPT ![s] = Tail(@)]

\* What reading it does.
LEMMA ReadFacts ==
  ASSUME IInv, NEW s, NEW m, NEW w, Reads(s, m, w)
  PROVE  /\ w \in Mail /\ m \in MsgSet /\ w[0] \in Seq(MsgSet)
         /\ GoodMail(s, m, ackToken, detect, asioStopped)
         /\ GoodMails(w, ackToken, detect, asioStopped)
         /\ LET d == blockCount + Is(m, BLOCK) - Is(m, UNBLOCK) IN
            Accounted(w[0], d, Cardinality(Blocked)) /\ d \in 0 .. N
         /\ Answers = Answered(w, ackToken, ackCount)
                        + (IF s = 0 THEN Is(m, ACK(ackToken)) ELSE 0) + Is(m, CNF(ackToken))
<1>1. /\ s \in Thread /\ mq[s] # <<>> /\ m = Head(mq[s])
      /\ w = [mq EXCEPT ![s] = Tail(@)]
  BY DEF Reads
<1>2. /\ mq \in Mail /\ ackToken \in Nat /\ ackCount \in Nat /\ blockCount \in Nat
      /\ mq[0] \in Seq(MsgSet) /\ Cardinality(Blocked) \in Nat
  BY ProtoTypes DEF IInv
<1>3. w \in Mail /\ m \in MsgSet
  BY <1>1, <1>2, MailPop
<1>4. /\ GoodMails(w, ackToken, detect, asioStopped)
      /\ GoodMail(s, m, ackToken, detect, asioStopped)
  <2>1. GoodMails(mq, ackToken, detect, asioStopped)
    BY DEF IInv, MailInv
  <2> QED BY <1>1, <1>2, <2>1, GoodPop
<1>5. PICK d \in Int : d = blockCount + Is(m, BLOCK) - Is(m, UNBLOCK)
  <2>1. Is(m, BLOCK) \in Int /\ Is(m, UNBLOCK) \in Int
    BY DEF Is
  <2> QED BY <1>2, <2>1
<1>6. Accounted(w[0], d, Cardinality(Blocked)) /\ d \in 0 .. N
  <2>0. PICK v : v = mq[0]
    OBVIOUS
  <2>1. PICK c \in Nat : c = Cardinality(Blocked)
    BY <1>2
  <2>2. v \in Seq(MsgSet) /\ Accounted(v, blockCount, c)
    BY <1>2, <2>0, <2>1 DEF IInv, BlockInv
  <2>3. CASE s = 0
    <3>1. v # <<>> /\ m = Head(v) /\ w[0] = Tail(v)
      BY <1>1, <1>2, <2>0, <2>3 DEF Mail
    <3>2. Accounted(Tail(v), d, c) /\ d \in 0 .. N
      BY <1>2, <1>5, <2>2, <3>1, AccountedTail
    <3> QED BY <2>1, <3>1, <3>2
  <2>4. CASE s # 0
    <3>1. m.type \in {"CNF", "TERMINATE"}
      BY <1>4, <2>4 DEF GoodMail
    <3>2. Is(m, BLOCK) = 0 /\ Is(m, UNBLOCK) = 0
      BY <3>1 DEF Is, BLOCK, UNBLOCK, Msg
    <3>3. w[0] = mq[0] /\ d = blockCount
      BY <1>1, <1>2, <1>5, <2>4, <3>2, ThreadFacts DEF Mail
    <3>4. blockCount \in 0 .. N
      BY DEF IInv, TypeOK
    <3> QED BY <2>0, <2>1, <2>2, <3>3, <3>4
  <2> QED BY <2>3, <2>4
<1>7. Answers = Answered(w, ackToken, ackCount)
        + (IF s = 0 THEN Is(m, ACK(ackToken)) ELSE 0) + Is(m, CNF(ackToken))
  BY <1>1, <1>2, AnsweredPop, AnsweredIs
<1>8. w[0] \in Seq(MsgSet)
  BY <1>3, ThreadFacts DEF Mail
<1> QED BY <1>3, <1>4, <1>5, <1>6, <1>7, <1>8

\* A message that thread 0 does not count is added to its queue.
LEMMA OtherPost ==
  ASSUME NEW v \in Seq(MsgSet), NEW x \in MsgSet, NEW b \in Nat, NEW c \in 0 .. N,
         Accounted(v, b, c), x.type \notin {"BLOCK", "UNBLOCK"}
  PROVE  Accounted(Append(v, x), b, c)
<1>1. Is(x, BLOCK) = 0 /\ Is(x, UNBLOCK) = 0
  BY DEF Is, BLOCK, UNBLOCK, Msg
<1>2. c \in Nat /\ c = c + Is(x, BLOCK) - Is(x, UNBLOCK)
  BY <1>1, ThreadFacts
<1> QED BY <1>2, AccountedAppend

\* read_msg: every case.
LEMMA ReadKeeps ==
  ASSUME IInv, NEW s \in Thread, ReadMsg(s)
  PROVE  ProtoInv'
<1>1. PICK m, w : m = Head(mq[s]) /\ w = [mq EXCEPT ![s] = Tail(@)]
  OBVIOUS
<1>2. /\ pc[s] = "read" /\ Reads(s, m, w)
      /\ UNCHANGED <<pc, asioStopped, detect>>
  BY <1>1 DEF ReadMsg, Reads, envVars
<1>3. /\ \/ m.type = "BLOCK" /\ OnBlock(w)
         \/ m.type = "UNBLOCK" /\ OnUnblock(w)
         \/ m.type = "CNF" /\ OnCnf(w, m.arg)
         \/ m.type = "ACK" /\ OnAck(w, m.arg)
         \/ m.type = "TERMINATE" /\ OnTerminate(w, s)
  BY <1>1 DEF ReadMsg
<1>4. /\ w \in Mail /\ m \in MsgSet /\ w[0] \in Seq(MsgSet)
      /\ GoodMail(s, m, ackToken, detect, asioStopped)
      /\ GoodMails(w, ackToken, detect, asioStopped)
  BY <1>2, ReadFacts
<1>5. PICK d \in 0 .. N : /\ d = blockCount + Is(m, BLOCK) - Is(m, UNBLOCK)
                          /\ Accounted(w[0], d, Cardinality(Blocked))
  BY <1>2, ReadFacts
<1>6. Answers = Answered(w, ackToken, ackCount)
        + (IF s = 0 THEN Is(m, ACK(ackToken)) ELSE 0) + Is(m, CNF(ackToken))
  BY <1>2, ReadFacts
<1>7. /\ ackToken \in Nat /\ ackCount \in Nat /\ blockCount \in Nat /\ N \in Nat
      /\ N # 0 /\ Cardinality(Blocked) \in 0 .. N /\ pc \in [Thread -> Place]
  BY ProtoTypes, ThreadFacts DEF IInv
<1>8. /\ Answers \in {0, N} /\ (Answers = N => blockCount = N /\ detect)
      /\ pc[0] \in {"acked", "join"} => ackCount = N
      /\ \A t \in Thread \ {0} : pc[t] \notin {"acked", "join"}
  BY DEF IInv, AckInv, AckAccounting
<1>9. Blocked' = Blocked
  BY <1>2 DEF Blocked
<1>10. Answered(w, ackToken, ackCount) \in Nat
  BY <1>4, <1>7, AnsweredType
<1>11. \A t \in Thread \ {0} : pc'[t] \notin {"acked", "join"}
  BY <1>2, <1>8
<1>12. m.type \in {"BLOCK", "UNBLOCK", "ACK"} => s = 0
  BY <1>4 DEF GoodMail
<1>13. CASE m.type = "BLOCK" /\ OnBlock(w)
  <2>1. s = 0 /\ m = BLOCK
    BY <1>4, <1>12, <1>13 DEF GoodMail, MsgSet, BLOCK, Msg
  <2>2. /\ Is(m, BLOCK) = 1 /\ Is(m, UNBLOCK) = 0
        /\ Is(m, ACK(ackToken)) = 0 /\ Is(m, CNF(ackToken)) = 0
    BY <2>1 DEF Is, BLOCK, UNBLOCK, ACK, CNF, Msg
  <2>3. d = blockCount + 1 /\ blockCount' = d /\ ackToken' = ackToken /\ ackCount' = ackCount
    BY <1>5, <1>7, <1>13, <2>2 DEF OnBlock
  <2>4. Answers = Answered(w, ackToken, ackCount)
    BY <1>6, <1>10, <2>1, <2>2
  <2>5. Answers = 0
    BY <1>7, <1>8, <2>3
  <2>6. pc'[0] \notin {"acked", "join"}
    BY <1>2, <2>1
  <2>7. CASE detect /\ blockCount + 1 = N
    <3>1. PICK x : x = CNF(ackToken)
      OBVIOUS
    <3>2. mq' = [t \in Thread |-> Append(w[t], x)]
      BY <1>13, <2>7, <3>1 DEF OnBlock, ToAll, CNF
    <3>3. x \in MsgSet /\ x # ACK(ackToken) /\ x.type = "CNF" /\ x.arg = ackToken
      BY <1>7, <3>1 DEF CNF, ACK, Msg, MsgSet
    <3>4. mq' \in Mail
      BY <1>4, <3>2, <3>3, MailPostAll
    <3>5. MailInv'
      <4>1. \A t \in Thread : GoodMail(t, x, ackToken, detect, asioStopped)
        BY <1>7, <2>7, <3>3 DEF GoodMail
      <4>2. GoodMails(mq', ackToken, detect, asioStopped)
        BY <1>4, <3>2, <3>3, <4>1, GoodPostAll
      <4> QED BY <1>2, <2>3, <4>2 DEF MailInv
    <3>6. BlockInv'
      <4>1. d \in Nat /\ x.type \notin {"BLOCK", "UNBLOCK"}
        BY <1>7, <3>3
      <4>2. Accounted(Append(w[0], x), d, Cardinality(Blocked))
        BY <1>4, <1>5, <1>7, <3>3, <4>1, OtherPost
      <4>3. mq'[0] = Append(w[0], x)
        BY <3>2, ThreadFacts
      <4> QED BY <1>9, <2>3, <4>2, <4>3 DEF BlockInv
    <3>7. Answers' = N
      <4>1. Answered(mq', ackToken, ackCount) = N
        <5>1. PICK k \in Nat, n \in Nat : k = ackToken /\ n = ackCount
          BY <1>7
        <5>2. x = CNF(k) /\ Answered(w, k, n) = 0 /\ x # ACK(k)
          BY <2>4, <2>5, <3>1, <3>3, <5>1
        <5>3. Answered([t \in Thread |-> Append(w[t], x)], k, n) = N
          BY <1>4, <3>3, <5>2, AnsweredPostAll
        <5> QED BY <3>2, <5>1, <5>3
      <4> QED BY <2>3, <4>1, AnsweredNext
    <3>8. blockCount' = N /\ detect'
      BY <1>2, <2>3, <2>7
    <3>9. Answers' \in {0, N} /\ blockCount' \in Int /\ ackCount' \in Nat /\ ackToken' \in Nat
      BY <1>7, <2>3, <3>7
    <3> QED BY <1>11, <2>6, <3>4, <3>5, <3>6, <3>8, <3>9, ProtoFrom
  <2>8. CASE ~(detect /\ blockCount + 1 = N)
    <3>1. mq' = w
      BY <1>13, <2>8 DEF OnBlock
    <3>2. MailInv'
      BY <1>2, <1>4, <2>3, <3>1 DEF MailInv
    <3>3. BlockInv'
      BY <1>5, <1>9, <2>3, <3>1 DEF BlockInv
    <3>4. Answers' = 0
      BY <2>3, <2>4, <2>5, <3>1, AnsweredNext
    <3>5. /\ Answers' \in {0, N} /\ (Answers' = N => blockCount' = N /\ detect')
          /\ blockCount' \in Int /\ ackCount' \in Nat /\ ackToken' \in Nat /\ mq' \in Mail
      BY <1>4, <1>7, <2>3, <3>1, <3>4
    <3> QED BY <1>11, <2>6, <3>2, <3>3, <3>5, ProtoFrom
  <2> QED BY <2>7, <2>8
<1>14. CASE m.type = "UNBLOCK" /\ OnUnblock(w)
  <2>1. s = 0 /\ m = UNBLOCK
    BY <1>4, <1>12, <1>14 DEF GoodMail, MsgSet, UNBLOCK, Msg
  <2>2. Is(m, BLOCK) = 0 /\ Is(m, UNBLOCK) = 1
    BY <2>1 DEF Is, BLOCK, UNBLOCK, Msg
  <2>3. /\ d = blockCount - 1 /\ blockCount' = d /\ ackToken' = ackToken + 1
        /\ ackCount' = 0 /\ mq' = w
    BY <1>5, <1>7, <1>14, <2>2 DEF OnUnblock
  <2>4. MailInv'
    <3>1. PICK j \in Nat : j = ackToken + 1 /\ ackToken <= j
      BY <1>7
    <3>2. GoodMails(w, j, detect, asioStopped)
      BY <1>4, <1>7, <3>1, GoodLater
    <3> QED BY <1>2, <2>3, <3>1, <3>2 DEF MailInv
  <2>5. BlockInv'
    BY <1>5, <1>9, <2>3 DEF BlockInv
  <2>6. Answers' = 0
    <3>1. ackToken + 1 \in Nat /\ ackToken < ackToken + 1
      BY <1>7
    <3>2. Answered(w, ackToken + 1, 0) = 0
      BY <1>4, <1>7, <3>1, AnsweredFresh
    <3> QED BY <2>3, <3>2, AnsweredNext
  <2>7. /\ Answers' \in {0, N} /\ (Answers' = N => blockCount' = N /\ detect')
        /\ blockCount' \in Int /\ ackCount' \in Nat /\ ackToken' \in Nat /\ mq' \in Mail
    BY <1>4, <1>7, <2>3, <2>6
  <2>8. pc'[0] \notin {"acked", "join"}
    BY <1>2, <2>1
  <2> QED BY <1>11, <2>4, <2>5, <2>7, <2>8, ProtoFrom
<1>15. CASE m.type = "CNF" /\ OnCnf(w, m.arg)
  <2>1. PICK x : x = ACK(m.arg)
    OBVIOUS
  <2>2. /\ mq' = [w EXCEPT ![0] = Append(@, x)]
        /\ UNCHANGED <<blockCount, ackToken, ackCount>>
    BY <1>15, <2>1 DEF OnCnf, ACK
  <2>3. /\ Is(m, BLOCK) = 0 /\ Is(m, UNBLOCK) = 0 /\ Is(m, ACK(ackToken)) = 0
        /\ m.arg \in Nat /\ m = CNF(m.arg)
    BY <1>4, <1>15 DEF Is, BLOCK, UNBLOCK, ACK, CNF, Msg, MsgSet
  <2>4. x \in MsgSet /\ x # CNF(ackToken) /\ x.type = "ACK" /\ x.arg = m.arg
    BY <2>1, <2>3 DEF MsgSet, ACK, CNF, Msg
  <2>5. Is(x, ACK(ackToken)) = Is(m, CNF(ackToken)) /\ Is(m, CNF(ackToken)) \in Nat
    BY <2>1, <2>3 DEF Is, ACK, CNF, Msg
  <2>6. mq' \in Mail
    BY <1>4, <2>2, <2>4, MailPost
  <2>7. MailInv'
    <3>1. GoodMail(0, x, ackToken, detect, asioStopped)
      BY <1>4, <1>15, <2>4 DEF GoodMail
    <3>2. GoodMails(mq', ackToken, detect, asioStopped)
      BY <1>4, <2>2, <2>4, <3>1, GoodPost
    <3> QED BY <1>2, <2>2, <3>2 DEF MailInv
  <2>8. BlockInv'
    <3>1. d = blockCount /\ x.type \notin {"BLOCK", "UNBLOCK"}
      BY <1>5, <1>7, <2>3, <2>4
    <3>2. Accounted(Append(w[0], x), d, Cardinality(Blocked))
      BY <1>4, <1>5, <1>7, <2>4, <3>1, OtherPost
    <3>3. mq'[0] = Append(w[0], x)
      BY <1>4, <2>2, ThreadFacts DEF Mail
    <3> QED BY <1>9, <2>2, <3>1, <3>2, <3>3 DEF BlockInv
  <2>9. Answers' = Answers
    <3>1. Answered(mq', ackToken, ackCount)
            = Answered(w, ackToken, ackCount) + Is(x, ACK(ackToken))
      BY <1>4, <1>7, <2>2, <2>4, AnsweredPost
    <3>2. Answers = Answered(w, ackToken, ackCount) + Is(m, CNF(ackToken))
      BY <1>6, <1>10, <2>3
    <3> QED BY <2>2, <2>5, <3>1, <3>2, AnsweredNext
  <2>10. /\ Answers' \in {0, N} /\ (Answers' = N => blockCount' = N /\ detect')
         /\ blockCount' \in Int /\ ackCount' \in Nat /\ ackToken' \in Nat
         /\ pc'[0] \in {"acked", "join"} => ackCount' = N
    BY <1>2, <1>7, <1>8, <2>2, <2>9
  <2> QED BY <1>11, <2>6, <2>7, <2>8, <2>10, ProtoFrom
<1>16. CASE m.type = "ACK" /\ OnAck(w, m.arg)
  <2>1. /\ mq' = w /\ UNCHANGED <<blockCount, ackToken>>
        /\ ackCount' = IF m.arg = ackToken THEN ackCount + 1 ELSE ackCount
    BY <1>16 DEF OnAck
  <2>2. /\ Is(m, BLOCK) = 0 /\ Is(m, UNBLOCK) = 0 /\ Is(m, CNF(ackToken)) = 0
        /\ Is(m, ACK(ackToken)) = IF m.arg = ackToken THEN 1 ELSE 0
    BY <1>4, <1>16 DEF Is, BLOCK, UNBLOCK, ACK, CNF, Msg, MsgSet
  <2>3. s = 0
    BY <1>12, <1>16
  <2>4. MailInv'
    BY <1>2, <1>4, <2>1 DEF MailInv
  <2>5. BlockInv'
    <3>1. d = blockCount
      BY <1>5, <1>7, <2>2
    <3> QED BY <1>5, <1>9, <2>1, <3>1 DEF BlockInv
  <2>6. Answers' = Answers
    <3>1. ackCount' = ackCount + Is(m, ACK(ackToken)) /\ Is(m, ACK(ackToken)) \in Nat
      BY <1>7, <2>1, <2>2
    <3>2. PICK e \in Nat, a \in Nat, b \in Nat :
            /\ e = Is(m, ACK(ackToken)) /\ a = CountIn(w, 0, ACK(ackToken))
            /\ b = AskedSum(w, ackToken)
      BY <1>4, <3>1, CountInType, AskedType, ThreadFacts
    <3>3. Answers' = (ackCount + e) + a + b
      BY <2>1, <3>1, <3>2, AnsweredNext DEF Answered
    <3>4. Answers = (ackCount + a + b) + e
      BY <1>6, <1>10, <2>2, <2>3, <3>2 DEF Answered
    <3> QED BY <1>7, <3>3, <3>4
  <2>7. /\ Answers' \in {0, N} /\ (Answers' = N => blockCount' = N /\ detect')
        /\ blockCount' \in Int /\ ackCount' \in Nat /\ ackToken' \in Nat /\ mq' \in Mail
    BY <1>2, <1>4, <1>7, <1>8, <2>1, <2>6
  <2>8. pc'[0] \notin {"acked", "join"}
    BY <1>2, <2>3
  <2> QED BY <1>11, <2>4, <2>5, <2>7, <2>8, ProtoFrom
<1>17. CASE m.type = "TERMINATE" /\ OnTerminate(w, s)
  <2>1. mq' = w /\ UNCHANGED <<blockCount, ackToken, ackCount>>
    BY <1>17 DEF OnTerminate
  <2>2. /\ Is(m, BLOCK) = 0 /\ Is(m, UNBLOCK) = 0 /\ Is(m, CNF(ackToken)) = 0
        /\ Is(m, ACK(ackToken)) = 0
    BY <1>17 DEF Is, BLOCK, UNBLOCK, ACK, CNF, Msg
  <2>3. MailInv'
    BY <1>2, <1>4, <2>1 DEF MailInv
  <2>4. BlockInv'
    <3>1. d = blockCount
      BY <1>5, <1>7, <2>2
    <3> QED BY <1>5, <1>9, <2>1, <3>1 DEF BlockInv
  <2>5. Answers' = Answers
    BY <1>6, <1>10, <2>1, <2>2, AnsweredNext
  <2>6. /\ Answers' \in {0, N} /\ (Answers' = N => blockCount' = N /\ detect')
        /\ blockCount' \in Int /\ ackCount' \in Nat /\ ackToken' \in Nat /\ mq' \in Mail
        /\ pc'[0] \in {"acked", "join"} => ackCount' = N
    BY <1>2, <1>4, <1>7, <1>8, <2>1, <2>5
  <2> QED BY <1>11, <2>3, <2>4, <2>6, ProtoFrom
<1> QED BY <1>3, <1>13, <1>14, <1>15, <1>16, <1>17
\* Only thread 0 gets this far, with a full set of acks.
LEMMA AckedFacts ==
  ASSUME IInv, NEW s \in Thread, pc[s] \in {"acked", "join"}
  PROVE  s = 0 /\ ackCount = N /\ Answers = N /\ blockCount = N /\ detect
<1>1. s = 0 /\ ackCount = N
  BY DEF IInv, AckInv
<1>2. ackCount + CountIn(mq, 0, ACK(ackToken)) <= Answers /\ CountIn(mq, 0, ACK(ackToken)) \in Nat
  BY ProtoTypes, AnsweredIs, AnsweredType DEF IInv
<1>3. Answers = N
  BY <1>1, <1>2, ThreadFacts DEF IInv, AckInv, AckAccounting
<1> QED BY <1>1, <1>3 DEF IInv, AckInv

\* A new token for everybody.
LEMMA RoundKeeps ==
  ASSUME IInv, NEW s \in Thread, pc[s] \in {"acked", "join"}, NEW x \in MsgSet,
         x.type \in {"CNF", "TERMINATE"}, x.type = "CNF" => x.arg = ackToken + 1,
         x.type = "TERMINATE" => asioStopped,
         mq' = [t \in Thread |-> Append(mq[t], x)],
         ackToken' = ackToken + 1, ackCount' = 0,
         UNCHANGED <<blockCount, detect>>, asioStopped => asioStopped',
         NEW p \in {"steal", "expire"}, Goto(s, p)
  PROVE  ProtoInv'
<1>1. /\ mq \in Mail /\ ackToken \in Nat /\ ackCount \in Nat /\ blockCount \in Nat
      /\ mq[0] \in Seq(MsgSet) /\ Cardinality(Blocked) \in 0 .. N /\ N \in Nat /\ N # 0
      /\ pc \in [Thread -> Place]
  BY ProtoTypes, ThreadFacts DEF IInv
<1>2. s = 0 /\ Answers = N /\ blockCount = N /\ detect
  BY AckedFacts
<1>3. mq' \in Mail
  BY <1>1, MailPostAll
<1>4. PICK j \in Nat : j = ackToken + 1 /\ ackToken <= j /\ ackToken < j
  BY <1>1
<1>5. GoodMails(mq, ackToken, detect, asioStopped)
  BY DEF IInv, MailInv
<1>6. MailInv'
  <2>1. GoodMails(mq, j, detect, asioStopped')
    BY <1>1, <1>4, <1>5, GoodLater
  <2>2. \A t \in Thread : GoodMail(t, x, j, detect, asioStopped')
    BY <1>2, <1>4 DEF GoodMail
  <2>3. GoodMails(mq', j, detect, asioStopped')
    BY <1>1, <2>1, <2>2, GoodPostAll
  <2> QED BY <1>4, <2>3 DEF MailInv
<1>7. BlockInv'
  <2>1. Blocked' = Blocked
    BY <1>1, BlockedMove DEF Free
  <2>2. Accounted(mq[0], blockCount, Cardinality(Blocked))
    BY DEF IInv, BlockInv
  <2>3. x.type \notin {"BLOCK", "UNBLOCK"}
    OBVIOUS
  <2>4. Accounted(Append(mq[0], x), blockCount, Cardinality(Blocked))
    BY <1>1, <2>2, <2>3, OtherPost
  <2>5. mq'[0] = Append(mq[0], x)
    BY ThreadFacts
  <2> QED BY <2>1, <2>4, <2>5 DEF BlockInv
<1>8. Answers' \in {0, N}
  <2>1. Answered(mq, j, 0) = 0
    BY <1>1, <1>4, <1>5, AnsweredFresh
  <2>2. x # ACK(j)
    BY DEF ACK, Msg
  <2>3. Answered([t \in Thread |-> Append(mq[t], x)], j, 0) \in {0, N}
    BY <1>1, <2>1, <2>2, AnsweredPostAll
  <2> QED BY <1>4, <2>3, AnsweredNext
<1>9. /\ blockCount' = N /\ detect' /\ blockCount' \in Int /\ ackCount' \in Nat /\ ackToken' \in Nat
      /\ pc'[0] \notin {"acked", "join"}
      /\ \A t \in Thread \ {0} : pc'[t] \notin {"acked", "join"}
  BY <1>1, <1>2, ThreadFacts DEF IInv, AckInv, Goto
<1> QED BY <1>3, <1>6, <1>7, <1>8, <1>9, ProtoFrom

\* Every step keeps the accounts of thread 0.
LEMMA ProtoStep ==
  ASSUME IInv, [Next]_vars
  PROVE  ProtoInv'
<1>1. /\ pc \in [Thread -> Place] /\ 0 \in Thread
      /\ pc[0] \in {"acked", "join"} => ackCount = N
      /\ \A s \in Thread \ {0} : pc[s] \notin {"acked", "join"}
  BY ProtoTypes, ThreadFacts DEF IInv, AckInv
<1>2. ASSUME UNCHANGED <<pc, mq, blockCount, ackToken, ackCount, asioStopped>>,
             detect => detect'
      PROVE  ProtoInv'
  <2>1. Blocked' = Blocked
    BY <1>2 DEF Blocked
  <2> QED BY <1>1, <1>2, <2>1, PlainKeeps
<1>3. ASSUME NEW s \in Thread, NEW p \in Place,
             UNCHANGED <<mq, blockCount, ackToken, ackCount, asioStopped, detect>>,
             Goto(s, p), pc[s] \in Free <=> p \in Free,
             p \in {"acked", "join"} => s = 0 /\ ackCount = N
      PROVE  ProtoInv'
  <2>1. Blocked' = Blocked
    BY <1>1, <1>3, BlockedMove
  <2>2. /\ pc'[0] \in {"acked", "join"} => ackCount = N
        /\ \A t \in Thread \ {0} : pc'[t] \notin {"acked", "join"}
    BY <1>1, <1>3 DEF Goto
  <2> QED BY <1>3, <2>1, <2>2, PlainKeeps
<1>4. ASSUME NEW s \in Thread, Run(s) PROVE ProtoInv'
  <2>1. CASE RunWake(s) \/ RunNoisy(s)
    BY <1>2, <2>1 DEF RunWake, RunNoisy, protoVars
  <2>2. CASE RunReturn(s)
    BY <1>3, <2>2 DEF RunReturn, protoVars, Place, Free
  <2> QED BY <1>4, <2>1, <2>2 DEF Run
<1>5. ASSUME NEW s \in Thread, Find(s) PROVE ProtoInv'
  <2>1. CASE NextInject(s)
    <3>1. PICK p \in {"run", "nextLocal"} : Goto(s, p)
      BY <2>1 DEF NextInject, Take
    <3>2. /\ pc[s] \in Free /\ p \in Free /\ p \in Place
          /\ p \notin {"acked", "join"}
          /\ UNCHANGED <<mq, blockCount, ackToken, ackCount, asioStopped, detect>>
      BY <2>1, <3>1 DEF NextInject, protoVars, envVars, Place, Free
    <3> QED BY <1>3, <3>1, <3>2
  <2>2. CASE NextLocal(s)
    <3>1. PICK p \in {"run", "block"} : Goto(s, p)
      BY <2>2 DEF NextLocal, Take
    <3>2. /\ pc[s] \in Free /\ p \in Free /\ p \in Place
          /\ p \notin {"acked", "join"}
          /\ UNCHANGED <<mq, blockCount, ackToken, ackCount, asioStopped, detect>>
      BY <2>2, <3>1 DEF NextLocal, protoVars, envVars, Place, Free
    <3> QED BY <1>3, <3>1, <3>2
  <2> QED BY <1>5, <2>1, <2>2 DEF Find
<1>6. ASSUME NEW s \in Thread, Steal(s) PROVE ProtoInv'
  <2>1. CASE StealBlock(s)
    <3>1. PICK p : p = "steal"
      OBVIOUS
    <3>2. /\ Goto(s, p) /\ pc[s] \in Free /\ p \notin Free
          /\ p \in Place \ {"acked", "join"}
          /\ UNCHANGED <<blockCount, ackToken, ackCount, asioStopped, detect>>
      BY <2>1, <3>1 DEF StealBlock, envVars, Place, Free
    <3>3. mq' = [mq EXCEPT ![0] = Append(@, BLOCK)] /\ BLOCK # UNBLOCK
      BY <2>1 DEF StealBlock, SendTo0, BLOCK, UNBLOCK, Msg
    <3> QED BY <3>2, <3>3, TellKeeps
  <2>2. CASE StealInject(s)
    <3>1. PICK p \in {"unblock", "stealVictim"} : Goto(s, p)
      BY <2>2 DEF StealInject
    <3>2. /\ pc[s] \notin Free /\ p \notin Free /\ p \in Place
          /\ p \notin {"acked", "join"}
          /\ UNCHANGED <<mq, blockCount, ackToken, ackCount, asioStopped, detect>>
      BY <2>2, <3>1 DEF StealInject, protoVars, envVars, Place, Free
    <3> QED BY <1>3, <3>1, <3>2
  <2>3. CASE StealVictim(s)
    <3>1. PICK p \in {"unblock", "read"} : Goto(s, p)
      BY <2>3 DEF StealVictim
    <3>2. /\ pc[s] \notin Free /\ p \notin Free /\ p \in Place
          /\ p \notin {"acked", "join"}
          /\ UNCHANGED <<mq, blockCount, ackToken, ackCount, asioStopped, detect>>
      BY <2>3, <3>1 DEF StealVictim, protoVars, envVars, Place, Free
    <3> QED BY <1>3, <3>1, <3>2
  <2>4. CASE StealExpire(s)
    <3>1. PICK p \in {"unblock", "steal"} : Goto(s, p)
      BY <2>4 DEF StealExpire
    <3>2. /\ pc[s] \notin Free /\ p \notin Free /\ p \in Place
          /\ p \notin {"acked", "join"}
          /\ UNCHANGED <<mq, blockCount, ackToken, ackCount, asioStopped, detect>>
      BY <2>4, <3>1 DEF StealExpire, protoVars, envVars, Place, Free
    <3> QED BY <1>3, <3>1, <3>2
  <2>5. CASE StealUnblock(s)
    <3>1. PICK p : p = "run"
      OBVIOUS
    <3>2. /\ Goto(s, p) /\ pc[s] \notin Free /\ p \in Free
          /\ p \in Place \ {"acked", "join"}
          /\ UNCHANGED <<blockCount, ackToken, ackCount, asioStopped, detect>>
      BY <2>5, <3>1 DEF StealUnblock, envVars, Place, Free
    <3>3. mq' = [mq EXCEPT ![0] = Append(@, UNBLOCK)] /\ BLOCK # UNBLOCK
      BY <2>5 DEF StealUnblock, SendTo0, BLOCK, UNBLOCK, Msg
    <3> QED BY <3>2, <3>3, TellKeeps
  <2> QED BY <1>6, <2>1, <2>2, <2>3, <2>4, <2>5 DEF Steal
<1>7. ASSUME NEW s \in Thread, Quiescent(s) PROVE ProtoInv'
  <2>0. Again(s) \in {"steal", "expire"}
    BY DEF Again
  <2>1. CASE ReadMsg(s)
    BY <2>1, ReadKeeps
  <2>2. CASE ReadEnd(s)
    <3>1. PICK p : p = IF terminate[s] THEN "done"
                       ELSE IF s = 0 /\ ackCount = N THEN "acked" ELSE Again(s)
      OBVIOUS
    <3>2. /\ Goto(s, p) /\ pc[s] \notin Free
          /\ UNCHANGED <<mq, blockCount, ackToken, ackCount, asioStopped, detect>>
      BY <2>2, <3>1 DEF ReadEnd, protoVars, envVars, Free
    <3>3. /\ p \notin Free /\ p \in Place
          /\ p \in {"acked", "join"} => s = 0 /\ ackCount = N
      BY <2>0, <3>1 DEF Place, Free
    <3> QED BY <1>3, <3>2, <3>3
  <2>3. CASE Terminate(s)
    <3>1. PICK x : x = Msg("TERMINATE", 0)
      OBVIOUS
    <3>2. x \in MsgSet /\ x.type = "TERMINATE"
      BY <3>1 DEF Msg, MsgSet
    <3>3. /\ pc[s] = "acked" /\ asioStopped /\ Goto(s, Again(s))
          /\ mq' = [t \in Thread |-> Append(mq[t], x)]
          /\ ackToken' = ackToken + 1 /\ ackCount' = 0
          /\ UNCHANGED <<blockCount, detect, asioStopped>>
      BY <2>3, <3>1 DEF Terminate, SendAll, envVars
    <3> QED BY <2>0, <3>2, <3>3, RoundKeeps
  <2>4. CASE AsioStop(s)
    <3>1. PICK p \in {"join", Again(s)} : Goto(s, p)
      BY <2>4 DEF AsioStop
    <3>2. /\ pc[s] \notin Free /\ p \notin Free /\ p \in Place
          /\ UNCHANGED <<mq, blockCount, ackToken, ackCount, asioStopped, detect>>
      BY <2>0, <2>4, <3>1 DEF AsioStop, protoVars, Place, Free
    <3>3. s = 0 /\ ackCount = N
      BY <2>4, AckedFacts DEF AsioStop
    <3> QED BY <1>3, <3>1, <3>2, <3>3
  <2>5. CASE AsioJoin(s)
    <3>1. PICK x : x = Msg("CNF", ackToken + 1)
      OBVIOUS
    <3>2. x \in MsgSet /\ x.type = "CNF" /\ x.arg = ackToken + 1
      BY <3>1, ProtoTypes DEF Msg, MsgSet, IInv
    <3>3. /\ pc[s] = "join" /\ Goto(s, Again(s)) /\ asioStopped'
          /\ mq' = [t \in Thread |-> Append(mq[t], x)]
          /\ ackToken' = ackToken + 1 /\ ackCount' = 0
          /\ UNCHANGED <<blockCount, detect>>
      BY <2>5, <3>1 DEF AsioJoin, SendAll, envVars
    <3> QED BY <2>0, <3>2, <3>3, RoundKeeps
  <2> QED BY <1>7, <2>1, <2>2, <2>3, <2>4, <2>5 DEF Quiescent
<1>8. CASE AsioSend \/ AsioExit \/ ForeignSend \/ SchedStop
  BY <1>2, <1>8 DEF AsioSend, AsioExit, ForeignSend, SchedStop, protoVars
<1>9. CASE UNCHANGED vars
  BY <1>2, <1>9 DEF vars, protoVars, envVars
<1> QED BY <1>4, <1>5, <1>6, <1>7, <1>8, <1>9 DEF Next, Step, Finished
-----------------------------------------------------------------------------
(* The threads and the actors. *)

\* Backing up stays among the threads.
LEMMA VictimType ==
  ASSUME TypeOK, NEW s \in Thread
  PROVE  Victim(s) \in Thread
<1>1. \A v \in Thread : Back(v) \in Thread
  BY ThreadFacts DEF Back, Thread
<1>2. last[s] \in Thread
  BY DEF TypeOK
<1> QED BY <1>1, <1>2 DEF Victim

\* The types of what the accounts of thread 0 say nothing about.
Types ==
  /\ pc \in [Thread -> Place]
  /\ actor \in [Thread -> Actor \cup {NONE}]
  /\ got \in [Thread -> Actor \cup {NONE}]
  /\ q \in [Thread -> Seq(Actor)]
  /\ inject \in Seq(Actor)
  /\ last \in [Thread -> Thread]
  /\ stale \subseteq Thread /\ missed \subseteq Actor
  /\ terminate \in [Thread -> BOOLEAN]
  /\ asioStopped \in BOOLEAN /\ detect \in BOOLEAN
  /\ asio \in {"running", "stopping", "exited"}
  /\ noisy \in Nat /\ work \in 0..opt.work /\ opt \in Options

\* A wakeup takes one unit of work.
LEMMA WorkLess ==
  ASSUME TypeOK, work > 0
  PROVE  work - 1 \in 0..opt.work /\ opt.work \in Nat /\ noisy + 1 \in Nat
<1>1. opt.work \in Nat
  BY SchedulerAssumption DEF TypeOK
<1> QED BY <1>1 DEF TypeOK

\* The queues hold actors.
LEMMA QueueTypes ==
  ASSUME TypeOK
  PROVE  /\ \A s \in Thread : \A a \in Actor : Append(q[s], a) \in Seq(Actor)
         /\ \A a \in Actor : Append(inject, a) \in Seq(Actor)
         /\ \A s \in Thread :
              q[s] # <<>> => Head(q[s]) \in Actor /\ Tail(q[s]) \in Seq(Actor)
         /\ inject # <<>> => Head(inject) \in Actor /\ Tail(inject) \in Seq(Actor)
BY DEF TypeOK

\* Take: an actor is run, and the one to reschedule is queued.
LEMMA TakeTypes ==
  ASSUME TypeOK, NEW s \in Thread, NEW a \in Actor, NEW w \in [Thread -> Seq(Actor)],
         Take(s, a, w)
  PROVE  /\ q' \in [Thread -> Seq(Actor)]
         /\ actor' \in [Thread -> Actor \cup {NONE}]
         /\ pc' \in [Thread -> Place]
<1>1. actor[s] # NONE => Append(w[s], actor[s]) \in Seq(Actor)
  BY DEF TypeOK
<1>2. q' \in [Thread -> Seq(Actor)]
  BY <1>1 DEF Take
<1>3. actor' \in [Thread -> Actor \cup {NONE}] /\ pc' \in [Thread -> Place]
  BY DEF Take, Goto, TypeOK, Place
<1> QED BY <1>2, <1>3

\* The outcomes of the pops: an actor is taken or nothing is; only a thread
\* that has a stale tail may find nothing in a queue of its own runtime.
LEMMA InjectOutcomes ==
  ASSUME TypeOK, NEW s \in Thread
  PROVE  /\ InjectPop(s) => /\ inject # <<>> /\ inject' = Tail(inject)
                            /\ stale' \subseteq Thread /\ s \notin stale'
                            /\ \A t \in stale' : t \in stale \/ pc[t] \in {"next", "steal"}
         /\ InjectNull(s) => /\ stale' \subseteq Thread /\ s \notin stale' /\ stale' \subseteq stale
                             /\ inject = <<>> \/ s \in stale \/ ~detect \/ asio # "exited"
BY DEF InjectPop, InjectNull, Unlinked, InjectPoppers, TypeOK

LEMMA LocalOutcomes ==
  ASSUME TypeOK, NEW s \in Thread, NEW v \in Thread
  PROVE  /\ LocalPop(s, v) => /\ q[v] # <<>> /\ stale' \subseteq Thread /\ s \notin stale'
                              /\ \A t \in stale' : t \in stale
                                   \/ pc[t] \in {"nextLocal", "stealVictim"}
         /\ LocalNull(s, v) => /\ stale' \subseteq Thread /\ s \notin stale'
                               /\ stale' \subseteq stale
                               /\ q[v] = <<>> \/ s \in stale
BY DEF LocalPop, LocalNull, LocalPoppers, TypeOK

\* The actors in a queue, as a set.
LEMMA QueueSet ==
  ASSUME TypeOK, NEW s \in Thread
  PROVE  /\ ToSet(q[s]) \subseteq Actor
         /\ \A i \in 1 .. Len(q[s]) : q[s][i] \in ToSet(q[s])
<1>1. q[s] \in Seq(Actor)
  BY DEF TypeOK
<1>2. DOMAIN q[s] = 1 .. Len(q[s]) /\ \A i \in 1 .. Len(q[s]) : q[s][i] \in Actor
  BY <1>1
<1> QED BY <1>2 DEF ToSet

\* The outcomes of the search for the next actor and of stealing.
LEMMA NextLocalOutcomes ==
  ASSUME TypeOK, NEW s \in Thread, NextLocal(s)
  PROVE  \/ /\ q[s] # <<>> /\ LocalPop(s, s) /\ missed' = missed
            /\ \E w : w = [q EXCEPT ![s] = Tail(@)] /\ Take(s, Head(q[s]), w)
         \/ /\ LocalNull(s, s) /\ actor[s] \in {NONE, CD} /\ Goto(s, "block")
            /\ missed' = missed \cup ToSet(q[s]) /\ UNCHANGED <<actor, q>>
         \/ /\ LocalNull(s, s) /\ actor[s] \notin {NONE, CD} /\ Goto(s, "run")
            /\ UNCHANGED <<missed, actor, q>>
BY LocalOutcomes DEF NextLocal

LEMMA StealVictimOutcomes ==
  ASSUME TypeOK, NEW s \in Thread, StealVictim(s), NEW v, v = last[s]
  PROVE  \/ /\ q[v] # <<>> /\ LocalPop(s, v) /\ got' = [got EXCEPT ![s] = Head(q[v])]
            /\ q' = [q EXCEPT ![v] = Tail(@)] /\ Goto(s, "unblock")
         \/ LocalNull(s, v) /\ Goto(s, "read") /\ UNCHANGED <<got, q>>
BY LocalOutcomes DEF StealVictim, TypeOK

\* Every step keeps the types.
LEMMA TypeStep ==
  ASSUME TypeOK, [Next]_vars
  PROVE  Types'
<1>0. Types
  BY DEF TypeOK, Types
<1>1. ASSUME NEW s \in Thread, Run(s) PROVE Types'
  <2>1. CASE RunWake(s)
    <3>1. PICK a \in Actor : q' = [q EXCEPT ![s] = Append(@, a)]
      BY <2>1 DEF RunWake, Wakeable, Waiting
    <3>2. q' \in [Thread -> Seq(Actor)]
      BY <1>0, <3>1, QueueTypes DEF Types
    <3> QED BY <1>0, <2>1, <3>2, WorkLess DEF RunWake, Types, stealVars, protoVars
  <2>2. CASE RunNoisy(s)
    <3>1. work' \in 0..opt.work /\ noisy' \in Nat
      BY <1>0, <2>2, WorkLess DEF RunNoisy, Types
    <3> QED BY <1>0, <2>2, <3>1 DEF RunNoisy, Types, stealVars, protoVars
  <2>3. CASE RunReturn(s)
    <3>1. work' \in 0..opt.work
      BY <1>0, <2>3, WorkLess DEF RunReturn, Types
    <3>2. pc' \in [Thread -> Place] /\ actor' \in [Thread -> Actor \cup {NONE}]
      BY <1>0, <2>3 DEF RunReturn, Types, Goto, Place
    <3> QED BY <1>0, <2>3, <3>1, <3>2 DEF RunReturn, Types, stealVars, protoVars
  <2> QED BY <1>1, <2>1, <2>2, <2>3 DEF Run
<1>2. ASSUME NEW s \in Thread, Find(s) PROVE Types'
  <2>1. CASE NextInject(s)
    <3>1. /\ q' \in [Thread -> Seq(Actor)] /\ actor' \in [Thread -> Actor \cup {NONE}]
          /\ pc' \in [Thread -> Place] /\ inject' \in Seq(Actor) /\ stale' \subseteq Thread
      <4>1. CASE InjectPop(s) /\ Take(s, Head(inject), q)
        <5>1. /\ inject # <<>> /\ inject' = Tail(inject) /\ stale' \subseteq Thread
              /\ q \in [Thread -> Seq(Actor)]
          BY <1>0, <4>1, InjectOutcomes DEF Types
        <5> QED BY <4>1, <5>1, QueueTypes, TakeTypes
      <4>2. CASE InjectNull(s) /\ Goto(s, "nextLocal") /\ UNCHANGED <<actor, q, inject>>
        BY <1>0, <4>2, InjectOutcomes DEF Types, Goto, Place
      <4> QED BY <2>1, <4>1, <4>2 DEF NextInject
    <3> QED BY <1>0, <2>1, <3>1 DEF NextInject, Types, protoVars, envVars
  <2>2. CASE NextLocal(s)
    <3>1. /\ q' \in [Thread -> Seq(Actor)] /\ actor' \in [Thread -> Actor \cup {NONE}]
          /\ pc' \in [Thread -> Place] /\ stale' \subseteq Thread /\ missed' \subseteq Actor
      <4>1. CASE /\ q[s] # <<>> /\ LocalPop(s, s) /\ missed' = missed
                 /\ \E w : w = [q EXCEPT ![s] = Tail(@)] /\ Take(s, Head(q[s]), w)
        <5>1. PICK w : w = [q EXCEPT ![s] = Tail(@)] /\ Take(s, Head(q[s]), w)
          BY <4>1
        <5>2. w \in [Thread -> Seq(Actor)]
          BY <1>0, <4>1, <5>1, QueueTypes DEF Types
        <5>3. stale' \subseteq Thread /\ missed' \subseteq Actor
          BY <1>0, <4>1, LocalOutcomes DEF Types
        <5> QED BY <4>1, <5>1, <5>2, <5>3, QueueTypes, TakeTypes
      <4>2. CASE /\ LocalNull(s, s) /\ Goto(s, "block")
                 /\ missed' = missed \cup ToSet(q[s]) /\ UNCHANGED <<actor, q>>
        BY <1>0, <4>2, LocalOutcomes, QueueSet DEF Types, Goto, Place
      <4>3. CASE LocalNull(s, s) /\ Goto(s, "run") /\ UNCHANGED <<missed, actor, q>>
        BY <1>0, <4>3, LocalOutcomes DEF Types, Goto, Place
      <4> QED BY <2>2, <4>1, <4>2, <4>3, NextLocalOutcomes
    <3> QED BY <1>0, <2>2, <3>1 DEF NextLocal, Types, protoVars, envVars
  <2> QED BY <1>2, <2>1, <2>2 DEF Find
<1>3. ASSUME NEW s \in Thread, Steal(s) PROVE Types'
  <2>1. CASE StealBlock(s)
    BY <1>0, <2>1 DEF StealBlock, Types, Goto, Place, stealVars, envVars
  <2>2. CASE StealInject(s)
    <3>1. last' \in [Thread -> Thread]
      BY <1>0, <2>2, VictimType DEF StealInject, Types
    <3>2. /\ got' \in [Thread -> Actor \cup {NONE}] /\ inject' \in Seq(Actor)
          /\ stale' \subseteq Thread
      <4>1. CASE InjectPop(s) /\ got' = [got EXCEPT ![s] = Head(inject)]
        BY <1>0, <4>1, QueueTypes, InjectOutcomes DEF Types
      <4>2. CASE InjectNull(s) /\ UNCHANGED <<got, inject>>
        BY <1>0, <4>2, InjectOutcomes DEF Types
      <4> QED BY <2>2, <4>1, <4>2 DEF StealInject
    <3>3. pc' \in [Thread -> Place]
      BY <1>0, <2>2 DEF StealInject, Types, Goto, Place
    <3> QED BY <1>0, <2>2, <3>1, <3>2, <3>3 DEF StealInject, Types, protoVars, envVars
  <2>3. CASE StealVictim(s)
    <3>1. PICK v \in Thread : v = last[s]
      BY <1>0 DEF Types
    <3>2. q[v] # <<>> => Head(q[v]) \in Actor /\ Tail(q[v]) \in Seq(Actor)
      BY QueueTypes
    <3>3. /\ got' \in [Thread -> Actor \cup {NONE}] /\ q' \in [Thread -> Seq(Actor)]
          /\ stale' \subseteq Thread
      <4>1. CASE /\ q[v] # <<>> /\ LocalPop(s, v) /\ got' = [got EXCEPT ![s] = Head(q[v])]
                 /\ q' = [q EXCEPT ![v] = Tail(@)]
        BY <1>0, <3>2, <4>1, LocalOutcomes DEF Types
      <4>2. CASE LocalNull(s, v) /\ UNCHANGED <<got, q>>
        BY <1>0, <4>2, LocalOutcomes DEF Types
      <4> QED BY <2>3, <3>1, <4>1, <4>2, StealVictimOutcomes
    <3>4. pc' \in [Thread -> Place]
      BY <1>0, <2>3 DEF StealVictim, Types, Goto, Place
    <3> QED BY <1>0, <2>3, <3>3, <3>4 DEF StealVictim, Types, protoVars, envVars
  <2>4. CASE StealExpire(s)
    BY <1>0, <2>4 DEF StealExpire, Types, Goto, Place, protoVars, envVars
  <2>5. CASE StealUnblock(s)
    <3>1. actor[s] # NONE => Append(q[s], actor[s]) \in Seq(Actor)
      BY QueueTypes DEF TypeOK
    <3>2. q' \in [Thread -> Seq(Actor)]
      BY <1>0, <2>5, <3>1 DEF StealUnblock, Types
    <3>3. /\ actor' \in [Thread -> Actor \cup {NONE}]
          /\ got' \in [Thread -> Actor \cup {NONE}] /\ pc' \in [Thread -> Place]
      BY <1>0, <2>5 DEF StealUnblock, Types, Goto, Place
    <3> QED BY <1>0, <2>5, <3>2, <3>3 DEF StealUnblock, Types, envVars
  <2> QED BY <1>3, <2>1, <2>2, <2>3, <2>4, <2>5 DEF Steal
<1>4. ASSUME NEW s \in Thread, Quiescent(s) PROVE Types'
  <2>0. Again(s) \in Place
    BY DEF Again, Place
  <2>1. CASE ReadMsg(s)
    <3>1. terminate' \in [Thread -> BOOLEAN]
      BY <1>0, <2>1 DEF ReadMsg, Types, OnBlock, OnUnblock, OnCnf, OnAck, OnTerminate
    <3> QED BY <1>0, <2>1, <3>1 DEF ReadMsg, Types, stealVars, envVars
  <2>2. CASE ReadEnd(s)
    <3>1. pc' \in [Thread -> Place]
      BY <1>0, <2>0, <2>2 DEF ReadEnd, Types, Goto, Place
    <3> QED BY <1>0, <2>2, <3>1 DEF ReadEnd, Types, stealVars, protoVars, envVars
  <2>3. CASE Terminate(s)
    BY <1>0, <2>0, <2>3 DEF Terminate, Types, Goto, stealVars, envVars
  <2>4. CASE AsioStop(s)
    <3>1. pc' \in [Thread -> Place] /\ asio' \in {"running", "stopping", "exited"}
      BY <1>0, <2>0, <2>4 DEF AsioStop, Types, Goto, Place
    <3> QED BY <1>0, <2>4, <3>1 DEF AsioStop, Types, stealVars, protoVars
  <2>5. CASE AsioJoin(s)
    BY <1>0, <2>0, <2>5 DEF AsioJoin, Types, Goto, stealVars, envVars
  <2> QED BY <1>4, <2>1, <2>2, <2>3, <2>4, <2>5 DEF Quiescent
<1>5. CASE AsioSend \/ ForeignSend
  <2>1. PICK a \in Actor : inject' = Append(inject, a)
    BY <1>5 DEF AsioSend, ForeignSend, Waiting
  <2>2. inject' \in Seq(Actor) /\ work' \in 0..opt.work
    BY <1>5, <2>1, QueueTypes, WorkLess DEF AsioSend, ForeignSend
  <2> QED BY <1>0, <1>5, <2>2 DEF AsioSend, ForeignSend, Types, stealVars, protoVars
<1>6. CASE AsioExit \/ SchedStop
  BY <1>0, <1>6 DEF AsioExit, SchedStop, Types, stealVars, protoVars
<1>7. CASE UNCHANGED vars
  BY <1>0, <1>7 DEF Types, vars, stealVars, protoVars, envVars
<1> QED BY <1>1, <1>2, <1>3, <1>4, <1>5, <1>6, <1>7 DEF Next, Step, Finished

\* The two halves make the whole.
LEMMA TypeFrom ==
  ASSUME Types', ProtoInv'
  PROVE  TypeOK'
BY DEF Types, ProtoInv, Mail, TypeOK
\* Every step keeps what is known of threads that steal.
LEMMA StealStep ==
  ASSUME TypeOK, StealInv, [Next]_vars
  PROVE  StealInv'
<1>0. /\ pc \in [Thread -> Place] /\ actor \in [Thread -> Actor \cup {NONE}]
      /\ got \in [Thread -> Actor \cup {NONE}] /\ q \in [Thread -> Seq(Actor)]
      /\ inject \in Seq(Actor) /\ terminate \in [Thread -> BOOLEAN]
      /\ last \in [Thread -> Thread] /\ NONE \notin Actor /\ stale \subseteq Thread
  BY SchedulerAssumption DEF TypeOK
<1>1. ASSUME NEW s \in Thread, Run(s) PROVE StealInv'
  <2>1. CASE RunWake(s)
    <3>1. PICK a : q' = [q EXCEPT ![s] = Append(@, a)]
      BY <2>1 DEF RunWake
    <3> QED BY <1>0, <2>1, <3>1 DEF RunWake, StealInv, stealVars, protoVars
  <2>2. CASE RunNoisy(s)
    BY <2>2 DEF RunNoisy, StealInv, stealVars, protoVars
  <2>3. CASE RunReturn(s)
    BY <1>0, <2>3 DEF RunReturn, StealInv, Goto, stealVars, protoVars
  <2> QED BY <1>1, <2>1, <2>2, <2>3 DEF Run
<1>2. ASSUME NEW s \in Thread, Find(s) PROVE StealInv'
  <2>1. CASE NextInject(s)
    <3>1. CASE InjectPop(s) /\ Take(s, Head(inject), q)
      <4>1. /\ pc[s] = "next" /\ pc' = [pc EXCEPT ![s] = "run"]
            /\ \A t \in Thread : t # s => actor'[t] = actor[t] /\ q'[t] = q[t]
            /\ UNCHANGED <<got, missed, terminate>>
        BY <1>0, <2>1, <3>1 DEF NextInject, Take, Goto, protoVars
      <4>2. s \notin stale' /\ \A t \in stale' : t \in stale \/ pc[t] \in {"next", "steal"}
        BY <3>1, InjectOutcomes
      <4> QED BY <1>0, <4>1, <4>2 DEF StealInv
    <3>2. CASE InjectNull(s) /\ Goto(s, "nextLocal") /\ UNCHANGED <<actor, q, inject>>
      BY <1>0, <2>1, <3>2, InjectOutcomes DEF NextInject, StealInv, Goto, protoVars
    <3> QED BY <2>1, <3>1, <3>2 DEF NextInject
  <2>2. CASE NextLocal(s)
    <3>0. pc[s] = "nextLocal" /\ UNCHANGED <<got, terminate>>
      BY <2>2 DEF NextLocal, protoVars
    <3>1. CASE /\ q[s] # <<>> /\ LocalPop(s, s) /\ missed' = missed
               /\ \E w : w = [q EXCEPT ![s] = Tail(@)] /\ Take(s, Head(q[s]), w)
      <4>1. /\ pc' = [pc EXCEPT ![s] = "run"]
            /\ \A t \in Thread : t # s => actor'[t] = actor[t] /\ q'[t] = q[t]
        BY <1>0, <3>1 DEF Take, Goto
      <4>2. s \notin stale' /\ \A t \in stale' : t \in stale \/ pc[t] \in {"nextLocal", "stealVictim"}
        BY <3>1, LocalOutcomes
      <4> QED BY <1>0, <3>0, <3>1, <4>1, <4>2 DEF StealInv
    <3>2. CASE /\ LocalNull(s, s) /\ actor[s] \in {NONE, CD} /\ Goto(s, "block")
               /\ missed' = missed \cup ToSet(q[s]) /\ UNCHANGED <<actor, q>>
      <4>1. \A i \in 1 .. Len(q[s]) : q[s][i] \in missed'
        BY <3>2, QueueSet
      <4>2. missed \subseteq missed' /\ s \notin stale' /\ stale' \subseteq stale
        BY <3>2, LocalOutcomes
      <4> QED BY <1>0, <3>0, <3>2, <4>1, <4>2 DEF StealInv, Goto
    <3>3. CASE /\ LocalNull(s, s) /\ Goto(s, "run") /\ UNCHANGED <<missed, actor, q>>
      BY <1>0, <3>0, <3>3, LocalOutcomes DEF StealInv, Goto
    <3> QED BY <2>2, <3>1, <3>2, <3>3, NextLocalOutcomes
  <2> QED BY <1>2, <2>1, <2>2 DEF Find
<1>3. ASSUME NEW s \in Thread, Steal(s) PROVE StealInv'
  <2>1. CASE StealBlock(s)
    BY <1>0, <2>1 DEF StealBlock, StealInv, Goto, stealVars
  <2>2. CASE StealInject(s)
    <3>0. pc[s] = "steal" /\ UNCHANGED <<actor, q, missed, terminate>>
      BY <2>2 DEF StealInject, protoVars
    <3>1. CASE /\ InjectPop(s) /\ got' = [got EXCEPT ![s] = Head(inject)]
               /\ Goto(s, "unblock")
      <4>1. inject # <<>> /\ Head(inject) \in Actor
        BY <3>1, InjectOutcomes, QueueTypes
      <4>2. s \notin stale' /\ \A t \in stale' : t \in stale \/ pc[t] \in {"next", "steal"}
        BY <3>1, InjectOutcomes
      <4> QED BY <1>0, <3>0, <3>1, <4>1, <4>2 DEF StealInv, Goto
    <3>2. CASE InjectNull(s) /\ Goto(s, "stealVictim") /\ UNCHANGED <<got, inject>>
      BY <1>0, <3>0, <3>2, InjectOutcomes DEF StealInv, Goto
    <3> QED BY <2>2, <3>1, <3>2 DEF StealInject
  <2>3. CASE StealVictim(s)
    <3>0. pc[s] = "stealVictim" /\ UNCHANGED <<actor, missed, terminate>>
      BY <2>3 DEF StealVictim, protoVars
    <3>1. PICK v \in Thread : v = last[s]
      BY <1>0
    <3>2. CASE /\ q[v] # <<>> /\ LocalPop(s, v) /\ got' = [got EXCEPT ![s] = Head(q[v])]
               /\ q' = [q EXCEPT ![v] = Tail(@)] /\ Goto(s, "unblock")
      <4>1. Head(q[v]) \in Actor
        BY <3>2, QueueTypes
      <4>2. s \notin stale' /\ \A t \in stale' : t \in stale \/ pc[t] \in {"nextLocal", "stealVictim"}
        BY <3>2, LocalOutcomes
      <4>3. \A i \in 1 .. Len(q'[v]) : i + 1 \in 1 .. Len(q[v]) /\ q'[v][i] = q[v][i + 1]
        BY <1>0, <3>2
      <4>4. ASSUME NEW t \in Thread, pc[t] \notin {"run", "next", "nextLocal"}
            PROVE  \A i \in 1 .. Len(q'[t]) : q'[t][i] \in missed
        <5>1. \A i \in 1 .. Len(q[t]) : q[t][i] \in missed
          BY <4>4 DEF StealInv
        <5>2. CASE t = v
          BY <4>3, <5>1, <5>2
        <5>3. CASE t # v
          BY <1>0, <3>2, <5>1, <5>3
        <5> QED BY <5>2, <5>3
      <4> QED BY <1>0, <3>0, <3>2, <4>1, <4>2, <4>4 DEF StealInv, Goto
    <3>3. CASE LocalNull(s, v) /\ Goto(s, "read") /\ UNCHANGED <<got, q>>
      BY <1>0, <3>0, <3>1, <3>3, LocalOutcomes DEF StealInv, Goto
    <3> QED BY <2>3, <3>1, <3>2, <3>3, StealVictimOutcomes
  <2>4. CASE StealExpire(s)
    BY <1>0, <2>4 DEF StealExpire, StealInv, Goto, protoVars
  <2>5. CASE StealUnblock(s)
    BY <1>0, <2>5 DEF StealUnblock, StealInv, Goto
  <2> QED BY <1>3, <2>1, <2>2, <2>3, <2>4, <2>5 DEF Steal
<1>4. ASSUME NEW s \in Thread, Quiescent(s) PROVE StealInv'
  <2>1. CASE ReadMsg(s)
    <3>1. \A t \in Thread : terminate[t] => terminate'[t]
      BY <1>0, <2>1 DEF ReadMsg, OnBlock, OnUnblock, OnCnf, OnAck, OnTerminate
    <3> QED BY <2>1, <3>1 DEF ReadMsg, StealInv, stealVars
  <2>2. CASE ReadEnd(s)
    BY <1>0, <2>2 DEF ReadEnd, StealInv, Goto, Again, stealVars, protoVars
  <2>3. CASE Terminate(s)
    BY <1>0, <2>3 DEF Terminate, StealInv, Goto, Again, stealVars
  <2>4. CASE AsioStop(s)
    BY <1>0, <2>4 DEF AsioStop, StealInv, Goto, Again, stealVars, protoVars
  <2>5. CASE AsioJoin(s)
    BY <1>0, <2>5 DEF AsioJoin, StealInv, Goto, Again, stealVars
  <2> QED BY <1>4, <2>1, <2>2, <2>3, <2>4, <2>5 DEF Quiescent
<1>5. CASE AsioSend \/ AsioExit \/ ForeignSend \/ SchedStop
  BY <1>5 DEF AsioSend, AsioExit, ForeignSend, SchedStop, StealInv, stealVars, protoVars
<1>6. CASE UNCHANGED vars
  BY <1>6 DEF vars, StealInv, stealVars, protoVars
<1> QED BY <1>1, <1>2, <1>3, <1>4, <1>5, <1>6 DEF Next, Step, Finished

\* A thread that will look in the inject queue does so until it has.
LEMMA LooksKept ==
  ASSUME NEW s \in Thread, \A t \in Thread : t # s => pc'[t] = pc[t],
         \A t \in stale' : t \in stale \/ pc[t] # "steal",
         Looks(s) => Looks(s)', \E t \in Thread : Looks(t)
  PROVE  \E t \in Thread : Looks(t)'
<1>1. PICK t \in Thread : Looks(t)
  OBVIOUS
<1>2. CASE t = s
  BY <1>1, <1>2
<1>3. CASE t # s
  BY <1>1, <1>3 DEF Looks
<1> QED BY <1>2, <1>3

\* Every step keeps what is known of the end of the program.
LEMMA EndStep ==
  ASSUME IInv, [Next]_vars
  PROVE  EndInv'
<1>0. /\ pc \in [Thread -> Place] /\ inject \in Seq(Actor) /\ 0 \in Thread
      /\ terminate \in [Thread -> BOOLEAN] /\ EndInv /\ TypeOK /\ StealInv
  BY ThreadFacts DEF IInv, TypeOK
<1>1. ASSUME UNCHANGED <<asioStopped, asio, detect, terminate>>,
             inject = <<>> => inject' = <<>>,
             NEW s \in Thread, \A t \in Thread : t # s => pc'[t] = pc[t],
             \A t \in stale' : t \in stale \/ pc[t] # "steal",
             Looks(s) => Looks(s)'
      PROVE  EndInv'
  BY <1>0, <1>1, LooksKept DEF EndInv
<1>2. ASSUME UNCHANGED <<asioStopped, asio, detect, terminate>>,
             inject # <<>>, NEW s \in Thread, Looks(s)'
      PROVE  EndInv'
  BY <1>0, <1>2 DEF EndInv
<1>3. ASSUME NEW s \in Thread, Run(s) PROVE EndInv'
  <2>1. /\ UNCHANGED <<asioStopped, asio, detect, terminate, inject, stale>>
        /\ \A t \in Thread : t # s => pc'[t] = pc[t]
        /\ pc'[s] \in {"run", "next"}
    BY <1>0, <1>3 DEF Run, RunWake, RunNoisy, RunReturn, Goto, protoVars, stealVars
  <2> QED BY <1>1, <2>1 DEF Looks
<1>4. ASSUME NEW s \in Thread, Find(s) PROVE EndInv'
  <2>1. /\ UNCHANGED <<asioStopped, asio, detect, terminate>>
        /\ \A t \in Thread : t # s => pc'[t] = pc[t]
        /\ pc'[s] \in {"run", "nextLocal", "block"}
    BY <1>0, <1>4 DEF Find, NextInject, NextLocal, Take, Goto, protoVars, envVars
  <2>2. Looks(s)'
    BY <2>1 DEF Looks
  <2>3. CASE inject # <<>>
    BY <1>2, <2>1, <2>2, <2>3
  <2>4. CASE inject = <<>> /\ inject' = <<>>
    BY <1>0, <2>1, <2>4 DEF EndInv
  <2>5. inject = <<>> => inject' = <<>>
    BY <1>4 DEF Find, NextInject, NextLocal, InjectPop
  <2> QED BY <2>3, <2>4, <2>5
<1>5. ASSUME NEW s \in Thread, Steal(s) PROVE EndInv'
  <2>1. CASE StealBlock(s)
    <3>1. s \notin stale /\ stale' = stale /\ pc' = [pc EXCEPT ![s] = "steal"]
      BY <1>0, <2>1 DEF StealBlock, StealInv, Goto, stealVars
    <3> QED BY <1>0, <1>1, <2>1, <3>1 DEF StealBlock, Looks, envVars
  <2>2. CASE StealInject(s)
    <3>0. pc[s] = "steal" /\ UNCHANGED <<asioStopped, asio, detect, terminate>>
      BY <2>2 DEF StealInject, protoVars, envVars
    <3>1. CASE InjectPop(s) /\ Goto(s, "unblock")
      <4>1. inject # <<>> /\ pc'[s] = "unblock"
        BY <1>0, <3>1, InjectOutcomes DEF Goto
      <4> QED BY <1>2, <3>0, <4>1 DEF Looks
    <3>2. CASE InjectNull(s) /\ Goto(s, "stealVictim") /\ UNCHANGED inject
      <4>1. CASE asioStopped /\ inject # <<>>
        <5>1. s \in stale
          BY <1>0, <3>2, <4>1, InjectOutcomes DEF EndInv
        <5>2. ~Looks(s)
          BY <3>0, <5>1 DEF Looks
        <5>3. stale' \subseteq stale /\ \A t \in Thread : t # s => pc'[t] = pc[t]
          BY <1>0, <3>2, InjectOutcomes DEF Goto
        <5> QED BY <1>1, <3>0, <3>2, <5>2, <5>3
      <4>2. CASE ~(asioStopped /\ inject # <<>>)
        BY <1>0, <3>0, <3>2, <4>2 DEF EndInv
      <4> QED BY <4>1, <4>2
    <3> QED BY <2>2, <3>1, <3>2 DEF StealInject
  <2>3. CASE StealVictim(s)
    <3>1. PICK v \in Thread : v = last[s]
      BY DEF IInv, TypeOK
    <3>2. /\ pc[s] = "stealVictim" /\ \A t \in Thread : t # s => pc'[t] = pc[t]
          /\ UNCHANGED <<asioStopped, asio, detect, terminate, inject>>
      BY <1>0, <2>3 DEF StealVictim, Goto, protoVars, envVars
    <3>3. LocalPop(s, v) \/ LocalNull(s, v)
      BY <2>3, <3>1 DEF StealVictim
    <3>4. \A t \in stale' : t \in stale \/ pc[t] # "steal"
      BY <1>0, <3>3, LocalOutcomes
    <3>5. ~Looks(s)
      BY <3>2 DEF Looks
    <3> QED BY <1>1, <3>2, <3>4, <3>5
  <2>4. CASE StealExpire(s)
    <3>1. s \notin stale /\ stale' = stale
      BY <1>0, <2>4 DEF StealExpire, StealInv
    <3> QED BY <1>0, <1>1, <2>4, <3>1 DEF StealExpire, Goto, Looks, protoVars, envVars
  <2>5. CASE StealUnblock(s)
    BY <1>0, <1>1, <2>5 DEF StealUnblock, Goto, Looks, envVars
  <2> QED BY <1>5, <2>1, <2>2, <2>3, <2>4, <2>5 DEF Steal
<1>6. ASSUME NEW s \in Thread, Quiescent(s) PROVE EndInv'
  <2>0. Again(s) \in {"steal", "expire"}
    BY DEF Again
  <2>1. CASE ReadMsg(s)
    <3>1. PICK m, w : m = Head(mq[s]) /\ w = [mq EXCEPT ![s] = Tail(@)]
      OBVIOUS
    <3>2. Reads(s, m, w) /\ UNCHANGED <<pc, inject, asioStopped, asio, detect, stale>>
      BY <2>1, <3>1 DEF ReadMsg, Reads, envVars, stealVars
    <3>3. GoodMail(s, m, ackToken, detect, asioStopped)
      BY <3>2, ReadFacts
    <3>4. terminate' = terminate
            \/ (m.type = "TERMINATE" /\ terminate' = [terminate EXCEPT ![s] = TRUE])
      BY <2>1, <3>1 DEF ReadMsg, OnBlock, OnUnblock, OnCnf, OnAck, OnTerminate
    <3>5. \A t \in Thread : terminate'[t] => asioStopped
      BY <1>0, <3>3, <3>4 DEF EndInv, GoodMail
    <3> QED BY <1>0, <3>2, <3>5 DEF EndInv, Looks
  <2>2. CASE ReadEnd(s)
    <3>1. /\ UNCHANGED <<asioStopped, asio, detect, terminate, inject, stale>>
          /\ \A t \in Thread : t # s => pc'[t] = pc[t]
          /\ pc[s] = "read"
      BY <1>0, <2>2 DEF ReadEnd, Goto, stealVars, protoVars, envVars
    <3> QED BY <1>1, <3>1 DEF Looks
  <2>3. CASE Terminate(s)
    <3>1. /\ UNCHANGED <<asioStopped, asio, detect, terminate, inject, stale>>
          /\ \A t \in Thread : t # s => pc'[t] = pc[t]
          /\ pc[s] = "acked"
      BY <1>0, <2>3 DEF Terminate, Goto, stealVars, envVars
    <3> QED BY <1>1, <3>1 DEF Looks
  <2>4. CASE AsioStop(s)
    <3>1. UNCHANGED <<asioStopped, terminate, detect>> /\ ~asioStopped
      BY <2>4 DEF AsioStop, protoVars
    <3> QED BY <1>0, <3>1 DEF EndInv
  <2>5. CASE AsioJoin(s)
    <3>1. s = 0 /\ detect
      BY <2>5, AckedFacts DEF AsioJoin
    <3>2. s \notin stale /\ stale' = stale
      BY <1>0, <2>5 DEF AsioJoin, StealInv, stealVars
    <3>3. pc'[s] \in {"steal", "expire"}
      BY <1>0, <2>0, <2>5 DEF AsioJoin, Goto
    <3>4. Looks(s)'
      BY <3>2, <3>3 DEF Looks
    <3>5. asioStopped' /\ UNCHANGED <<asio, detect, terminate, inject>> /\ asio = "exited"
      BY <2>5 DEF AsioJoin, envVars
    <3> QED BY <3>1, <3>4, <3>5 DEF EndInv
  <2> QED BY <1>6, <2>1, <2>2, <2>3, <2>4, <2>5 DEF Quiescent
<1>7. CASE AsioSend \/ ForeignSend
  <2>1. ~asioStopped
    BY <1>0, <1>7 DEF AsioSend, ForeignSend, EndInv
  <2> QED BY <1>0, <1>7, <2>1 DEF AsioSend, ForeignSend, EndInv, protoVars
<1>8. CASE AsioExit \/ SchedStop
  BY <1>0, <1>8 DEF AsioExit, SchedStop, EndInv, Looks, protoVars, stealVars
<1>9. CASE UNCHANGED vars
  BY <1>0, <1>9 DEF vars, EndInv, Looks, protoVars, envVars, stealVars
<1> QED BY <1>3, <1>4, <1>5, <1>6, <1>7, <1>8, <1>9 DEF Next, Step, Finished
-----------------------------------------------------------------------------
(* An actor is in one place. *)

\* No actor is twice in the queues w, the inject queue j and the hands h.
Apart(w, j, h) ==
  /\ \A i, k \in 1 .. Len(j) : j[i] = j[k] => i = k
  /\ \A s, t \in Thread : \A i \in 1 .. Len(w[s]), k \in 1 .. Len(w[t]) :
       w[s][i] = w[t][k] => s = t /\ i = k
  /\ \A s \in Thread : \A i \in 1 .. Len(w[s]), k \in 1 .. Len(j) : w[s][i] # j[k]
  /\ \A s \in Thread : \A a \in h[s] :
       /\ \A i \in 1 .. Len(j) : j[i] # a
       /\ \A t \in Thread : \A i \in 1 .. Len(w[t]) : w[t][i] # a
  /\ \A s, t \in Thread : \A a \in h[s] : a \in h[t] => s = t

\* The actor a is in none of them.
Nowhere(a, w, j, h) ==
  /\ \A i \in 1 .. Len(j) : j[i] # a
  /\ \A s \in Thread : a \notin h[s] /\ \A i \in 1 .. Len(w[s]) : w[s][i] # a

\* The queues and the hands are what they should be.
GoodPlaces(w, j, h) ==
  w \in [Thread -> Seq(Actor)] /\ j \in Seq(Actor) /\ h \in [Thread -> SUBSET Actor]

\* The last element of a longer queue.
LEMMA AppendFacts ==
  ASSUME NEW M, NEW v \in Seq(M), NEW a \in M
  PROVE  /\ Len(v) \in Nat /\ Append(v, a) \in Seq(M)
         /\ \A i \in 1 .. Len(Append(v, a)) :
              \/ i \in 1 .. Len(v) /\ Append(v, a)[i] = v[i]
              \/ i = Len(v) + 1 /\ Append(v, a)[i] = a
OBVIOUS

\* The elements of a shorter queue.
LEMMA TailFacts ==
  ASSUME NEW M, NEW v \in Seq(M), v # <<>>
  PROVE  /\ Head(v) \in M /\ Tail(v) \in Seq(M) /\ 1 \in 1 .. Len(v) /\ Head(v) = v[1]
         /\ \A i \in 1 .. Len(Tail(v)) :
              i + 1 \in 1 .. Len(v) /\ i + 1 # 1 /\ Tail(v)[i] = v[i + 1]
OBVIOUS

\* ponyint_mpmcq_push_single: an actor that was nowhere goes on a queue.
LEMMA PutQueue ==
  ASSUME NEW w, NEW j, NEW h, GoodPlaces(w, j, h), Apart(w, j, h),
         NEW s \in Thread, NEW a \in Actor, Nowhere(a, w, j, h)
  PROVE  LET u == [w EXCEPT ![s] = Append(@, a)] IN
         GoodPlaces(u, j, h) /\ Apart(u, j, h)
<1>1. PICK u : u = [w EXCEPT ![s] = Append(@, a)]
  OBVIOUS
<1>2. \A t \in Thread : w[t] \in Seq(Actor)
  BY DEF GoodPlaces
<1>3. /\ u[s] = Append(w[s], a) /\ \A t \in Thread : t # s => u[t] = w[t]
      /\ Len(w[s]) \in Nat
      /\ \A i \in 1 .. Len(u[s]) : \/ i \in 1 .. Len(w[s]) /\ u[s][i] = w[s][i]
                                   \/ i = Len(w[s]) + 1 /\ u[s][i] = a
  BY <1>1, <1>2, AppendFacts DEF GoodPlaces
<1>4. GoodPlaces(u, j, h)
  BY <1>1, <1>2, AppendFacts DEF GoodPlaces
<1>5. \A t \in Thread : \A i \in 1 .. Len(u[t]) :
        \/ i \in 1 .. Len(w[t]) /\ u[t][i] = w[t][i]
        \/ t = s /\ i = Len(w[s]) + 1 /\ u[t][i] = a
  BY <1>3
<1>6. ASSUME NEW t \in Thread, NEW r \in Thread, NEW i \in 1 .. Len(u[t]),
             NEW k \in 1 .. Len(u[r]), u[t][i] = u[r][k]
      PROVE  t = r /\ i = k
  <2>1. CASE i \in 1 .. Len(w[t]) /\ u[t][i] = w[t][i]
    <3>1. CASE k \in 1 .. Len(w[r]) /\ u[r][k] = w[r][k]
      <4>1. w[t][i] = w[r][k]
        BY <1>6, <2>1, <3>1
      <4> QED BY <2>1, <3>1, <4>1 DEF Apart
    <3>2. CASE r = s /\ k = Len(w[s]) + 1 /\ u[r][k] = a
      BY <1>6, <2>1, <3>2 DEF Nowhere
    <3> QED BY <1>5, <3>1, <3>2
  <2>2. CASE t = s /\ i = Len(w[s]) + 1 /\ u[t][i] = a
    <3>1. CASE k \in 1 .. Len(w[r]) /\ u[r][k] = w[r][k]
      BY <1>6, <2>2, <3>1 DEF Nowhere
    <3>2. CASE r = s /\ k = Len(w[s]) + 1 /\ u[r][k] = a
      BY <2>2, <3>2
    <3> QED BY <1>5, <3>1, <3>2
  <2> QED BY <1>5, <2>1, <2>2
<1>7. ASSUME NEW t \in Thread, NEW i \in 1 .. Len(u[t])
      PROVE  /\ \A k \in 1 .. Len(j) : u[t][i] # j[k]
             /\ \A r \in Thread : \A b \in h[r] : u[t][i] # b
  BY <1>5 DEF Apart, Nowhere
<1>8. Apart(u, j, h)
  BY <1>6, <1>7 DEF Apart
<1> QED BY <1>1, <1>4, <1>8

\* ponyint_mpmcq_push: it goes on the inject queue.
LEMMA PutInject ==
  ASSUME NEW w, NEW j, NEW h, GoodPlaces(w, j, h), Apart(w, j, h),
         NEW a \in Actor, Nowhere(a, w, j, h)
  PROVE  GoodPlaces(w, Append(j, a), h) /\ Apart(w, Append(j, a), h)
<1>1. PICK u : u = Append(j, a)
  OBVIOUS
<1>2. /\ u \in Seq(Actor) /\ Len(j) \in Nat
      /\ \A i \in 1 .. Len(u) : \/ i \in 1 .. Len(j) /\ u[i] = j[i]
                                \/ i = Len(j) + 1 /\ u[i] = a
  BY <1>1, AppendFacts DEF GoodPlaces
<1>3. Apart(w, u, h)
  BY <1>2 DEF Apart, Nowhere
<1> QED BY <1>1, <1>2, <1>3 DEF GoodPlaces

\* ponyint_mpmcq_pop: the actor popped is in no queue any more.
LEMMA PopQueue ==
  ASSUME NEW w, NEW j, NEW h, GoodPlaces(w, j, h), Apart(w, j, h),
         NEW s \in Thread, w[s] # <<>>
  PROVE  LET u == [w EXCEPT ![s] = Tail(@)] IN
         /\ GoodPlaces(u, j, h) /\ Apart(u, j, h)
         /\ Head(w[s]) \in Actor /\ Nowhere(Head(w[s]), u, j, h)
<1>1. PICK u : u = [w EXCEPT ![s] = Tail(@)]
  OBVIOUS
<1>2. w[s] \in Seq(Actor)
  BY DEF GoodPlaces
<1>3. /\ Head(w[s]) \in Actor /\ 1 \in 1 .. Len(w[s]) /\ Head(w[s]) = w[s][1]
      /\ Tail(w[s]) \in Seq(Actor)
      /\ \A i \in 1 .. Len(Tail(w[s])) :
           i + 1 \in 1 .. Len(w[s]) /\ i + 1 # 1 /\ Tail(w[s])[i] = w[s][i + 1]
  BY <1>2, TailFacts
<1>4. u[s] = Tail(w[s]) /\ \A t \in Thread : t # s => u[t] = w[t]
  BY <1>1 DEF GoodPlaces
<1>5. GoodPlaces(u, j, h)
  BY <1>1, <1>3 DEF GoodPlaces
<1>6. ASSUME NEW t \in Thread, NEW i \in 1 .. Len(u[t])
      PROVE  \E k \in 1 .. Len(w[t]) :
               /\ u[t][i] = w[t][k] /\ (t = s => k # 1)
               /\ k = IF t = s THEN i + 1 ELSE i
  BY <1>3, <1>4
<1>7. Nowhere(Head(w[s]), u, j, h)
  BY <1>3, <1>6 DEF Apart, Nowhere
<1>8. Apart(u, j, h)
  <2>1. ASSUME NEW t \in Thread, NEW r \in Thread, NEW i \in 1 .. Len(u[t]),
               NEW k \in 1 .. Len(u[r]), u[t][i] = u[r][k]
        PROVE  t = r /\ i = k
    <3>1. PICK x \in 1 .. Len(w[t]) : /\ u[t][i] = w[t][x]
                                      /\ x = IF t = s THEN i + 1 ELSE i
      BY <1>6
    <3>2. PICK y \in 1 .. Len(w[r]) : /\ u[r][k] = w[r][y]
                                      /\ y = IF r = s THEN k + 1 ELSE k
      BY <1>6
    <3>a. w[t][x] = w[r][y]
      BY <2>1, <3>1, <3>2
    <3>3. t = r /\ x = y
      BY <3>a DEF Apart
    <3>4. i \in Int /\ k \in Int
      OBVIOUS
    <3> QED BY <3>1, <3>2, <3>3, <3>4
  <2> QED BY <1>6, <2>1 DEF Apart
<1> QED BY <1>1, <1>3, <1>5, <1>7, <1>8

\* The same for the inject queue.
LEMMA PopInject ==
  ASSUME NEW w, NEW j, NEW h, GoodPlaces(w, j, h), Apart(w, j, h), j # <<>>
  PROVE  /\ GoodPlaces(w, Tail(j), h) /\ Apart(w, Tail(j), h)
         /\ Head(j) \in Actor /\ Nowhere(Head(j), w, Tail(j), h)
<1>1. PICK u : u = Tail(j)
  OBVIOUS
<1>2. /\ Head(j) \in Actor /\ 1 \in 1 .. Len(j) /\ Head(j) = j[1] /\ u \in Seq(Actor)
      /\ \A i \in 1 .. Len(u) :
           i + 1 \in 1 .. Len(j) /\ i + 1 # 1 /\ u[i] = j[i + 1]
  BY <1>1, TailFacts DEF GoodPlaces
<1>3. Nowhere(Head(j), w, u, h)
  BY <1>2 DEF Apart, Nowhere
<1>4. \A i, k \in 1 .. Len(u) : u[i] = u[k] => i = k
  <2>1. ASSUME NEW i \in 1 .. Len(u), NEW k \in 1 .. Len(u), u[i] = u[k]
        PROVE  i = k
    <3>1. i + 1 = k + 1
      BY <1>2, <2>1 DEF Apart
    <3>2. i \in Int /\ k \in Int
      OBVIOUS
    <3> QED BY <3>1, <3>2
  <2> QED BY <2>1
<1>5. Apart(w, u, h)
  BY <1>2, <1>4 DEF Apart
<1> QED BY <1>1, <1>2, <1>3, <1>5 DEF GoodPlaces

\* A thread holds an actor that was nowhere, instead of what it held.
LEMMA HoldActor ==
  ASSUME NEW w, NEW j, NEW h, GoodPlaces(w, j, h), Apart(w, j, h),
         NEW s \in Thread, NEW a \in Actor, Nowhere(a, w, j, h)
  PROVE  LET g == [h EXCEPT ![s] = {a}] IN
         /\ GoodPlaces(w, j, g) /\ Apart(w, j, g)
         /\ \A b \in h[s] : Nowhere(b, w, j, g)
<1>1. PICK g : g = [h EXCEPT ![s] = {a}]
  OBVIOUS
<1>2. g[s] = {a} /\ \A t \in Thread : t # s => g[t] = h[t]
  BY <1>1 DEF GoodPlaces
<1>3. GoodPlaces(w, j, g)
  BY <1>1 DEF GoodPlaces
<1>4. Apart(w, j, g)
  BY <1>2 DEF Apart, Nowhere
<1>5. ASSUME NEW b \in h[s] PROVE Nowhere(b, w, j, g)
  BY <1>2 DEF Apart, Nowhere
<1> QED BY <1>1, <1>3, <1>4, <1>5

\* A thread holds an actor more that was nowhere.
LEMMA HoldAlso ==
  ASSUME NEW w, NEW j, NEW h, GoodPlaces(w, j, h), Apart(w, j, h),
         NEW s \in Thread, NEW a \in Actor, Nowhere(a, w, j, h)
  PROVE  LET g == [h EXCEPT ![s] = @ \cup {a}] IN
         GoodPlaces(w, j, g) /\ Apart(w, j, g)
<1>1. PICK g : g = [h EXCEPT ![s] = @ \cup {a}]
  OBVIOUS
<1>2. g[s] = h[s] \cup {a} /\ \A t \in Thread : t # s => g[t] = h[t]
  BY <1>1 DEF GoodPlaces
<1>3. GoodPlaces(w, j, g)
  BY <1>1 DEF GoodPlaces
<1>4. Apart(w, j, g)
  BY <1>2 DEF Apart, Nowhere
<1> QED BY <1>1, <1>3, <1>4

\* Hands that hold less.
LEMMA HoldLess ==
  ASSUME NEW w, NEW j, NEW h, GoodPlaces(w, j, h), Apart(w, j, h), NEW g,
         g \in [Thread -> SUBSET Actor], \A s \in Thread : g[s] \subseteq h[s]
  PROVE  /\ GoodPlaces(w, j, g) /\ Apart(w, j, g)
         /\ \A s \in Thread : \A b \in h[s] \ g[s] : Nowhere(b, w, j, g)
BY DEF GoodPlaces, Apart, Nowhere

Hands == [s \in Thread |-> InHand(s)]

\* What OnePlace says.
LEMMA PlaceNow ==
  ASSUME TypeOK, OnePlace
  PROVE  /\ GoodPlaces(q, inject, Hands) /\ Apart(q, inject, Hands)
         /\ \A a \in Waiting : Nowhere(a, q, inject, Hands)
<1>1. GoodPlaces(q, inject, Hands)
  BY DEF GoodPlaces, TypeOK, Hands, InHand
<1>2. \A s \in Thread : Hands[s] = InHand(s)
  BY DEF Hands
<1>3. DOMAIN inject = 1 .. Len(inject) /\ \A s \in Thread : DOMAIN q[s] = 1 .. Len(q[s])
  BY DEF TypeOK
<1>4. /\ \A i \in 1 .. Len(inject) : inject[i] \in Queued
      /\ \A s \in Thread : \A i \in 1 .. Len(q[s]) : q[s][i] \in Queued
  BY <1>3 DEF Queued, ToSet
<1>5. Apart(q, inject, Hands)
  BY <1>2, <1>4 DEF Apart, OnePlace
<1>6. ASSUME NEW a \in Waiting PROVE Nowhere(a, q, inject, Hands)
  <2>1. a \in Actor /\ a \notin Queued /\ a \notin Held
    BY DEF Waiting
  <2>2. \A s \in Thread : a \notin InHand(s)
    BY <2>1 DEF Held, InHand
  <2> QED BY <1>2, <1>4, <2>1, <2>2 DEF Nowhere
<1> QED BY <1>1, <1>5, <1>6

\* The same after a step.
LEMMA PlaceNext ==
  ASSUME NEW w, NEW j, NEW h, GoodPlaces(w, j, h), Apart(w, j, h),
         w = q', j = inject', h = Hands'
  PROVE  OnePlace'
<1>1. \A s \in Thread : h[s] = InHand(s)'
  BY DEF Hands
<1>2. DOMAIN j = 1 .. Len(j) /\ \A s \in Thread : DOMAIN w[s] = 1 .. Len(w[s])
  BY DEF GoodPlaces
<1>3. Queued' = {j[i] : i \in 1 .. Len(j)}
                  \cup UNION {{w[s][i] : i \in 1 .. Len(w[s])} : s \in Thread}
  BY <1>2 DEF Queued, ToSet
<1>4. \A s \in Thread : InHand(s)' \cap Queued' = {}
  BY <1>1, <1>3 DEF Apart
<1> QED BY <1>1, <1>4 DEF Apart, OnePlace

\* Take, when the actor a is nowhere.
LEMMA TakeKeeps ==
  ASSUME TypeOK, StealInv, NEW w, NEW j, GoodPlaces(w, j, Hands), Apart(w, j, Hands),
         NEW s \in Thread, NEW a \in Actor, Nowhere(a, w, j, Hands),
         Take(s, a, w), j = inject', got' = got, got[s] = NONE
  PROVE  OnePlace'
<1>1. PICK g : g = [Hands EXCEPT ![s] = {a}]
  OBVIOUS
<1>2. /\ GoodPlaces(w, j, g) /\ Apart(w, j, g)
      /\ \A b \in Hands[s] : Nowhere(b, w, j, g)
  BY <1>1, HoldActor
<1>3. actor' = [actor EXCEPT ![s] = a] /\ actor \in [Thread -> Actor \cup {NONE}] /\ NONE \notin Actor
  BY SchedulerAssumption DEF Take, TypeOK
<1>4. Hands' = g
  <2>1. \A t \in Thread : InHand(t)' = g[t]
    BY <1>1, <1>3 DEF InHand, Hands
  <2>2. DOMAIN g = Thread /\ g = [t \in Thread |-> g[t]]
    BY <1>1 DEF Hands
  <2> QED BY <2>1, <2>2 DEF Hands
<1>5. CASE actor[s] = NONE
  <2>1. q' = w
    BY <1>5 DEF Take
  <2> QED BY <1>2, <1>4, <2>1, PlaceNext
<1>6. CASE actor[s] # NONE
  <2>1. PICK b \in Actor : b = actor[s]
    BY <1>3, <1>6
  <2>2. b \in Hands[s]
    BY <1>6, <2>1 DEF Hands, InHand
  <2>3. PICK u : u = [w EXCEPT ![s] = Append(@, b)]
    OBVIOUS
  <2>4. GoodPlaces(u, j, g) /\ Apart(u, j, g)
    BY <1>2, <2>2, <2>3, PutQueue
  <2>5. q' = u
    BY <1>6, <2>1, <2>3 DEF Take
  <2> QED BY <1>4, <2>4, <2>5, PlaceNext
<1> QED BY <1>5, <1>6

\* Every step keeps the actors apart.
LEMMA PlaceStep ==
  ASSUME TypeOK, StealInv, OnePlace, [Next]_vars
  PROVE  OnePlace'
<1>0. /\ actor \in [Thread -> Actor \cup {NONE}] /\ got \in [Thread -> Actor \cup {NONE}]
      /\ NONE \notin Actor /\ last \in [Thread -> Thread]
  BY SchedulerAssumption DEF TypeOK
<1>1. /\ GoodPlaces(q, inject, Hands) /\ Apart(q, inject, Hands)
      /\ \A a \in Waiting : Nowhere(a, q, inject, Hands)
  BY PlaceNow
<1>2. ASSUME UNCHANGED <<actor, got>> PROVE Hands' = Hands
  BY <1>2 DEF Hands, InHand
<1>3. ASSUME UNCHANGED <<actor, got, q, inject>> PROVE OnePlace'
  BY <1>1, <1>2, <1>3, PlaceNext
<1>4. ASSUME NEW s \in Thread, Run(s) PROVE OnePlace'
  <2>1. CASE RunWake(s)
    <3>1. PICK a \in Waiting : q' = [q EXCEPT ![s] = Append(@, a)]
      BY <2>1 DEF RunWake, Wakeable
    <3>2. a \in Actor /\ Nowhere(a, q, inject, Hands)
      BY <1>1 DEF Waiting
    <3>3. GoodPlaces(q', inject, Hands) /\ Apart(q', inject, Hands)
      BY <1>1, <3>1, <3>2, PutQueue
    <3>4. Hands' = Hands /\ inject' = inject
      BY <1>2, <2>1 DEF RunWake, stealVars
    <3> QED BY <3>3, <3>4, PlaceNext
  <2>2. CASE RunNoisy(s)
    BY <1>3, <2>2 DEF RunNoisy, stealVars
  <2>3. CASE RunReturn(s)
    <3>1. /\ q' = q /\ inject' = inject /\ got' = got
          /\ actor' = actor \/ actor' = [actor EXCEPT ![s] = NONE]
      BY <2>3 DEF RunReturn, stealVars
    <3>2. Hands' \in [Thread -> SUBSET Actor] /\ \A t \in Thread : Hands'[t] \subseteq Hands[t]
      BY <1>0, <3>1 DEF Hands, InHand
    <3>3. GoodPlaces(q, inject, Hands') /\ Apart(q, inject, Hands')
      BY <1>1, <3>2, HoldLess
    <3> QED BY <3>1, <3>3, PlaceNext
  <2> QED BY <1>4, <2>1, <2>2, <2>3 DEF Run
<1>5. ASSUME NEW s \in Thread, Find(s) PROVE OnePlace'
  <2>0. got' = got /\ got[s] = NONE
    BY <1>5 DEF Find, NextInject, NextLocal, StealInv
  <2>1. CASE NextInject(s)
    <3>1. CASE InjectPop(s) /\ Take(s, Head(inject), q)
      <4>1. Take(s, Head(inject), q) /\ inject # <<>> /\ inject' = Tail(inject)
        BY <3>1 DEF InjectPop
      <4>2. /\ GoodPlaces(q, inject', Hands) /\ Apart(q, inject', Hands)
            /\ Head(inject) \in Actor /\ Nowhere(Head(inject), q, inject', Hands)
        BY <1>1, <4>1, PopInject
      <4> QED BY <2>0, <4>1, <4>2, TakeKeeps
    <3>2. CASE UNCHANGED <<actor, q, inject>>
      BY <1>3, <2>0, <3>2
    <3> QED BY <2>1, <3>1, <3>2 DEF NextInject
  <2>2. CASE NextLocal(s)
    <3>1. CASE /\ q[s] # <<>>
               /\ \E w : w = [q EXCEPT ![s] = Tail(@)] /\ Take(s, Head(q[s]), w)
      <4>1. PICK w : w = [q EXCEPT ![s] = Tail(@)] /\ Take(s, Head(q[s]), w)
        BY <3>1
      <4>2. Take(s, Head(q[s]), w) /\ inject' = inject
        BY <2>2, <4>1 DEF NextLocal
      <4>3. /\ GoodPlaces(w, inject, Hands) /\ Apart(w, inject, Hands)
            /\ Head(q[s]) \in Actor /\ Nowhere(Head(q[s]), w, inject, Hands)
        BY <1>1, <3>1, <4>1, PopQueue
      <4> QED BY <2>0, <4>2, <4>3, TakeKeeps
    <3>2. CASE UNCHANGED <<actor, q>>
      BY <1>3, <2>0, <2>2, <3>2 DEF NextLocal
    <3> QED BY <2>2, <3>1, <3>2, NextLocalOutcomes
  <2> QED BY <1>5, <2>1, <2>2 DEF Find
<1>6. ASSUME NEW s \in Thread, NEW a \in Actor, got' = [got EXCEPT ![s] = a],
             got[s] = NONE, actor' = actor
      PROVE  Hands' = [Hands EXCEPT ![s] = @ \cup {a}]
  <2>1. PICK g : g = [Hands EXCEPT ![s] = @ \cup {a}]
    OBVIOUS
  <2>2. \A t \in Thread : InHand(t)' = g[t]
    BY <1>0, <1>6, <2>1 DEF InHand, Hands
  <2>3. DOMAIN g = Thread /\ g = [t \in Thread |-> g[t]]
    BY <2>1 DEF Hands
  <2> QED BY <2>1, <2>2, <2>3 DEF Hands
<1>7. ASSUME NEW s \in Thread, Steal(s) PROVE OnePlace'
  <2>1. CASE StealBlock(s)
    BY <1>3, <2>1 DEF StealBlock, stealVars
  <2>2. CASE StealInject(s)
    <3>1. CASE InjectPop(s) /\ got' = [got EXCEPT ![s] = Head(inject)]
      <4>1. PICK a : a = Head(inject) /\ inject # <<>>
        BY <3>1 DEF InjectPop
      <4>2. /\ got' = [got EXCEPT ![s] = a] /\ inject' = Tail(inject)
            /\ q' = q /\ actor' = actor /\ got[s] = NONE
        BY <2>2, <3>1, <4>1 DEF StealInject, StealInv, InjectPop
      <4>3. /\ GoodPlaces(q, inject', Hands) /\ Apart(q, inject', Hands)
            /\ a \in Actor /\ Nowhere(a, q, inject', Hands)
        BY <1>1, <4>1, <4>2, PopInject
      <4>4. Hands' = [Hands EXCEPT ![s] = @ \cup {a}]
        BY <1>6, <4>2, <4>3
      <4>5. GoodPlaces(q, inject', Hands') /\ Apart(q, inject', Hands')
        BY <4>3, <4>4, HoldAlso
      <4> QED BY <4>2, <4>5, PlaceNext
    <3>2. CASE UNCHANGED <<got, inject>>
      BY <1>3, <2>2, <3>2 DEF StealInject
    <3> QED BY <2>2, <3>1, <3>2 DEF StealInject
  <2>3. CASE StealVictim(s)
    <3>0. PICK v \in Thread : v = last[s]
      BY <1>0
    <3>1. CASE /\ q[v] # <<>> /\ got' = [got EXCEPT ![s] = Head(q[v])]
               /\ q' = [q EXCEPT ![v] = Tail(@)]
      <4>1. PICK a : a = Head(q[v]) /\ q[v] # <<>>
        BY <3>1
      <4>2. /\ got' = [got EXCEPT ![s] = a] /\ q' = [q EXCEPT ![v] = Tail(@)]
            /\ inject' = inject /\ actor' = actor /\ got[s] = NONE
        BY <2>3, <3>1, <4>1 DEF StealVictim, StealInv
      <4>3. /\ GoodPlaces(q', inject, Hands) /\ Apart(q', inject, Hands)
            /\ a \in Actor /\ Nowhere(a, q', inject, Hands)
        BY <1>1, <4>1, <4>2, PopQueue
      <4>4. Hands' = [Hands EXCEPT ![s] = @ \cup {a}]
        BY <1>6, <4>2, <4>3
      <4>5. GoodPlaces(q', inject, Hands') /\ Apart(q', inject, Hands')
        BY <4>3, <4>4, HoldAlso
      <4> QED BY <4>2, <4>5, PlaceNext
    <3>2. CASE UNCHANGED <<got, q>>
      BY <1>3, <2>3, <3>2 DEF StealVictim
    <3> QED BY <2>3, <3>0, <3>1, <3>2, StealVictimOutcomes
  <2>4. CASE StealExpire(s)
    <3>1. /\ q' = q /\ inject' = inject /\ actor' = actor
          /\ got' = got \/ got' = [got EXCEPT ![s] = actor[s]]
      BY <2>4 DEF StealExpire
    <3>2. Hands' \in [Thread -> SUBSET Actor] /\ \A t \in Thread : Hands'[t] \subseteq Hands[t]
      BY <1>0, <3>1 DEF Hands, InHand
    <3>3. GoodPlaces(q, inject, Hands') /\ Apart(q, inject, Hands')
      BY <1>1, <3>2, HoldLess
    <3> QED BY <3>1, <3>3, PlaceNext
  <2>5. CASE StealUnblock(s)
    <3>1. /\ q' = IF actor[s] \in {NONE, got[s]} THEN q
                  ELSE [q EXCEPT ![s] = Append(@, actor[s])]
          /\ actor' = [actor EXCEPT ![s] = got[s]]
          /\ got' = [got EXCEPT ![s] = NONE] /\ inject' = inject
      BY <2>5 DEF StealUnblock
    <3>2. /\ Hands' \in [Thread -> SUBSET Actor] /\ Hands'[s] \subseteq {got[s]}
          /\ \A t \in Thread : Hands'[t] \subseteq Hands[t]
      BY <1>0, <3>1 DEF Hands, InHand
    <3>3. /\ GoodPlaces(q, inject, Hands') /\ Apart(q, inject, Hands')
          /\ \A b \in Hands[s] \ Hands'[s] : Nowhere(b, q, inject, Hands')
      BY <1>1, <3>2, HoldLess
    <3>4. CASE actor[s] \in {NONE, got[s]}
      <4>1. q' = q
        BY <3>1, <3>4
      <4> QED BY <3>1, <3>3, <4>1, PlaceNext
    <3>5. CASE actor[s] \notin {NONE, got[s]}
      <4>1. PICK b \in Actor : b = actor[s]
        BY <1>0, <3>5
      <4>2. b \in Hands[s] \ Hands'[s]
        BY <3>2, <3>5, <4>1 DEF Hands, InHand
      <4>3. q' = [q EXCEPT ![s] = Append(@, b)]
        BY <3>1, <3>5, <4>1
      <4>4. GoodPlaces(q', inject, Hands') /\ Apart(q', inject, Hands')
        BY <3>3, <4>2, <4>3, PutQueue
      <4> QED BY <3>1, <4>4, PlaceNext
    <3> QED BY <3>4, <3>5
  <2> QED BY <1>7, <2>1, <2>2, <2>3, <2>4, <2>5 DEF Steal
<1>8. ASSUME NEW s \in Thread, Quiescent(s) PROVE OnePlace'
  BY <1>3, <1>8 DEF Quiescent, ReadMsg, ReadEnd, Terminate, AsioStop, AsioJoin, stealVars
<1>9. CASE AsioSend \/ ForeignSend
  <2>1. PICK a \in Waiting : inject' = Append(inject, a)
    BY <1>9 DEF AsioSend, ForeignSend
  <2>2. a \in Actor /\ Nowhere(a, q, inject, Hands)
    BY <1>1 DEF Waiting
  <2>3. GoodPlaces(q, inject', Hands) /\ Apart(q, inject', Hands)
    BY <1>1, <2>1, <2>2, PutInject
  <2>4. Hands' = Hands /\ q' = q
    BY <1>2, <1>9 DEF AsioSend, ForeignSend, stealVars
  <2> QED BY <2>3, <2>4, PlaceNext
<1>10. CASE AsioExit \/ SchedStop \/ UNCHANGED vars
  BY <1>3, <1>10 DEF AsioExit, SchedStop, vars, stealVars
<1> QED BY <1>4, <1>5, <1>7, <1>8, <1>9, <1>10 DEF Next, Step, Finished
-----------------------------------------------------------------------------
(* The invariant. *)

\* No message is on its way when the threads start.
LEMMA InvInit ==
  ASSUME Init
  PROVE  IInv
<1>1. /\ N \in Nat /\ N > 0 /\ 0 \in Thread /\ Main \in Actor /\ NONE \notin Actor
      /\ opt \in Options /\ opt.work \in Nat /\ opt.library \in BOOLEAN
  BY ThreadFacts, SchedulerAssumption DEF Init
<1>2. /\ mq \in Mail /\ \A s \in Thread : mq[s] = <<>> /\ Len(mq[s]) = 0
  BY DEF Init, Mail
<1>3. TypeOK
  <2>1. /\ pc \in [Thread -> Place] /\ actor \in [Thread -> Actor \cup {NONE}]
        /\ got \in [Thread -> Actor \cup {NONE}] /\ last \in [Thread -> Thread]
        /\ terminate \in [Thread -> BOOLEAN] /\ stale \subseteq Thread /\ missed \subseteq Actor
    BY DEF Init, Place
  <2>2. q \in [Thread -> Seq(Actor)] /\ inject \in Seq(Actor)
    <3>1. <<Main>> \in Seq(Actor) /\ <<>> \in Seq(Actor)
      BY <1>1
    <3> QED BY <3>1 DEF Init
  <2>3. /\ blockCount \in 0..N /\ ackToken \in Nat /\ ackCount \in 0..N
        /\ asioStopped \in BOOLEAN /\ detect \in BOOLEAN
        /\ asio \in {"running", "stopping", "exited"}
        /\ noisy \in Nat /\ work \in 0..opt.work /\ opt \in Options
    BY <1>1 DEF Init
  <2> QED BY <1>2, <2>1, <2>2, <2>3 DEF TypeOK, Mail
<1>4. MailInv
  BY <1>2 DEF MailInv, GoodMails
<1>5. \A s \in Thread : \A m : CountIn(mq, s, m) = 0
  BY <1>2, CountToStep DEF CountIn
<1>6. BlockInv
  <2>1. Blocked = {}
    BY DEF Blocked, Init
  <2>2. Cardinality(Blocked) = 0
    BY <2>1, FS_EmptySet
  <2>3. CountTo(mq[0], BLOCK, 0) = 0 /\ CountTo(mq[0], UNBLOCK, 0) = 0
    BY CountToStep
  <2>4. blockCount = 0 /\ Len(mq[0]) = 0
    BY <1>1, <1>2 DEF Init
  <2> QED BY <1>1, <2>2, <2>3, <2>4 DEF BlockInv, Accounted
<1>7. AckInv
  <2>1. AskedSum(mq, ackToken) = 0
    BY <1>2, <1>5, AskedNone
  <2>2. Answers = 0
    BY <1>1, <1>5, <2>1, AnswersIs DEF Init
  <2> QED BY <1>1, <2>2 DEF AckInv, AckAccounting, Init
<1>8. StealInv
  BY DEF StealInv, Init
<1>9. EndInv
  BY DEF EndInv, Init
<1>10. OnePlace
  <2>1. \A s \in Thread : InHand(s) = {}
    BY DEF InHand, Init
  <2>2. Len(inject) = 0 /\ \A s \in Thread : s # 0 => Len(q[s]) = 0
    BY DEF Init
  <2>3. Len(q[0]) = 1
    BY <1>1 DEF Init
  <2> QED BY <2>1, <2>2, <2>3 DEF OnePlace
<1> QED BY <1>3, <1>4, <1>6, <1>7, <1>8, <1>9, <1>10 DEF IInv

\* Every step of every thread keeps it.
LEMMA InvStep ==
  ASSUME IInv, [Next]_vars
  PROVE  IInv'
<1>1. ProtoInv'
  BY ProtoStep
<1>2. TypeOK'
  BY <1>1, TypeStep, TypeFrom DEF IInv
<1>3. StealInv' /\ OnePlace'
  BY StealStep, PlaceStep DEF IInv
<1>4. EndInv'
  BY EndStep
<1> QED BY <1>1, <1>2, <1>3, <1>4 DEF IInv, ProtoInv

\* The messages under way always balance the books of thread 0, a round of
\* confirmations is under way only while all threads are counted as blocked,
\* whoever steals has nothing but what a raced pop hid from it, and while the
\* program ends somebody will look at what was injected (scheduler.c, run,
\* steal and read_msg; mpmcq.c, ponyint_mpmcq_pop).
THEOREM SchedulerInvariance == Spec => []IInv
<1>1. Init => IInv
  BY InvInit
<1>2. IInv /\ [Next]_vars => IInv'
  BY InvStep
<1> QED BY <1>1, <1>2, PTL DEF Spec

\* The state of the threads is well typed; block_count and ack_count stay
\* between zero and scheduler_count (scheduler.c 72-145).
THEOREM SchedulerTypes == Spec => []TypeOK
<1>1. IInv => TypeOK
  BY DEF IInv
<1> QED BY <1>1, SchedulerInvariance, PTL

\* No BLOCK or UNBLOCK is lost or counted twice, whatever the threads steal
\* and however late thread 0 reads (scheduler.c 84, 99, 206, 237).
THEOREM BlocksAreCounted == Spec => []BlockAccounting
<1>1. ASSUME IInv PROVE BlockAccounting
  <2>1. Accounted(mq[0], blockCount, Cardinality(Blocked))
    BY <1>1 DEF IInv, BlockInv
  <2> QED BY <2>1, AnswersIs DEF Accounted, CountIn, BlockAccounting, BLOCK, UNBLOCK
<1> QED BY <1>1, SchedulerInvariance, PTL

\* The answers of the current round are none or one of each thread; those of
\* an older round never complete a newer one (scheduler.c 86-117).
THEOREM AcksAreCounted == Spec => []AckAccounting
<1>1. IInv => AckAccounting
  BY DEF IInv, AckInv
<1> QED BY <1>1, SchedulerInvariance, PTL

\* However the threads steal, an actor is run by one of them at a time and is
\* never queued twice (scheduler.c, run and steal).
THEOREM ActorsInOnePlace == Spec => []OnePlace
<1>1. IInv => OnePlace
  BY DEF IInv
<1> QED BY <1>1, SchedulerInvariance, PTL

\* A thread that ends leaves in its queue at most actors that it has blocked
\* over, when a thief made its pop return NULL, and the last one leaves
\* nothing injected: whatever the threads pop at the same time, one of them
\* sees the inject queue again before it confirms (scheduler.c 153-161,
\* 205-239, 258; mpmcq.c 50-86).
THEOREM ThreadsLeaveNothing == Spec => []NothingLeftAtExit
<1>1. ASSUME IInv PROVE NothingLeftAtExit
  <2>1. ASSUME NEW s \in Thread, pc[s] = "done"
        PROVE  /\ ToSet(q[s]) \subseteq missed /\ actor[s] \in {NONE, CD}
               /\ got[s] = NONE /\ terminate[s] /\ ~Looks(s)
    <3>1. /\ actor[s] \in {NONE, CD} /\ got[s] = NONE /\ terminate[s] /\ s \notin stale
          /\ \A i \in 1 .. Len(q[s]) : q[s][i] \in missed
      BY <1>1, <2>1 DEF IInv, StealInv
    <3>2. q[s] \in Seq(Actor)
      BY <1>1 DEF IInv, TypeOK
    <3>3. DOMAIN q[s] = 1 .. Len(q[s])
      BY <3>2
    <3>4. ToSet(q[s]) \subseteq missed
      BY <3>1, <3>3 DEF ToSet
    <3> QED BY <2>1, <3>1, <3>4 DEF Looks
  <2>2. ASSUME AllDone PROVE inject = <<>> /\ Actor \ (missed \cup {CD}) \subseteq Waiting
    <3>1. \A s \in Thread :
            /\ ToSet(q[s]) \subseteq missed /\ actor[s] \in {NONE, CD}
            /\ got[s] = NONE /\ terminate[s] /\ ~Looks(s)
      BY <2>1, <2>2 DEF AllDone
    <3>2. inject = <<>>
      BY <1>1, <3>1, ThreadFacts DEF IInv, EndInv
    <3>3. ToSet(<<>>) = {}
      BY DEF ToSet
    <3>4. Queued \subseteq missed
      BY <3>1, <3>2, <3>3 DEF Queued
    <3>5. Held \subseteq {NONE, CD}
      BY <3>1 DEF Held
    <3> QED BY <3>2, <3>4, <3>5, SchedulerAssumption DEF Waiting
  <2> QED BY <2>1, <2>2 DEF NothingLeftAtExit
<1> QED BY <1>1, SchedulerInvariance, PTL
-----------------------------------------------------------------------------
(* Closed programs stop only when all threads wait. *)

\* What is sent after the UNBLOCK does not matter.
LEMMA DoomedAppend ==
  ASSUME NEW v \in Seq(MsgSet), NEW x \in MsgSet, NEW k, NEW n \in Nat,
         Doomed(v, k, n)
  PROVE  Doomed(Append(v, x), k, n)
<1>1. PICK i \in 1 .. Len(v) : v[i] = UNBLOCK /\ n + CountTo(v, ACK(k), i) < N
  BY DEF Doomed
<1>2. /\ Len(v) \in Nat /\ Len(Append(v, x)) = Len(v) + 1
      /\ \A j \in 0 .. Len(v) : CountTo(Append(v, x), ACK(k), j) = CountTo(v, ACK(k), j)
  BY CountAppend
<1>3. Append(v, x)[i] = v[i]
  OBVIOUS
<1>4. CountTo(Append(v, x), ACK(k), i) = CountTo(v, ACK(k), i)
  BY <1>2
<1>5. i \in 1 .. Len(Append(v, x))
  BY <1>2
<1> QED BY <1>1, <1>3, <1>4, <1>5 DEF Doomed

\* It comes one step nearer.
LEMMA DoomedTail ==
  ASSUME NEW v \in Seq(MsgSet), v # <<>>, NEW k, NEW n \in Nat,
         Doomed(v, k, n), Head(v) # UNBLOCK
  PROVE  Doomed(Tail(v), k, n + Is(Head(v), ACK(k)))
<1>1. PICK i \in 1 .. Len(v) : v[i] = UNBLOCK /\ n + CountTo(v, ACK(k), i) < N
  BY DEF Doomed
<1>2. /\ Len(v) \in Nat \ {0} /\ Len(Tail(v)) = Len(v) - 1
      /\ \A j \in 0 .. Len(v) - 1 :
           CountTo(v, ACK(k), j + 1) = CountTo(Tail(v), ACK(k), j) + Is(Head(v), ACK(k))
  BY CountTail
<1>3. Head(v) = v[1] /\ \A j \in 1 .. Len(v) - 1 : Tail(v)[j] = v[j + 1]
  OBVIOUS
<1>4. PICK j \in Nat : i = j + 1 /\ j \in 1 .. Len(v) - 1
  BY <1>1, <1>2, <1>3
<1>5. Tail(v)[j] = UNBLOCK /\ j \in 1 .. Len(Tail(v))
  BY <1>1, <1>2, <1>3, <1>4
<1>6. CountTo(v, ACK(k), j + 1) = CountTo(Tail(v), ACK(k), j) + Is(Head(v), ACK(k))
  BY <1>2, <1>4
<1>7. PICK a \in Nat, b \in Nat :
        a = CountTo(Tail(v), ACK(k), j) /\ b = Is(Head(v), ACK(k))
  BY <1>4, CountToStep DEF Is
<1>8. n + (a + b) < N
  BY <1>1, <1>4, <1>6, <1>7
<1>9. (n + b) + a < N
  BY <1>8, ThreadFacts
<1> QED BY <1>5, <1>7, <1>9 DEF Doomed

\* All threads wait, in the words of the property.
LEMMA WaitsIs ==
  (AllWaiting <=> Waits(pc, got)) /\ (AllWaiting' <=> Waits(pc', got'))
BY DEF AllWaiting, Waits, Blocked

\* A full set of acks: nothing is left that could stop the round.
LEMMA FullMeansWaiting ==
  ASSUME IInv, QuietInv, Closed, missed = {},
         NEW s \in Thread, pc[s] \in {"acked", "join"}
  PROVE  Waits(pc, got)
<1>1. s = 0 /\ ackCount = N /\ Answers = N
  BY AckedFacts
<1>2. /\ mq \in Mail /\ ackCount \in Nat /\ N \in Nat /\ mq[0] \in Seq(MsgSet)
  BY ProtoTypes DEF IInv
<1>3. ~Unblocks(pc, mq, ackToken)
  <2>1. SUFFICES ASSUME NEW t \in Thread, CountIn(mq, t, CNF(ackToken)) > 0 PROVE FALSE
    BY DEF Unblocks, CountIn
  <2>2. /\ ackCount + CountIn(mq, 0, ACK(ackToken)) + CountIn(mq, t, CNF(ackToken)) <= N
        /\ CountIn(mq, 0, ACK(ackToken)) \in Nat /\ CountIn(mq, t, CNF(ackToken)) \in Nat
    BY <1>1, <1>2, AnsweredIs, AnsweredType
  <2> QED BY <1>1, <1>2, <2>1, <2>2
<1>4. ~Doomed(mq[0], ackToken, ackCount)
  <2>1. SUFFICES ASSUME NEW i \in 1 .. Len(mq[0]),
                        ackCount + CountTo(mq[0], ACK(ackToken), i) < N
                 PROVE  FALSE
    BY DEF Doomed
  <2>2. CountTo(mq[0], ACK(ackToken), i) \in Nat
    BY CountToStep
  <2> QED BY <1>1, <1>2, <2>1, <2>2
<1> QED BY <1>1, <1>3, <1>4 DEF QuietInv, Settled

\* Steps that send and read no message.
LEMMA SettledPlain ==
  ASSUME NEW p, NEW g, NEW r, NEW h, NEW w, NEW k, NEW n, Settled(p, g, w, k, n),
         Waits(p, g) => Waits(r, h), \A t \in Thread : p[t] = "unblock" => r[t] = "unblock"
  PROVE  Settled(r, h, w, k, n)
BY DEF Settled, Unblocks

\* Steps that send a message to thread 0.
LEMMA SettledPost ==
  ASSUME NEW p, NEW g, NEW w \in Mail, NEW k, NEW n \in Nat, Settled(p, g, w, k, n),
         NEW x \in MsgSet
  PROVE  Settled(p, g, [w EXCEPT ![0] = Append(@, x)], k, n)
<1>1. PICK u : u = [w EXCEPT ![0] = Append(@, x)]
  OBVIOUS
<1>2. /\ u \in Mail
      /\ \A t \in Thread : \A m : CountIn(u, t, m)
           = CountIn(w, t, m) + (IF t = 0 THEN Is(x, m) ELSE 0)
  BY <1>1, MailPost
<1>3. w[0] \in Seq(MsgSet) /\ u[0] = Append(w[0], x)
  BY <1>1, ThreadFacts DEF Mail
<1>4. CASE Waits(p, g)
  BY <1>1, <1>4 DEF Settled
<1>5. CASE Unblocks(p, w, k)
  <2>1. PICK s \in Thread : p[s] = "unblock" /\ CountIn(w, s, CNF(k)) > 0
    BY <1>5 DEF Unblocks, CountIn
  <2>2. CountIn(u, s, CNF(k)) > 0
    <3>1. CountIn(u, s, CNF(k)) = CountIn(w, s, CNF(k)) + (IF s = 0 THEN Is(x, CNF(k)) ELSE 0)
      BY <1>2
    <3>2. PICK a \in Nat, b \in Nat :
            a = CountIn(w, s, CNF(k)) /\ b = IF s = 0 THEN Is(x, CNF(k)) ELSE 0
      BY CountInType DEF Is
    <3>3. a + b > 0
      BY <2>1, <3>2
    <3> QED BY <3>1, <3>2, <3>3
  <2> QED BY <1>1, <2>1, <2>2 DEF Settled, Unblocks, CountIn
<1>6. CASE Doomed(w[0], k, n)
  BY <1>1, <1>3, <1>6, DoomedAppend DEF Settled
<1> QED BY <1>4, <1>5, <1>6 DEF Settled

\* Steps that read a message other than UNBLOCK; a thread that reads has found
\* no actor.
LEMMA SettledPop ==
  ASSUME NEW p, NEW g, NEW w \in Mail, NEW k, NEW n \in Nat, Settled(p, g, w, k, n),
         NEW s \in Thread, w[s] # <<>>, p[s] # "unblock",
         s = 0 => Head(w[s]) # UNBLOCK
  PROVE  Settled(p, g, [w EXCEPT ![s] = Tail(@)], k,
                 n + (IF s = 0 THEN Is(Head(w[s]), ACK(k)) ELSE 0))
<1>1. PICK u : u = [w EXCEPT ![s] = Tail(@)]
  OBVIOUS
<1>2. w[s] \in Seq(MsgSet) /\ u[s] = Tail(w[s]) /\ \A t \in Thread : t # s => u[t] = w[t]
  BY <1>1 DEF Mail
<1>3. CASE Waits(p, g)
  BY <1>3 DEF Settled
<1>4. CASE Unblocks(p, w, k)
  <2>1. PICK t \in Thread : p[t] = "unblock" /\ CountTo(w[t], CNF(k), Len(w[t])) > 0
    BY <1>4 DEF Unblocks
  <2>2. u[t] = w[t]
    BY <1>2, <2>1
  <2> QED BY <1>1, <2>1, <2>2 DEF Settled, Unblocks
<1>5. CASE Doomed(w[0], k, n) /\ s = 0
  BY <1>1, <1>2, <1>5, DoomedTail DEF Settled
<1>6. CASE Doomed(w[0], k, n) /\ s # 0
  <2>1. u[0] = w[0] /\ n + 0 = n
    BY <1>2, <1>6, ThreadFacts
  <2> QED BY <1>1, <1>6, <2>1 DEF Settled
<1> QED BY <1>3, <1>4, <1>5, <1>6 DEF Settled
\* read_msg makes the count of blocked threads complete and asks everybody: if
\* no UNBLOCK is on its way all threads are blocked indeed.
LEMMA SettledRound ==
  ASSUME NEW w \in Mail, NEW k \in Nat, NEW p, NEW g, NEW B \in SUBSET Thread,
         B = {s \in Thread : p[s] \notin Free},
         \A s \in Thread : g[s] # NONE => p[s] = "unblock",
         Accounted(w[0], N, Cardinality(B)), Answered(w, k, 0) = 0
  PROVE  Settled(p, g, ToAll(w, "CNF", k), k, 0)
<1>0. w[0] \in Seq(MsgSet) /\ N \in Nat /\ N > 0 /\ 0 \in Thread
  BY ThreadFacts DEF Mail
<1>1. PICK u : u = ToAll(w, "CNF", k)
  OBVIOUS
<1>2. \A s \in Thread : u[s] = Append(w[s], CNF(k))
  BY <1>1 DEF ToAll, CNF
<1>3. PICK v : v = w[0]
  OBVIOUS
<1>4. v \in Seq(MsgSet) /\ Len(v) \in Nat
  BY <1>0, <1>3
<1>5. CASE \E i \in 1 .. Len(v) : v[i] = UNBLOCK
  <2>1. PICK i \in 1 .. Len(v) : v[i] = UNBLOCK
    BY <1>5
  <2>2. u[0] = Append(v, CNF(k))
    BY <1>0, <1>2, <1>3
  <2>3. i \in 1 .. Len(Append(v, CNF(k))) /\ Append(v, CNF(k))[i] = UNBLOCK
    BY <1>4, <2>1
  <2>4. CountTo(v, ACK(k), i) = 0
    <3>1. CountIn(w, 0, ACK(k)) = 0
      <4>1. PICK a \in Nat : a = CountIn(w, 0, ACK(k))
        BY AnsweredType, <1>0
      <4>2. 0 + a <= 0
        BY <4>1, AnsweredType, <1>0
      <4> QED BY <4>1, <4>2
    <3>2. \A j \in 1 .. Len(v) : v[j] # ACK(k)
      <4>1. SUFFICES ASSUME NEW j \in 1 .. Len(v), v[j] = ACK(k) PROVE FALSE
        OBVIOUS
      <4>2. PICK S : S = {l \in 1 .. Len(v) : v[l] = ACK(k)}
        OBVIOUS
      <4>3. Cardinality(S) = 0
        BY <1>3, <3>1, <4>2 DEF CountIn, CountTo
      <4>4. IsFiniteSet(1 .. Len(v))
        BY <1>4, FS_Interval
      <4>5. S \in SUBSET (1 .. Len(v))
        BY <4>2
      <4>6. IsFiniteSet(S)
        BY <4>4, <4>5, FS_Subset
      <4>7. S = {}
        BY <4>3, <4>6, FS_EmptySet
      <4> QED BY <4>1, <4>2, <4>7
    <3> QED BY <1>4, <3>2, CountNone
  <2>5. CountTo(Append(v, CNF(k)), ACK(k), i) = CountTo(v, ACK(k), i)
    <3>1. i \in Nat /\ \A j \in 1 .. i : Append(v, CNF(k))[j] = v[j]
      BY <1>4, <2>1
    <3> QED BY <3>1, CountToSame
  <2>6. Doomed(u[0], k, 0)
    BY <1>0, <2>2, <2>3, <2>4, <2>5 DEF Doomed
  <2> QED BY <1>1, <2>6 DEF Settled
<1>6. CASE \A i \in 1 .. Len(v) : v[i] # UNBLOCK
  <2>1. B = Thread
    <3>1. CountTo(v, UNBLOCK, Len(v)) = 0 /\ CountTo(v, BLOCK, Len(v)) \in Nat
      BY <1>4, <1>6, CountNone, CountToStep
    <3>2. /\ N + CountTo(v, BLOCK, Len(v)) = Cardinality(B) + CountTo(v, UNBLOCK, Len(v))
      BY <1>3 DEF Accounted
    <3>3. Cardinality(B) \in Nat /\ Cardinality(B) <= Cardinality(Thread)
          /\ (Cardinality(Thread) = Cardinality(B) => Thread = B)
      BY ThreadFacts, FS_Subset, FS_CardinalityType
    <3> QED BY <1>0, <3>1, <3>2, <3>3, ThreadFacts
  <2>2. CASE \A s \in Thread : g[s] = NONE
    BY <1>1, <2>1, <2>2 DEF Settled, Waits, Free
  <2>3. CASE \E s \in Thread : g[s] # NONE
    <3>1. PICK s \in Thread : p[s] = "unblock"
      BY <2>3
    <3>2. CountIn(u, s, CNF(k)) = 1
      <4>1. u = [t \in Thread |-> Append(w[t], CNF(k))]
        BY <1>1 DEF ToAll, CNF
      <4>2. CNF(k) # ACK(k)
        BY DEF CNF, ACK, Msg
      <4>3. CNF(k) \in MsgSet
        BY DEF CNF, Msg, MsgSet
      <4> QED BY <4>1, <4>2, <4>3, AnsweredPostAll
    <3> QED BY <1>1, <3>1, <3>2 DEF Settled, Unblocks, CountIn
  <2> QED BY <2>2, <2>3
<1> QED BY <1>5, <1>6
\* read_msg, every case.
LEMMA SettledRead ==
  ASSUME IInv, QuietInv, Closed, missed = {}, NEW s \in Thread, ReadMsg(s), Answers' = N
  PROVE  Settled(pc', got', mq', ackToken', ackCount')
<1>1. PICK m, w : m = Head(mq[s]) /\ w = [mq EXCEPT ![s] = Tail(@)]
  OBVIOUS
<1>2. /\ pc[s] = "read" /\ Reads(s, m, w) /\ mq[s] # <<>>
      /\ pc' = pc /\ got' = got
  BY <1>1 DEF ReadMsg, Reads, stealVars
<1>3. \/ m.type = "BLOCK" /\ OnBlock(w)
      \/ m.type = "UNBLOCK" /\ OnUnblock(w)
      \/ m.type = "CNF" /\ OnCnf(w, m.arg)
      \/ m.type = "ACK" /\ OnAck(w, m.arg)
      \/ m.type = "TERMINATE" /\ OnTerminate(w, s)
  BY <1>1 DEF ReadMsg
<1>4. /\ w \in Mail /\ m \in MsgSet /\ w[0] \in Seq(MsgSet)
      /\ GoodMail(s, m, ackToken, detect, asioStopped)
      /\ GoodMails(w, ackToken, detect, asioStopped)
  BY <1>2, ReadFacts
<1>5. /\ mq \in Mail /\ ackToken \in Nat /\ ackCount \in Nat /\ blockCount \in Nat /\ N \in Nat
      /\ N # 0
  BY ProtoTypes, ThreadFacts DEF IInv
<1>6. Answers = Answered(w, ackToken, ackCount)
        + (IF s = 0 THEN Is(m, ACK(ackToken)) ELSE 0) + Is(m, CNF(ackToken))
  BY <1>2, ReadFacts
<1>7. Answers \in {0, N} /\ (Answers = N => blockCount = N)
  BY DEF IInv, AckInv, AckAccounting
<1>8. Answered(w, ackToken, ackCount) \in Nat
  BY <1>4, <1>5, AnsweredType
<1>9. Answers = N => Settled(pc, got, mq, ackToken, ackCount)
  BY DEF QuietInv
<1>10. ASSUME Answers = N, s = 0 => m # UNBLOCK
       PROVE  Settled(pc, got, w, ackToken,
                ackCount + (IF s = 0 THEN Is(m, ACK(ackToken)) ELSE 0))
  BY <1>1, <1>2, <1>5, <1>9, <1>10, SettledPop
<1>11. m.type \in {"BLOCK", "UNBLOCK", "ACK"} => s = 0
  BY <1>4 DEF GoodMail
<1>12. CASE m.type = "BLOCK" /\ OnBlock(w)
  <2>1. /\ s = 0 /\ m # UNBLOCK /\ Is(m, ACK(ackToken)) = 0 /\ Is(m, CNF(ackToken)) = 0
    BY <1>11, <1>12 DEF Is, UNBLOCK, ACK, CNF, Msg
  <2>2. /\ ackToken' = ackToken /\ ackCount' = ackCount
    BY <1>12 DEF OnBlock
  <2>3. Answers = Answered(w, ackToken, ackCount)
    BY <1>6, <1>8, <2>1
  <2>4. CASE detect /\ blockCount + 1 = N
    <3>1. mq' = ToAll(w, "CNF", ackToken)
      BY <1>12, <2>4 DEF OnBlock
    <3>2. blockCount # N
      BY <1>5, <2>4
    <3>3. Answered(w, ackToken, ackCount) = 0 /\ ackCount = 0
      <4>1. Answered(w, ackToken, ackCount) = 0
        BY <1>7, <2>3, <3>2
      <4>2. PICK a \in Nat : a = CountIn(w, 0, ACK(ackToken)) /\ ackCount + a <= 0
        BY <1>4, <1>5, <4>1, AnsweredType
      <4> QED BY <1>5, <4>1, <4>2
    <3>4. /\ Blocked \in SUBSET Thread
          /\ Blocked = {t \in Thread : pc[t] \notin Free}
          /\ \A t \in Thread : got[t] # NONE => pc[t] = "unblock"
      BY DEF IInv, StealInv, Blocked, Free
    <3>5. Accounted(w[0], N, Cardinality(Blocked))
      <4>1. m = BLOCK
        <5>1. m.arg = 0
          BY <1>4, <1>12 DEF GoodMail
        <5> QED BY <1>4, <1>12, <5>1 DEF MsgSet, BLOCK, Msg
      <4>2. Is(m, BLOCK) = 1 /\ Is(m, UNBLOCK) = 0
        BY <2>1, <4>1 DEF Is
      <4>3. Accounted(w[0], blockCount + Is(m, BLOCK) - Is(m, UNBLOCK), Cardinality(Blocked))
        BY <1>2, ReadFacts
      <4>4. blockCount + Is(m, BLOCK) - Is(m, UNBLOCK) = N
        BY <1>5, <2>4, <4>2
      <4> QED BY <4>3, <4>4
    <3>6. Settled(pc, got, ToAll(w, "CNF", ackToken), ackToken, 0)
      BY <1>4, <1>5, <3>3, <3>4, <3>5, SettledRound
    <3> QED BY <1>2, <2>2, <3>1, <3>3, <3>6
  <2>5. CASE ~(detect /\ blockCount + 1 = N)
    <3>1. mq' = w
      BY <1>12, <2>5 DEF OnBlock
    <3>2. Answers = N
      BY <2>2, <2>3, <3>1, AnsweredNext
    <3>3. Settled(pc, got, w, ackToken, ackCount + 0)
      BY <1>10, <2>1, <3>2
    <3> QED BY <1>2, <1>5, <2>2, <3>1, <3>3
  <2> QED BY <2>4, <2>5
<1>13. CASE m.type = "UNBLOCK" /\ OnUnblock(w)
  <2>1. mq' = w /\ ackToken' = ackToken + 1 /\ ackCount' = 0
    BY <1>13 DEF OnUnblock
  <2>2. PICK j \in Nat : j = ackToken + 1 /\ ackToken < j
    BY <1>5
  <2>3. Answered(w, j, 0) = 0
    BY <1>4, <1>5, <2>2, AnsweredFresh
  <2>4. Answers' = 0
    BY <2>1, <2>2, <2>3, AnsweredNext
  <2> QED BY <1>5, <2>4
<1>14. CASE m.type = "CNF" /\ OnCnf(w, m.arg)
  <2>1. /\ mq' = [w EXCEPT ![0] = Append(@, ACK(m.arg))]
        /\ ackToken' = ackToken /\ ackCount' = ackCount
    BY <1>14 DEF OnCnf, ACK
  <2>2. m # UNBLOCK /\ Is(m, ACK(ackToken)) = 0
    BY <1>14 DEF Is, UNBLOCK, ACK, Msg
  <2>3. ACK(m.arg) \in MsgSet /\ ACK(m.arg) # CNF(ackToken)
    BY <1>4 DEF MsgSet, ACK, CNF, Msg
  <2>4. Is(m, CNF(ackToken)) = Is(ACK(m.arg), ACK(ackToken))
    <3>1. m = CNF(ackToken) <=> m.arg = ackToken
      BY <1>4, <1>14 DEF MsgSet, CNF, Msg
    <3>2. ACK(m.arg) = ACK(ackToken) <=> m.arg = ackToken
      BY DEF ACK, Msg
    <3> QED BY <3>1, <3>2 DEF Is
  <2>5. Answered(mq', ackToken, ackCount)
          = Answered(w, ackToken, ackCount) + Is(ACK(m.arg), ACK(ackToken))
    BY <1>4, <1>5, <2>1, <2>3, AnsweredPost
  <2>6. Answers = N
    <3>1. PICK a \in Nat, b \in Nat :
            a = Answered(w, ackToken, ackCount) /\ b = Is(m, CNF(ackToken))
      BY <1>8 DEF Is
    <3>2. Answers = a + 0 + b
      BY <1>6, <2>2, <3>1
    <3>3. Answers' = a + b
      BY <2>1, <2>4, <2>5, <3>1, AnsweredNext
    <3> QED BY <3>2, <3>3
  <2>7. Settled(pc, got, w, ackToken, ackCount + 0)
    BY <1>10, <2>2, <2>6
  <2>8. Settled(pc, got, w, ackToken, ackCount)
    BY <1>5, <2>7
  <2>9. Settled(pc, got, mq', ackToken, ackCount)
    BY <1>4, <1>5, <2>1, <2>3, <2>8, SettledPost
  <2> QED BY <1>2, <2>1, <2>9
<1>15. CASE m.type = "ACK" /\ OnAck(w, m.arg)
  <2>1. /\ mq' = w /\ ackToken' = ackToken
        /\ ackCount' = IF m.arg = ackToken THEN ackCount + 1 ELSE ackCount
    BY <1>15 DEF OnAck
  <2>2. s = 0 /\ m # UNBLOCK /\ Is(m, CNF(ackToken)) = 0
    BY <1>11, <1>15 DEF Is, UNBLOCK, CNF, Msg
  <2>3. ackCount' = ackCount + Is(m, ACK(ackToken)) /\ Is(m, ACK(ackToken)) \in Nat
    <3>1. m = ACK(ackToken) <=> m.arg = ackToken
      BY <1>4, <1>15 DEF MsgSet, ACK, Msg
    <3> QED BY <1>5, <2>1, <3>1 DEF Is
  <2>4. Answers = N
    <3>1. PICK a \in Nat, b \in Nat, c \in Nat :
            /\ a = CountIn(w, 0, ACK(ackToken)) /\ b = AskedSum(w, ackToken)
            /\ c = Is(m, ACK(ackToken))
      BY <1>4, <2>3, ThreadFacts, CountInType, AskedType
    <3>2. Answers = (ackCount + a + b) + c + 0
      BY <1>6, <2>2, <3>1 DEF Answered
    <3>3. Answers' = (ackCount + c) + a + b
      BY <2>1, <2>3, <3>1, AnsweredNext DEF Answered
    <3> QED BY <1>5, <3>2, <3>3
  <2>5. Settled(pc, got, w, ackToken, ackCount + Is(m, ACK(ackToken)))
    BY <1>10, <2>2, <2>4
  <2> QED BY <1>2, <2>1, <2>3, <2>5
<1>16. CASE m.type = "TERMINATE" /\ OnTerminate(w, s)
  <2>1. mq' = w /\ ackToken' = ackToken /\ ackCount' = ackCount
    BY <1>16 DEF OnTerminate
  <2>2. m # UNBLOCK /\ Is(m, ACK(ackToken)) = 0 /\ Is(m, CNF(ackToken)) = 0
    BY <1>16 DEF Is, UNBLOCK, ACK, CNF, Msg
  <2>3. Answers = N
    BY <1>6, <1>8, <2>1, <2>2, AnsweredNext
  <2>4. Settled(pc, got, w, ackToken, ackCount + 0)
    BY <1>10, <2>2, <2>3
  <2> QED BY <1>2, <1>5, <2>1, <2>4
<1> QED BY <1>3, <1>12, <1>13, <1>14, <1>15, <1>16
\* The elements of a queue after a push and after a pop.
LEMMA KeepsOut ==
  ASSUME NEW v \in Seq(Actor), NEW c, \A i \in 1 .. Len(v) : v[i] # c
  PROVE  /\ \A a \in Actor : a # c =>
              \A i \in 1 .. Len(Append(v, a)) : Append(v, a)[i] # c
         /\ v # <<>> => /\ Head(v) # c
                        /\ \A i \in 1 .. Len(Tail(v)) : Tail(v)[i] # c
<1>1. ASSUME NEW a \in Actor, a # c, NEW i \in 1 .. Len(Append(v, a))
      PROVE  Append(v, a)[i] # c
  BY <1>1, AppendFacts
<1>2. ASSUME v # <<>>
      PROVE  /\ Head(v) # c
             /\ \A i \in 1 .. Len(Tail(v)) : Tail(v)[i] # c
  BY <1>2, TailFacts
<1> QED BY <1>1, <1>2

\* Take
LEMMA TakeClear ==
  ASSUME TypeOK, NoDetector, NEW s \in Thread, NEW a \in Actor, a # CD,
         NEW w \in [Thread -> Seq(Actor)],
         \A t \in Thread : \A i \in 1 .. Len(w[t]) : w[t][i] # CD,
         Take(s, a, w), got' = got
  PROVE  NoDetector'
<1>1. /\ actor \in [Thread -> Actor \cup {NONE}]
      /\ actor' = [actor EXCEPT ![s] = a]
      /\ q' = IF actor[s] = NONE THEN w ELSE [w EXCEPT ![s] = Append(@, actor[s])]
  BY DEF TypeOK, Take
<1>2. actor[s] # NONE =>
        \A i \in 1 .. Len(Append(w[s], actor[s])) : Append(w[s], actor[s])[i] # CD
  BY <1>1, KeepsOut DEF NoDetector
<1>3. \A t \in Thread : \A i \in 1 .. Len(q'[t]) : q'[t][i] # CD
  BY <1>1, <1>2
<1> QED BY <1>1, <1>3 DEF NoDetector

\* Without events and foreign threads nothing is injected; without block
\* messages nobody wakes the cycle detector.
LEMMA ClearStep ==
  ASSUME IInv, QuietInv, Closed, [Next]_vars
  PROVE  inject' = <<>> /\ NoDetector'
<1>0. /\ actor \in [Thread -> Actor \cup {NONE}] /\ got \in [Thread -> Actor \cup {NONE}]
      /\ q \in [Thread -> Seq(Actor)] /\ last \in [Thread -> Thread]
      /\ NONE \notin Actor /\ CD \in Actor /\ inject = <<>> /\ NoDetector
      /\ TypeOK /\ StealInv
  BY SchedulerAssumption DEF IInv, TypeOK, QuietInv
<1>1. ASSUME UNCHANGED <<inject, actor, got, q>> PROVE inject' = <<>> /\ NoDetector'
  BY <1>0, <1>1 DEF NoDetector
<1>2. ASSUME NEW s \in Thread, Run(s) PROVE inject' = <<>> /\ NoDetector'
  <2>1. CASE RunWake(s)
    <3>1. PICK a \in Actor : a # CD /\ q' = [q EXCEPT ![s] = Append(@, a)]
      BY <2>1 DEF RunWake, Wakeable, Waiting, Closed
    <3>2. \A i \in 1 .. Len(Append(q[s], a)) : Append(q[s], a)[i] # CD
      BY <1>0, <3>1, KeepsOut DEF NoDetector
    <3>3. UNCHANGED <<actor, got, inject>>
      BY <2>1 DEF RunWake, stealVars
    <3> QED BY <1>0, <3>1, <3>2, <3>3 DEF NoDetector
  <2>2. CASE RunNoisy(s)
    BY <1>1, <2>2 DEF RunNoisy, stealVars
  <2>3. CASE RunReturn(s)
    BY <1>0, <2>3 DEF RunReturn, stealVars, NoDetector
  <2> QED BY <1>2, <2>1, <2>2, <2>3 DEF Run
<1>3. ASSUME NEW s \in Thread, Find(s) PROVE inject' = <<>> /\ NoDetector'
  <2>1. CASE NextInject(s)
    BY <1>0, <1>1, <2>1 DEF NextInject, InjectPop
  <2>2. CASE NextLocal(s) /\ q[s] # <<>>
          /\ \E w : w = [q EXCEPT ![s] = Tail(@)] /\ Take(s, Head(q[s]), w)
    <3>1. PICK w : w = [q EXCEPT ![s] = Tail(@)] /\ Take(s, Head(q[s]), w)
      BY <2>2
    <3>2. Take(s, Head(q[s]), w) /\ got' = got /\ inject' = inject
      BY <2>2, <3>1 DEF NextLocal
    <3>3. /\ Head(q[s]) # CD
          /\ \A i \in 1 .. Len(Tail(q[s])) : Tail(q[s])[i] # CD
          /\ Head(q[s]) \in Actor /\ Tail(q[s]) \in Seq(Actor)
      BY <1>0, <2>2, KeepsOut, QueueTypes DEF NoDetector
    <3>4. /\ w \in [Thread -> Seq(Actor)]
          /\ \A t \in Thread : \A i \in 1 .. Len(w[t]) : w[t][i] # CD
      BY <1>0, <3>1, <3>3 DEF NoDetector
    <3> QED BY <1>0, <3>2, <3>3, <3>4, TakeClear
  <2>3. CASE NextLocal(s) /\ UNCHANGED <<actor, q>>
    BY <1>1, <2>3 DEF NextLocal
  <2> QED BY <1>0, <1>3, <2>1, <2>2, <2>3, NextLocalOutcomes DEF Find
<1>4. ASSUME NEW s \in Thread, Steal(s) PROVE inject' = <<>> /\ NoDetector'
  <2>1. CASE StealBlock(s)
    BY <1>1, <2>1 DEF StealBlock, stealVars
  <2>2. CASE StealInject(s)
    BY <1>0, <1>1, <2>2 DEF StealInject, InjectPop
  <2>3. CASE StealVictim(s)
    <3>1. PICK v \in Thread : v = last[s]
      BY <1>0
    <3>2. CASE UNCHANGED <<got, q>>
      BY <1>1, <2>3, <3>2 DEF StealVictim
    <3>3. CASE /\ q[v] # <<>> /\ got' = [got EXCEPT ![s] = Head(q[v])]
               /\ q' = [q EXCEPT ![v] = Tail(@)]
      <4>1. /\ got' = [got EXCEPT ![s] = Head(q[v])]
            /\ q' = [q EXCEPT ![v] = Tail(@)] /\ UNCHANGED <<actor, inject>>
        BY <2>3, <3>3 DEF StealVictim
      <4>2. Head(q[v]) # CD /\ \A i \in 1 .. Len(Tail(q[v])) : Tail(q[v])[i] # CD
        BY <1>0, <3>3, KeepsOut DEF NoDetector
      <4> QED BY <1>0, <4>1, <4>2 DEF NoDetector
    <3> QED BY <1>0, <2>3, <3>1, <3>2, <3>3, StealVictimOutcomes
  <2>4. CASE StealExpire(s)
    BY <1>0, <2>4 DEF StealExpire, StealInv, NoDetector
  <2>5. CASE StealUnblock(s)
    <3>1. actor[s] = NONE
      BY <1>0, <2>5 DEF StealUnblock, StealInv, NoDetector
    <3> QED BY <1>0, <2>5, <3>1 DEF StealUnblock, NoDetector
  <2> QED BY <1>4, <2>1, <2>2, <2>3, <2>4, <2>5 DEF Steal
<1>5. ASSUME NEW s \in Thread, Quiescent(s) PROVE inject' = <<>> /\ NoDetector'
  BY <1>1, <1>5 DEF Quiescent, ReadMsg, ReadEnd, Terminate, AsioStop, AsioJoin, stealVars
<1>6. ~AsioSend /\ ~ForeignSend
  BY DEF AsioSend, ForeignSend, Closed
<1>7. CASE AsioExit \/ SchedStop \/ UNCHANGED vars
  BY <1>1, <1>7 DEF AsioExit, SchedStop, vars, stealVars
<1> QED BY <1>2, <1>3, <1>4, <1>5, <1>6, <1>7 DEF Next, Step, Finished

\* What was missed once stays in the history.
LEMMA MissedGrows ==
  ASSUME [Next]_vars
  PROVE  missed \subseteq missed'
<1>1. ASSUME NEW s \in Thread, Run(s) \/ Quiescent(s) PROVE missed \subseteq missed'
  BY <1>1 DEF Run, RunWake, RunNoisy, RunReturn, Quiescent, ReadMsg, ReadEnd, Terminate,
              AsioStop, AsioJoin, stealVars
<1>2. ASSUME NEW s \in Thread, Find(s) \/ Steal(s) PROVE missed \subseteq missed'
  BY <1>2 DEF Find, NextInject, NextLocal, Steal, StealBlock, StealInject, StealVictim,
              StealExpire, StealUnblock, stealVars
<1>3. CASE AsioSend \/ AsioExit \/ ForeignSend \/ SchedStop \/ UNCHANGED vars
  BY <1>3 DEF AsioSend, AsioExit, ForeignSend, SchedStop, vars, stealVars
<1> QED BY <1>1, <1>2, <1>3 DEF Next, Step, Finished

\* Every step keeps what settles a round, as long as no thread has blocked
\* over an actor: then a thread that waits has an empty queue.
LEMMA SettledStep ==
  ASSUME IInv, QuietInv, Closed, [Next]_vars, missed' = {}, Answers' = N
  PROVE  Settled(pc', got', mq', ackToken', ackCount')
<1>0. /\ pc \in [Thread -> Place] /\ got \in [Thread -> Actor \cup {NONE}]
      /\ last \in [Thread -> Thread] /\ NONE \notin Actor /\ inject = <<>>
      /\ NoDetector /\ StealInv /\ mq \in Mail /\ ackToken \in Nat /\ ackCount \in Nat
      /\ N \in Nat /\ N # 0 /\ TypeOK
  BY SchedulerAssumption, ProtoTypes, ThreadFacts DEF IInv, TypeOK, QuietInv
<1>11. missed = {}
  BY MissedGrows
<1>1. Answers = N => Settled(pc, got, mq, ackToken, ackCount)
  BY <1>11 DEF QuietInv
<1>2. ASSUME UNCHANGED <<mq, ackToken, ackCount>>, Waits(pc, got) => Waits(pc', got'),
             \A t \in Thread : pc[t] = "unblock" => pc'[t] = "unblock"
      PROVE  Settled(pc', got', mq', ackToken', ackCount')
  <2>1. Answers = N
    BY <1>2, AnsweredIs, AnsweredNext
  <2>2. Settled(pc', got', mq, ackToken, ackCount)
    BY <1>1, <1>2, <2>1, SettledPlain
  <2> QED BY <1>2, <2>2
<1>3. ASSUME NEW s \in Thread, NEW p, Goto(s, p), got' = got, pc[s] # "unblock",
             UNCHANGED <<mq, ackToken, ackCount>>, pc[s] \in Free \/ p \notin Free
      PROVE  Settled(pc', got', mq', ackToken', ackCount')
  <2>1. pc'[s] = p /\ \A t \in Thread : t # s => pc'[t] = pc[t]
    BY <1>0, <1>3 DEF Goto
  <2>2. Waits(pc, got) => Waits(pc', got')
    BY <1>3, <2>1 DEF Waits, Free
  <2> QED BY <1>2, <1>3, <2>1, <2>2
<1>4. ASSUME NEW s \in Thread, Run(s)
      PROVE  Settled(pc', got', mq', ackToken', ackCount')
  <2>1. CASE RunWake(s) \/ RunNoisy(s)
    BY <1>2, <2>1 DEF RunWake, RunNoisy, stealVars, protoVars
  <2>2. CASE RunReturn(s)
    BY <1>3, <2>2 DEF RunReturn, stealVars, protoVars, Free
  <2> QED BY <1>4, <2>1, <2>2 DEF Run
<1>5. ASSUME NEW s \in Thread, Find(s)
      PROVE  Settled(pc', got', mq', ackToken', ackCount')
  <2>1. PICK p : Goto(s, p)
    BY <1>5 DEF Find, NextInject, NextLocal, Take
  <2>2. /\ pc[s] \in Free /\ pc[s] # "unblock" /\ got' = got
        /\ UNCHANGED <<mq, ackToken, ackCount>>
    BY <1>5 DEF Find, NextInject, NextLocal, Free, protoVars
  <2> QED BY <1>3, <2>1, <2>2
<1>6. ASSUME NEW s \in Thread, NEW x \in {BLOCK, UNBLOCK},
             mq' = [mq EXCEPT ![0] = Append(@, x)], UNCHANGED <<ackToken, ackCount>>
      PROVE  Answers = N /\ x \in MsgSet
  <2>1. x \in MsgSet /\ x # CNF(ackToken) /\ Is(x, ACK(ackToken)) = 0
    BY DEF MsgSet, BLOCK, UNBLOCK, CNF, ACK, Msg, Is
  <2>2. Answered(mq', ackToken, ackCount) = Answered(mq, ackToken, ackCount) + 0
    BY <1>0, <1>6, <2>1, AnsweredPost
  <2>3. Answered(mq, ackToken, ackCount) \in Nat
    BY <1>0, AnsweredType
  <2> QED BY <1>6, <2>1, <2>2, <2>3, AnsweredIs, AnsweredNext
<1>7. ASSUME NEW s \in Thread, Steal(s)
      PROVE  Settled(pc', got', mq', ackToken', ackCount')
  <2>1. CASE StealBlock(s)
    <3>1. /\ pc[s] = "block" /\ Goto(s, "steal") /\ got' = got
          /\ mq' = [mq EXCEPT ![0] = Append(@, BLOCK)]
          /\ UNCHANGED <<ackToken, ackCount>>
      BY <2>1 DEF StealBlock, SendTo0, BLOCK, stealVars
    <3>2. Answers = N /\ BLOCK \in MsgSet
      BY <1>6, <3>1
    <3>3. Settled(pc, got, mq', ackToken, ackCount)
      BY <1>0, <1>1, <3>1, <3>2, SettledPost
    <3>4. ~Waits(pc, got)
      BY <3>1 DEF Waits
    <3>5. \A t \in Thread : pc[t] = "unblock" => pc'[t] = "unblock"
      BY <1>0, <3>1 DEF Goto
    <3>6. Settled(pc', got', mq', ackToken, ackCount)
      BY <3>3, <3>4, <3>5, SettledPlain
    <3> QED BY <3>1, <3>6
  <2>2. CASE StealInject(s)
    <3>1. Goto(s, "stealVictim") /\ got' = got /\ pc[s] = "steal"
          /\ UNCHANGED <<mq, ackToken, ackCount>>
      BY <1>0, <2>2 DEF StealInject, InjectPop, protoVars
    <3> QED BY <1>3, <3>1 DEF Free
  <2>3. CASE StealVictim(s)
    <3>1. PICK v \in Thread : v = last[s]
      BY <1>0
    <3>2. pc[s] = "stealVictim" /\ UNCHANGED <<mq, ackToken, ackCount>>
      BY <2>3 DEF StealVictim, protoVars
    <3>3. CASE Goto(s, "read") /\ UNCHANGED <<got, q>>
      BY <1>3, <3>2, <3>3 DEF Free
    <3>4. CASE q[v] # <<>> /\ Goto(s, "unblock")
      <4>1. ~Waits(pc, got)
        <5>1. SUFFICES ASSUME Waits(pc, got) PROVE FALSE
          OBVIOUS
        <5>2. \A i \in 1 .. Len(q[v]) : q[v][i] \in {}
          BY <1>0, <1>11, <5>1 DEF StealInv, Waits
        <5>3. q[v] \in Seq(Actor)
          BY <1>0 DEF TypeOK
        <5>4. Len(q[v]) \in Nat /\ 1 \notin 1 .. Len(q[v])
          BY <5>2, <5>3
        <5> QED BY <3>4, <5>3, <5>4
      <4>2. \A t \in Thread : pc[t] = "unblock" => pc'[t] = "unblock"
        BY <1>0, <3>4 DEF Goto
      <4> QED BY <1>2, <3>2, <4>1, <4>2
    <3> QED BY <1>0, <2>3, <3>1, <3>3, <3>4, StealVictimOutcomes
  <2>4. CASE StealExpire(s)
    BY <1>0, <2>4 DEF StealExpire, StealInv, NoDetector
  <2>5. CASE StealUnblock(s)
    <3>1. /\ pc[s] = "unblock" /\ Goto(s, "run")
          /\ mq' = [mq EXCEPT ![0] = Append(@, UNBLOCK)]
          /\ UNCHANGED <<ackToken, ackCount>>
      BY <2>5 DEF StealUnblock, SendTo0, UNBLOCK
    <3>2. Answers = N /\ UNBLOCK \in MsgSet
      BY <1>6, <3>1
    <3>3. ~Waits(pc, got)
      BY <1>0, <3>1 DEF Waits, StealInv
    <3>4. CASE CountIn(mq, s, CNF(ackToken)) > 0
      <4>1. PICK v : v = mq[0]
        OBVIOUS
      <4>2. v \in Seq(MsgSet) /\ Len(v) \in Nat /\ mq'[0] = Append(v, UNBLOCK)
        BY <1>0, <3>1, <4>1, ThreadFacts DEF Mail
      <4>3. /\ Len(Append(v, UNBLOCK)) = Len(v) + 1
            /\ CountTo(Append(v, UNBLOCK), ACK(ackToken), Len(v) + 1)
                 = CountTo(v, ACK(ackToken), Len(v)) + Is(UNBLOCK, ACK(ackToken))
        BY <3>2, <4>2, CountAppend
      <4>4. Append(v, UNBLOCK)[Len(v) + 1] = UNBLOCK
        BY <3>2, <4>2
      <4>5. Is(UNBLOCK, ACK(ackToken)) = 0
        BY DEF Is, UNBLOCK, ACK, Msg
      <4>6. PICK a \in Nat : a = CountTo(v, ACK(ackToken), Len(v)) /\ ackCount + a < N
        <5>1. PICK a \in Nat, b \in Nat :
                /\ a = CountIn(mq, 0, ACK(ackToken)) /\ b = CountIn(mq, s, CNF(ackToken))
                /\ ackCount + a + b <= N
          BY <1>0, <3>2, AnsweredIs, AnsweredType
        <5> QED BY <1>0, <3>4, <4>1, <5>1 DEF CountIn
      <4>7. Doomed(mq'[0], ackToken, ackCount)
        <5>1. Len(v) + 1 \in 1 .. Len(Append(v, UNBLOCK))
          BY <4>2, <4>3
        <5>2. CountTo(Append(v, UNBLOCK), ACK(ackToken), Len(v) + 1) = a
          BY <4>3, <4>5, <4>6
        <5> QED BY <4>2, <4>4, <4>6, <5>1, <5>2 DEF Doomed
      <4> QED BY <3>1, <4>7 DEF Settled
    <3>5. CASE ~(CountIn(mq, s, CNF(ackToken)) > 0)
      <4>1. CASE Doomed(mq[0], ackToken, ackCount)
        <5>1. Doomed(mq'[0], ackToken, ackCount)
          BY <1>0, <3>1, <3>2, <4>1, ThreadFacts, DoomedAppend DEF Mail
        <5> QED BY <3>1, <5>1 DEF Settled
      <4>2. CASE Unblocks(pc, mq, ackToken)
        <5>1. PICK t \in Thread : pc[t] = "unblock" /\ CountIn(mq, t, CNF(ackToken)) > 0
          BY <4>2 DEF Unblocks, CountIn
        <5>2. t # s
          BY <3>5, <5>1
        <5>3. pc'[t] = "unblock"
          BY <1>0, <3>1, <5>1, <5>2 DEF Goto
        <5>4. CountIn(mq', t, CNF(ackToken)) = CountIn(mq, t, CNF(ackToken))
                + (IF t = 0 THEN Is(UNBLOCK, CNF(ackToken)) ELSE 0)
          BY <1>0, <3>1, <3>2, MailPost
        <5>5. Is(UNBLOCK, CNF(ackToken)) = 0
          BY DEF Is, UNBLOCK, CNF, Msg
        <5>6. CountIn(mq', t, CNF(ackToken)) > 0
          <6>1. CountIn(mq, t, CNF(ackToken)) \in Nat
            BY <1>0, CountInType
          <6> QED BY <5>1, <5>4, <5>5, <6>1
        <5> QED BY <3>1, <5>3, <5>6 DEF Settled, Unblocks, CountIn
      <4> QED BY <1>1, <3>2, <3>3, <4>1, <4>2 DEF Settled
    <3> QED BY <3>4, <3>5
  <2> QED BY <1>7, <2>1, <2>2, <2>3, <2>4, <2>5 DEF Steal
<1>8. ASSUME NEW s \in Thread, Quiescent(s)
      PROVE  Settled(pc', got', mq', ackToken', ackCount')
  <2>0. Again(s) \in {"steal", "expire"}
    BY DEF Again
  <2>1. CASE ReadMsg(s)
    BY <1>11, <2>1, SettledRead
  <2>2. CASE ReadEnd(s)
    <3>1. PICK p \in {"done", "acked", "steal", "expire"} : Goto(s, p)
      BY <2>0, <2>2 DEF ReadEnd
    <3>2. pc[s] = "read" /\ got' = got /\ UNCHANGED <<mq, ackToken, ackCount>>
      BY <2>2 DEF ReadEnd, stealVars, protoVars
    <3> QED BY <1>3, <3>1, <3>2 DEF Free
  <2>3. CASE Terminate(s)
    <3>1. PICK x : x = Msg("TERMINATE", 0)
      OBVIOUS
    <3>2. PICK j \in Nat : j = ackToken + 1 /\ ackToken < j
      BY <1>0
    <3>3. x \in MsgSet /\ x # ACK(j) /\ x # CNF(j)
      BY <3>1 DEF Msg, MsgSet, ACK, CNF
    <3>4. Answered(mq, j, 0) = 0
      BY <1>0, <3>2, AnsweredFresh DEF IInv, MailInv
    <3>5. Answered([t \in Thread |-> Append(mq[t], x)], j, 0) = Answered(mq, j, 0)
      BY <1>0, <3>2, <3>3, AnsweredPostAll
    <3>6. mq' = [t \in Thread |-> Append(mq[t], x)] /\ ackToken' = j /\ ackCount' = 0
      BY <2>3, <3>1, <3>2 DEF Terminate, SendAll
    <3>7. Answers' = 0
      BY <3>4, <3>5, <3>6, AnsweredNext
    <3> QED BY <1>0, <3>7
  <2>4. CASE AsioStop(s)
    <3>1. PICK p \in {"join", "steal", "expire"} : Goto(s, p)
      BY <2>0, <2>4 DEF AsioStop
    <3>2. pc[s] = "acked" /\ got' = got /\ UNCHANGED <<mq, ackToken, ackCount>>
      BY <2>4 DEF AsioStop, stealVars, protoVars
    <3> QED BY <1>3, <3>1, <3>2 DEF Free
  <2>5. CASE AsioJoin(s)
    <3>1. Waits(pc, got)
      BY <1>11, <2>5, FullMeansWaiting DEF AsioJoin
    <3>2. PICK p \in {"steal", "expire"} : Goto(s, p)
      BY <2>0, <2>5 DEF AsioJoin
    <3>3. got' = got
      BY <2>5 DEF AsioJoin, stealVars
    <3>4. Waits(pc', got')
      BY <1>0, <3>1, <3>2, <3>3 DEF Waits, Goto
    <3> QED BY <3>4 DEF Settled
  <2> QED BY <1>8, <2>1, <2>2, <2>3, <2>4, <2>5 DEF Quiescent
<1>9. CASE AsioExit \/ UNCHANGED vars
  BY <1>2, <1>9 DEF AsioExit, vars, stealVars, protoVars
<1>10. ~AsioSend /\ ~ForeignSend /\ ~SchedStop
  BY DEF AsioSend, ForeignSend, SchedStop, Closed
<1> QED BY <1>4, <1>5, <1>7, <1>8, <1>9, <1>10 DEF Next, Step, Finished

\* The options do not change.
LEMMA QuietStep ==
  ASSUME IInv, QuietInv, [Next]_vars
  PROVE  QuietInv'
<1>1. opt' = opt
  BY DEF Next, Step, Run, RunWake, RunNoisy, RunReturn, Find, NextInject, NextLocal,
         Steal, StealBlock, StealInject, StealVictim, StealExpire, StealUnblock,
         Quiescent, ReadMsg, ReadEnd, Terminate, AsioStop, AsioJoin,
         AsioSend, AsioExit, ForeignSend, SchedStop, Finished, vars, envVars
<1>2. SUFFICES ASSUME Closed
               PROVE  /\ inject' = <<>> /\ NoDetector'
                      /\ Answers' = N /\ missed' = {} =>
                           Settled(pc', got', mq', ackToken', ackCount')
  BY <1>1 DEF QuietInv, Closed
<1> QED BY <1>2, ClearStep, SettledStep

\* No round is under way when the threads start.
LEMMA QuietInit ==
  ASSUME Init
  PROVE  QuietInv
<1>1. inject = <<>> /\ NoDetector
  BY SchedulerAssumption DEF Init, NoDetector
<1>2. pc[0] = "next" /\ blockCount = 0 /\ N # 0
  BY ThreadFacts DEF Init
<1>3. Answers # N
  BY <1>2, InvInit DEF IInv, AckInv
<1> QED BY <1>1, <1>3 DEF QuietInv

\* scheduler.c:132, "If all schedulers are waiting, one of them will stop the
\* ASIO back end": the back end and the threads are told to stop only when no
\* thread has work, in a program without events, cycle detector and embedding
\* whose threads have not blocked over an actor that a raced pop hid from them
\* (scheduler.c 79-145, 205-239).
THEOREM StopsOnlyWhenWaiting == Spec => StopsWhenWaiting
<1>1. Init => IInv /\ QuietInv
  BY InvInit, QuietInit
<1>2. IInv /\ QuietInv /\ [Next]_vars => (IInv /\ QuietInv)'
  BY InvStep, QuietStep
<1>3. IInv /\ QuietInv =>
        (opt.noblock /\ ~opt.events /\ ~opt.library /\ missed = {}
           /\ (\E s \in Thread : Terminate(s) \/ (AsioStop(s) /\ noisy = 0))
         => AllWaiting)
  <2>1. SUFFICES ASSUME IInv, QuietInv, Closed, missed = {},
                        NEW s \in Thread, pc[s] = "acked"
                 PROVE  AllWaiting
    BY DEF Closed, Terminate, AsioStop
  <2> QED BY <2>1, FullMeansWaiting, WaitsIs
<1> QED BY <1>1, <1>2, <1>3, PTL DEF Spec, StopsWhenWaiting
=============================================================================
