-------------------------- MODULE ActorCollection --------------------------
(***************************************************************************)
(* What the collection of actors promises, whatever the counts and         *)
(* messages it is done with: actors hold and send references to actors,    *)
(* and only an actor that can never run again disappears.                  *)
(***************************************************************************)
EXTENDS Naturals, Sequences, FiniteSets

CONSTANTS Actor, Main

(* A message that carries no reference.                                    *)
None == 0

VARIABLES
  alive,   \* actors created and not collected
  active,  \* actors in the middle of a behaviour
  refs,    \* the actors an actor can reach from its fields and its frame
  mail     \* the messages that wait for an actor: the reference each carries

aVars == <<alive, active, refs, mail>>

AInit ==
  /\ alive = {Main} /\ active = {Main}
  /\ refs = [a \in Actor |-> {}]
  /\ mail = [a \in Actor |-> <<>>]

(* What a may put in a message.                                            *)
MaySend(a) == refs[a] \cup {a, None}

ACreate(a, n, c) ==
  /\ a \in active /\ n \in Actor \ alive /\ c \in MaySend(a)
  /\ alive' = alive \cup {n}
  /\ refs' = [refs EXCEPT ![a] = @ \cup {n}]
  /\ mail' = [mail EXCEPT ![n] = Append(@, c)]
  /\ UNCHANGED active

ASend(a, b, c) ==
  /\ a \in active /\ b \in refs[a] \cup {a} /\ c \in MaySend(a)
  /\ mail' = [mail EXCEPT ![b] = Append(@, c)]
  /\ UNCHANGED <<alive, active, refs>>

AReceive(a) ==
  /\ a \in alive \ active /\ mail[a] # <<>>
  /\ active' = active \cup {a}
  /\ refs' = [refs EXCEPT ![a] = @ \cup ({Head(mail[a])} \ {a, None})]
  /\ mail' = [mail EXCEPT ![a] = Tail(@)]
  /\ UNCHANGED alive

(* The behaviour ends; the actor keeps some of the references.             *)
AFinish(a) ==
  /\ a \in active
  /\ active' = active \ {a}
  /\ \E kept \in SUBSET refs[a] : refs' = [refs EXCEPT ![a] = kept]
  /\ UNCHANGED <<alive, mail>>

Carried(a) == {mail[a][i] : i \in DOMAIN mail[a]} \ {None}

(* The actors that may run again: those that run, those with a message,    *)
(* and what they hold or are going to receive.                             *)
Needed ==
  LET closed(S) ==
        /\ active \subseteq S
        /\ \A a \in alive : mail[a] # <<>> => a \in S
        /\ \A a \in S : (refs[a] \cup Carried(a)) \cap alive \subseteq S
  IN  {a \in alive : \A S \in SUBSET alive : closed(S) => a \in S}

ACollect ==
  \E S \in SUBSET alive \ {{}} :
    /\ alive' = alive \ S
    /\ S \cap Needed = {}
    /\ refs' = [a \in Actor |-> IF a \in S THEN {} ELSE refs[a]]
    /\ UNCHANGED <<active, mail>>

ANext ==
  \/ \E a, b \in Actor, c \in Actor \cup {None} :
       ACreate(a, b, c) \/ ASend(a, b, c)
  \/ \E a \in Actor : AReceive(a) \/ AFinish(a)
  \/ ACollect

ASpec == AInit /\ [][ANext]_aVars
=============================================================================
