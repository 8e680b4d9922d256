------------------------------ MODULE MC_Orca ------------------------------
(* Three actors, and 2 for GC_INC_MORE, so that counts run out after one   *)
(* message.                                                                *)
EXTENDS CycleDetector

Others == Actor \ {Main}

(* Main has created the other actors and is in a later behaviour; the      *)
(* others have run their constructors and reported that they are blocked.  *)
Settled ==
  /\ alive = Actor /\ created = NActors /\ ops = 0
  /\ pc = [a \in Actor |-> IF a = Main THEN "busy" ELSE "idle"]
  /\ due = [a \in Actor |-> 0]
  /\ refs = [a \in Actor |-> IF a = Main THEN Others ELSE {}]
  /\ gc = [a \in Actor |->
             IF a = Main
             THEN [NewGc EXCEPT
                     !.foreign = [c \in Actor |-> IF c = Main THEN 0 ELSE IncMore],
                     !.delta = [c \in Others |-> IncMore]]
             ELSE [NewGc EXCEPT !.rc = IncMore]]
  /\ queue = [a \in Actor |-> <<>>]
  /\ blocked = [a \in Actor |-> a # Main]
  /\ rcChanged = [a \in Actor |-> FALSE]
  /\ cdq = <<>>
  /\ view = [a \in Actor |->
               IF a = Main THEN NewView
               ELSE [NewView EXCEPT !.rc = IncMore, !.blocked = TRUE]]
  /\ views = Others /\ deferred = {}
  /\ perceived = [t \in {} |-> 0]
  /\ nextDeferred = MinDeferred /\ sinceDeferred = 0
  /\ loop = "no"
  /\ reported = {}

SettledSpec == Settled /\ [][Next]_vars
StartOrSettledSpec == (Init \/ Settled) /\ [][Next]_vars
=============================================================================
