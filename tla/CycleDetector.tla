--------------------------- MODULE CycleDetector ---------------------------
(***************************************************************************)
(* The cycle detector (gc/cycle.c) at work on the actors of Orca: the      *)
(* handlers of BLOCK, UNBLOCK and ACK, the deferred set with its back-off, *)
(* any number of perceived cycles at a time, and the destruction of the    *)
(* actors of a confirmed cycle.                                            *)
(*                                                                         *)
(* A detection attempt is one step here, with the result module            *)
(* CycleDetect shows the scans to have.  A view stays in other views' maps *)
(* after its actor was collected; since actors are not numbered again, the *)
(* number stands for that old view.  A new view that a late delta makes    *)
(* for a collected actor is never blocked and plays no part: it is left    *)
(* out.  An assert that fails is recorded in reported.  A debug build stops*)
(* there; a release build (-DNDEBUG) goes on, up to the use of a destroyed *)
(* actor.                                                                  *)
(*                                                                         *)
(* The rest of the program waits while the detector is in its deferred     *)
(* loop: what actors do meanwhile only adds to the ends of their queues    *)
(* and of the detector's, which the loop does not read.                    *)
(***************************************************************************)
EXTENDS Orca, ViewGraph

CONSTANTS
  ConfGroup,    \* conf_group: 2^n
  MinDeferred,  \* the exponent given to ponyint_cycle_create
  MaxDeferred,  \* the same
  Asserts       \* a debug build: a failed assert ends the program

ASSUME DetectorAssumption ==
  /\ ConfGroup \in {2^n : n \in 0..30}
  /\ MinDeferred \in 0..30 /\ MaxDeferred \in MinDeferred..30
  /\ Asserts \in BOOLEAN

VARIABLES
  view,         \* view_t of each actor
  views,        \* detector_t.views
  deferred,     \* detector_t.deferred
  perceived,    \* detector_t.perceived: the live tokens
  nextDeferred, sinceDeferred,  \* detector_t
  loop,         \* the deferred loop: "no", or whether it has found a cycle
  reported      \* asserts that failed, and the use of a destroyed actor

detectorVars == <<view, views, deferred, perceived, nextDeferred,
                  sinceDeferred, loop, reported>>
vars == <<actorVars, detectorVars>>

(* get_view makes a view that is not blocked.  per is view_t.perceived:    *)
(* a token, or 0 for NULL.                                                 *)
NewView == [rc |-> 0, blocked |-> FALSE, map |-> [c \in Actor |-> 0],
            delta |-> NoDelta, per |-> 0]

(* ponyint_cycle_create: next_deferred is given the exponent.              *)
Init ==
  /\ OrcaInit
  /\ view = [a \in Actor |-> NewView]
  /\ views = {} /\ deferred = {}
  /\ perceived = [t \in {} |-> 0]
  /\ nextDeferred = MinDeferred /\ sinceDeferred = 0
  /\ loop = "no"
  /\ reported = {}

-----------------------------------------------------------------------------
(* apply_delta: a count of 0 removes an entry, unless the view it is for   *)
(* has left the detector, in which case the entry stays.                   *)
Applied(vw, known, a) ==
  [c \in Actor |->
     IF c \in DOMAIN vw[a].delta /\ (c \in known \/ c \in alive)
     THEN vw[a].delta[c] ELSE vw[a].map[c]]

ApplyDelta(vw, known, S) ==
  [a \in Actor |-> IF a \in S THEN [vw[a] EXCEPT !.map = Applied(vw, known, a),
                                                 !.delta = NoDelta]
                              ELSE vw[a]]

(* The views get_view makes for the deltas of S.                           *)
Seen(vw, S) ==
  UNION {{c \in DOMAIN vw[a].delta \cap alive : vw[a].delta[c] > 0} : a \in S}

(* The views as a scan reads them, each with its delta applied.            *)
Blk(vw) == [a \in Actor |-> vw[a].blocked]
Cnt(vw) == [a \in Actor |-> vw[a].rc]
Edges(vw, known) == [a \in Actor |-> Applied(vw, known, a)]

ScannedBy(vw, known, r) == ScannedFrom(r, Blk(vw), Edges(vw, known))
FoundBy(vw, known, r) == GarbageFrom(r, Blk(vw), Cnt(vw), Edges(vw, known))

(* send_conf: the next group of a perceived cycle.                         *)
NextGroups(members, asked) ==
  {g \in SUBSET (members \ asked) :
     \/ Cardinality(g) = ConfGroup
     \/ Cardinality(g) < ConfGroup /\ g = members \ asked}

SendConf(q, g, t) ==
  [a \in Actor |-> IF a \in g THEN Append(q[a], Conf(t)) ELSE q[a]]

(* The next token.  Tokens are only compared, so one that occurs nowhere   *)
(* will do for the increasing number of the code.                          *)
FreshToken(per) ==
  LET inQueue == {m.token : m \in UNION {{queue[a][i] : i \in
                     {i \in DOMAIN queue[a] : queue[a][i].kind = "conf"}} :
                       a \in Actor}}
      inCdq == {cdq[i].token : i \in {i \in DOMAIN cdq : cdq[i].kind = "ack"}}
      used == DOMAIN per \cup inQueue \cup inCdq \cup {view[a].per : a \in Actor}
  IN  Min({1 + Cardinality(used)} \cup (1..Cardinality(used) \ used))

(* detect() on view r.  vw, def and per are the views, the deferred set    *)
(* and the perceived cycles the handler has made so far.                   *)
DetectFrom(r, vw, known, def, per) ==
  LET scanned == ScannedBy(vw, known, r)
      found == FoundBy(vw, known, r)
      scan == ApplyDelta(vw, known, scanned)
  IN
  /\ views' = known \cup Seen(vw, scanned)
  /\ deferred' = def \ scanned
  /\ IF found = {}
     THEN /\ view' = scan
          /\ perceived' = per
          /\ UNCHANGED <<queue, reported>>
     ELSE \E g \in NextGroups(found, {}) : LET nextToken == FreshToken(per) IN
          /\ view' = [a \in Actor |-> IF a \in found
                                      THEN [scan[a] EXCEPT !.per = nextToken]
                                      ELSE scan[a]]
          /\ perceived' = [t \in DOMAIN per \cup {nextToken} |->
                             IF t = nextToken
                             THEN [map |-> found, ack |-> 0, asked |-> g]
                             ELSE per[t]]
          /\ queue' = SendConf(queue, g \cap alive, nextToken)
          /\ reported' = reported
               \cup {"white view is perceived" : a \in {a \in found : vw[a].per # 0}}
               \cup {"destroyed actor used" : a \in g \ alive}

(* expire(): the cycle a view is in is forgotten, and its members are free.*)
ExpireViews(vw, per, a) ==
  [b \in Actor |->
     IF b = a \/ (vw[a].per \in DOMAIN per /\ b \in per[vw[a].per].map)
     THEN [vw[b] EXCEPT !.per = 0] ELSE vw[b]]

\* Mutant of ExpirePerceived: the cycle stays in the map of perceived cycles.
ExpirePerceivedLater(vw, per, a) == per

ExpirePerceived(vw, per, a) == [t \in DOMAIN per \ {vw[a].per} |-> per[t]]

-----------------------------------------------------------------------------
Handles(kind) ==
  /\ ThreadFree /\ loop = "no"
  /\ cdq # <<>> /\ Head(cdq).kind = kind
  /\ cdq' = Tail(cdq)

(* block(): the view is brought up to date, its cycle expires, and a cycle *)
(* is looked for now (rc 0) or when the deferred set is next looked at.    *)
HandleBlock ==
  LET m == Head(cdq)
      a == m.actor
      old == ApplyDelta(view, views \cup {a}, {a})
      fresh == IF m.delta = NoDelta THEN view
               ELSE [old EXCEPT ![a].delta = m.delta]
      known == views \cup {a} \cup
               (IF m.delta = NoDelta THEN {} ELSE Seen(view, {a}))
      upd == [fresh EXCEPT ![a].rc = m.rc, ![a].blocked = TRUE]
      vw == ExpireViews(upd, perceived, a)
      per == ExpirePerceived(upd, perceived, a)
      attempt == sinceDeferred + 1 >= nextDeferred
  IN
  /\ Handles("block")
  /\ \/ /\ m.rc = 0
        /\ DetectFrom(a, vw, known, deferred \ {a}, per)
        /\ UNCHANGED <<sinceDeferred, loop>>
     \/ /\ m.rc # 0
        /\ view' = vw /\ views' = known /\ perceived' = per
        /\ deferred' = deferred \cup {a}
        /\ sinceDeferred' = IF attempt THEN nextDeferred ELSE sinceDeferred + 1
        /\ loop' = IF attempt THEN "started" ELSE "no"
        /\ UNCHANGED <<queue, reported>>
  /\ UNCHANGED <<alive, pc, due, refs, gc, blocked, rcChanged, ops, created,
                 nextDeferred>>

(* deferred(): the back-off after a round, halved when it found a cycle    *)
(* and doubled when it did not.                                            *)
RoundOver(foundOne) ==
  /\ loop' = "no"
  /\ IF foundOne
     THEN /\ nextDeferred' = IF nextDeferred > 2^MinDeferred
                             THEN nextDeferred \div 2 ELSE nextDeferred
          /\ UNCHANGED sinceDeferred
     ELSE /\ nextDeferred' = IF nextDeferred < 2^MaxDeferred
                             THEN nextDeferred * 2 ELSE nextDeferred
          /\ sinceDeferred' = 0

(* deferred(): a view leaves the set, in hash order, until an attempt      *)
(* fails.                                                                  *)
DeferredStep ==
  /\ loop # "no"
  /\ \E a \in deferred :
       /\ DetectFrom(a, view, views, deferred \ {a}, perceived)
       /\ IF FoundBy(view, views, a) # {}
          THEN loop' = "found" /\ UNCHANGED <<nextDeferred, sinceDeferred>>
          ELSE RoundOver(loop = "found")
  /\ UNCHANGED <<alive, pc, due, refs, gc, blocked, rcChanged, cdq, ops,
                 created>>

DeferredDone ==
  /\ loop # "no" /\ deferred = {}
  /\ RoundOver(loop = "found")
  /\ UNCHANGED <<actorVars, view, views, deferred, perceived, reported>>

(* unblock()                                                               *)
HandleUnblock ==
  LET a == Head(cdq).actor IN
  /\ Handles("unblock")
  /\ view' = ExpireViews([view EXCEPT ![a].blocked = FALSE], perceived, a)
  /\ perceived' = ExpirePerceived(view, perceived, a)
  /\ deferred' = deferred \ {a}
  /\ UNCHANGED <<alive, pc, due, refs, gc, queue, blocked, rcChanged, ops,
                 created, views, nextDeferred, sinceDeferred, loop,
                 reported>>

(* The references S's members hold outside S, summed per owner: collect()  *)
(* releases them, and destroys the members.  Their views leave the         *)
(* detector but keep their fields.                                         *)
ReleasedBy(S, q) ==
  LET holders(c) == SetToSeq({b \in S : gc[b].foreign[c] > 0})
  IN  [c \in Actor |->
         IF c \in S THEN q[c]
         ELSE q[c] \o [i \in DOMAIN holders(c) |->
                         Release(gc[holders(c)[i]].foreign[c])]]

Collect(S) ==
  /\ alive' = alive \ S
  /\ view' = [a \in Actor |->
                IF a \in S /\ \A b \in alive \ S : view[b].map[a] = 0
                THEN NewView ELSE view[a]]
  /\ views' = views \ S
  /\ deferred' = deferred \ S
  /\ queue' = ReleasedBy(S, queue)
  /\ gc' = [a \in Actor |-> IF a \in S THEN NewGc ELSE gc[a]]
  /\ refs' = [a \in Actor |-> IF a \in S THEN {} ELSE refs[a]]

\* Mutant of Confirmed: one confirmation is taken for all.
ConfirmedByOne(p) == p.ack > 0

(* ack(): every member has confirmed.                                      *)
Confirmed(p) == p.ack = Cardinality(p.map)

(* ack()                                                                   *)
HandleAck ==
  LET t == Head(cdq).token
      p == [perceived[t] EXCEPT !.ack = @ + 1]
  IN
  /\ Handles("ack")
  /\ \/ /\ t \notin DOMAIN perceived
        /\ UNCHANGED <<alive, refs, gc, queue, view, views, deferred, perceived>>
     \/ /\ t \in DOMAIN perceived /\ Confirmed(p)
        /\ perceived' = [u \in DOMAIN perceived \ {t} |-> perceived[u]]
        /\ Collect(p.map)
     \/ /\ t \in DOMAIN perceived /\ ~Confirmed(p)
        /\ \E g \in IF p.ack % ConfGroup = 0 THEN NextGroups(p.map, p.asked)
                                             ELSE {{}} :
             /\ perceived' = [perceived EXCEPT ![t] = [p EXCEPT !.asked = @ \cup g]]
             /\ queue' = SendConf(queue, g \cap alive, t)
        /\ UNCHANGED <<alive, refs, gc, view, views, deferred>>
  /\ reported' = reported \cup
       (IF t \in DOMAIN perceived /\ Confirmed(p)
        THEN {"collected view is not perceived" :
                a \in {a \in p.map : view[a].per # t}} \cup
             {"destroyed actor used" : a \in p.map \ alive}
        ELSE {})
  /\ UNCHANGED <<pc, due, blocked, rcChanged, ops, created, nextDeferred,
                 sinceDeferred, loop>>

Detector == HandleBlock \/ HandleUnblock \/ HandleAck \/ DeferredStep
            \/ DeferredDone

ActorStep(a) ==
  /\ loop = "no"
  /\ Step(a)
  /\ UNCHANGED detectorVars

(* The program has been stopped, or its behaviour is undefined.            *)
Stopped == (Asserts /\ reported # {}) \/ "destroyed actor used" \in reported

Next ==
  /\ ~Stopped
  /\ Detector \/ \E a \in Actor : ActorStep(a)

Spec == Init /\ [][Next]_vars
-----------------------------------------------------------------------------
(* The application messages of a queue are what the abstract mailbox holds.*)
Mail == [a \in Actor |->
           LET s == SelectSeq(queue[a], LAMBDA m : m.kind = "app")
           IN  [i \in DOMAIN s |-> s[i].ref]]

Abstract == INSTANCE ActorCollection
              WITH active <- {a \in alive : pc[a] = "busy"}, mail <- Mail

(* The counts, the detector and its CONF and ACK exchange together destroy *)
(* only actors that can never run again: not running, no message waiting,  *)
(* and not to be reached from one that runs or has a message (gc.c,        *)
(* cycle.c).                                                               *)
CollectsOnlyGarbage == [][Abstract!ANext]_(Abstract!aVars)

(* When an actor is destroyed its queue is empty, as messageq_destroy      *)
(* asserts, and no actor left holds a count for it, so none will send it a *)
(* message or a RELEASE.                                                   *)
NothingLeftBehind ==
  \A a \in 1..created \ alive :
    /\ queue[a] = <<>> /\ pc[a] = "idle"
    /\ \A b \in alive : gc[b].foreign[a] = 0

(* A perceived cycle that waits for ACKs is the only one its members are   *)
(* in, and each member is a blocked view: expire() then finds the cycle    *)
(* through any member that changes.  It holds as long as the assert of     *)
(* mark_white does.                                                        *)
CyclesAreDisjoint ==
  reported = {} =>
  \A t \in DOMAIN perceived : \A a \in perceived[t].map :
    view[a].per = t /\ view[a].blocked

(* collect() asserts that the views of the cycle it destroys are still in  *)
(* that cycle (cycle.c:534).                                               *)
CollectedIsPerceived == "collected view is not perceived" \notin reported

=============================================================================
