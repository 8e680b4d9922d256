---------------------------- MODULE CycleDetect ----------------------------
(***************************************************************************)
(* One detection attempt of the cycle detector (src/libponyrt/gc/cycle.c): *)
(* detect(), its three colouring scans, and the CONF/ACK exchange that     *)
(* ends in collect() or expire().                                          *)
(*                                                                         *)
(* The detector keeps a view of every actor that has blocked: its last     *)
(* reported count rc, its references to other views with their counts      *)
(* (map), and the changes to them it has received but not applied (delta). *)
(* Views are snapshots taken at different moments, so nothing relates one  *)
(* view's rc to the others' maps: every combination is an initial state.   *)
(*                                                                         *)
(* A scan keeps an explicit stack of viewrefs.  A viewref is a cell of its *)
(* owner's map, so it is modelled as the edge <<owner, view>> and its      *)
(* count is read when it is popped; the head of a scan, whose count is 0,  *)
(* is the edge <<v, v>> (an actor never holds itself as foreign).  Children*)
(* are pushed in hash order; the stack is modelled as a set popped in any  *)
(* order, which includes every order the hash can produce.                 *)
(*                                                                         *)
(* A view the detector has not created yet behaves as an unblocked one     *)
(* (get_view zeroes it) and is represented so.                             *)
(***************************************************************************)
EXTENDS Integers, FiniteSets, ViewGraph

CONSTANTS
  View,       \* the actors the detector may know
  Root,       \* the view detect() is called on
  RcMod,      \* size_t arithmetic: 2^64 in the code
  InitRc,     \* counts an actor may have reported when it blocked
  InitMaps,   \* reference maps the views may hold, [View -> [View -> Nat]]
  InitDeltas, \* received, unapplied deltas, [View -> partial View -> Nat]
  ConfGroup   \* conf_group: CONF messages sent at a time, a power of two

VARIABLES
  views,      \* detector_t.views
  blocked, rc, map, delta, deferred, color, \* view_t, per view
  phase,      \* where detect() is, then what became of the perceived cycle
  stack,      \* viewrefs pushed by the scan in progress
  bstack,     \* viewrefs pushed by a scan_black inside scan_white
  count,      \* scan_white's count of white views
  count2,     \* collect_white's count
  per,        \* perceived_t.map: the members of the perceived cycle
  ack,        \* perceived_t.ack
  asked,      \* members CONF has been sent to (perceived_t.last_conf)
  acked,      \* members whose ACK the detector has handled
  before      \* history: the views as detect() found them, deltas applied

detVars == <<views, deferred>>
viewVars == <<detVars, blocked, rc, map, delta, color>>
scanVars == <<stack, bstack, count, count2>>
perVars == <<per, ack, asked, acked>>
vars == <<viewVars, phase, scanVars, perVars, before>>

Phases == {"idle", "grey", "white", "black", "collect",
           "none", "conf", "collected", "expired"}

NoDelta == [v \in {} |-> 0]

(* A map once a delta is applied: the delta's counts replace the map's, and *)
(* an entry with count 0 leaves the map.                                   *)
Applied(m, d) == [c \in View |-> IF c \in DOMAIN d THEN d[c] ELSE m[c]]

ASSUME ConstantsAssumption ==
  /\ IsFiniteSet(View) /\ Root \in View
  /\ RcMod \in Nat \ {0}
  /\ InitRc \subseteq 0..(RcMod - 1)
  /\ InitMaps \subseteq [View -> [View -> 0..(RcMod - 1)]]
  /\ \A m \in InitMaps, u \in View : m[u][u] = 0
  /\ \A d \in InitDeltas :
       /\ d = [u \in View |-> d[u]]
       /\ \A u \in View :
            /\ DOMAIN d[u] \subseteq View \ {u}
            /\ \A v \in DOMAIN d[u] : d[u][v] \in 0..(RcMod - 1)
  /\ ConfGroup \in {2^n : n \in 0..30}

(* The references that the views hold to one actor are fewer than RcMod,   *)
(* which is 2^64.                                                          *)
ASSUME NoOverflow ==
  \A m \in InitMaps, d \in InitDeltas, v \in View :
    References([u \in View |-> Applied(m[u], d[u])], View, v) < RcMod

-----------------------------------------------------------------------------
(* The views between two messages.  block() puts every view whose rc is    *)
(* not 0 in the deferred set; none has been taken out by an earlier scan.  *)
Init ==
  /\ views = View
  /\ blocked \in [View -> BOOLEAN] /\ blocked[Root]
  /\ rc \in [View -> InitRc]
  /\ map \in InitMaps
  /\ delta \in InitDeltas
  /\ deferred = {v \in View : blocked[v] /\ rc[v] # 0}
  /\ color = [v \in View |-> "black"]
  /\ phase = "idle"
  /\ stack = {} /\ bstack = {} /\ count = 0 /\ count2 = 0
  /\ per = {} /\ ack = 0 /\ asked = {} /\ acked = {}
  /\ before = [blocked |-> blocked, rc |-> rc, map |-> map]

(* The map of v once its stored delta is applied.                          *)
AppliedMap(v) == Applied(map[v], delta[v])

\* Mutant of Less: signed arithmetic.
UnwrappedLess(v, n) == rc[v] - n

(* size_t subtraction: a count below the references found wraps to a huge  *)
(* number.                                                                 *)
Less(v, n) == (rc[v] - n) % RcMod

\* Mutant of Undeferred: the removal is forgotten.
StillDeferred(v) == deferred

(* The view leaves the deferred set.                                       *)
Undeferred(v) == deferred \ {v}

Head(v) == <<v, v>>
Children(m, v) == {<<v, c>> : c \in {c \in View : m[v][c] > 0}}

-----------------------------------------------------------------------------
(* detect(): called by block() for a view with rc 0, and by the deferred   *)
(* loop for one it takes out of the deferred set.                          *)
Detect ==
  /\ phase = "idle"
  /\ phase' = "grey"
  /\ deferred' = Undeferred(Root)
  /\ stack' = {Head(Root)}
  /\ before' = [blocked |-> blocked, rc |-> rc,
                map |-> [v \in View |-> AppliedMap(v)]]
  /\ UNCHANGED <<views, blocked, rc, map, delta, color, bstack, count,
                 count2, perVars>>

(* scan_grey pops a viewref and runs mark_grey: apply the delta, leave the *)
(* deferred set, and take the reference out of the view's own count.       *)
ScanGrey ==
  /\ phase = "grey"
  /\ \E e \in stack :
       LET v == e[2] IN
       IF ~blocked[v]
       THEN /\ stack' = stack \ {e}
            /\ UNCHANGED <<rc, map, delta, deferred, color>>
       ELSE /\ map' = [map EXCEPT ![v] = AppliedMap(v)]
            /\ delta' = [delta EXCEPT ![v] = NoDelta]
            /\ deferred' = Undeferred(v)
            /\ rc' = [rc EXCEPT ![v] = Less(v, map[e[1]][v])]
            /\ color' = [color EXCEPT ![v] = "grey"]
            /\ stack' = (stack \ {e}) \cup
                        (IF color[v] = "grey" THEN {} ELSE Children(map', v))
  /\ UNCHANGED <<views, blocked, phase, bstack, count, count2, perVars,
                 before>>

GreyDone ==
  /\ phase = "grey" /\ stack = {}
  /\ phase' = "white"
  /\ stack' = {Head(Root)}
  /\ UNCHANGED <<viewVars, bstack, count, count2, perVars, before>>

\* Mutant of ReferencesLeft: a wrapped count is taken for negative.
SignedReferencesLeft(v) == rc[v] \in 1..(RcMod \div 2 - 1)

(* mark_white's test of what is left of a count; size_t, so a wrapped one  *)
(* is positive.                                                            *)
ReferencesLeft(v) == rc[v] > 0

(* scan_white pops a viewref and runs mark_white: a grey view with nothing *)
(* left is white; one with references left starts a scan_black from it.    *)
ScanWhite ==
  /\ phase = "white"
  /\ \E e \in stack :
       LET v == e[2] IN
       \/ /\ color[v] # "grey"
          /\ stack' = stack \ {e}
          /\ UNCHANGED <<phase, bstack, color, count>>
       \/ /\ color[v] = "grey" /\ ReferencesLeft(v)
          /\ stack' = stack \ {e}
          /\ phase' = "black"
          /\ bstack' = {Head(v)}
          /\ UNCHANGED <<color, count>>
       \/ /\ color[v] = "grey" /\ ~ReferencesLeft(v)
          /\ color' = [color EXCEPT ![v] = "white"]
          /\ count' = count + 1
          /\ stack' = (stack \ {e}) \cup Children(map, v)
          /\ UNCHANGED <<phase, bstack>>
  /\ UNCHANGED <<detVars, blocked, rc, map, delta, count2, perVars,
                 before>>

\* Mutant of MarkBlack: the count is only given back to a view not yet black.
MarkBlackOnce(e) ==
  LET v == e[2] IN
  IF blocked[v] /\ color[v] # "black"
  THEN /\ rc' = [rc EXCEPT ![v] = (@ + map[e[1]][v]) % RcMod]
       /\ color' = [color EXCEPT ![v] = "black"]
  ELSE UNCHANGED <<rc, color>>

(* mark_black on the view of a popped viewref: give the reference back.    *)
MarkBlack(e) ==
  LET v == e[2] IN
  IF blocked[v]
  THEN /\ rc' = [rc EXCEPT ![v] = (@ + map[e[1]][v]) % RcMod]
       /\ color' = [color EXCEPT ![v] = "black"]
  ELSE UNCHANGED <<rc, color>>

(* What mark_black pushes: the children of a view it turned black.         *)
Blackened(e) ==
  IF blocked[e[2]] /\ color[e[2]] # "black" THEN Children(map, e[2]) ELSE {}

\* Mutant of WhiteBlackened: grey views are counted too.
Recoloured(e) == IF color[e[2]] # "black" THEN 1 ELSE 0

(* What mark_black adds to the caller's count: a white view turned black.  *)
WhiteBlackened(e) == IF color[e[2]] = "white" THEN 1 ELSE 0

(* scan_black inside scan_white: the white views it turns black come off   *)
(* scan_white's count (the code subtracts their number on return).         *)
ScanBlack ==
  /\ phase = "black"
  /\ \E e \in bstack :
       /\ MarkBlack(e)
       /\ bstack' = (bstack \ {e}) \cup Blackened(e)
       /\ count' = count - WhiteBlackened(e)
  /\ UNCHANGED <<detVars, blocked, map, delta, phase, stack, count2,
                 perVars, before>>

\* Mutant of BlackDone: the loop tests the stack of scan_white.
BlackDoneOtherStack ==
  /\ phase = "black" /\ bstack = {} /\ stack = {}
  /\ phase' = "white"
  /\ UNCHANGED <<viewVars, scanVars, perVars, before>>

(* scan_black returns to scan_white.                                       *)
BlackDone ==
  /\ phase = "black" /\ bstack = {}
  /\ phase' = "white"
  /\ UNCHANGED <<viewVars, scanVars, perVars, before>>

(* No white view: detect() returns false.                                  *)
NothingFound ==
  /\ phase = "white" /\ stack = {} /\ count = 0
  /\ phase' = "none"
  /\ UNCHANGED <<viewVars, scanVars, perVars, before>>

(* A new perceived cycle with the next token.                              *)
CycleFound ==
  /\ phase = "white" /\ stack = {} /\ count # 0
  /\ phase' = "collect"
  /\ stack' = {Head(Root)}
  /\ UNCHANGED <<viewVars, bstack, count, count2, perVars, before>>

(* collect_white pops a viewref and runs collect_view, then mark_black.    *)
CollectWhite ==
  /\ phase = "collect"
  /\ \E e \in stack :
       /\ MarkBlack(e)
       /\ stack' = (stack \ {e}) \cup Blackened(e)
       /\ per' = IF color[e[2]] = "white" THEN per \cup {e[2]} ELSE per
       /\ count2' = count2 + WhiteBlackened(e)
  /\ UNCHANGED <<detVars, blocked, map, delta, phase, bstack, count,
                 ack, asked, acked, before>>

-----------------------------------------------------------------------------
\* Mutant of SendConf: the loop stops one message early.
SendConfShort ==
  \E group \in SUBSET (per \ asked) :
    /\ \/ Cardinality(group) = ConfGroup - 1
       \/ Cardinality(group) < ConfGroup - 1 /\ group = per \ asked
    /\ asked' = asked \cup group

(* send_conf: CONF to the next conf_group members in hash order, or to all *)
(* that are left.                                                          *)
SendConf ==
  \E group \in SUBSET (per \ asked) :
    /\ \/ Cardinality(group) = ConfGroup
       \/ Cardinality(group) < ConfGroup /\ group = per \ asked
    /\ asked' = asked \cup group

Perceived ==
  /\ phase = "collect" /\ stack = {}
  /\ phase' = "conf"
  /\ SendConf
  /\ UNCHANGED <<viewVars, scanVars, per, ack, acked, before>>

\* Mutant of AllConfirmed: only the members asked so far are counted.
AllAskedConfirmed(n) == n = Cardinality(asked)

(* ack()'s test for the last ACK.                                          *)
AllConfirmed(n) == n = Cardinality(per)

(* collect(): the members leave the detector's sets.  What it does to the  *)
(* actors (the pending-destroy flag, finalisers, releases, destruction) is *)
(* ActorMailbox's SetPendingDestroy and ActorDestroy for each of them.     *)
Collect ==
  /\ phase' = "collected"
  /\ views' = views \ per
  /\ deferred' = deferred \ per

(* expire(): the perceived cycle v is in, if any, loses all its members    *)
(* and is freed.                                                           *)
Expire(v) ==
  IF v \in per THEN phase' = "expired" /\ per' = {}
               ELSE UNCHANGED <<phase, per>>

(* ack(): the ACK of a member that was asked.  An ACK names only the       *)
(* token, so the detector counts; the cycle is collected at the last one,  *)
(* and the next group is asked whenever a whole group has answered.        *)
Ack ==
  /\ phase = "conf"
  /\ \E v \in asked \ acked : acked' = acked \cup {v}
  /\ ack' = ack + 1
  /\ \/ /\ AllConfirmed(ack')
        /\ Collect
        /\ UNCHANGED asked
     \/ /\ ~AllConfirmed(ack') /\ ack' % ConfGroup = 0
        /\ SendConf
        /\ UNCHANGED <<phase, detVars>>
     \/ /\ ~AllConfirmed(ack') /\ ack' % ConfGroup # 0
        /\ UNCHANGED <<phase, detVars, asked>>
  /\ UNCHANGED <<blocked, rc, map, delta, color, scanVars, per, before>>

(* The ACK of an expired token finds no perceived cycle.                   *)
LateAck ==
  /\ phase = "expired"
  /\ \E v \in asked \ acked : acked' = acked \cup {v}
  /\ UNCHANGED <<viewVars, phase, scanVars, per, ack, asked, before>>

(* unblock(): the view leaves the deferred set, and the perceived cycle it *)
(* is in expires.                                                          *)
Unblock(v) ==
  /\ phase = "conf" /\ blocked[v]
  /\ blocked' = [blocked EXCEPT ![v] = FALSE]
  /\ deferred' = Undeferred(v)
  /\ Expire(v)
  /\ UNCHANGED <<views, rc, map, delta, color, scanVars, ack, asked, acked, before>>

Next ==
  \/ Detect \/ ScanGrey \/ GreyDone \/ ScanWhite \/ ScanBlack \/ BlackDone
  \/ NothingFound \/ CycleFound \/ CollectWhite \/ Perceived
  \/ Ack \/ LateAck
  \/ \E v \in View : Unblock(v)

Spec == Init /\ [][Next]_vars

(* The detector runs detect() to its end, and an asked actor answers or    *)
(* unblocks (actor.c handles CONF in either case).                         *)
Scanning ==
  \/ Detect \/ ScanGrey \/ GreyDone \/ ScanWhite \/ ScanBlack \/ BlackDone
  \/ NothingFound \/ CycleFound \/ CollectWhite \/ Perceived

FairSpec == Spec /\ WF_vars(Scanning) /\ WF_vars(Ack)

-----------------------------------------------------------------------------
(* What detect() should find, on the views it started from.                *)
Garbage == GarbageFrom(Root, before.blocked, before.rc, before.map)

Whites == {v \in View : color[v] = "white"}

-----------------------------------------------------------------------------
TypeOK ==
  /\ views \subseteq View
  /\ blocked \in [View -> BOOLEAN]
  /\ rc \in [View -> 0..(RcMod - 1)]
  /\ \A v \in View : map[v] \in [View -> 0..(RcMod - 1)]
  /\ \A v \in View : DOMAIN delta[v] \subseteq View
  /\ deferred \subseteq View
  /\ color \in [View -> {"black", "grey", "white"}]
  /\ phase \in Phases
  /\ stack \subseteq View \X View /\ bstack \subseteq View \X View
  /\ count \in Int /\ count2 \in Int /\ ack \in Nat
  /\ per \subseteq View /\ asked \subseteq View /\ acked \subseteq View

(* Whatever the order the hash maps give, and however stale the counts     *)
(* are, detect() perceives exactly the largest isolated set of the scanned *)
(* views: no view that is referenced from outside, and no smaller set than *)
(* the counts justify; and it returns false only when there is none        *)
(* (cycle.c scan_grey, scan_white, scan_black, collect_white, detect).     *)
FindsExactlyGarbage ==
  /\ phase = "conf" => per = Garbage
  /\ phase = "none" => Garbage = {}

(* A detection attempt leaves no trace in the counts: every reference that *)
(* scan_grey took out of a view's rc has been given back exactly once, by  *)
(* scan_black or by collect_white, and every view is black again, so the   *)
(* next attempt starts from what the actors reported.                      *)
ScansRestoreViews ==
  phase \in {"none", "conf", "collected", "expired"} =>
    /\ rc = before.rc
    /\ \A v \in View : color[v] = "black"

(* The asserts on the counts: scan_white's count stays the number of white *)
(* views through every scan_black inside it, and collect_white finds each  *)
(* of them once (cycle.c:445, 462, 463).                                   *)
CountsAgree ==
  /\ phase \in {"white", "black"} => count = Cardinality(Whites)
  /\ phase = "collect" => count2 + Cardinality(Whites) = count
  /\ phase = "conf" => count2 = count /\ Cardinality(per) = count

(* A view about to be collected is not in the deferred set (cycle.c:386),  *)
(* and no unblocked view is ever coloured (cycle.c:294): a perceived cycle *)
(* cannot be found a second time from the deferred set, and its members    *)
(* have all reported that they are blocked.                                *)
ColouredViewsAreQuiet ==
  \A v \in View : color[v] # "black" => blocked[v] /\ v \notin deferred

(* A view leaves the detector, and its actor is destroyed, only when every *)
(* member of the garbage that was found has confirmed and none of them has *)
(* unblocked since, although an ACK names only the token and members are   *)
(* asked group by group (ack, collect, unblock, expire).                   *)
CollectedCycleConfirmed ==
  views # View =>
    /\ View \ views = Garbage
    /\ acked = Garbage
    /\ \A v \in Garbage : blocked[v]

(* Every detection attempt ends.                                           *)
ScanEnds == [](phase = "grey" => <>(phase \in {"none", "conf"}))

(* A perceived cycle is collected or expires: with CONF sent one group at  *)
(* a time, the exchange never stops with a member not asked.               *)
CycleResolved == [](phase = "conf" => <>(phase \in {"collected", "expired"}))
=============================================================================
