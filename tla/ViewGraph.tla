----------------------------- MODULE ViewGraph -----------------------------
(***************************************************************************)
(* What the cycle detector looks for in its views (gc/cycle.c), as         *)
(* operators on a graph of views: blk[v] says that v is blocked, cnt[v] is *)
(* the reference count v reported, m[u][v] the references u holds to v.    *)
(***************************************************************************)
EXTENDS Integers, FiniteSets, Functions

(* The views a scan from r visits: the least set with r and every blocked  *)
(* view referenced from it.                                                *)
ScannedFrom(r, blk, m) ==
  LET V == DOMAIN blk
      closed(S) == /\ r \in S
                   /\ \A u \in S, v \in V : m[u][v] > 0 /\ blk[v] => v \in S
  IN  {v \in V : \A S \in SUBSET V : closed(S) => v \in S}

References(m, S, v) == SumFunctionOnSet([u \in S |-> m[u][v]], S)

(* A part S of the scanned views is isolated when its members' reported    *)
(* counts are exactly the references scanned views hold to them, and those *)
(* are all held inside S.                                                  *)
Isolated(S, scanned, cnt, m) ==
  \A v \in S : /\ cnt[v] = References(m, scanned, v)
               /\ \A u \in scanned \ S : m[u][v] = 0

(* The largest isolated set: what a detection attempt from r should        *)
(* perceive as a cycle, if it is not empty.                                *)
GarbageFrom(r, blk, cnt, m) ==
  LET scanned == ScannedFrom(r, blk, m)
  IN  UNION {S \in SUBSET scanned : Isolated(S, scanned, cnt, m)}
=============================================================================
