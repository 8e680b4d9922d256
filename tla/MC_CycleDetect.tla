--------------------------- MODULE MC_CycleDetect ---------------------------
(* Small instances of CycleDetect.                                         *)
EXTENDS CycleDetect

CONSTANTS MaxEdge, MaxRc

MCRc == 0..MaxRc

(* Every graph without loops, with counts up to MaxEdge.                   *)
MCMaps == {m \in [View -> [View -> 0..MaxEdge]] : \A u \in View : m[u][u] = 0}

(* No unapplied delta, or one entry of one view.                           *)
MCDeltas ==
  {[v \in View |-> NoDelta]} \cup
  {[v \in View |-> IF v = e[1] THEN [c \in {e[2]} |-> n] ELSE NoDelta] :
     e \in {e \in View \X View : e[1] # e[2]}, n \in 0..MaxEdge}
=============================================================================
