----------------------------- MODULE MC_RefCaps -----------------------------
EXTENDS RefCaps, TLC

CONSTANTS t1, t2, o1, o2, f

Symmetry == Permutations(Thread) \cup Permutations(Object)

\* Nothing is reached through a tag field, so none is declared tag.
AnyCaps == [x \in Field |-> Concrete \ {"tag"}]
=============================================================================
