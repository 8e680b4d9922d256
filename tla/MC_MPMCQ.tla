------------------------------ MODULE MC_MPMCQ ------------------------------
(* Small instances of MPMCQ.                                               *)
EXTENDS MPMCQ, TLC

Symmetry == Permutations(Node)
=============================================================================
