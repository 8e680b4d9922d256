----------------------------- MODULE MC_Mailbox -----------------------------
(* Small instances of ActorMailbox.                                        *)
EXTENDS ActorMailbox, TLC

Symmetry ==
  Permutations(Node) \cup Permutations(Producer) \cup Permutations(Scheduler)
=============================================================================
