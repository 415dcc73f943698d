---------------------------- MODULE MCMemoryQueue ----------------------------
(* Instances of MemoryQueue for TLC.                                        *)
EXTENDS MemoryQueue, TLC

Symmetry == Permutations(Jobs) \cup Permutations(Workers)
=============================================================================
