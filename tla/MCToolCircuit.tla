---------------------------- MODULE MCToolCircuit ----------------------------
(* Instances of ToolCircuit for TLC.                                        *)
EXTENDS ToolCircuit, TLC

Symmetry == Permutations(Callers) \cup Permutations(Threads)
=============================================================================
