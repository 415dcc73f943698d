--------------------------- MODULE MCResearchGraph ---------------------------
(* Instances of ResearchGraph for TLC.                                      *)
EXTENDS ResearchGraph, TLC
=============================================================================
