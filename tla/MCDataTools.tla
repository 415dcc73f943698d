---------------------------- MODULE MCDataTools -----------------------------
(* Instances of DataTools for TLC.                                          *)
EXTENDS DataTools
=============================================================================
