------------------------------ MODULE MCUtilPth ------------------------------
(* Instances of UtilPth for TLC: any nProcs up to MaxProcs.                 *)
EXTENDS UtilPthInvariant
=============================================================================
