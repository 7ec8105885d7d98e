------------------------------ MODULE MCCecSplit ------------------------------
(* Instances of CecSplit for TLC: every problem over the inputs Vars.       *)
EXTENDS CecSplit
=============================================================================
