----------------------------- MODULE MCFrameStack -----------------------------
(* Instances of FrameStack for TLC.                                         *)
EXTENDS FrameStack
=============================================================================
