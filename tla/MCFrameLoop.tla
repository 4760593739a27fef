----------------------------- MODULE MCFrameLoop -----------------------------
(***************************************************************************)
(* FrameLoop by itself for TLC: the configurations give the constants.      *)
(***************************************************************************)
EXTENDS FrameLoop
=============================================================================
