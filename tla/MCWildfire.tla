------------------------------ MODULE MCWildfire ------------------------------
(* Instances of Wildfire for TLC; the configurations give the constants.   *)
EXTENDS Wildfire
=============================================================================
