----------------------------- MODULE MCNwsAlerts -----------------------------
(***************************************************************************)
(* Instances of NwsAlerts and of AlertShapes for TLC, one at a time: part   *)
(* names the one a behaviour is of.  The other keeps its first state.       *)
(***************************************************************************)
EXTENDS NwsAlerts, AlertShapes

VARIABLE part

\* An alert that a later one of its event replaces on one of its zones while it
\* still applies, and one with a polygon of its own.
ThreeAlerts ==
    <<[event |-> "gale", polygon |-> None, zones |-> {"z1", "z2"}, sent |-> 0, inForce |-> 0, over |-> 3],
      [event |-> "gale", polygon |-> None, zones |-> {"z2"}, sent |-> 1, inForce |-> 1, over |-> 9],
      [event |-> "storm", polygon |-> "sea", zones |-> {}, sent |-> 0, inForce |-> 0, over |-> 2]>>

CoastAndSea == [z1 |-> "coast", z2 |-> "sea"]

SeaOrBoth == {{"sea"}, {"coast", "sea"}}

InitPart ==
    \/ part = "requests" /\ Init /\ InitShapes /\ eye.view = {"sea"} /\ eye.zoom = 5
    \/ part = "shapes" /\ Init /\ InitShapes

NextPart ==
    /\ UNCHANGED part
    /\ \/ part = "requests" /\ Next /\ UNCHANGED shapeVars
       \/ part = "shapes" /\ NextShapes /\ UNCHANGED vars

\* Nothing is assumed of the shapes' part.
FairPart == part = "requests" => Fairness

SpecPart == InitPart /\ [][NextPart]_<<part, vars, shapeVars>> /\ FairPart
=============================================================================
