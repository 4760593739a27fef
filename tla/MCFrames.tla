------------------------------ MODULE MCFrames ------------------------------
(***************************************************************************)
(* Instances for TLC of FrameLoop and of Motion: the arrays of the loop,    *)
(* and what is measured of the frames in them.  They are checked one at a   *)
(* time: part names the one a behaviour is of, and the variables of the     *)
(* other keep a first value.                                                *)
(***************************************************************************)
EXTENDS FrameLoop, Motion

VARIABLE part

\* Motion compensation is of any source, the mask of DWD's; they wait for each
\* other nowhere, so it is either.
EitherConfig == {[motion |-> TRUE, dwd |-> FALSE], [motion |-> FALSE, dwd |-> TRUE]}

\* Of the layers, the first two show the same: the two newest frames.
FourLayers == <<"a", "a", "b", "a">>

InitPart ==
  \/ part = "loop"   /\ Init /\ InitMotion /\ player.config.motion
  \/ part = "motion" /\ Init /\ ~p.run /\ InitMotion

NextPart ==
  /\ UNCHANGED part
  /\ \/ part = "loop" /\ Next /\ UNCHANGED motionVars
     \/ part = "motion" /\ NextMotion /\ UNCHANGED vars

SpecPart == InitPart /\ [][NextPart]_<<part, vars, motionVars>>

-----------------------------------------------------------------------------
\* What TLC tells states apart by: of a layer of the loop, whether it is on the
\* map, on screen and loading, not its name; of the load, nothing once it is over.
\* A new layer may have any free name, and none that is still in shifting: once
\* the load is over only an update makes layers, and it forgets those that left.
Loads == init.stage = "frames"
Of(layer) == [none |-> layer = None, on |-> layer \in p.attached, seen |-> layer \in p.shown,
              shifting |-> layer \in shifting, awaited |-> Loads /\ layer = init.layer]
OfAll(entries) == {<<s.time, Of(s.layer)>> : s \in entries}
Named == (ToSet(p.img) \ {None}) \cup {s.layer : s \in p.staged \cup staging}

LoopNow == <<[p EXCEPT !.img = [i \in DOMAIN @ |-> Of(@[i])], !.staged = OfAll(@),
                       !.attached = Cardinality(@), !.shown = Cardinality(@)],
             Cardinality(Named), Cardinality(shifting), OfAll(staging), updating, owed, clock,
             init.stage, IF Loads THEN <<init.at, init.firstShown>> ELSE <<>> >>

Now == <<part, IF part = "loop" THEN LoopNow ELSE motionVars>>
=============================================================================
