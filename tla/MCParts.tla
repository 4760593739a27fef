------------------------------- MODULE MCParts -------------------------------
(***************************************************************************)
(* Instances for TLC of ViewerState, Lightning, FrameListing, MapView and   *)
(* PresetEditor.  They are checked one at a time: part names the one a      *)
(* behaviour is of, and the variables of the others keep a first value.     *)
(* PresetEditor extends MapView: the preview card of the editor is one more *)
(* of these.                                                                *)
(***************************************************************************)
EXTENDS ViewerState, Lightning, MapView, TLC

CONSTANTS EndTime, MaxPresets

VARIABLES
    part,
    hour, loop, stored, heard,
    preview, there, listed, before, editor, focus, inbox

listingVars == <<hour, loop, stored, heard>>
editorVars  == <<preview, there, listed, before, editor, focus, inbox>>

\* RainViewer at its own interval and at twice that, and NOAA.
Listing == INSTANCE FrameListing WITH
    Ranges <- {[source |-> "RainViewer", stride |-> 1, past |-> 3, reach |-> 4],
               [source |-> "RainViewer", stride |-> 2, past |-> 4, reach |-> 4],
               [source |-> "NOAA", stride |-> 3, past |-> 6, reach |-> 9]},
    Tolerance <- 1, Lag <- 3, Coarse <- 3, FirstTime <- 12

\* A place, and a boat that sails; a car that is tracked.
TownAndBoat == <<[entity |-> Absent, at |-> "town"], [entity |-> Boat, at |-> Absent]>>
CarAndBoat  == {[car |-> Absent, boat |-> "home"], [car |-> "town", boat |-> "home"],
                [car |-> "town", boat |-> "town"]}

\* The editor's presets are two places; nothing is tracked.
Editor == INSTANCE PresetEditor WITH
    view <- preview, gps <- there, setting <- listed, past <- before,
    Presets <- <<[id |-> 1, entity |-> Absent, at |-> "town"], [id |-> 2, entity |-> Absent, at |-> "home"]>>,
    Fixes <- {[k \in {Car, Boat} |-> Absent]}

-----------------------------------------------------------------------------
ViewerOff == Init /\ config = [e \in Elements |-> None] /\ record = [n \in Nonces |-> Empty]
StormOff  == InitStorm /\ map.frame = CHOOSE f \in Frames : TRUE
ListingOff == Listing!InitListing /\ loop.range.stride = 3 /\ stored = [phase |-> 0, at |-> None, blocked |-> FALSE]
EditorOff == Editor!InitEditor
ViewOff   == InitMap /\ setting.tracked /\ gps[Boat] = "town"

InitPart ==
    \/ part = "viewer" /\ Init /\ StormOff /\ ListingOff /\ ViewOff /\ EditorOff
    \/ part = "storm"  /\ ViewerOff /\ InitStorm /\ ListingOff /\ ViewOff /\ EditorOff
    \/ part = "listing" /\ ViewerOff /\ StormOff /\ Listing!InitListing /\ ViewOff /\ EditorOff
    \/ part = "view"   /\ ViewerOff /\ StormOff /\ ListingOff /\ InitMap /\ EditorOff
    \/ part = "editor" /\ ViewerOff /\ StormOff /\ ListingOff /\ ViewOff /\ Editor!InitEditor

NextPart ==
    /\ UNCHANGED part
    /\ \/ part = "viewer" /\ Next
          /\ UNCHANGED <<stormVars, listingVars, mapVars, editorVars>>
       \/ part = "storm" /\ NextStorm
          /\ UNCHANGED <<viewerVars, listingVars, mapVars, editorVars>>
       \/ part = "listing" /\ Listing!NextListing
          /\ UNCHANGED <<viewerVars, stormVars, mapVars, editorVars>>
       \/ part = "view" /\ NextMap
          /\ UNCHANGED <<viewerVars, stormVars, listingVars, editorVars>>
       \/ part = "editor" /\ Editor!NextEditor
          /\ UNCHANGED <<viewerVars, stormVars, listingVars, mapVars>>

allVars == <<part, viewerVars, stormVars, listingVars, mapVars, editorVars>>

SpecPart == InitPart /\ [][NextPart]_allVars

-----------------------------------------------------------------------------
\* One key is as good as another.
AnyKey == Permutations(Keys)

\* What TLC tells states apart by: the part's own variables, as the others do not
\* move.  The two elements go without their names, and so do the two strikes and
\* the two frames of the map: of a frame it counts whether it is the map's.
Element(e) == <<config[e], vs[e], seen[e], {n \in Nonces : owner[n] = e},
                {i \in DOMAIN calls : calls[i].el = e}, {i \in DOMAIN answers : answers[i].el = e}>>
OfNobody(s) == [i \in DOMAIN s |-> [s[i] EXCEPT !.el = None]]
ViewerNow == <<{Element(e) : e \in Elements}, OfNobody(calls), OfNobody(answers), record>>

Strike(s) == <<hass[s], layer.strikes[s], s \in layer.buffer, s \in canvas.strikes, s \in removed>>
OfMap(f) == IF f = Nothing THEN f ELSE f = map.frame
StormNow == <<now, {Strike(s) : s \in Strikes}, map.moving, map.quiet,
              [layer EXCEPT !.strikes = NoStrikes, !.buffer = {}, !.origin = OfMap(@), !.bufferAt = OfMap(@)],
              OfMap(canvas.at), canvas.display>>

\* Where the map was taken for the tracking counts while no other stop is held, and
\* where the car is while it is tracked: no preset is of it.
MapNow == <<[view EXCEPT !.tracked = IF view.held = Absent THEN @ ELSE Absent],
            IF setting.tracked THEN gps ELSE gps[Boat], setting, past>>

\* A preset's id tells which one it was before a step, and no more.
Nameless(presets) == IF presets = Absent THEN Absent ELSE [i \in DOMAIN presets |-> presets[i].at]
EditorNow == <<preview, there, Nameless(listed.presets), before,
               [editor EXCEPT !.presets = Nameless(@)], focus, Nameless(inbox)>>

Now == <<part, CASE part = "viewer"  -> ViewerNow
                 [] part = "storm"   -> StormNow
                 [] part = "listing" -> listingVars
                 [] part = "view"    -> MapNow
                 [] part = "editor"  -> EditorNow>>

\* Of FrameListing: after a listing has come in the loop follows it.
LoopFollows == part = "listing" => Listing!LoopFollows

\* Of PresetEditor: the preview and the list are in step, and the preset that is
\* open stays the one that is.
EditorInStep == [](part = "editor" => Editor!EditorInStep) /\ Editor!OpenStaysOpen
=============================================================================
