------------------------------ MODULE Lightning ------------------------------
(***************************************************************************)
(* The lightning overlay (src/src/lightning-layer.ts): the strikes it takes *)
(* over from hass.states, the buffer of settled strikes and the canvas it   *)
(* paints in animation frames, with the two helpers that time its repaints  *)
(* (map-quiet.ts, hide-while-zooming.ts).                                   *)
(*                                                                          *)
(* One unit of time is 30 s: the time a strike is a bolt (BOLT_DURATION)    *)
(* and the period of the age pass (AGE_REFRESH_MS).  The map's frame is its *)
(* zoom and pixel origin, what a layer point depends on; a drag keeps it.   *)
(***************************************************************************)
EXTENDS Naturals

CONSTANTS Strikes,   \* entity ids of the Blitzortung integration
          Frames,    \* zooms and pixel origins of the map
          MaxAge,    \* _displayMaxAgeSec
          MaxTime,   \* bound: how long a run lasts
          Nothing

VARIABLES
    now,
    hass,      \* hass.states: when each strike there is occurred
    map,       \* the map's frame; whether it moves; the quiet timer is armed
    layer,     \* the LightningLayer: strikes, buffer, flags, timers
    canvas,    \* what its canvas shows: the strikes, the frame they were projected in, display
    removed    \* history: the strikes removed since the last age pass

stormVars == <<now, hass, map, layer, canvas, removed>>

NoStrikes == [s \in Strikes |-> Nothing]
Held(strikes) == {s \in Strikes : strikes[s] # Nothing}

\* bufferMaxTs is -1 in no buffer's place: times start at 1.
NoLayer == [alive |-> FALSE, paused |-> FALSE, strikes |-> NoStrikes, origin |-> Nothing,
            buffer |-> {}, bufferAt |-> Nothing, bufferMaxTs |-> 0, bufferDirty |-> TRUE,
            redrawQueued |-> FALSE, ageDue |-> FALSE]
NoCanvas == [strikes |-> {}, at |-> Nothing, display |-> FALSE]

InAge(ts) == now <= ts + MaxAge

-----------------------------------------------------------------------------
(* hass updates                                                              *)

\* _collectStrikes
Collected(states) ==
    [s \in Strikes |-> IF states[s] # Nothing /\ InAge(states[s]) THEN states[s] ELSE Nothing]

\* Mutant: a strike that belongs in the buffer is taken for a live one.
DirtiesNever(l, collected, added) == l.bufferDirty

\* A strike first seen when it is already settled has to go into the buffer.
Dirties(l, collected, added) ==
    l.bufferDirty \/ \E s \in added : collected[s] <= l.bufferMaxTs

\* _refreshFromHass: a buffered strike that is gone waits for the age pass; in
\* a paused layer nothing is repainted.
_refreshFromHass(l, states) ==
    LET collected == Collected(states)
        added == Held(collected) \ Held(l.strikes)
        gone  == Held(l.strikes) \ Held(collected)
        changed == added # {} \/ \E s \in gone : l.strikes[s] > l.bufferMaxTs
    IN  [l EXCEPT !.strikes = [s \in Strikes |-> IF s \in added THEN collected[s]
                                                 ELSE IF s \in gone THEN Nothing ELSE @[s]],
                  !.bufferDirty = Dirties(l, collected, added),
                  !.redrawQueued = @ \/ (changed /\ ~l.paused)]

\* _repositionAndRedraw
Repositioned(l) == [l EXCEPT !.origin = map.frame, !.bufferDirty = TRUE, !.redrawQueued = TRUE]

\* _refreshAges
Aged(l) ==
    [l EXCEPT !.strikes = [s \in Strikes |-> IF @[s] # Nothing /\ InAge(@[s]) THEN @[s] ELSE Nothing],
              !.bufferDirty = TRUE, !.redrawQueued = TRUE, !.ageDue = FALSE]

\* updateHass: any state has changed in Home Assistant, perhaps a strike was
\* added or dropped.
updateHass(states) ==
    /\ hass' = states
    /\ layer' = IF layer.alive THEN _refreshFromHass(layer, states) ELSE layer
    /\ removed' = removed \cup (Held(layer.strikes) \ Held(layer'.strikes))
    /\ UNCHANGED <<now, map, canvas>>

Updates ==
    {hass} \cup {[hass EXCEPT ![s] = IF hass[s] = Nothing THEN ts ELSE Nothing] :
                     s \in Strikes, ts \in 1..now}

-----------------------------------------------------------------------------
(* start, clear, pause, resume                                               *)

Start ==
    /\ ~layer.alive /\ ~map.moving
    /\ layer' = _refreshFromHass(Repositioned([NoLayer EXCEPT !.alive = TRUE]), hass)
    /\ canvas' = [NoCanvas EXCEPT !.display = TRUE]
    /\ removed' = {}
    /\ UNCHANGED <<now, hass, map>>

\* A frame that was asked for comes to nothing.
Clear ==
    /\ layer.alive
    /\ layer' = NoLayer /\ canvas' = NoCanvas
    /\ UNCHANGED <<now, hass, map, removed>>

Pause ==
    /\ layer.alive /\ ~layer.paused
    /\ layer' = [layer EXCEPT !.paused = TRUE, !.ageDue = FALSE]
    /\ UNCHANGED <<now, hass, map, canvas, removed>>

\* The strikes have aged while nobody looked.
Resume ==
    /\ layer.alive /\ layer.paused
    /\ layer' = Aged([layer EXCEPT !.paused = FALSE])
    /\ removed' = {}
    /\ UNCHANGED <<now, hass, map, canvas>>

-----------------------------------------------------------------------------
(* The age pass, the repaint, and time                                       *)

AgePass ==
    /\ layer.ageDue
    /\ layer' = Aged(layer)
    /\ removed' = {}
    /\ UNCHANGED <<now, hass, map, canvas>>

SettledBy(l, cut) == {s \in Held(l.strikes) : l.strikes[s] <= cut}

\* _redraw, in the animation frame: the buffer is rebuilt if it has to be,
\* then drawn, then the strikes newer than its cutoff.  Without a strike the
\* canvas is cleared and the buffer left as it is.
Redraw ==
    LET rebuild == layer.bufferDirty \/ layer.bufferAt = Nothing
        drawn == {s \in Held(layer.strikes) : InAge(layer.strikes[s])}
        cut == IF rebuild THEN now - 1 ELSE layer.bufferMaxTs
        buffer == IF rebuild THEN drawn \cap SettledBy(layer, cut) ELSE layer.buffer
        at == IF rebuild THEN layer.origin ELSE layer.bufferAt
        live == {s \in drawn : layer.strikes[s] > cut}
    IN  /\ layer.redrawQueued
        /\ IF Held(layer.strikes) = {}
           THEN /\ layer' = [layer EXCEPT !.redrawQueued = FALSE]
                /\ canvas' = [canvas EXCEPT !.strikes = {}, !.at = layer.origin]
           ELSE /\ layer' = [layer EXCEPT !.redrawQueued = FALSE, !.buffer = buffer,
                                          !.bufferAt = at, !.bufferMaxTs = cut,
                                          !.bufferDirty = FALSE]
                /\ canvas' = [canvas EXCEPT !.strikes = buffer \cup live,
                                            !.at = IF buffer = {} THEN layer.origin ELSE at]
        /\ UNCHANGED <<now, hass, map, removed>>

\* 30 s pass, after the age pass and the frames of the 30 s before.
Time ==
    /\ now < MaxTime /\ ~layer.ageDue /\ ~layer.redrawQueued
    /\ now' = now + 1
    /\ layer' = [layer EXCEPT !.ageDue = layer.alive /\ ~layer.paused]
    /\ UNCHANGED <<hass, map, canvas, removed>>

-----------------------------------------------------------------------------
(* The map moves                                                             *)

\* movestart cancels the quiet timer; zoomstart also takes the canvas away.
MoveStart(zooms) ==
    /\ ~map.moving
    /\ map' = [map EXCEPT !.moving = TRUE, !.quiet = FALSE]
    /\ canvas' = [canvas EXCEPT !.display = @ /\ ~zooms]
    /\ UNCHANGED <<now, hass, layer, removed>>

\* A jump resets the pixel origin: viewreset takes the canvas away.
HidesOnReset(f) == [canvas EXCEPT !.display = @ /\ f = map.frame]

\* A drag ends in the frame it began in, a zoom or a jump in another.
MoveEnd(f) ==
    /\ map.moving
    /\ map' = [frame |-> f, moving |-> FALSE, quiet |-> TRUE]
    /\ canvas' = HidesOnReset(f)
    /\ UNCHANGED <<now, hass, layer, removed>>

\* Still for MAP_QUIET_MS: repaint, and back into the page.
Quiet ==
    /\ map.quiet
    /\ map' = [map EXCEPT !.quiet = FALSE]
    /\ layer' = IF layer.alive THEN Repositioned(layer) ELSE layer
    /\ canvas' = [canvas EXCEPT !.display = layer.alive]
    /\ UNCHANGED <<now, hass, removed>>

Resize ==
    /\ layer.alive /\ ~map.moving
    /\ layer' = Repositioned(layer)
    /\ UNCHANGED <<now, hass, map, canvas, removed>>

InitStorm ==
    /\ now = 1
    /\ hass = NoStrikes
    /\ map \in [frame : Frames, moving : {FALSE}, quiet : {FALSE}]
    /\ layer = NoLayer /\ canvas = NoCanvas /\ removed = {}

NextStorm ==
    \/ \E states \in Updates : updateHass(states)
    \/ Start \/ Clear \/ Pause \/ Resume
    \/ AgePass \/ Redraw \/ Time
    \/ (\E zooms \in BOOLEAN : MoveStart(zooms)) \/ (\E f \in Frames : MoveEnd(f))
    \/ Quiet \/ Resize

SpecStorm == InitStorm /\ [][NextStorm]_stormVars

-----------------------------------------------------------------------------
StormTypes ==
    /\ now \in 1..MaxTime
    /\ hass \in [Strikes -> 1..MaxTime \cup {Nothing}]
    /\ map \in [frame : Frames, moving : BOOLEAN, quiet : BOOLEAN]
    /\ layer.strikes \in [Strikes -> 1..MaxTime \cup {Nothing}]
    /\ layer.buffer \subseteq Strikes /\ canvas.strikes \subseteq Strikes

Painted == layer.alive /\ ~layer.paused /\ ~layer.redrawQueued

\* Between two frames the canvas of a layer that can be seen shows every strike
\* it holds that is not past its age, and no other but those dropped since the
\* last age pass, which leaves them out: through buffered and live strikes,
\* backlogs, pauses and repaints.
StormShown ==
    Painted /\ ~layer.ageDue =>
        /\ {s \in Held(layer.strikes) : InAge(layer.strikes[s])} \subseteq canvas.strikes
        /\ canvas.strikes \subseteq Held(layer.strikes) \cup removed

\* Strikes are never seen where a zoom or a jump has left them: what is in the
\* page was projected in the map's frame.
NeverMisplaced ==
    Painted /\ canvas.display /\ ~map.moving /\ canvas.strikes # {} =>
        canvas.at = map.frame

\* The canvas shows the storm that is, where it is.
StormDrawn == StormTypes /\ StormShown /\ NeverMisplaced
=============================================================================
