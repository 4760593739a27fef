------------------------------- MODULE MapView -------------------------------
(***************************************************************************)
(* Who moves the card's map: the viewer's hand, the marker it tracks, the   *)
(* re-centre button's rotation of stops (src/src/view-presets.ts), and the  *)
(* popups that pan it to fit and put it back (popup-pan-restore.ts), with   *)
(* the listeners of weather-radar-card.ts that tell them apart.             *)
(*                                                                          *)
(* A place is a centre and a zoom; a move of a followed entity is one past  *)
(* the jitter.  Leaflet is external: a move of the card starts, is animated *)
(* and ends, or is cut short by the next one.                               *)
(***************************************************************************)
EXTENDS Naturals, Sequences, FiniteSetsExt

CONSTANTS Places, Home,     \* Home: where Home Assistant is, a place
          Car,              \* the entity of the marker that may be tracked
          Boat,             \* another entity, which a preset may follow
          Aside,            \* where a popup's pan takes it, and nothing else does
          Fixes,            \* where the two may be at once, Absent when not known
          Presets,          \* the config's presets
          TimesOut,         \* preset_timeout is not 0
          Tracked, Default, \* the stops that are no preset
          Absent

\* Places, entities and stops are told apart from none, and from each other.
ASSUME MapAssumption ==
    /\ Home \in Places /\ Absent \notin Places /\ Aside \notin Places \cup {Absent}
    /\ Absent \notin {Car, Boat} /\ Fixes \subseteq [{Car, Boat} -> Places \cup {Absent}]
    /\ DOMAIN Presets \subseteq Nat
    /\ \A i \in DOMAIN Presets : /\ Presets[i].entity \in {Car, Boat, Absent}
                                 /\ Presets[i].at \in Places \cup {Absent}
    /\ Tracked # Default /\ Absent \notin {Tracked, Default}
    /\ DOMAIN Presets \cap {Absent, Tracked, Default} = {}
    /\ \A place \in Places \cup {Aside, Absent} : \A mover \in {"card", "popup", "hand"} :
          Absent # [to |-> place, by |-> mover]

VARIABLES view,    \* the map, with ViewPresets, PopupPanRestore and the listeners
          gps,     \* where hass has the entities
          setting, \* tracked: the marker has track set; centre; presets
          past     \* history: base, where anything but a popup put the map last;
                   \* by: that was the "card", the viewer's "hand", or a hand
                   \* the card had no mark of, "unmarked";
                   \* missed: the hand kept the last hass update from the tracking;
                   \* cut: a popup opened while the card was moving the map

mapVars == <<view, gps, setting, past>>

-----------------------------------------------------------------------------
(* The rotation                                                              *)

\* A preset: [entity, at], either of them Absent, with an id in the editor.
presetPosition(p) ==
    IF p.entity # Absent /\ gps'[p.entity] # Absent THEN gps'[p.entity] ELSE p.at

\* resolveTracking: a marker without a position is drawn at home.
resolveTracking ==
    IF ~setting'.tracked THEN Absent ELSE IF gps'[Car] = Absent THEN Home ELSE gps'[Car]

\* liveTrackedStop: and is no stop.
liveTrackedStop == IF setting'.tracked THEN gps'[Car] ELSE Absent

\* A preset that would show the tracked marker again is left out.
IsStop(p) == presetPosition(p) # Absent /\ ~(liveTrackedStop # Absent /\ p.entity = Car)

\* The presets among the stops, by index; they come after Tracked and Default.
_stops == {i \in DOMAIN setting'.presets : IsStop(setting'.presets[i])}

\* Rest is the first stop.
Rest == IF liveTrackedStop # Absent THEN Tracked ELSE Default

_currentKey(v) == IF v.held # Absent THEN v.held ELSE Rest

IsPreset(key) == key \notin {Absent, Tracked, Default}

_view(key) ==
    IF key = Tracked THEN liveTrackedStop
    ELSE IF key = Default THEN setting'.centre
    ELSE IF key \in DOMAIN setting'.presets THEN presetPosition(setting'.presets[key]) ELSE Absent

_isAt(v, place) == v.move = Absent /\ v.at = place

\* One that is no stop any more is followed by the first.
nextStop(current, onStop) ==
    LET later == {i \in _stops : current = Default \/ (current \in _stops /\ i > current)}
    IN  IF ~onStop THEN current
        ELSE IF current = Tracked THEN Default
        ELSE IF later # {} THEN Min(later) ELSE Rest

-----------------------------------------------------------------------------
(* Moves.  movestart and moveend run their listeners.                        *)

\* A move that is no popup's ends what the popups would put back.
MapMoves(v, auto) ==
    [v EXCEPT !.started = @ \/ v.hand, !.saved = IF auto THEN @ ELSE Absent]

MapRests(v) == [v EXCEPT !.move = Absent, !.hand = FALSE, !.started = FALSE]

Stopped(v) == IF v.move = Absent THEN v ELSE MapRests(v)

\* setView and panTo: to where the map is already, only moveend is fired.
setView(v, place) ==
    IF _isAt(v, place) THEN MapRests(v)
    ELSE [MapMoves(Stopped(v), FALSE) EXCEPT !.move = [to |-> place, by |-> "card"]]

\* _arm: no countdown while the editor holds the preset.
_arm(v) == [v EXCEPT !.timer = TimesOut /\ v.editing = Absent]

_onStopChange(v) ==
    [v EXCEPT !.hand = FALSE, !.tracked = IF v.held = Absent THEN resolveTracking ELSE @]

_go(v, key) ==
    LET place   == _view(key)
        held    == IF key = Tracked \/ (key = Default /\ liveTrackedStop = Absent)
                   THEN Absent ELSE key
        goes    == [v EXCEPT !.held = held,
                             !.followed = IF IsPreset(key) THEN place ELSE Absent]
        settled == IF held = Absent THEN [goes EXCEPT !.timer = FALSE] ELSE _arm(goes)
        told    == _onStopChange(settled)
    IN  IF place = Absent THEN told ELSE setView(told, place)

\* recenter(): the stop it goes to.
recenterKey(v) ==
    LET current == _currentKey(v)
        place   == _view(current)
        onStop  == place = Absent \/ _isAt(v, place)
    IN  IF v.editing # Absent THEN v.editing ELSE nextStop(current, onStop)

clear(v) == _go(v, IF v.editing # Absent THEN v.editing ELSE Rest)

touch(v) == IF v.held # Absent THEN _arm(v) ELSE v

drop(v) == IF v.held = Absent THEN v
           ELSE _onStopChange([v EXCEPT !.held = Absent, !.timer = FALSE])

edit(v, i) ==
    LET e == [v EXCEPT !.editing = i]
    IN  IF i = Absent THEN (IF v.editing = Absent THEN e ELSE clear(e))
        ELSE IF v.held = i /\ (_view(i) = Absent \/ _isAt(v, _view(i))) THEN e
        ELSE _go(e, i)

follow(v) ==
    LET p   == setting'.presets[v.held]
        pos == presetPosition(p)
    IN  IF ~IsPreset(v.held) THEN v
        ELSE IF v.held \notin DOMAIN setting'.presets THEN v
        ELSE IF p.entity = Absent \/ pos \in {Absent, v.followed} THEN v
        ELSE setView([v EXCEPT !.followed = pos], pos)

_resolveTracking(v) ==
    IF v.hand \/ ~setting'.tracked \/ v.held # Absent THEN v
    ELSE IF v.tracked = resolveTracking THEN v
    ELSE setView([v EXCEPT !.tracked = resolveTracking], resolveTracking)

-----------------------------------------------------------------------------
(* The steps                                                                 *)

Idle == UNCHANGED <<gps, setting>>

\* Where the step takes the map, if it is the card that does.
Noted(missed) ==
    LET moves == view'.move \notin {Absent, view.move} /\ view'.move.by = "card"
    IN  past' = [base   |-> IF moves THEN view'.move.to ELSE past.base,
                 by     |-> IF moves THEN "card" ELSE past.by,
                 cut    |-> past.cut /\ ~moves,
                 missed |-> missed]

\* updated(), with where the entities are by now.
HassUpdate(now) ==
    /\ gps' = now /\ UNCHANGED setting
    /\ LET v == _resolveTracking(view)
       IN  view' = IF v.hand THEN v ELSE follow(v)
    /\ Noted(view.hand)

MoveEnds ==
    /\ view.move # Absent /\ view.move.by # "hand"
    /\ Idle
    /\ view' = [MapRests(view) EXCEPT !.at = view.move.to]
    /\ Noted(past.missed)

\* _onRecenter, by the button or the double tap.
PressRecenter ==
    /\ ~view.down /\ Idle
    /\ \E key \in {recenterKey(view)} : view' = _go(view, key)
    /\ Noted(past.missed)

\* The chip with the stop's name.
PressLabel ==
    /\ ~view.down /\ view.held # Absent /\ Idle /\ view' = clear(view) /\ Noted(past.missed)

\* The idle countdown.  It is a minute at least and each touch starts it anew,
\* so it does not end under a finger.
IdleTimerFires ==
    /\ view.timer /\ ~view.down
    /\ Idle /\ view' = clear([view EXCEPT !.timer = FALSE]) /\ Noted(past.missed)

\* The viewer's hand: pointerdown stops what moves the map, after it is marked.
PointerDown ==
    /\ ~view.down /\ Idle
    /\ view' = Stopped(touch([view EXCEPT !.hand = TRUE, !.down = TRUE, !.grace = FALSE]))
    /\ past' = IF view.move # Absent /\ view.move.by # "popup"
               THEN [past EXCEPT !.base = view.at, !.by = "unmarked"] ELSE past

PointerUp ==
    /\ view.down /\ (view.move # Absent => view.move.by # "hand")
    /\ Idle /\ view' = [view EXCEPT !.down = FALSE, !.grace = TRUE] /\ UNCHANGED past

Wheel ==
    /\ ~view.down /\ Idle
    /\ view' = touch([view EXCEPT !.hand = TRUE, !.grace = TRUE]) /\ UNCHANGED past

\* A drag, or what the wheel or a zoom button started.
HandMoves ==
    /\ view.down \/ view.grace
    /\ view.move # Absent => view.move.by # "hand"
    /\ Idle
    /\ view' = [MapMoves(Stopped(view), FALSE) EXCEPT !.move = [to |-> Absent, by |-> "hand"]]
    /\ UNCHANGED past

HandMoveEnds(place) ==
    /\ view.move # Absent /\ view.move.by = "hand"
    /\ Idle
    /\ view' = [MapRests(view) EXCEPT !.at = place]
    /\ past' = [past EXCEPT !.base = place, !.cut = FALSE,
                             !.by = IF view.hand THEN "hand" ELSE "unmarked"]

\* Mutant: a mark that is still there after the grace is left.
GraceEndsOnce ==
    IF view.started \/ ~view.hand THEN [view EXCEPT !.grace = FALSE]
    ELSE [view EXCEPT !.grace = FALSE, !.hand = FALSE]

\* _markUserMove's timer: a touch that moved nothing is unmarked, and what it
\* kept from the map is made up for.
AfterGrace ==
    IF view.started \/ ~view.hand THEN [view EXCEPT !.grace = FALSE]
    ELSE follow(_resolveTracking([view EXCEPT !.grace = FALSE, !.hand = FALSE]))

GraceEnds ==
    /\ view.grace
    /\ Idle /\ view' = AfterGrace
    /\ Noted(past.missed /\ (view.started \/ ~view.hand))

-----------------------------------------------------------------------------
(* Popups, of which one is open at a time                                    *)

\* onOpen, with the pan that makes the popup fit: after a tap.
PopupOpens(fits) ==
    /\ ~view.down /\ (view.move # Absent => view.move.by # "hand")
    /\ Idle
    /\ LET v == [view EXCEPT !.popup = TRUE, !.closing = FALSE,
                             !.saved = IF @ = Absent THEN view.at ELSE @]
       IN  view' = IF fits THEN v
                   ELSE [MapMoves(Stopped(v), TRUE) EXCEPT !.move = [to |-> Aside, by |-> "popup"]]
    /\ past' = [past EXCEPT !.cut = @ \/ (view.move # Absent /\ view.move.by = "card")]

\* Closed by a tap, or with the feature it is of.
PopupCloses ==
    /\ view.popup /\ Idle
    /\ view' = [view EXCEPT !.popup = FALSE, !.closing = TRUE] /\ UNCHANGED past

\* onCloseSettled, a tick later, with no popup open since.
CloseSettled ==
    /\ view.closing /\ Idle
    /\ LET v == [view EXCEPT !.closing = FALSE, !.saved = Absent]
       IN  view' = IF view.saved = Absent THEN v ELSE setView(v, view.saved)
    /\ UNCHANGED past

-----------------------------------------------------------------------------
InitView == [at |-> setting.centre, move |-> Absent, hand |-> FALSE, started |-> FALSE,
             grace |-> FALSE, down |-> FALSE, held |-> Absent, timer |-> FALSE,
             editing |-> Absent, followed |-> Absent, tracked |-> Absent,
             popup |-> FALSE, saved |-> Absent, closing |-> FALSE]

InitMap ==
    /\ gps \in Fixes
    /\ setting \in [tracked : BOOLEAN, centre : {Home}, presets : {Presets}]
    /\ view = InitView
    /\ past = [base |-> setting.centre, missed |-> setting.tracked, by |-> "card", cut |-> FALSE]

HandStep == PointerDown \/ PointerUp \/ Wheel \/ HandMoves \/ (\E p \in Places : HandMoveEnds(p))

PopupStep == (\E fits \in BOOLEAN : PopupOpens(fits)) \/ PopupCloses \/ CloseSettled

NextMap ==
    \/ \E now \in Fixes : HassUpdate(now)
    \/ MoveEnds \/ PressRecenter \/ PressLabel \/ IdleTimerFires \/ GraceEnds
    \/ HandStep \/ PopupStep

SpecMap == InitMap /\ [][NextMap]_mapVars

-----------------------------------------------------------------------------
\* Where the stop on show is: the tracked marker, Default, or a preset.
StopPlace ==
    LET car == IF setting.tracked THEN gps[Car] ELSE Absent
        p   == setting.presets[view.held]
    IN  IF view.held = Absent THEN car
        ELSE IF view.held = Default THEN setting.centre
        ELSE IF p.entity # Absent /\ gps[p.entity] # Absent THEN gps[p.entity] ELSE p.at

\* With no hand on it, the map follows what its stop is of: also what moved
\* under a touch that moved nothing.  "A hass update skipped while the flag was
\* set may be the last one for a while."
FollowsItsStop ==
    ~view.hand /\ past.by = "card" /\ ~past.missed /\ ~past.cut /\ StopPlace # Absent => past.base = StopPlace

\* Popups leave the map where the viewer, the tracking or the rotation put it:
\* "that move owns the view, so closing the popup must not undo it".
PopupsLeaveNoShift ==
    ~view.popup /\ ~view.closing /\ view.move = Absent => view.at = past.base

\* The map is where its stop, the viewer's hand or the rotation put it; a popup
\* that opens while the card is moving the map is left out, which then stays
\* where the popup stopped it.
MapInPlace == FollowsItsStop /\ (PopupsLeaveNoShift \/ past.cut)
=============================================================================
