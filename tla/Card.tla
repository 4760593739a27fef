-------------------------------- MODULE Card --------------------------------
(***************************************************************************)
(* The card element of src/src/weather-radar-card.ts, composed with its     *)
(* ViewerState: mounting and unmounting, setConfig with its fast paths and  *)
(* the debounced rebuild, theme flips, the overlays and the playback speed  *)
(* the viewer chooses (src/src/layer-toggles.ts), and the two visibility    *)
(* signals that pause it all.                                               *)
(*                                                                          *)
(* The map, the player and the layers are what they are to the card: built, *)
(* running or paused.  A handler is one step; the only await is             *)
(* _hydrateViewerState's, on the viewer state's GET.                        *)
(***************************************************************************)
EXTENDS Naturals, Sequences, FiniteSets

CONSTANTS Overlays,      \* overlay keys, also their storage keys
          OfRest,        \* overlays each value of the other config keys turns on
          Speeds,        \* playback speeds
          Nonces, None, MaxCalls

ASSUME CardAssumption ==
    /\ None \notin Nonces \cup Speeds /\ Overlays \cap {"speed"} = {}
    /\ \A r \in DOMAIN OfRest : OfRest[r] \subseteq Overlays

VARIABLES card,                                             \* the element
          tabHidden,                                        \* the page is in the background
          config, owner, vs, record, calls, answers, seen   \* ViewerState

viewer   == <<config, owner, vs, record, calls, answers, seen>>
cardVars == <<card, tabHidden, config, owner, vs, record, calls, answers, seen>>

\* The one element of this page.
El == "card"

V == INSTANCE ViewerState WITH
        Elements <- {El}, Keys <- Overlays \cup {"speed"},
        Values <- Speeds \cup {"off"}, MaxResets <- 0, Switched <- {El}

\* The config apart from the identity: the speed, which a narrow update may
\* change alone, and the rest.  The centre and zoom, which it may too, only
\* move the map.
Configs == [speed : Speeds, rest : DOMAIN OfRest]

Player == "player"

-----------------------------------------------------------------------------
(* What the viewer's state says.                                             *)

Active(s) == s.nonce # None

\* OverlayVisibility.isOn: the stored choice, or this session's.
isOn(c, s, k) == IF Active(s) THEN s.cache[k] # "off" ELSE k \notin c.session

\* loadPlaybackSpeed: the stored override, or the config's speed.
loadPlaybackSpeed(c, s) ==
    IF Active(s) /\ s.cache["speed"] # None THEN s.cache["speed"] ELSE c.want.speed

\* Overlays wait until the viewer's saved choices are in.
ChoicesDue(s) == Active(s) /\ ~s.hydrated

Wanted(c, s) == {k \in OfRest[c.want.rest] : isOn(c, s, k)}

\* Mutant: an overlay started while the card is hidden runs.
applyOverlaysAwake(c, s) ==
    IF ~c.map \/ ChoicesDue(s) THEN c
    ELSE [c EXCEPT !.running = Wanted(c, s),
                   !.paused  = {k \in @ : k \in Wanted(c, s) \cup {Player}}]

\* _applyOverlays with _startOverlay and _stopOverlay: an overlay started while
\* the card is hidden is paused at once.
applyOverlays(c, s) ==
    IF ~c.map \/ ChoicesDue(s) THEN c
    ELSE [c EXCEPT !.running = Wanted(c, s),
                   !.paused  = {k \in @ : k \in Wanted(c, s) \cup {Player}}
                               \cup IF c.hidden THEN Wanted(c, s) \ c.running ELSE {}]

\* Mutant: only the speed waits for the saved choices.
afterHydrateSpeed(c, s) ==
    [c EXCEPT !.owed = FALSE, !.missed = FALSE,
              !.speed = IF c.map THEN loadPlaybackSpeed(c, s) ELSE @]

\* _hydrateViewerState after its await.
afterHydrate(c, s) ==
    applyOverlays([c EXCEPT !.owed = FALSE, !.missed = FALSE,
                            !.speed = IF c.map THEN loadPlaybackSpeed(c, s) ELSE @], s)

-----------------------------------------------------------------------------
(* Building and tearing down.                                                *)

Unbuilt(c) ==
    [c EXCEPT !.map = FALSE, !.running = {}, !.paused = {}, !.observed = FALSE]

\* _initMap with the viewer state it finds or makes.  The visibility observer
\* starts from "shown"; its first entry comes later.
Built(c, s) ==
    IF ~c.up \/ ~c.ready \/ c.map THEN c
    ELSE applyOverlays(
           [c EXCEPT !.map = TRUE, !.built = c.want.rest,
                     !.running = {}, !.paused = {}, !.hidden = FALSE, !.offScreen = FALSE,
                     !.observed = FALSE, !.owed = @ \/ ChoicesDue(s), !.missed = FALSE,
                     !.speed = loadPlaybackSpeed(c, s)], s)

Rebuilt(c, s) == Built(Unbuilt(c), s)

\* hydrate() of an object that needs no GET settles at once.
HydrateCalled(c, s) == IF ChoicesDue(s) THEN [c EXCEPT !.owed = TRUE] ELSE afterHydrate(c, s)

Mine   == vs[El]
Mine_  == vs'[El]

\* connectedCallback: a card that was up before builds its map; a new one has
\* no shadow DOM yet.
Mount ==
    /\ ~card.up
    /\ IF card.ready THEN V!Identify(El, config[El], TRUE) ELSE UNCHANGED viewer
    /\ card' = IF card.ready THEN HydrateCalled(Built([card EXCEPT !.up = TRUE], Mine_), Mine_)
               ELSE [card EXCEPT !.up = TRUE]
    /\ UNCHANGED tabHidden

\* updated() with no map: the first render, or hass arriving.
FirstUpdate ==
    /\ card.up /\ ~card.ready
    /\ V!Identify(El, config[El], TRUE)
    /\ card' = Built([card EXCEPT !.ready = TRUE], Mine_)
    /\ UNCHANGED tabHidden

\* disconnectedCallback.  The old object's GET may still answer: its
\* _hydrateViewerState then goes on with whatever the card has by then.
Unmount ==
    /\ card.up
    /\ IF Mine.live THEN V!dispose(El) ELSE UNCHANGED viewer
    /\ card' = [Unbuilt(card) EXCEPT !.up = FALSE, !.timer = FALSE,
                                     !.owed = FALSE, !.stray = @ \/ card.owed]
    /\ UNCHANGED tabHidden

StrayHydrateReturns ==
    /\ card.stray
    /\ card' = [afterHydrate(card, Mine) EXCEPT !.stray = FALSE, !.owed = card.owed,
                                                !.missed = card.missed]
    /\ UNCHANGED <<viewer, tabHidden>>

\* The browser's or Home Assistant's theme flips (map_style auto).
ThemeFlips ==
    /\ card.map
    /\ V!Identify(El, config[El], TRUE)
    /\ card' = Rebuilt(card, Mine_)
    /\ UNCHANGED tabHidden

-----------------------------------------------------------------------------
(* setConfig.                                                                *)

\* Mutant: a narrow key that changed hides the others.
ChangedFirst(want, n, moved) ==
    IF card.want.speed # want.speed THEN {"speed"}
    ELSE IF moved THEN {"view"}
    ELSE (IF card.want.rest # want.rest THEN {"rest"} ELSE {})
           \cup IF n # config[El] THEN {"id"} ELSE {}

Changed(want, n, moved) ==
    {f \in {"speed", "rest"} : card.want[f] # want[f]}
      \cup (IF moved THEN {"view"} ELSE {})
      \cup (IF n # config[El] THEN {"id"} ELSE {})

\* A narrow change is applied to the live map; anything else, the same config
\* again included, rebuilds it once 250 ms pass without another.  A changed
\* id is narrow when only _layer_state_id changed, not when the opt-in did.
setConfig(want, n, moved) ==
    /\ \E c \in {[card EXCEPT !.want = want]}, changed \in {Changed(want, n, moved)} :
       LET narrow == card.map /\ changed \in {{"view"}, {"speed"}}
       IN \/ /\ narrow
             /\ V!Identify(El, n, FALSE)
             /\ card' = IF changed = {"view"} THEN c
                        ELSE [c EXCEPT !.speed = loadPlaybackSpeed(c, Mine)]
          \/ /\ card.map /\ changed = {"id"}
             /\ V!Identify(El, n, TRUE)
             /\ card' = HydrateCalled(c, Mine_)
          \/ /\ ~narrow
             /\ IF card.ready THEN V!Identify(El, n, FALSE)
                ELSE /\ config' = [config EXCEPT ![El] = n]
                     /\ UNCHANGED <<owner, vs, record, calls, answers, seen>>
             /\ card' = [c EXCEPT !.timer = @ \/ card.map]
    /\ UNCHANGED tabHidden

\* The rebuild timer fires.
RebuildTimerFires ==
    /\ card.timer
    /\ V!Identify(El, config[El], TRUE)
    /\ card' = Rebuilt([card EXCEPT !.timer = FALSE], Mine_)
    /\ UNCHANGED tabHidden

-----------------------------------------------------------------------------
(* The viewer's choices.                                                     *)

\* ViewerState.set and delete with their no-op cases.
Store(k, v) == IF Active(Mine) /\ Mine.cache[k] # v THEN V!set(El, k, v) ELSE UNCHANGED viewer
Drop(k)     == IF Active(Mine) /\ Mine.cache[k] # None THEN V!delete(El, k) ELSE UNCHANGED viewer

\* A button of the layer bar, which holds the overlays the map was built with.
Toggle(k) ==
    /\ card.map /\ k \in OfRest[card.built]
    /\ IF isOn(card, Mine, k) THEN Store(k, "off") ELSE Drop(k)
    /\ card' = applyOverlays(
                 [card EXCEPT !.session = IF isOn(card, Mine, k) THEN @ \cup {k} ELSE @ \ {k}],
                 Mine_)
    /\ UNCHANGED tabHidden

\* The toolbar's speed button; savePlaybackSpeed stores no override that equals
\* the config's speed.
PickSpeed(m) ==
    /\ card.map
    /\ IF m = card.want.speed THEN Drop("speed") ELSE Store("speed", m)
    /\ card' = [card EXCEPT !.speed = m]
    /\ UNCHANGED tabHidden

-----------------------------------------------------------------------------
(* Visibility.                                                               *)

onHide(c) == [c EXCEPT !.hidden = TRUE, !.paused = c.running \cup {Player}]

onShow(c, tab) ==
    IF c.offScreen \/ tab THEN c ELSE [c EXCEPT !.hidden = FALSE, !.paused = {}]

\* visibilitychange.
TabSwitches ==
    /\ tabHidden' = ~tabHidden
    /\ card' = IF ~card.map THEN card
               ELSE IF tabHidden' THEN onHide(card) ELSE onShow(card, FALSE)
    /\ UNCHANGED viewer

\* The IntersectionObserver reports: once after it starts, then as the viewer
\* scrolls the card away or back.
ObserverReports(away) ==
    /\ card.map
    /\ ~card.observed \/ card.offScreen # away
    /\ LET c == [card EXCEPT !.observed = TRUE, !.offScreen = away]
       IN card' = IF ~away /\ ~tabHidden THEN onShow(c, FALSE) ELSE onHide(c)
    /\ UNCHANGED <<viewer, tabHidden>>

-----------------------------------------------------------------------------
(* The viewer state's own steps, with the card that waits for its GET.       *)

ViewerAnswered(i) ==
    /\ V!Answered(i)
    /\ card' = IF answers[i].by = "reread" THEN [card EXCEPT !.missed = @ \/ answers[i].ok]
               ELSE IF card.owed THEN afterHydrate(card, Mine_) ELSE card
    /\ UNCHANGED tabHidden

ViewerTimer       == V!TimerFires(El) /\ UNCHANGED <<card, tabHidden>>
ServerHandles(ok) == V!ServerHandles(ok) /\ UNCHANGED <<card, tabHidden>>

-----------------------------------------------------------------------------
Init ==
    /\ \E want \in Configs :
         card = [up |-> FALSE, ready |-> FALSE, map |-> FALSE, want |-> want, built |-> want.rest,
                 timer |-> FALSE, owed |-> FALSE, stray |-> FALSE, session |-> {}, running |-> {}, paused |-> {}, speed |-> want.speed,
                 hidden |-> FALSE, offScreen |-> FALSE, observed |-> FALSE,
                 missed |-> FALSE]
    /\ tabHidden = FALSE
    /\ V!Init
    /\ \A n \in Nonces : /\ record[n]["speed"] # "off"
                         /\ \A k \in Overlays : record[n][k] \notin Speeds

UserStep ==
    \/ Mount \/ Unmount \/ ThemeFlips \/ TabSwitches
    \/ \E want \in Configs, n \in Nonces \cup {None}, moved \in BOOLEAN : setConfig(want, n, moved)
    \/ \E k \in Overlays : Toggle(k)
    \/ \E m \in Speeds : PickSpeed(m)

Next ==
    \/ UserStep
    \/ FirstUpdate \/ RebuildTimerFires \/ StrayHydrateReturns
    \/ \E away \in BOOLEAN : ObserverReports(away)
    \/ \E i \in DOMAIN answers : ViewerAnswered(i)
    \/ ViewerTimer
    \/ \E ok \in BOOLEAN : ServerHandles(ok)

Spec == Init /\ [][Next]_cardVars

-----------------------------------------------------------------------------
\* The map is built, no rebuild is coming, and no answer is due that would
\* apply the viewer's choices.
AtRest == card.map /\ ~card.timer /\ ~ChoicesDue(Mine) /\ ~card.missed

\* What runs, and how fast the loop plays, is what the config turns on and the
\* viewer's choices leave on, whatever order the saved choices, new configs,
\* rebuilds and clicks come in.
ChoicesApplied ==
    AtRest => /\ card.running = Wanted(card, Mine)
              /\ Active(Mine) => card.speed = loadPlaybackSpeed(card, Mine)

\* The player and every overlay are paused exactly while the card counts as
\* hidden, and once the observer has reported, it counts as hidden exactly
\* while the tab is hidden or the card is off screen: also an overlay started,
\* and a map rebuilt, meanwhile.
PausedExactly ==
    card.map =>
      /\ card.paused = IF card.hidden THEN card.running \cup {Player} ELSE {}
      /\ card.observed => card.hidden = (tabHidden \/ card.offScreen)

\* A map built from an older config has its rebuild coming, and without a map
\* nothing runs.
RebuildOwed ==
    IF card.map THEN card.built = card.want.rest \/ card.timer
    ELSE card.running = {} /\ card.paused = {}
=============================================================================
