----------------------------- MODULE AlertShapes -----------------------------
(***************************************************************************)
(* What the alert layer draws (src/src/nws-alerts-layer.ts, _renderInner):  *)
(* the shapes it builds for the alerts of the last list and the popup of    *)
(* each, and the decisions it compares to leave alone a map on which        *)
(* nothing would change.  NwsAlerts has the requests and the timers that    *)
(* lead here.                                                               *)
(*                                                                          *)
(* An alert has a polygon of its own or names zones, whose outlines arrive  *)
(* one by one.  The map is a set of places in the padded view and a zoom;   *)
(* alerts_radius_km is not set.                                             *)
(***************************************************************************)
EXTENDS Integers, FiniteSets

CONSTANTS
    Alerts,     \* the alerts there ever are, in paint order: [event, polygon (None: by
                \* zones), zones, sent, inForce, over]
    ZoneAt,     \* the place of each zone
    Views,      \* the places that may be in the padded view together
    Zooms,      \* rounded zooms, one drawing tolerance each
    LastTime,   \* bound: the clock
    None

\* A zone is named otherwise than a place.  Times count from any moment.
ASSUME ShapesAssumption ==
    /\ IsFiniteSet(DOMAIN ZoneAt)
    /\ \A a \in DOMAIN Alerts : /\ {Alerts[a].sent, Alerts[a].inForce, Alerts[a].over} \subseteq Int
                               /\ Alerts[a].polygon \notin DOMAIN ZoneAt
    /\ \A v \in Views : None \notin v

VARIABLES
    clock,
    features,  \* _features: those of Alerts in the last list
    zones,     \* _zoneCache
    eye,       \* the map: view, zoom, and whether it moves or an alert's popup is open
    shapes,    \* _polygonLayer, a set of features, and _renderDecisions
    saw        \* history: what the last render saw

shapeVars == <<clock, features, zones, eye, shapes, saw>>

-----------------------------------------------------------------------------
(* One render, of s: the list, the zones, the view, the zoom and the time     *)

Live(s) == {a \in s.list : Alerts[a].over > s.time}

Cached(s, a) == Alerts[a].zones \cap s.zones

\* Without any shape there are no bounds, and the alert counts as visible.
Visible(s, a) ==
    LET places == IF Alerts[a].polygon # None THEN {Alerts[a].polygon} ELSE {ZoneAt[z] : z \in Cached(s, a)}
    IN  places = {} \/ places \cap s.view # {}

Pending(s, a) == Alerts[a].inForce > s.time

\* Mutant: the decision has no part for an alert that comes into force.
DecisionUntimed(s, a) == <<Cardinality(Cached(s, a)), Visible(s, a), s.zoom>>

\* The decision's string; event, severity and total are the alert's own.
Decision(s, a) == <<Cardinality(Cached(s, a)), Visible(s, a), s.zoom, Pending(s, a)>>

Decisions(s) == [a \in Live(s) |-> Decision(s, a)]

\* _geometryFromZones makes a shape of the outlines there are, if any.
HasShape(s, a) == Alerts[a].polygon # None \/ Cached(s, a) # {}

Drawn(s) == {a \in Live(s) : Visible(s, a) /\ HasShape(s, a)}

\* The alerts of an event on a zone: one in force replaces those sent before it.
Kept(s, event, z) ==
    LET cover   == {a \in Drawn(s) : Alerts[a].event = event /\ Alerts[a].polygon = None /\ z \in Alerts[a].zones}
        inForce == {a \in cover : ~Pending(s, a)}
    IN  {a \in cover : \A b \in inForce : Alerts[a].sent >= Alerts[b].sent}

Events == {Alerts[a].event : a \in DOMAIN Alerts}

\* Of an event the zones under the same alerts are one feature; its popup has
\* the most severe first.
Built(s) ==
    LET covered(e) == {z \in s.zones : Kept(s, e, z) # {}}
        grouped(e) == {[event |-> e, alerts |-> g, zoom |-> s.zoom, on |-> {z \in covered(e) : Kept(s, e, z) = g}] :
                         g \in {Kept(s, e, z) : z \in covered(e)}}
    IN  (UNION {grouped(e) : e \in Events})
        \cup {[event |-> Alerts[a].event, alerts |-> {a}, zoom |-> s.zoom, on |-> {Alerts[a].polygon}] :
                    a \in {b \in Drawn(s) : Alerts[b].polygon # None}}

Seen == [list |-> features', zones |-> zones', view |-> eye'.view, zoom |-> eye'.zoom, time |-> clock']

\* _render: it waits for a map that is still and for the popup to close; with the
\* decisions of the last time it leaves the shapes as they are.
_render ==
    IF eye'.busy THEN UNCHANGED <<shapes, saw>>
    ELSE /\ saw' = Seen
         /\ shapes' = IF Decisions(Seen) = shapes.decisions THEN shapes
                      ELSE [drawn |-> Built(Seen), decisions |-> Decisions(Seen)]

-----------------------------------------------------------------------------
(* The steps, each of which ends in _render                                  *)

\* _filter: the alerts that are over go; those the config leaves out, by their
\* severity or event, are not among alerts.
Filtered(alerts) == {a \in alerts : Alerts[a].over > clock}

\* _fetch's end.
ListShown(alerts) ==
    /\ features' = Filtered(alerts)
    /\ UNCHANGED <<clock, zones, eye>>
    /\ _render

\* _zonesSettled, with the outlines that arrived; those no alert of the list
\* names are not asked for.
ZonesArrive(arrived) ==
    /\ arrived # {} /\ arrived \cap zones = {}
    /\ \A z \in arrived : \E a \in features : z \in Alerts[a].zones /\ Alerts[a].polygon = None
    /\ zones' = zones \cup arrived
    /\ UNCHANGED <<clock, features, eye>>
    /\ _render

\* updateHass and _onViewChange need something to draw or to remove.
updateHass ==
    /\ features # {} \/ shapes.drawn # {}
    /\ UNCHANGED <<clock, features, zones, eye>>
    /\ _render

\* The map moves to another view or a popup opens; later it is still or closed.
Busy ==
    /\ ~eye.busy
    /\ \E view \in Views, zoom \in Zooms : eye' = [view |-> view, zoom |-> zoom, busy |-> TRUE]
    /\ UNCHANGED <<clock, features, zones, shapes, saw>>

Quiet ==
    /\ eye.busy /\ eye' = [eye EXCEPT !.busy = FALSE]
    /\ UNCHANGED <<clock, features, zones>>
    /\ IF features # {} \/ shapes.drawn # {} THEN _render
       ELSE UNCHANGED <<shapes, saw>>

Time ==
    /\ clock < LastTime /\ clock' = clock + 1
    /\ UNCHANGED <<features, zones, eye, shapes, saw>>

-----------------------------------------------------------------------------
NoneSeen == [list |-> {}, zones |-> {}, view |-> {}, zoom |-> 0, time |-> 0]

InitShapes ==
    /\ clock = 0 /\ features = {} /\ zones = {}
    /\ eye \in [view : Views, zoom : Zooms, busy : {FALSE}]
    /\ shapes = [drawn |-> {}, decisions |-> <<>>]
    /\ saw = NoneSeen

NextShapes ==
    \/ \E alerts \in SUBSET DOMAIN Alerts : ListShown(alerts)
    \/ \E arrived \in SUBSET DOMAIN ZoneAt : ZonesArrive(arrived)
    \/ updateHass \/ Busy \/ Quiet \/ Time

SpecShapes == InitShapes /\ [][NextShapes]_shapeVars

-----------------------------------------------------------------------------
\* What is due on a zone: the alerts of an event that cover it and apply, but
\* for those a later one, already in force, has replaced.
Due(s, event, z) ==
    LET cover == {a \in s.list : Alerts[a].event = event /\ Alerts[a].polygon = None
                                 /\ z \in Alerts[a].zones /\ s.time < Alerts[a].over}
    IN  {a \in cover : ~\E b \in cover : Alerts[b].inForce <= s.time /\ Alerts[b].sent > Alerts[a].sent}

On(event, z) == {f \in shapes.drawn : f.event = event /\ z \in f.on}

\* Leaving the shapes alone never leaves them stale: on each zone in view an
\* event is drawn once, at the zoom there is, and its popup lists what is due.
ShapesDue ==
    LET s == saw
    IN  /\ \A e \in Events, z \in s.zones :
              ZoneAt[z] \in s.view =>
                  IF Due(s, e, z) = {} THEN On(e, z) = {}
                  ELSE \E f \in On(e, z) : On(e, z) = {f} /\ f.alerts = Due(s, e, z) /\ f.zoom = s.zoom
        /\ \A a \in Live(s) : Alerts[a].polygon \in s.view =>
              \E f \in shapes.drawn : f.alerts = {a} /\ f.zoom = s.zoom
=============================================================================
