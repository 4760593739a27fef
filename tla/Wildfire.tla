------------------------------- MODULE Wildfire -------------------------------
(***************************************************************************)
(* The wildfire overlay (src/src/wildfire-layer.ts, src/src/map-quiet.ts). *)
(*                                                                         *)
(* A refresh asks the feed for the attributes of all fires, and for their  *)
(* outlines only when a perimeter date moved, fires came or went, or the   *)
(* outlines are old.  Zoomed in, the fires in view are drawn with their    *)
(* full outlines, which a request of their own fetches.  A rebuild of the  *)
(* drawing closes an open popup, so a rebuild for detail alone waits for   *)
(* the popup to close.                                                     *)
(*                                                                         *)
(* The feed, the map and the user are the environment.  A request carries  *)
(* what the feed held as it was sent.  A fire's look stands for what the   *)
(* drawing shows besides the outline (renderSignature), "below" for a fire *)
(* under wildfire_min_acres.  The delays (_scheduleNext, _scheduleRetry)   *)
(* are left out, and so is preload_while_hidden, which turns pause() off.  *)
(***************************************************************************)
EXTENDS Integers, FiniteSets

CONSTANTS
  Fires,      \* fires the feed may hold
  Large,      \* those that fill 20 px at every zoom: never an icon
  Looks,      \* what a fire may look like
  MaxEdits    \* changes of the feed

ASSUME WildfireAssumption ==
  Large \subseteq Fires /\ "below" \in Looks /\ MaxEdits \in Nat

VARIABLES
  feed,       \* WFIGS: whether each fire is listed, its perimeter date, its look
  edits,      \* the changes of the feed so far
  view,       \* fires in view
  near,       \* fires within wildfire_radius_km of the map's centre
  zoomed,     \* the zoom is DETAIL_ZOOM or more
  settling,   \* the map moved; onMapQuiet's callback is to come
  request,    \* the refresh's request: none, for attributes or for outlines
  due,        \* _dueAt: null, ahead, or past
  timer,      \* _timer is armed
  paused,     \* _pausedAt
  cleared,    \* clear() has run
  all,        \* _all: date and look of each fire, and the date of its outline
  stamp,      \* _outlineStamp: the date of each listed fire, else 0
  old,        \* _outlinesAt is further back than OUTLINE_MAX_AGE_MS
  features,   \* _features
  detail,     \* _detail: the date of the full outline held for a fire, else 0
  asking,     \* _detailCtrl: the request for full outlines, see NoAsking
  drawn,      \* what the layers on the map show of each fire
  popup,      \* the popup is on a polygon, on an icon, on neither, or not open
  owed,       \* _renderOnPopupClose
  orphans     \* layers are on the map that the overlay no longer holds

map == <<view, near, zoomed, settling>>
chain == <<due, timer, paused, cleared>>
data == <<all, stamp, old, features>>
picture == <<drawn, popup, owed, orphans>>
vars == <<feed, edits, map, request, chain, data, detail, asking, picture>>

Idle == [for |-> "none", answer |-> <<>>]
NoAsking == [f \in {} |-> 0]
\* The perimeter date of each listed fire (outlineStamp), 0 for the others.
Dates(answer) == [f \in Fires |-> IF answer[f].on THEN answer[f].date ELSE 0]

NoFire == [date |-> 0, outline |-> 0, look |-> "below"]
Undrawn == [as |-> "nothing", outline |-> 0, full |-> FALSE, look |-> "below"]

-----------------------------------------------------------------------------
(* Drawing.                                                                *)

\* _filter
Filter(known) == {f \in near' : known[f].date > 0 /\ known[f].look # "below"}

Have(f) == detail'[f] = all'[f].date

\* A fire as _renderInner draws it.
Drawing(f) ==
  IF f \notin features' THEN Undrawn
  ELSE LET as == IF zoomed' \/ f \in Large THEN "polygon" ELSE "icon"
           full == zoomed' /\ Have(f)
       IN  [as |-> as, full |-> full, look |-> all'[f].look,
            outline |-> IF full THEN detail'[f] ELSE all'[f].outline]

Some(as) == \E f \in Fires : Drawing(f).as = as

\* Removing the layer with the open popup closes it, and popupclose runs the
\* render that waits for it inside this one.  What that render put on the map
\* is then overwritten, or set to null, without being removed.
LosesLayers ==
  owed /\ \/ popup = "polygon" /\ Some("polygon")
          \/ popup = "icon" /\ features' # {}

\* _renderInner past its early return.
Rebuild ==
  /\ drawn' = [f \in Fires |-> Drawing(f)]
  /\ popup' = (IF popup = "stray" THEN "stray" ELSE "none") /\ owed' = FALSE
  /\ orphans' = (orphans \/ LosesLayers)

\* decisionsEqual
DecisionsChanged == \E f \in Fires : Drawing(f).as # drawn[f].as

\* Mutant of RenderUnlessPopupOpen: the popup is not looked at.
RenderPopupOrNot == Rebuild

\* _renderUnlessPopupOpen
RenderUnlessPopupOpen ==
  IF popup \in {"polygon", "icon"} THEN owed' = TRUE /\ UNCHANGED <<drawn, popup, orphans>>
  ELSE Rebuild

\* renderSignature, before and after a refresh
SignatureChanged ==
  \/ features' # features
  \/ \E f \in features : all'[f].look # all[f].look

InView == IF zoomed' THEN features' \cap view' ELSE {}

\* _showDetail's redraw.
DetailUndrawn ==
  \E f \in InView : Have(f) /\ drawn[f].as = "polygon" /\ ~drawn[f].full

\* A render, if the handler makes one, then _showDetail; _fetchDetail aborts
\* the request before it.
ShowDetail(rebuilt) ==
  LET missing == {f \in InView : ~Have(f)}
  IN  /\ IF rebuilt THEN Rebuild
         ELSE IF DetailUndrawn THEN RenderUnlessPopupOpen
         ELSE UNCHANGED picture
      /\ asking' = IF missing = {} THEN asking ELSE [f \in missing |-> Dates(feed)[f]]

-----------------------------------------------------------------------------
(* The refresh.                                                            *)

\* _arm
Arm == due' = "ahead" /\ timer' = ~paused

\* _fetch up to its first request.
Fetch ==
  /\ request' = [for |-> "attributes", answer |-> feed] /\ due' = "none"
  /\ UNCHANGED <<feed, edits, cleared>>

TimerFires ==
  /\ timer /\ due = "past" /\ timer' = FALSE
  /\ Fetch
  /\ UNCHANGED <<map, paused, data, detail, asking, picture>>

\* Mutant of NeedOutlines: a perimeter date that moved is not noticed.
NeedOutlinesForFires(answer) ==
  old \/ {f \in Fires : answer[f].on} # {f \in Fires : stamp[f] > 0}

NeedOutlines(answer) == old \/ Dates(answer) # stamp

\* _fetch goes on to the outlines, whether or not it was paused meanwhile.
AttributesLead ==
  /\ request.for = "attributes" /\ NeedOutlines(request.answer)
  /\ request' = [for |-> "outlines", answer |-> feed]
  /\ UNCHANGED <<feed, edits, map, chain, data, detail, asking, picture>>

\* Mutant of Merged: only fires drawn so far get their new attributes.
MergedDrawn(answer) ==
  [f \in Fires |-> IF f \notin features THEN all[f]
                   ELSE [all[f] EXCEPT !.look = answer[f].look, !.date = answer[f].date]]

\* The refresh without outlines: attributes are assigned to the known fires.
Merged(answer) ==
  [f \in Fires |-> IF all[f].date = 0 THEN all[f]
                   ELSE [all[f] EXCEPT !.look = answer[f].look, !.date = answer[f].date]]

AttributesSuffice ==
  /\ request.for = "attributes" /\ ~NeedOutlines(request.answer)
  /\ UNCHANGED <<feed, edits, map, paused, cleared, stamp, old, detail>>
  /\ all' = Merged(request.answer) /\ features' = Filter(all')
  /\ request' = Idle /\ Arm
  /\ ShowDetail(SignatureChanged)

OutlinesArrive ==
  /\ request.for = "outlines"
  /\ all' = [f \in Fires |->
       IF request.answer[f].on
       THEN [date |-> request.answer[f].date, outline |-> request.answer[f].date,
             look |-> request.answer[f].look]
       ELSE NoFire]
  /\ stamp' = Dates(request.answer) /\ old' = FALSE
  /\ detail' = [f \in Fires |-> IF detail[f] = all'[f].date THEN detail[f] ELSE 0]
  /\ UNCHANGED <<feed, edits, map, paused, cleared>>
  /\ features' = Filter(all')
  /\ request' = Idle /\ Arm
  /\ ShowDetail(TRUE)

\* Either request fails, by its time limit at the latest.
FetchFails ==
  /\ request.for # "none" /\ request' = Idle /\ Arm
  /\ UNCHANGED <<feed, edits, map, paused, cleared, data, detail, asking>>
  /\ IF DecisionsChanged THEN Rebuild ELSE UNCHANGED picture

Elapse ==
  /\ due = "ahead" /\ due' = "past"
  /\ UNCHANGED <<feed, edits, map, request, timer, paused, cleared, data, detail, asking, picture>>

OutlinesAge ==
  /\ ~old /\ ~cleared /\ old' = TRUE
  /\ UNCHANGED <<feed, edits, map, request, chain, all, stamp, features, detail, asking, picture>>

-----------------------------------------------------------------------------
(* Full outlines.                                                          *)

DetailArrives ==
  /\ asking # NoAsking
  /\ detail' = [f \in Fires |-> IF f \in DOMAIN asking /\ asking[f] > 0 THEN asking[f] ELSE detail[f]]
  /\ asking' = NoAsking
  /\ UNCHANGED <<feed, edits, map, request, chain, data>>
  /\ RenderUnlessPopupOpen

DetailFails ==
  /\ asking # NoAsking /\ asking' = NoAsking
  /\ UNCHANGED <<feed, edits, map, request, chain, data, detail, picture>>

-----------------------------------------------------------------------------
(* The card, the map and the user.                                         *)

\* pause
Pause ==
  /\ ~paused /\ ~cleared /\ paused' = TRUE /\ timer' = FALSE
  /\ UNCHANGED <<feed, edits, map, request, due, cleared, data, detail, asking, picture>>

\* resume: catch up with the view, fetch what came due, else wait on.
Resume ==
  /\ paused /\ ~cleared /\ paused' = FALSE
  /\ UNCHANGED <<map, data, detail>>
  /\ ShowDetail(DecisionsChanged)
  /\ IF due = "past" THEN Fetch /\ UNCHANGED timer
     ELSE timer' = (due = "ahead") /\ UNCHANGED <<feed, edits, request, due, cleared>>

\* updateHass
HassTick ==
  /\ ~cleared
  /\ UNCHANGED <<feed, edits, map, request, chain, all, stamp, old, detail, asking>>
  /\ features' = Filter(all)
  /\ IF DecisionsChanged THEN Rebuild ELSE UNCHANGED picture

\* The map moves; onMapQuiet waits for its end.
MapMoves ==
  /\ ~cleared
  /\ view' \in SUBSET Fires /\ near' \in SUBSET Fires /\ zoomed' \in BOOLEAN
  /\ settling' = TRUE
  /\ UNCHANGED <<feed, edits, request, chain, data, detail, asking, picture>>

\* onMapQuiet's callback.
MapQuiet ==
  /\ settling /\ settling' = FALSE
  /\ UNCHANGED <<feed, edits, view, near, zoomed, request, chain, data, detail>>
  /\ IF paused THEN UNCHANGED <<asking, picture>> ELSE ShowDetail(DecisionsChanged)

PopupOpens ==
  /\ popup = "none" /\ popup' \in {drawn[f].as : f \in Fires} \ {"nothing"}
  /\ UNCHANGED <<feed, edits, map, request, chain, data, detail, asking, drawn, owed, orphans>>

\* Mutant of PopupCloses: the render that waited is forgotten.
PopupClosesOnly ==
  /\ popup # "none" /\ popup' = "none" /\ owed' = FALSE
  /\ UNCHANGED <<feed, edits, map, request, chain, data, detail, asking, drawn, orphans>>

\* _onPopupCloseRender
PopupCloses ==
  /\ popup # "none" /\ popup' = "none" /\ owed' = FALSE
  /\ UNCHANGED <<feed, edits, map, request, chain, data, detail, asking, orphans>>
  /\ drawn' = IF owed THEN [f \in Fires |-> Drawing(f)] ELSE drawn

\* Another fire is tapped: Leaflet closes the open popup first, and a render
\* that waits for it removes the layer the new popup belongs to.
PopupMoves ==
  /\ popup # "none" /\ owed' = FALSE
  /\ popup' \in IF owed THEN {"stray"} ELSE {drawn[f].as : f \in Fires} \ {"nothing"}
  /\ UNCHANGED <<feed, edits, map, request, chain, data, detail, asking, orphans>>
  /\ drawn' = IF owed THEN [f \in Fires |-> Drawing(f)] ELSE drawn

\* clear, which takes the waiting render back before it removes the layers.
Clear ==
  /\ ~cleared /\ cleared' = TRUE
  /\ request' = Idle /\ due' = "none" /\ timer' = FALSE /\ settling' = FALSE
  /\ all' = [f \in Fires |-> NoFire] /\ stamp' = [f \in Fires |-> 0] /\ old' = FALSE
  /\ features' = {} /\ detail' = [f \in Fires |-> 0] /\ asking' = NoAsking
  /\ drawn' = [f \in Fires |-> Undrawn] /\ owed' = FALSE
  /\ popup' = (IF popup = "stray" THEN "stray" ELSE "none")
  /\ UNCHANGED <<feed, edits, view, near, zoomed, paused, orphans>>

\* A fire comes, goes, changes its perimeter or its look.
FeedChanges(f) ==
  /\ edits < MaxEdits /\ edits' = edits + 1
  /\ \/ feed' = [feed EXCEPT ![f].on = ~@]
     \/ feed' = [feed EXCEPT ![f].date = @ + 1]
     \/ \E look \in Looks \ {feed[f].look} : feed' = [feed EXCEPT ![f].look = look]
  /\ UNCHANGED <<map, request, chain, data, detail, asking, picture>>

-----------------------------------------------------------------------------

\* start()
Init ==
  /\ feed \in [Fires -> [on : BOOLEAN, date : {1}, look : Looks]] /\ edits = 0
  /\ view = Fires /\ near = Fires /\ zoomed \in BOOLEAN /\ settling = FALSE
  /\ request = [for |-> "attributes", answer |-> feed]
  /\ due = "none" /\ timer = FALSE /\ paused = FALSE /\ cleared = FALSE
  /\ all = [f \in Fires |-> NoFire] /\ stamp = [f \in Fires |-> 0] /\ old = TRUE
  /\ features = {} /\ detail = [f \in Fires |-> 0] /\ asking = NoAsking
  /\ drawn = [f \in Fires |-> Undrawn] /\ popup = "none" /\ owed = FALSE /\ orphans = FALSE

Next ==
  \/ TimerFires \/ AttributesLead \/ AttributesSuffice \/ OutlinesArrive
  \/ FetchFails \/ Elapse \/ OutlinesAge \/ DetailArrives \/ DetailFails
  \/ Pause \/ Resume \/ HassTick \/ MapMoves \/ MapQuiet
  \/ PopupOpens \/ PopupCloses \/ PopupMoves \/ Clear
  \/ \E f \in Fires : FeedChanges(f)

\* Timers fire, requests end (their time limit sees to it), and a request
\* made again and again succeeds some time.
Fairness ==
  /\ WF_vars(TimerFires) /\ WF_vars(Elapse) /\ WF_vars(FetchFails)
  /\ SF_vars(AttributesLead) /\ SF_vars(AttributesSuffice) /\ SF_vars(OutlinesArrive)

Spec == Init /\ [][Next]_vars
LiveSpec == Spec /\ Fairness

-----------------------------------------------------------------------------
(* Properties.                                                             *)

TypeOK ==
  /\ feed \in [Fires -> [on : BOOLEAN, date : 1..(MaxEdits + 1), look : Looks]]
  /\ view \subseteq Fires /\ near \subseteq Fires /\ features \subseteq Fires
  /\ {zoomed, settling, timer, paused, cleared, old, owed, orphans} \subseteq BOOLEAN
  /\ request.for \in {"none", "attributes", "outlines"} /\ due \in {"none", "ahead", "past"}
  /\ {stamp, detail} \subseteq [Fires -> 0..(MaxEdits + 1)]
  /\ DOMAIN asking \subseteq Fires
  /\ popup \in {"none", "polygon", "icon", "stray"}

\* What is on the map is what the overlay knows: each fire it keeps, looking
\* as the last attributes say, with an outline of the perimeter date those
\* attributes give.  Attributes, outlines and full outlines come from three
\* requests that see three versions of the feed.
DrawnMatchesData ==
  \A f \in Fires :
    IF f \in features
    THEN drawn[f].as # "nothing" /\ drawn[f].look = all[f].look /\ drawn[f].outline = all[f].date
    ELSE drawn[f] = Undrawn

\* A full outline that is here is drawn, or a render is owed for it: at the
\* close of the popup, at the rest of the map, or when the card is shown.
DetailOwed ==
  \A f \in features \cap view :
    zoomed /\ detail[f] = all[f].date /\ drawn[f].as = "polygon" /\ ~drawn[f].full
    => owed \/ settling \/ paused

\* A popup a user reads is closed by a rebuild only for a change the map
\* shows, or for new outlines.
PopupKept ==
  [][(popup \in {"polygon", "icon"} /\ popup' = "none")
     => PopupCloses \/ cleared' \/ drawn' # drawn \/ OutlinesArrive]_vars

\* Once the feed rests, what is drawn agrees with it again and again, through
\* failures, pauses and resumes, while the card is shown now and then.
Shows(f) ==
  LET wanted == feed[f].on /\ feed[f].look # "below" /\ f \in near
  IN  IF wanted THEN drawn[f].outline = feed[f].date /\ drawn[f].look = feed[f].look
      ELSE drawn[f] = Undrawn

FeedShown == <>cleared \/ <>[]paused \/ []<>(\A f \in Fires : Shows(f))

\* The refreshes are the chain that RefreshChain promises.
Refresh == INSTANCE RefreshChain WITH
  phase <- IF cleared THEN "off" ELSE IF request.for # "none" THEN "running" ELSE "waiting",
  hidden <- paused

RefreshSafe == Refresh!Safe

\* "it drew new fire layers that stayed on the map": no layer stays behind.
NoOrphanFires == ~orphans

=============================================================================
