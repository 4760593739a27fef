--------------------------- MODULE Wildfire_proofs ---------------------------
(***************************************************************************)
(* Proofs about the wildfire layer, for any fires, looks and number of     *)
(* changes of the feed: what is drawn is what the layer knows, though      *)
(* attributes, outlines and full outlines come from three requests; and    *)
(* its refreshes implement the safety of RefreshChain.                     *)
(***************************************************************************)
EXTENDS Wildfire, TLAPS

Listing == [Fires -> [on : BOOLEAN, date : Nat, look : Looks]]
Knowledge == [Fires -> [date : Nat, outline : Nat, look : Looks]]

DataTypeOK ==
  /\ feed \in Listing /\ all \in Knowledge
  /\ request.for # "none" => request.answer \in Listing

\* What ties the three requests together: the stamp holds the dates of the
\* fires known, so attributes whose dates agree with it belong to the
\* outlines at hand.
DatesAgree == \A f \in Fires : all[f].outline = all[f].date /\ stamp[f] = all[f].date

DrawingInv == DataTypeOK /\ DatesAgree /\ DrawnMatchesData

-----------------------------------------------------------------------------
(* Drawing.                                                                *)

Redrawn == drawn' = [f \in Fires |-> Drawing(f)]

LEMMA RedrawnMatches ==
  ASSUME DatesAgree', Redrawn
  PROVE  DrawnMatchesData'
<1> SUFFICES ASSUME NEW f \in Fires
             PROVE  IF f \in features'
                    THEN /\ drawn'[f].as # "nothing" /\ drawn'[f].look = all'[f].look
                         /\ drawn'[f].outline = all'[f].date
                    ELSE drawn'[f] = Undrawn
  BY DEF DrawnMatchesData
<1>1. drawn'[f] = Drawing(f)
  BY DEF Redrawn
<1>2. all'[f].outline = all'[f].date
  BY DEF DatesAgree
<1>3. CASE f \in features'
  BY <1>1, <1>2, <1>3 DEF Drawing, Have
<1>4. CASE f \notin features'
  BY <1>1, <1>4 DEF Drawing
<1> QED
  BY <1>3, <1>4

\* A drawing that is left alone still fits if what it shows did not change.
LEMMA KeptMatches ==
  ASSUME DrawnMatchesData, drawn' = drawn,
         \A f \in Fires : f \in features' <=> f \in features,
         \A f \in Fires : f \in features => all'[f].look = all[f].look /\ all'[f].date = all[f].date
  PROVE  DrawnMatchesData'
BY DEF DrawnMatchesData

LEMMA SameDecisions ==
  ASSUME DrawnMatchesData, ~DecisionsChanged
  PROVE  \A f \in Fires : f \in features' <=> f \in features
<1> SUFFICES ASSUME NEW f \in Fires PROVE f \in features' <=> f \in features
  OBVIOUS
<1>1. Drawing(f).as = drawn[f].as
  BY DEF DecisionsChanged
<1>2. f \in features <=> drawn[f].as # "nothing"
  BY DEF DrawnMatchesData, Undrawn
<1>3. f \in features' <=> Drawing(f).as # "nothing"
  BY DEF Drawing, Undrawn
<1> QED
  BY <1>1, <1>2, <1>3

LEMMA RebuildDraws ==
  ASSUME Rebuild PROVE Redrawn
BY DEF Rebuild, Redrawn

LEMMA UnlessPopupOpenDraws ==
  ASSUME RenderUnlessPopupOpen PROVE Redrawn \/ drawn' = drawn
BY RebuildDraws DEF RenderUnlessPopupOpen

LEMMA ShowDetailDraws ==
  ASSUME NEW rebuilt, ShowDetail(rebuilt)
  PROVE  Redrawn \/ (~rebuilt /\ drawn' = drawn)
<1>1. CASE rebuilt
  BY <1>1, RebuildDraws DEF ShowDetail
<1>2. CASE ~rebuilt
  BY <1>2, UnlessPopupOpenDraws DEF ShowDetail, picture
<1> QED
  BY <1>1, <1>2

\* A handler that leaves the data alone, and redraws if the decisions changed.
LEMMA DrawnAgain ==
  ASSUME DrawingInv, DataTypeOK', all' = all, stamp' = stamp,
         Redrawn \/ (~DecisionsChanged /\ drawn' = drawn)
  PROVE  DrawingInv'
<1>1. DatesAgree'
  BY DEF DrawingInv, DatesAgree
<1>2. DrawnMatchesData'
  BY <1>1, RedrawnMatches, SameDecisions, KeptMatches DEF DrawingInv
<1> QED
  BY <1>1, <1>2 DEF DrawingInv

-----------------------------------------------------------------------------
(* The refresh.                                                            *)

\* Attributes that need no outlines are of the dates the outlines have.
LEMMA MergedKeepsDates ==
  ASSUME DrawingInv, NEW answer \in Listing, ~NeedOutlines(answer), NEW f \in Fires
  PROVE  /\ Merged(answer)[f] \in [date : Nat, outline : Nat, look : Looks]
         /\ Merged(answer)[f].date = all[f].date
         /\ Merged(answer)[f].outline = all[f].outline
<1>1. all[f] \in [date : Nat, outline : Nat, look : Looks]
  BY DEF DrawingInv, DataTypeOK, Knowledge
<1>2. answer[f] \in [on : BOOLEAN, date : Nat, look : Looks]
  BY DEF Listing
<1>3. (IF answer[f].on THEN answer[f].date ELSE 0) = all[f].date
  BY DEF NeedOutlines, Dates, DrawingInv, DatesAgree
<1>4. CASE all[f].date = 0
  BY <1>1, <1>4 DEF Merged
<1>5. CASE all[f].date # 0
  <2>1. answer[f].date = all[f].date
    BY <1>3, <1>5
  <2>2. Merged(answer)[f] = [all[f] EXCEPT !.look = answer[f].look, !.date = answer[f].date]
    BY <1>5 DEF Merged
  <2> QED
    BY <1>1, <1>2, <2>1, <2>2
<1> QED
  BY <1>4, <1>5

LEMMA AttributesSufficeDraws ==
  ASSUME DrawingInv, AttributesSuffice
  PROVE  DrawingInv'
<1> DEFINE answer == request.answer
<1>1. answer \in Listing /\ ~NeedOutlines(answer)
  BY DEF AttributesSuffice, DrawingInv, DataTypeOK
<1>2. all' = Merged(answer) /\ stamp' = stamp /\ feed' = feed /\ request' = Idle
  BY DEF AttributesSuffice
<1>3. \A f \in Fires : /\ all'[f] \in [date : Nat, outline : Nat, look : Looks]
                       /\ all'[f].date = all[f].date /\ all'[f].outline = all[f].outline
  BY <1>1, <1>2, MergedKeepsDates
<1>4. all' \in Knowledge
  BY <1>2, <1>3 DEF Merged, Knowledge
<1>5. DataTypeOK'
  BY <1>2, <1>4 DEF DataTypeOK, DrawingInv, Idle
<1>6. DatesAgree'
  BY <1>2, <1>3 DEF DatesAgree, DrawingInv
<1>7. CASE Redrawn
  BY <1>5, <1>6, <1>7, RedrawnMatches DEF DrawingInv
<1>8. CASE ~SignatureChanged /\ drawn' = drawn
  <2>1. features' = features /\ \A f \in features : all'[f].look = all[f].look
    BY <1>8 DEF SignatureChanged
  <2>2. DrawnMatchesData'
    BY <1>3, <1>8, <2>1, KeptMatches DEF DrawingInv
  <2> QED
    BY <1>5, <1>6, <2>2 DEF DrawingInv
<1> QED
  BY <1>7, <1>8, ShowDetailDraws DEF AttributesSuffice

LEMMA OutlinesArriveDraws ==
  ASSUME DrawingInv, OutlinesArrive
  PROVE  DrawingInv'
<1> DEFINE answer == request.answer
<1>1. answer \in Listing
  BY DEF OutlinesArrive, DrawingInv, DataTypeOK
<1>2. /\ all' = [f \in Fires |->
           IF answer[f].on
           THEN [date |-> answer[f].date, outline |-> answer[f].date, look |-> answer[f].look]
           ELSE NoFire]
      /\ stamp' = Dates(answer) /\ feed' = feed /\ request' = Idle
  BY DEF OutlinesArrive
<1>3. \A f \in Fires : /\ answer[f] \in [on : BOOLEAN, date : Nat, look : Looks]
                       /\ NoFire \in [date : Nat, outline : Nat, look : Looks]
  BY <1>1, WildfireAssumption DEF Listing, NoFire
<1>4. all' \in Knowledge
  BY <1>2, <1>3 DEF Knowledge
<1>5. DataTypeOK'
  BY <1>2, <1>4 DEF DataTypeOK, DrawingInv, Idle
<1>6. DatesAgree'
  BY <1>2 DEF DatesAgree, Dates, NoFire
<1>7. Redrawn
  BY ShowDetailDraws DEF OutlinesArrive
<1> QED
  BY <1>5, <1>6, <1>7, RedrawnMatches DEF DrawingInv

LEMMA ClearDraws ==
  ASSUME DrawingInv, Clear
  PROVE  DrawingInv'
<1>1. /\ all' = [f \in Fires |-> NoFire] /\ stamp' = [f \in Fires |-> 0] /\ features' = {}
      /\ drawn' = [f \in Fires |-> Undrawn] /\ feed' = feed /\ request' = Idle
  BY DEF Clear
<1>2. NoFire \in [date : Nat, outline : Nat, look : Looks]
  BY WildfireAssumption DEF NoFire
<1>3. DataTypeOK'
  BY <1>1, <1>2 DEF DataTypeOK, DrawingInv, Knowledge, Idle
<1>4. DatesAgree'
  BY <1>1 DEF DatesAgree, NoFire
<1>5. DrawnMatchesData'
  BY <1>1 DEF DrawnMatchesData
<1> QED
  BY <1>3, <1>4, <1>5 DEF DrawingInv

LEMMA FeedChangesDraws ==
  ASSUME DrawingInv, NEW g \in Fires, FeedChanges(g)
  PROVE  DrawingInv'
<1>1. all' = all /\ stamp' = stamp /\ features' = features /\ drawn' = drawn /\ request' = request
  BY DEF FeedChanges, data, picture
<1>2. feed \in Listing
  BY DEF DrawingInv, DataTypeOK
<1>3. feed[g] \in [on : BOOLEAN, date : Nat, look : Looks]
  BY <1>2 DEF Listing
<1>4. CASE feed' = [feed EXCEPT ![g].on = ~@]
  <2>1. feed' = [feed EXCEPT ![g] = [feed[g] EXCEPT !.on = ~feed[g].on]]
    BY <1>4
  <2>2. [feed[g] EXCEPT !.on = ~feed[g].on] \in [on : BOOLEAN, date : Nat, look : Looks]
    BY <1>3
  <2> QED
    BY <1>1, <1>2, <2>1, <2>2, KeptMatches DEF DrawingInv, DataTypeOK, DatesAgree, Listing
<1>5. CASE feed' = [feed EXCEPT ![g].date = @ + 1]
  <2>1. feed' = [feed EXCEPT ![g] = [feed[g] EXCEPT !.date = feed[g].date + 1]]
    BY <1>5
  <2>2. [feed[g] EXCEPT !.date = feed[g].date + 1] \in [on : BOOLEAN, date : Nat, look : Looks]
    BY <1>3
  <2> QED
    BY <1>1, <1>2, <2>1, <2>2, KeptMatches DEF DrawingInv, DataTypeOK, DatesAgree, Listing
<1>6. ASSUME NEW look \in Looks, feed' = [feed EXCEPT ![g].look = look]
      PROVE  DrawingInv'
  <2>1. feed' = [feed EXCEPT ![g] = [feed[g] EXCEPT !.look = look]]
    BY <1>6
  <2>2. [feed[g] EXCEPT !.look = look] \in [on : BOOLEAN, date : Nat, look : Looks]
    BY <1>3
  <2> QED
    BY <1>1, <1>2, <2>1, <2>2, KeptMatches DEF DrawingInv, DataTypeOK, DatesAgree, Listing
<1> QED
  BY <1>4, <1>5, <1>6 DEF FeedChanges

\* Handlers that leave the layer's data alone.
LEMMA OthersDraw ==
  ASSUME DrawingInv,
         \/ TimerFires \/ AttributesLead \/ FetchFails \/ Elapse \/ OutlinesAge
         \/ DetailArrives \/ DetailFails \/ Pause \/ Resume \/ HassTick
         \/ MapMoves \/ MapQuiet \/ PopupOpens \/ PopupCloses \/ PopupMoves
  PROVE  DrawingInv'
<1>1. CASE TimerFires
  BY <1>1, KeptMatches
     DEF TimerFires, Fetch, DrawingInv, DataTypeOK, DatesAgree, data, picture
<1>2. CASE AttributesLead
  BY <1>2, KeptMatches DEF AttributesLead, DrawingInv, DataTypeOK, DatesAgree, data, picture
<1>3. CASE FetchFails
  <2>1. DataTypeOK' /\ all' = all /\ stamp' = stamp
    BY <1>3 DEF FetchFails, DrawingInv, DataTypeOK, data, Idle
  <2>2. Redrawn \/ (~DecisionsChanged /\ drawn' = drawn)
    BY <1>3, RebuildDraws DEF FetchFails, picture
  <2> QED
    BY <2>1, <2>2, DrawnAgain
<1>4. CASE Elapse
  BY <1>4, KeptMatches DEF Elapse, DrawingInv, DataTypeOK, DatesAgree, data, picture
<1>5. CASE OutlinesAge
  BY <1>5, KeptMatches DEF OutlinesAge, DrawingInv, DataTypeOK, DatesAgree, picture
<1>6. CASE DetailArrives
  <2>1. DataTypeOK' /\ DatesAgree' /\ UNCHANGED data
    BY <1>6 DEF DetailArrives, DrawingInv, DataTypeOK, DatesAgree, data
  <2>2. Redrawn \/ drawn' = drawn
    BY <1>6, UnlessPopupOpenDraws DEF DetailArrives
  <2> QED
    BY <2>1, <2>2, RedrawnMatches, KeptMatches DEF DrawingInv, data
<1>7. CASE DetailFails
  BY <1>7, KeptMatches DEF DetailFails, DrawingInv, DataTypeOK, DatesAgree, data, picture
<1>8. CASE Pause
  BY <1>8, KeptMatches DEF Pause, DrawingInv, DataTypeOK, DatesAgree, data, picture
<1>9. CASE Resume
  <2>1. all' = all /\ stamp' = stamp
    BY <1>9 DEF Resume, data
  <2>2. DataTypeOK'
    BY <1>9 DEF Resume, Fetch, DrawingInv, DataTypeOK, data
  <2>3. Redrawn \/ (~DecisionsChanged /\ drawn' = drawn)
    BY <1>9, ShowDetailDraws DEF Resume
  <2> QED
    BY <2>1, <2>2, <2>3, DrawnAgain
<1>10. CASE HassTick
  <2>1. DataTypeOK' /\ all' = all /\ stamp' = stamp
    BY <1>10 DEF HassTick, DrawingInv, DataTypeOK
  <2>2. Redrawn \/ (~DecisionsChanged /\ drawn' = drawn)
    BY <1>10, RebuildDraws DEF HassTick, picture
  <2> QED
    BY <2>1, <2>2, DrawnAgain
<1>11. CASE MapMoves
  BY <1>11, KeptMatches DEF MapMoves, DrawingInv, DataTypeOK, DatesAgree, data, picture
<1>12. CASE MapQuiet
  <2>1. DataTypeOK' /\ DatesAgree' /\ UNCHANGED data
    BY <1>12 DEF MapQuiet, DrawingInv, DataTypeOK, DatesAgree, data
  <2>2. Redrawn \/ drawn' = drawn
    BY <1>12, ShowDetailDraws DEF MapQuiet, picture
  <2> QED
    BY <2>1, <2>2, RedrawnMatches, KeptMatches DEF DrawingInv, data
<1>13. CASE PopupOpens
  BY <1>13, KeptMatches DEF PopupOpens, DrawingInv, DataTypeOK, DatesAgree, data
<1>14. CASE PopupCloses \/ PopupMoves
  <2>1. DataTypeOK' /\ DatesAgree' /\ UNCHANGED data
    BY <1>14 DEF PopupCloses, PopupMoves, DrawingInv, DataTypeOK, DatesAgree, data
  <2>2. Redrawn \/ drawn' = drawn
    BY <1>14 DEF PopupCloses, PopupMoves, Redrawn
  <2> QED
    BY <2>1, <2>2, RedrawnMatches, KeptMatches DEF DrawingInv, data
<1> QED
  BY <1>1, <1>2, <1>3, <1>4, <1>5, <1>6, <1>7, <1>8, <1>9, <1>10, <1>11, <1>12, <1>13, <1>14

LEMMA DrawingInit == Init => DrawingInv
<1> SUFFICES ASSUME Init PROVE DrawingInv
  OBVIOUS
<1>1. feed \in Listing
  BY DEF Init, Listing
<1>2. NoFire \in [date : Nat, outline : Nat, look : Looks]
  BY WildfireAssumption DEF NoFire
<1>3. all \in Knowledge
  BY <1>2 DEF Init, Knowledge
<1>4. request.for # "none" => request.answer \in Listing
  BY <1>1 DEF Init
<1>5. DatesAgree
  BY DEF Init, DatesAgree, NoFire
<1>6. DrawnMatchesData
  BY DEF Init, DrawnMatchesData
<1> QED
  BY <1>1, <1>3, <1>4, <1>5, <1>6 DEF DrawingInv, DataTypeOK

LEMMA DrawingStep == DrawingInv /\ [Next]_vars => DrawingInv'
<1> SUFFICES ASSUME DrawingInv, [Next]_vars PROVE DrawingInv'
  OBVIOUS
<1>1. CASE AttributesSuffice \/ OutlinesArrive \/ Clear
  BY <1>1, AttributesSufficeDraws, OutlinesArriveDraws, ClearDraws
<1>2. ASSUME NEW g \in Fires, FeedChanges(g) PROVE DrawingInv'
  BY <1>2, FeedChangesDraws
<1>3. CASE UNCHANGED vars
  BY <1>3, KeptMatches DEF vars, data, picture, DrawingInv, DataTypeOK, DatesAgree
<1> QED
  BY <1>1, <1>2, <1>3, OthersDraw, Zenon DEF Next

\* What is on the map is what the layer knows, and an outline is never drawn
\* with the attributes of another perimeter date.
THEOREM DrawnTheorem == Spec => []DrawnMatchesData
<1>1. DrawingInv => DrawnMatchesData
  BY DEF DrawingInv
<1> QED
  BY <1>1, DrawingInit, DrawingStep, PTL DEF Spec

-----------------------------------------------------------------------------
(* Full outlines.                                                          *)

FeaturesTypeOK == features \subseteq Fires /\ near \subseteq Fires

LEMMA FeaturesStep == FeaturesTypeOK /\ [Next]_vars => FeaturesTypeOK'
<1> SUFFICES ASSUME FeaturesTypeOK, [Next]_vars PROVE FeaturesTypeOK'
  OBVIOUS
<1>1. CASE AttributesSuffice \/ OutlinesArrive \/ HassTick
  BY <1>1 DEF AttributesSuffice, OutlinesArrive, HassTick, Filter, map, FeaturesTypeOK
<1>2. CASE Clear \/ MapMoves
  BY <1>2 DEF Clear, MapMoves, data, FeaturesTypeOK
<1>3. CASE TimerFires \/ AttributesLead \/ FetchFails \/ Elapse \/ OutlinesAge \/ DetailArrives
  BY <1>3 DEF TimerFires, AttributesLead, FetchFails, Elapse, OutlinesAge, DetailArrives,
              data, map, FeaturesTypeOK
<1>4. CASE DetailFails \/ Pause \/ Resume \/ MapQuiet \/ PopupOpens \/ PopupCloses \/ PopupMoves
  BY <1>4 DEF DetailFails, Pause, Resume, MapQuiet, PopupOpens, PopupCloses, PopupMoves,
              data, map, FeaturesTypeOK
<1>5. ASSUME NEW g \in Fires, FeedChanges(g) PROVE FeaturesTypeOK'
  BY <1>5 DEF FeedChanges, data, map, FeaturesTypeOK
<1>6. CASE UNCHANGED vars
  BY <1>6 DEF vars, data, map, FeaturesTypeOK
<1> QED
  BY <1>1, <1>2, <1>3, <1>4, <1>5, <1>6, Zenon DEF Next

\* What is drawn is nothing, a polygon or an icon; a render waits or not.
PictureTypeOK == owed \in BOOLEAN /\ \A f \in Fires : drawn[f].as \in {"nothing", "polygon", "icon"}

DetailInv == DrawingInv /\ FeaturesTypeOK /\ PictureTypeOK /\ DetailOwed

LEMMA RedrawnTypeOK ==
  ASSUME Redrawn, NEW f \in Fires
  PROVE  drawn'[f] = Drawing(f) /\ Drawing(f).as \in {"nothing", "polygon", "icon"}
BY DEF Redrawn, Drawing, Undrawn

\* A rebuild draws the full outlines there are.
LEMMA RedrawnShowsDetail ==
  ASSUME Redrawn, FeaturesTypeOK'
  PROVE  DetailOwed'
<1> SUFFICES ASSUME NEW f \in Fires, f \in features', zoomed', detail'[f] = all'[f].date,
                    drawn'[f].as = "polygon", ~drawn'[f].full
             PROVE  FALSE
  BY DEF DetailOwed, FeaturesTypeOK
<1>1. drawn'[f] = Drawing(f)
  BY RedrawnTypeOK
<1>2. Drawing(f).full = TRUE
  BY DEF Drawing, Have
<1> QED
  BY <1>1, <1>2

\* A drawing left alone owes what it owed.
LEMMA KeptOwes ==
  ASSUME DetailOwed, drawn' = drawn, owed' = owed, all' = all, detail' = detail,
         view' = view, zoomed' = zoomed, settling' = settling, paused => paused',
         features' \subseteq features
  PROVE  DetailOwed'
BY DEF DetailOwed

LEMMA UnlessPopupOpenOwes ==
  ASSUME RenderUnlessPopupOpen, PictureTypeOK, FeaturesTypeOK'
  PROVE  DetailOwed' /\ PictureTypeOK'
<1>1. CASE popup \in {"polygon", "icon"}
  BY <1>1 DEF RenderUnlessPopupOpen, DetailOwed, PictureTypeOK
<1>2. CASE popup \notin {"polygon", "icon"}
  <2>1. Redrawn /\ owed' = FALSE
    BY <1>2, RebuildDraws DEF RenderUnlessPopupOpen, Rebuild
  <2> QED
    BY <2>1, RedrawnShowsDetail, RedrawnTypeOK DEF PictureTypeOK
<1> QED
  BY <1>1, <1>2

\* _showDetail leaves no full outline undrawn without owing it.
LEMMA ShowDetailOwes ==
  ASSUME NEW rebuilt, ShowDetail(rebuilt), PictureTypeOK, FeaturesTypeOK'
  PROVE  DetailOwed' /\ PictureTypeOK'
<1>1. CASE rebuilt
  <2>1. Redrawn /\ owed' = FALSE
    BY <1>1, RebuildDraws DEF ShowDetail, Rebuild
  <2> QED
    BY <2>1, RedrawnShowsDetail, RedrawnTypeOK DEF PictureTypeOK
<1>2. CASE ~rebuilt /\ DetailUndrawn
  BY <1>2, UnlessPopupOpenOwes DEF ShowDetail
<1>3. CASE ~rebuilt /\ ~DetailUndrawn
  <2>1. drawn' = drawn /\ owed' = owed
    BY <1>3 DEF ShowDetail, picture
  <2>2. \A f \in features' \cap view' : zoomed' /\ Have(f) => ~(drawn[f].as = "polygon" /\ ~drawn[f].full)
    BY <1>3 DEF DetailUndrawn, InView
  <2>3. DetailOwed'
    BY <2>1, <2>2 DEF DetailOwed, Have
  <2> QED
    BY <2>1, <2>3 DEF PictureTypeOK
<1> QED
  BY <1>1, <1>2, <1>3

\* A handler that rebuilds if the decisions changed and else leaves all alone.
LEMMA DecidedOwes ==
  ASSUME DetailInv, FeaturesTypeOK', all' = all, detail' = detail, UNCHANGED <<map, paused>>,
         IF DecisionsChanged THEN Rebuild ELSE UNCHANGED picture
  PROVE  DetailOwed' /\ PictureTypeOK'
<1>1. CASE DecisionsChanged
  <2>1. Redrawn /\ owed' = FALSE
    BY <1>1, RebuildDraws DEF Rebuild
  <2> QED
    BY <2>1, RedrawnShowsDetail, RedrawnTypeOK DEF PictureTypeOK
<1>2. CASE ~DecisionsChanged
  <2>1. drawn' = drawn /\ owed' = owed
    BY <1>2 DEF picture
  <2>2. features' \subseteq features
    BY <1>2, SameDecisions DEF DetailInv, DrawingInv, FeaturesTypeOK
  <2>3. DetailOwed'
    BY <2>1, <2>2, KeptOwes DEF DetailInv, map
  <2> QED
    BY <2>1, <2>3 DEF PictureTypeOK, DetailInv
<1> QED
  BY <1>1, <1>2

\* The popup closes or moves to another fire: the render that waited is made.
LEMMA ClosedOwes ==
  ASSUME DetailInv, FeaturesTypeOK', UNCHANGED <<map, data, detail, paused>>, owed' = FALSE,
         drawn' = IF owed THEN [f \in Fires |-> Drawing(f)] ELSE drawn
  PROVE  DetailOwed' /\ PictureTypeOK'
<1>1. CASE owed
  <2>1. Redrawn
    BY <1>1 DEF Redrawn
  <2> QED
    BY <2>1, RedrawnShowsDetail, RedrawnTypeOK DEF PictureTypeOK
<1>2. CASE ~owed
  <2>1. drawn' = drawn /\ owed' = owed
    BY <1>2 DEF DetailInv, PictureTypeOK
  <2> QED
    BY <2>1, KeptOwes DEF DetailInv, PictureTypeOK, map, data
<1> QED
  BY <1>1, <1>2

LEMMA AloneOwes ==
  ASSUME DetailInv, UNCHANGED <<map, all, features, detail, picture>>, paused => paused'
  PROVE  DetailOwed' /\ PictureTypeOK'
BY KeptOwes DEF DetailInv, PictureTypeOK, map, picture

LEMMA DetailStep == DetailInv /\ [Next]_vars => DetailInv'
<1> SUFFICES ASSUME DetailInv, [Next]_vars PROVE DetailInv'
  OBVIOUS
<1>0. DrawingInv' /\ FeaturesTypeOK'
  BY DrawingStep, FeaturesStep DEF DetailInv
<1>a. PictureTypeOK /\ FeaturesTypeOK'
  BY <1>0 DEF DetailInv
<1> SUFFICES DetailOwed' /\ PictureTypeOK'
  BY <1>0 DEF DetailInv
<1>1. CASE TimerFires \/ AttributesLead \/ Elapse \/ OutlinesAge \/ DetailFails \/ Pause
  <2>1. UNCHANGED <<map, all, features, detail, picture>> /\ (paused => paused')
    <3>1. CASE TimerFires
      BY <3>1 DEF TimerFires, data
    <3>2. CASE AttributesLead
      BY <3>2 DEF AttributesLead, data, chain
    <3>3. CASE Elapse
      BY <3>3 DEF Elapse, data
    <3>4. CASE OutlinesAge
      BY <3>4 DEF OutlinesAge, chain
    <3>5. CASE DetailFails
      BY <3>5 DEF DetailFails, data, chain
    <3>6. CASE Pause
      BY <3>6 DEF Pause, data
    <3> QED
      BY <1>1, <3>1, <3>2, <3>3, <3>4, <3>5, <3>6
  <2> QED
    BY <2>1, AloneOwes
<1>2. CASE AttributesSuffice
  <2>1. ShowDetail(SignatureChanged)
    BY <1>2 DEF AttributesSuffice
  <2> QED
    BY <1>a, <2>1, ShowDetailOwes DEF AttributesSuffice
<1>3. CASE OutlinesArrive
  <2>1. ShowDetail(TRUE)
    BY <1>3 DEF OutlinesArrive
  <2> QED
    BY <1>a, <2>1, ShowDetailOwes
<1>4. CASE FetchFails
  BY <1>0, <1>4, DecidedOwes DEF FetchFails, data
<1>5. CASE DetailArrives
  BY <1>5, <1>a, UnlessPopupOpenOwes DEF DetailArrives
<1>6. CASE Resume
  <2>1. ShowDetail(DecisionsChanged)
    BY <1>6 DEF Resume
  <2> QED
    BY <1>a, <2>1, ShowDetailOwes
<1>7. CASE HassTick
  BY <1>0, <1>7, DecidedOwes DEF HassTick, chain
<1>8. CASE MapMoves
  BY <1>8, <1>a DEF MapMoves, DetailOwed, PictureTypeOK, picture
<1>9. CASE MapQuiet
  <2>1. CASE paused
    BY <1>9, <1>a, <2>1 DEF MapQuiet, DetailOwed, PictureTypeOK, picture, chain
  <2>2. CASE ~paused
    <3>1. ShowDetail(DecisionsChanged)
      BY <1>9, <2>2 DEF MapQuiet
    <3> QED
      BY <1>a, <3>1, ShowDetailOwes
  <2> QED
    BY <2>1, <2>2
<1>10. CASE PopupOpens
  BY <1>10, <1>a, KeptOwes DEF PopupOpens, DetailInv, PictureTypeOK, map, data, chain
<1>11. CASE PopupCloses
  BY <1>0, <1>11, ClosedOwes DEF PopupCloses, chain
<1>12. CASE PopupMoves
  BY <1>0, <1>12, ClosedOwes DEF PopupMoves, chain
<1>13. CASE Clear
  BY <1>13 DEF Clear, DetailOwed, PictureTypeOK, Undrawn
<1>14. ASSUME NEW g \in Fires, FeedChanges(g)
       PROVE  DetailOwed' /\ PictureTypeOK'
  BY <1>14, AloneOwes DEF FeedChanges, data, chain
<1>15. CASE UNCHANGED vars
  BY <1>15, AloneOwes DEF vars, data, chain
<1> QED
  BY <1>1, <1>2, <1>3, <1>4, <1>5, <1>6, <1>7, <1>8, <1>9, <1>10, <1>11, <1>12, <1>13,
     <1>14, <1>15, Zenon DEF Next

LEMMA DetailInit == Init => DetailInv
<1> SUFFICES ASSUME Init PROVE DetailInv
  OBVIOUS
<1>1. features = {} /\ near = Fires /\ owed = FALSE /\ drawn = [f \in Fires |-> Undrawn]
  BY DEF Init
<1>2. Undrawn.as = "nothing"
  BY DEF Undrawn
<1> QED
  BY <1>1, <1>2, DrawingInit DEF DetailInv, DetailOwed, PictureTypeOK, FeaturesTypeOK

\* A full outline that is here is drawn, or a render is owed for it.
THEOREM DetailTheorem == Spec => []DetailOwed
<1>1. DetailInv => DetailOwed
  BY DEF DetailInv
<1> QED
  BY <1>1, DetailInit, DetailStep, PTL DEF Spec

-----------------------------------------------------------------------------
(* The popup a user reads.                                                 *)

Read == popup \in {"polygon", "icon"}

\* A rebuild for other decisions shows on the map.
LEMMA DecidedShows ==
  ASSUME DecisionsChanged, Redrawn
  PROVE  drawn' # drawn
<1>1. PICK f \in Fires : Drawing(f).as # drawn[f].as
  BY DEF DecisionsChanged
<1>2. drawn'[f] = Drawing(f)
  BY DEF Redrawn
<1> QED
  BY <1>1, <1>2

\* So does one for other attributes.
LEMMA SignatureShows ==
  ASSUME DrawnMatchesData, DrawnMatchesData', SignatureChanged,
         features \subseteq Fires, features' \subseteq Fires
  PROVE  drawn' # drawn
<1>1. CASE features' # features
  <2>1. PICK f \in Fires : ~(f \in features' <=> f \in features)
    BY <1>1
  <2>2. f \in features => drawn[f].as # "nothing"
    BY DEF DrawnMatchesData
  <2>3. f \notin features => drawn[f].as = "nothing"
    BY DEF DrawnMatchesData, Undrawn
  <2>4. f \in features' => drawn'[f].as # "nothing"
    BY DEF DrawnMatchesData
  <2>5. f \notin features' => drawn'[f].as = "nothing"
    BY DEF DrawnMatchesData, Undrawn
  <2> QED
    BY <2>1, <2>2, <2>3, <2>4, <2>5
<1>2. CASE features' = features
  <2>1. PICK f \in features : all'[f].look # all[f].look
    BY <1>2 DEF SignatureChanged
  <2>2. drawn[f].look = all[f].look
    BY <2>1 DEF DrawnMatchesData
  <2>3. drawn'[f].look = all'[f].look
    BY <1>2, <2>1 DEF DrawnMatchesData
  <2> QED
    BY <2>1, <2>2, <2>3
<1> QED
  BY <1>1, <1>2

\* _showDetail closes a popup only with a rebuild of its handler.
LEMMA ShowDetailKeeps ==
  ASSUME NEW rebuilt, ShowDetail(rebuilt), ~rebuilt, Read
  PROVE  popup' = popup
<1>1. CASE DetailUndrawn
  BY <1>1 DEF ShowDetail, RenderUnlessPopupOpen, Read
<1>2. CASE ~DetailUndrawn
  BY <1>2 DEF ShowDetail, picture
<1> QED
  BY <1>1, <1>2

LEMMA ShowDetailRebuilds ==
  ASSUME NEW rebuilt, ShowDetail(rebuilt), rebuilt
  PROVE  Redrawn
BY RebuildDraws DEF ShowDetail

PopupStep == Read /\ popup' = "none" => PopupCloses \/ cleared' \/ drawn' # drawn \/ OutlinesArrive

LEMMA PopupStepHolds ==
  ASSUME DetailInv, DetailInv', [Next]_vars
  PROVE  PopupStep \/ UNCHANGED vars
<1> SUFFICES ASSUME Read, popup' = "none", ~PopupCloses, ~cleared', drawn' = drawn, ~OutlinesArrive
             PROVE  UNCHANGED vars
  BY DEF PopupStep
<1>0. popup # "none"
  BY DEF Read
<1>1. ~(TimerFires \/ AttributesLead \/ Elapse \/ OutlinesAge \/ DetailFails \/ Pause \/ MapMoves)
  BY <1>0 DEF TimerFires, AttributesLead, Elapse, OutlinesAge, DetailFails, Pause, MapMoves, picture
<1>2. ~AttributesSuffice
  <2> SUFFICES ASSUME AttributesSuffice PROVE FALSE
    OBVIOUS
  <2>1. ShowDetail(SignatureChanged)
    BY DEF AttributesSuffice
  <2>2. CASE SignatureChanged
    BY <2>2, SignatureShows DEF DetailInv, DrawingInv, FeaturesTypeOK
  <2>3. CASE ~SignatureChanged
    BY <1>0, <2>1, <2>3, ShowDetailKeeps
  <2> QED
    BY <2>2, <2>3
<1>3. ~FetchFails /\ ~HassTick
  <2>1. CASE DecisionsChanged
    BY <2>1, RebuildDraws, DecidedShows DEF FetchFails, HassTick
  <2>2. CASE ~DecisionsChanged
    BY <1>0, <2>2 DEF FetchFails, HassTick, picture
  <2> QED
    BY <2>1, <2>2
<1>4. ~ShowDetail(DecisionsChanged)
  <2>1. CASE DecisionsChanged
    BY <2>1, ShowDetailRebuilds, DecidedShows
  <2>2. CASE ~DecisionsChanged
    BY <1>0, <2>2, ShowDetailKeeps
  <2> QED
    BY <2>1, <2>2
<1>5. ~Resume /\ ~MapQuiet
  BY <1>0, <1>4 DEF Resume, MapQuiet, picture
<1>6. ~DetailArrives
  BY <1>0 DEF DetailArrives, RenderUnlessPopupOpen, Read
<1>7. ~PopupOpens
  BY <1>0 DEF PopupOpens
<1>8. ~PopupMoves
  BY DEF PopupMoves, DetailInv, PictureTypeOK
<1>9. ~Clear
  BY DEF Clear
<1>10. ASSUME NEW g \in Fires PROVE ~FeedChanges(g)
  BY <1>0 DEF FeedChanges, picture
<1> QED
  BY <1>1, <1>2, <1>3, <1>5, <1>6, <1>7, <1>8, <1>9, <1>10, Zenon DEF Next

\* A popup a user reads is closed by a rebuild only for a change the map shows,
\* or for new outlines.
THEOREM PopupTheorem == Spec => PopupKept
<1>2. DetailInv /\ DetailInv' /\ [Next]_vars => [PopupStep]_vars
  BY PopupStepHolds
<1>3. PopupStep <=> (popup \in {"polygon", "icon"} /\ popup' = "none"
                     => PopupCloses \/ cleared' \/ drawn' # drawn \/ OutlinesArrive)
  BY DEF PopupStep, Read
<1>4. [][PopupStep]_vars => PopupKept
  BY <1>3, PTL DEF PopupKept
<1> QED
  BY <1>2, <1>4, DetailInit, DetailStep, PTL DEF Spec

-----------------------------------------------------------------------------
(* The chain of refreshes.                                                 *)

\* A refresh is in flight, or due, or the layer was cleared; a timer runs
\* only while the card is shown and a refresh is due.
ChainInv ==
  /\ paused \in BOOLEAN /\ cleared \in BOOLEAN
  /\ due \in {"none", "ahead", "past"}
  /\ request.for = "none" <=> cleared \/ due # "none"
  /\ cleared => due = "none"
  /\ timer => ~paused /\ due # "none"

\* What the handlers do to the chain.
Begins ==
  /\ timer /\ due = "past" /\ request'.for = "attributes" /\ due' = "none"
  /\ timer' = FALSE /\ paused' = paused /\ cleared' = cleared
Continues ==
  /\ request.for # "none" /\ request'.for = "outlines"
  /\ due' = due /\ timer' = timer /\ paused' = paused /\ cleared' = cleared
Ends ==
  /\ request.for # "none" /\ request'.for = "none" /\ due' = "ahead"
  /\ timer' = ~paused /\ paused' = paused /\ cleared' = cleared
FallsDue ==
  /\ due = "ahead" /\ due' = "past"
  /\ request' = request /\ timer' = timer /\ paused' = paused /\ cleared' = cleared
Hides ==
  /\ ~paused /\ ~cleared /\ paused' = TRUE /\ timer' = FALSE
  /\ request' = request /\ due' = due /\ cleared' = cleared
Shown ==
  /\ paused /\ ~cleared /\ paused' = FALSE /\ cleared' = cleared
  /\ \/ due = "past" /\ request'.for = "attributes" /\ due' = "none" /\ timer' = timer
     \/ due # "past" /\ timer' = (due = "ahead") /\ request' = request /\ due' = due
Stops ==
  /\ ~cleared /\ cleared' = TRUE /\ request'.for = "none" /\ due' = "none"
  /\ timer' = FALSE /\ paused' = paused
Alone ==
  /\ request' = request /\ due' = due /\ timer' = timer
  /\ paused' = paused /\ cleared' = cleared

LEMMA RefreshChainSteps ==
  ASSUME [Next]_vars
  PROVE  Begins \/ Continues \/ Ends \/ FallsDue \/ Hides \/ Shown \/ Stops \/ Alone
<1>1. ASSUME TimerFires PROVE Begins
  BY <1>1 DEF TimerFires, Fetch, Begins
<1>2. ASSUME AttributesSuffice PROVE Ends
  BY <1>2 DEF AttributesSuffice, Arm, Idle, Ends
<1>3. ASSUME OutlinesArrive PROVE Ends
  BY <1>3 DEF OutlinesArrive, Arm, Idle, Ends
<1>4. ASSUME FetchFails PROVE Ends
  BY <1>4 DEF FetchFails, Arm, Idle, Ends
<1>5. ASSUME Pause PROVE Hides
  BY <1>5 DEF Pause, Hides
<1>6. ASSUME Resume PROVE Shown
  BY <1>6 DEF Resume, Fetch, Shown
<1>7. ASSUME Clear PROVE Stops
  BY <1>7 DEF Clear, Idle, Stops
<1>8. ASSUME Elapse PROVE FallsDue
  BY <1>8 DEF Elapse, FallsDue
<1>9. ASSUME AttributesLead PROVE Continues
  BY <1>9 DEF AttributesLead, chain, Continues
<1>10. ASSUME OutlinesAge \/ DetailArrives \/ DetailFails \/ HassTick PROVE Alone
  BY <1>10 DEF OutlinesAge, DetailArrives, DetailFails, HassTick, chain, Alone
<1>11. ASSUME MapMoves \/ MapQuiet PROVE Alone
  BY <1>11 DEF MapMoves, MapQuiet, chain, Alone
<1>12. ASSUME PopupOpens \/ PopupCloses \/ PopupMoves PROVE Alone
  BY <1>12 DEF PopupOpens, PopupCloses, PopupMoves, chain, Alone
<1>13. ASSUME NEW g \in Fires, FeedChanges(g) PROVE Alone
  BY <1>13 DEF FeedChanges, chain, Alone
<1>14. ASSUME UNCHANGED vars PROVE Alone
  BY <1>14 DEF vars, chain, Alone
<1> QED
  BY <1>1, <1>2, <1>3, <1>4, <1>5, <1>6, <1>7, <1>8, <1>9, <1>10, <1>11, <1>12, <1>13, <1>14, Zenon DEF Next

LEMMA ChainInit == Init => ChainInv
<1> SUFFICES ASSUME Init PROVE ChainInv
  OBVIOUS
<1>1. request.for = "attributes"
  BY DEF Init
<1>2. due = "none" /\ timer = FALSE /\ paused = FALSE /\ cleared = FALSE
  BY DEF Init
<1> QED
  BY <1>1, <1>2 DEF ChainInv

LEMMA ChainStep == ChainInv /\ [Next]_vars => ChainInv'
<1> SUFFICES ASSUME ChainInv, [Next]_vars PROVE ChainInv'
  OBVIOUS
<1> USE DEF ChainInv
<1>1. CASE Begins
  BY <1>1 DEF Begins
<1>2. CASE Continues
  BY <1>2 DEF Continues
<1>3. CASE Ends
  BY <1>3 DEF Ends
<1>4. CASE FallsDue
  BY <1>4 DEF FallsDue
<1>5. CASE Hides
  BY <1>5 DEF Hides
<1>6. CASE Shown
  <2>1. paused' = FALSE /\ cleared = FALSE /\ cleared' = FALSE
    BY <1>6 DEF Shown
  <2>2. CASE due = "past"
    <3>1. request'.for = "attributes" /\ due' = "none"
      BY <1>6, <2>2 DEF Shown
    <3>2. ~timer'
      BY <1>6, <2>2, Zenon DEF Shown
    <3> QED
      BY <2>1, <3>1, <3>2
  <2>3. CASE due # "past"
    <3>1. request' = request /\ due' = due
      BY <1>6, <2>3 DEF Shown
    <3>2. timer' => due = "ahead"
      BY <1>6, <2>3, Zenon DEF Shown
    <3>3. request'.for = "none" <=> cleared' \/ due' # "none"
      BY <2>1, <3>1
    <3>4. timer' => ~paused' /\ due' # "none"
      BY <2>1, <3>1, <3>2
    <3>5. paused' \in BOOLEAN /\ cleared' \in BOOLEAN /\ due' \in {"none", "ahead", "past"}
      BY <2>1, <3>1
    <3> QED
      BY <2>1, <3>3, <3>4, <3>5
  <2> QED
    BY <2>2, <2>3
<1>7. CASE Stops
  BY <1>7 DEF Stops
<1>8. CASE Alone
  BY <1>8 DEF Alone
<1> HIDE DEF ChainInv
<1> QED
  BY <1>1, <1>2, <1>3, <1>4, <1>5, <1>6, <1>7, <1>8, RefreshChainSteps

\* A step of the layer is a step of the promised chain or none.
LEMMA RefreshStep == ChainInv /\ [Next]_vars => [Refresh!Next]_Refresh!vars
<1> SUFFICES ASSUME ChainInv, [Next]_vars PROVE [Refresh!Next]_Refresh!vars
  OBVIOUS
<1> USE DEF ChainInv, Refresh!Next, Refresh!vars
<1>1. CASE Begins
  BY <1>1 DEF Begins, Refresh!Begin
<1>2. CASE Continues
  BY <1>2 DEF Continues
<1>3. CASE Ends
  BY <1>3 DEF Ends, Refresh!End
<1>4. CASE FallsDue
  BY <1>4 DEF FallsDue
<1>5. CASE Hides
  BY <1>5 DEF Hides, Refresh!Hide
<1>6. CASE Shown
  BY <1>6 DEF Shown, Refresh!Show
<1>7. CASE Stops
  BY <1>7 DEF Stops, Refresh!Stop
<1>8. CASE Alone
  BY <1>8 DEF Alone
<1> HIDE DEF ChainInv, Refresh!Next, Refresh!vars
<1> QED
  BY <1>1, <1>2, <1>3, <1>4, <1>5, <1>6, <1>7, <1>8, RefreshChainSteps

\* The layer begins no refresh while the card is hidden and none beside
\* another: it implements the safety of RefreshChain.
THEOREM RefreshImplemented == Spec => RefreshSafe
<1>1. Init => Refresh!Init
  BY DEF Init, Refresh!Init
<1> QED
  BY <1>1, ChainInit, ChainStep, RefreshStep, PTL DEF Spec, RefreshSafe, Refresh!Safe

=============================================================================
