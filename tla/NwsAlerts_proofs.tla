--------------------------- MODULE NwsAlerts_proofs ---------------------------
(***************************************************************************)
(* Proofs about the alerts layer, for any number of zones and any pool:    *)
(* its refresh chain never holds two refreshes and implements the safety   *)
(* of RefreshChain, and what arrived is drawn or will be.  The zone batch  *)
(* shares the layer's steps but not the chain's state, so the proofs about *)
(* the chain never look into it; of drawing it matters only whether a      *)
(* batch runs and whether it was aborted.  Then follows what is drawn      *)
(* (AlertShapes), for any alerts, zones, views and times, and last where   *)
(* the shapes come from (ZoneStore): a record's time is no later than its  *)
(* shape's, in the database, in each request and in the write-back list.   *)
(***************************************************************************)
EXTENDS NwsAlerts, AlertShapes, ZoneStore, FiniteSetTheorems, TLAPS

\* The types of the chain, in the form the steps need them.
ChainTypeOK ==
  /\ list \in {"none", "running"} /\ due \in {"none", "ahead", "past"}
  /\ timers \in Nat /\ handle \in {"null", "armed"}
  /\ paused \in BOOLEAN /\ cleared \in BOOLEAN

\* The inductive invariant.  OneRefresh alone would let a cleared layer keep
\* a refresh that is due, with its timer.
ClearedOwesNothing == cleared => due = "none"
ChainInv == ChainTypeOK /\ OneRefresh /\ ClearedOwesNothing

-----------------------------------------------------------------------------
(* What each handler does to the chain, whatever it does to the batch.     *)

LEMMA FetchChain ==
  ASSUME Fetch
  PROVE  list' = "running" /\ due' = "none" /\ cleared' = cleared
BY DEF Fetch

LEMMA TimerFiresChain ==
  ASSUME TimerFires
  PROVE  /\ timers > 0 /\ due # "ahead" /\ timers' = timers - 1
         /\ handle' = "null" /\ paused' = paused
         /\ list' = "running" /\ due' = "none" /\ cleared' = cleared
BY FetchChain DEF TimerFires

LEMMA ListEndsChain ==
  ASSUME ListArrives \/ ListFails
  PROVE  /\ list = "running" /\ list' = "none" /\ paused' = paused /\ cleared' = cleared
         /\ due' = "ahead"
         /\ IF paused THEN timers' = timers /\ handle' = handle
            ELSE timers' = (IF handle = "armed" THEN timers ELSE timers + 1) /\ handle' = "armed"
BY DEF ListArrives, ListFails, Arm

LEMMA ElapseChain ==
  ASSUME Elapse
  PROVE  due = "ahead" /\ due' = "past" /\ UNCHANGED <<list, timers, handle, paused, cleared>>
BY DEF Elapse

LEMMA PauseChain ==
  ASSUME Pause
  PROVE  /\ ~paused /\ ~cleared /\ paused' = TRUE /\ handle' = "null"
         /\ timers' = (IF handle = "armed" THEN timers - 1 ELSE timers)
         /\ UNCHANGED <<list, due, cleared>>
BY DEF Pause

LEMMA ResumeChain ==
  ASSUME Resume
  PROVE  /\ paused /\ ~cleared /\ paused' = FALSE /\ cleared' = cleared
         /\ \/ due = "none" /\ UNCHANGED <<list, due, timers, handle>>
            \/ due = "past" /\ UNCHANGED <<timers, handle>> /\ list' = "running" /\ due' = "none"
            \/ due = "ahead" /\ UNCHANGED <<list, due>> /\ timers' = timers + 1 /\ handle' = "armed"
BY FetchChain DEF Resume

LEMMA ClearChain ==
  ASSUME Clear
  PROVE  /\ ~cleared /\ cleared' = TRUE /\ paused' = paused
         /\ list' = "none" /\ due' = "none" /\ handle' = "null"
         /\ timers' = (IF handle = "armed" THEN timers - 1 ELSE timers)
BY DEF Clear

\* The zone pool, the map and the user leave the chain alone.
LEMMA OthersChain ==
  ASSUME \/ \E z \in Zones : StoreHit(z) \/ StoreMiss(z)
                             \/ ZoneArrives(z) \/ ZoneFails(z) \/ ZoneBlocked(z)
         \/ BackoffElapses \/ ZoneRetryFires
         \/ MapBusy \/ MapQuiet \/ HassTick
         \/ PopupOpens \/ \E another \in BOOLEAN : PopupCloses(another)
  PROVE  UNCHANGED chain
<1>1. ASSUME NEW z \in Zones, StoreHit(z) PROVE UNCHANGED chain
  BY <1>1 DEF StoreHit
<1>2. ASSUME NEW z \in Zones, StoreMiss(z) PROVE UNCHANGED chain
  BY <1>2 DEF StoreMiss
<1>3. ASSUME NEW z \in Zones, ZoneArrives(z) PROVE UNCHANGED chain
  BY <1>3 DEF ZoneArrives
<1>4. ASSUME NEW z \in Zones, ZoneFails(z) PROVE UNCHANGED chain
  BY <1>4 DEF ZoneFails
<1>5. ASSUME NEW z \in Zones, ZoneBlocked(z) PROVE UNCHANGED chain
  BY <1>5 DEF ZoneBlocked
<1>6. ASSUME BackoffElapses \/ ZoneRetryFires \/ MapBusy \/ MapQuiet PROVE UNCHANGED chain
  BY <1>6 DEF BackoffElapses, ZoneRetryFires, MapBusy, MapQuiet
<1>7. ASSUME HassTick \/ PopupOpens PROVE UNCHANGED chain
  BY <1>7 DEF HassTick, PopupOpens
<1>8. ASSUME NEW another \in BOOLEAN, PopupCloses(another) PROVE UNCHANGED chain
  BY <1>8 DEF PopupCloses
<1> QED
  BY <1>1, <1>2, <1>3, <1>4, <1>5, <1>6, <1>7, <1>8

LEMMA NextChain ==
  ASSUME [Next]_vars
  PROVE  \/ TimerFires \/ ListArrives \/ ListFails \/ Elapse \/ Pause \/ Resume \/ Clear
         \/ UNCHANGED chain
<1>1. CASE Next
  BY <1>1, OthersChain, Zenon DEF Next
<1>2. CASE UNCHANGED vars
  BY <1>2 DEF vars
<1> QED
  BY <1>1, <1>2

-----------------------------------------------------------------------------

LEMMA ChainInit == Init => ChainInv
<1> SUFFICES ASSUME Init PROVE ChainInv
  OBVIOUS
<1>1. ChainTypeOK
  BY DEF Init, ChainTypeOK
<1>2. OneRefresh
  BY DEF Init, OneRefresh, Armed
<1>3. ClearedOwesNothing
  BY DEF Init, ClearedOwesNothing
<1> QED
  BY <1>1, <1>2, <1>3 DEF ChainInv

\* Every step keeps the chain consistent.
LEMMA ChainStep == ChainInv /\ [Next]_vars => ChainInv'
<1> SUFFICES ASSUME ChainInv, [Next]_vars PROVE ChainInv'
  OBVIOUS
<1> USE DEF ChainInv, ChainTypeOK, OneRefresh, Armed, ClearedOwesNothing
<1>1. CASE TimerFires
  <2>1. timers = 1 /\ due # "none" /\ ~paused /\ handle = "armed"
    BY <1>1, TimerFiresChain
  <2>2. timers' = 0 /\ paused' = paused
    BY <1>1, <2>1, TimerFiresChain
  <2>3. handle' = "null"
    BY <1>1, <2>1, TimerFiresChain
  <2>4. list' = "running" /\ due' = "none" /\ cleared' = FALSE
    BY <1>1, <2>1, TimerFiresChain
  <2>5. ChainTypeOK'
    BY <2>2, <2>3, <2>4
  <2>6. OneRefresh'
    BY <2>2, <2>3, <2>4
  <2> HIDE DEF ChainTypeOK, OneRefresh
  <2> QED
    BY <2>4, <2>5, <2>6
<1>2. CASE ListArrives \/ ListFails
  <2>1. timers = 0 /\ handle = "null" /\ ~cleared
    BY <1>2, ListEndsChain
  <2>2. paused' = paused /\ cleared' = FALSE /\ list' = "none" /\ due' = "ahead"
    BY <1>2, <2>1, ListEndsChain
  <2>3. CASE paused
    <3>1. timers' = 0 /\ handle' = "null"
      BY <1>2, <2>1, <2>3, ListEndsChain
    <3>2. ChainTypeOK'
      BY <2>2, <3>1
    <3>3. OneRefresh'
      BY <2>2, <2>3, <3>1
    <3> HIDE DEF ChainTypeOK, OneRefresh
    <3> QED
      BY <2>2, <3>2, <3>3
  <2>4. CASE ~paused
    <3>1. timers' = 1 /\ handle' = "armed"
      BY <1>2, <2>1, <2>4, ListEndsChain
    <3>2. ChainTypeOK'
      BY <2>2, <3>1
    <3>3. OneRefresh'
      BY <2>2, <2>4, <3>1
    <3> HIDE DEF ChainTypeOK, OneRefresh
    <3> QED
      BY <2>2, <3>2, <3>3
  <2> QED
    BY <2>3, <2>4
<1>3. CASE Elapse
  BY <1>3, ElapseChain
<1>4. CASE Pause
  BY <1>4, PauseChain
<1>5. CASE Resume
  BY <1>5, ResumeChain
<1>6. CASE Clear
  BY <1>6, ClearChain
<1>7. CASE UNCHANGED chain
  BY <1>7 DEF chain
<1> QED
  BY <1>1, <1>2, <1>3, <1>4, <1>5, <1>6, <1>7, NextChain

\* One refresh at a time: in flight, armed, or kept for resume().
THEOREM OneRefreshAlways == Spec => []OneRefresh
<1>1. ChainInv => OneRefresh
  BY DEF ChainInv
<1> QED
  BY <1>1, ChainInit, ChainStep, PTL DEF Spec

-----------------------------------------------------------------------------
(* The chain implements RefreshChain.                                      *)

\* A step of the layer is a step of the promised chain or none.
LEMMA RefreshStep == ChainInv /\ [Next]_vars => [Refresh!Next]_Refresh!vars
<1> SUFFICES ASSUME ChainInv, [Next]_vars PROVE [Refresh!Next]_Refresh!vars
  OBVIOUS
<1> USE DEF ChainInv, ChainTypeOK, OneRefresh, Armed, ClearedOwesNothing, Refresh!Next, Refresh!vars
<1>1. CASE TimerFires
  BY <1>1, TimerFiresChain DEF Refresh!Begin
<1>2. CASE ListArrives \/ ListFails
  BY <1>2, ListEndsChain DEF Refresh!End
<1>3. CASE Elapse
  BY <1>3, ElapseChain
<1>4. CASE Pause
  <2>1. ~paused /\ paused' = TRUE /\ list' = list /\ cleared' = cleared
    BY <1>4, PauseChain
  <2> HIDE DEF ChainInv
  <2> QED
    BY <2>1 DEF Refresh!Hide
<1>5. CASE Resume
  BY <1>5, ResumeChain DEF Refresh!Show
<1>6. CASE Clear
  BY <1>6, ClearChain DEF Refresh!Stop
<1>7. CASE UNCHANGED chain
  BY <1>7 DEF chain
<1> QED
  BY <1>1, <1>2, <1>3, <1>4, <1>5, <1>6, <1>7, NextChain

\* The alerts layer begins no refresh while the card is hidden and none
\* beside another: it implements the safety of RefreshChain.
THEOREM RefreshImplemented == Spec => RefreshSafe
<1>1. Init => Refresh!Init
  BY DEF Init, Refresh!Init
<1> QED
  BY <1>1, ChainInit, ChainStep, RefreshStep, PTL DEF Spec, RefreshSafe, Refresh!Safe

-----------------------------------------------------------------------------
(* What arrived is drawn or will be.                                       *)

\* The fields of a batch, of which the proof reads two.
BatchFields == {"running", "queue", "next", "parked", "active", "shapes",
                "blocked", "refused", "aborted"}
BatchShape == DOMAIN batch = BatchFields /\ (batch.running \/ batch = NoBatch)

\* The inductive form of RenderOwed.  A shape that came with the end of an aborted
\* batch waits for the list, and the list plans and draws only outside a backoff:
\* the zone retry, which pause() cancels, is never all there is.
RenderComing ==
  dirty => \/ cleared \/ busy \/ (popup /\ deferred) \/ batch.running
           \/ list = "running" /\ ~backoff

\* A batch that was aborted is planned again, by the list that aborted it.
AbortedReplans == batch.running /\ batch.aborted /\ ~cleared => list = "running" \/ replan

NoBatchInBackoff == batch.running => ~backoff

DrawInv == BatchShape /\ RenderComing /\ AbortedReplans /\ NoBatchInBackoff

\* A batch that goes on as b; only a refresh aborts it.
Keeps(b, c) == DOMAIN c = BatchFields /\ c.running = b.running /\ c.aborted = b.aborted

LEMMA SettledKeeps ==
  ASSUME NEW b, DOMAIN b = BatchFields, NEW z
  PROVE  /\ Keeps(b, [b EXCEPT !.active[z] = "none"])
         /\ Keeps(b, [b EXCEPT !.active[z] = "requesting"])
         /\ Keeps(b, [b EXCEPT !.active[z] = "none", !.shapes = TRUE])
         /\ Keeps(b, [b EXCEPT !.active[z] = "none", !.blocked = TRUE, !.refused = TRUE])
BY DEF Keeps, BatchFields

LEMMA GoesRoundKeeps ==
  ASSUME NEW b, DOMAIN b = BatchFields
  PROVE  Keeps(b, GoesRound(b))
BY DEF Keeps, GoesRound, BatchFields

LEMMA WokenKeeps ==
  ASSUME NEW b, DOMAIN b = BatchFields
  PROVE  Keeps(b, Woken(b))
BY DEF Keeps, Woken, BatchFields

LEMMA AbortedIs ==
  ASSUME NEW b, DOMAIN b = BatchFields
  PROVE  DOMAIN Aborted(b) = BatchFields /\ Aborted(b).running = b.running /\ Aborted(b).aborted
BY DEF Aborted, BatchFields

LEMMA NoBatchIs ==
  DOMAIN NoBatch = BatchFields /\ ~NoBatch.running /\ ~NoBatch.aborted
BY DEF NoBatch, BatchFields

LEMMA FreshIs ==
  ASSUME NEW zs
  PROVE  DOMAIN Fresh(zs) = BatchFields /\ Fresh(zs).running /\ ~Fresh(zs).aborted
BY NoBatchIs DEF Fresh, BatchFields

\* A render that was asked for leaves nothing to draw, or someone who will.
LEMMA RenderAsked ==
  ASSUME NEW changed, Render(TRUE, changed)
  PROVE  dirty' => busy' \/ (popup' /\ deferred')
BY DEF Render

\* Planning outside a backoff draws, or starts a batch that will.
LEMMA PlanDraws ==
  ASSUME NEW asked, NEW changed, PlanZones(asked, changed), ~backoff'
  PROVE  /\ BatchShape' /\ AbortedReplans' /\ NoBatchInBackoff'
         /\ dirty' => busy' \/ (popup' /\ deferred') \/ batch'.running
<1>1. batch' = NoBatch \/ batch' = Fresh(ZoneQueue)
  BY DEF PlanZones
<1>2. DOMAIN batch' = BatchFields /\ ~batch'.aborted /\ (batch'.running \/ batch' = NoBatch)
  BY <1>1, NoBatchIs, FreshIs
<1>3. CASE Render(TRUE, changed)
  BY <1>2, <1>3, RenderAsked DEF BatchShape, AbortedReplans, NoBatchInBackoff
<1>4. CASE batch' = Fresh(ZoneQueue)
  BY <1>2, <1>4, FreshIs DEF BatchShape, AbortedReplans, NoBatchInBackoff
<1> QED
  BY <1>3, <1>4 DEF PlanZones

\* However a batch goes on or ends, what it brought is drawn or will be: an
\* aborted one's by the list that aborted it.
LEMMA SettlesDraws ==
  ASSUME NEW b, NEW asked, NEW changed, Settles(b, asked, changed),
         DOMAIN b = BatchFields, b.running, ~backoff,
         b.aborted => cleared' \/ list' = "running" \/ replan
  PROVE  DrawInv'
<1>1. CASE Workers(b) > 0
  <2>1. batch' = b /\ replan' = replan /\ ~backoff'
    BY <1>1 DEF Settles
  <2> QED
    BY <2>1 DEF DrawInv, BatchShape, RenderComing, AbortedReplans, NoBatchInBackoff
<1>2. CASE BatchEnds(b, asked, changed) /\ replan
  <2>1. PlanZones(asked, changed) /\ ~backoff'
    BY <1>2 DEF BatchEnds
  <2> QED
    BY <2>1, PlanDraws DEF DrawInv, RenderComing
<1>3. CASE BatchEnds(b, asked, changed) /\ ~replan
  <2>1. batch' = NoBatch
    BY <1>3 DEF BatchEnds
  <2>2. BatchShape' /\ AbortedReplans' /\ NoBatchInBackoff'
    BY <2>1, NoBatchIs DEF BatchShape, AbortedReplans, NoBatchInBackoff
  <2>3. CASE b.aborted
    <3>1. ~backoff' /\ (cleared' \/ list' = "running")
      BY <1>3, <2>3 DEF BatchEnds
    <3> QED
      BY <2>2, <3>1 DEF DrawInv, RenderComing
  <2>4. CASE ~b.aborted
    <3>1. Render(TRUE, changed)
      BY <1>3, <2>4 DEF BatchEnds
    <3> QED
      BY <2>2, <3>1, RenderAsked DEF DrawInv, RenderComing
  <2> QED
    BY <2>3, <2>4
<1> QED
  BY <1>1, <1>2, <1>3 DEF Settles

LEMMA FetchDraws ==
  ASSUME DrawInv, Fetch
  PROVE  DrawInv'
<1>1. list' = "running" /\ UNCHANGED <<cleared, busy, popup>>
  BY DEF Fetch
<1>2. CASE batch.running
  <2>1. Settles(Aborted(batch), FALSE, dirty)
    BY <1>2 DEF Fetch
  <2>2. ~backoff /\ DOMAIN batch = BatchFields
    BY <1>2 DEF DrawInv, NoBatchInBackoff, BatchShape
  <2>3. DOMAIN Aborted(batch) = BatchFields /\ Aborted(batch).running
    BY <1>2, <2>2, AbortedIs
  <2> QED
    BY <1>1, <2>1, <2>2, <2>3, SettlesDraws
<1>3. CASE ~batch.running
  <2>1. UNCHANGED <<plan, drawn>>
    BY <1>3 DEF Fetch
  <2> QED
    BY <1>1, <2>1 DEF DrawInv, BatchShape, RenderComing, AbortedReplans, NoBatchInBackoff, plan, drawn
<1> QED
  BY <1>2, <1>3

\* The end of a list: what was undrawn before stays somebody's task also in a
\* backoff, when nothing is planned.
LEMMA ResolveDraws ==
  ASSUME DrawInv, NEW asked \in BOOLEAN, NEW changed, ResolveZones(asked, changed),
         UNCHANGED <<cleared, busy, popup>>, asked \/ changed = dirty
  PROVE  DrawInv'
<1>1. backoff' = backoff
  BY DEF ResolveZones
<1>2. CASE batch.running
  <2>1. batch' = batch /\ replan' = TRUE
    BY <1>2 DEF ResolveZones
  <2> QED
    BY <1>1, <1>2, <2>1 DEF DrawInv, BatchShape, RenderComing, AbortedReplans, NoBatchInBackoff
<1>3. CASE ~batch.running /\ ~backoff
  <2>1. PlanZones(asked, changed)
    BY <1>3 DEF ResolveZones
  <2> QED
    BY <1>1, <1>3, <2>1, PlanDraws DEF DrawInv, RenderComing
<1>4. CASE ~batch.running /\ backoff
  <2>1. batch' = NoBatch /\ Render(asked, changed)
    BY <1>1, <1>4 DEF ResolveZones, PlanZones
  <2>2. BatchShape' /\ AbortedReplans' /\ NoBatchInBackoff'
    BY <2>1, NoBatchIs DEF BatchShape, AbortedReplans, NoBatchInBackoff
  <2>3. CASE asked
    <3>1. Render(TRUE, changed)
      BY <2>1, <2>3
    <3> QED
      BY <2>2, <3>1, RenderAsked DEF DrawInv, RenderComing
  <2>4. CASE ~asked
    <3>1. dirty' = dirty /\ deferred' = deferred
      BY <2>1, <2>4 DEF Render
    <3>2. RenderComing'
      BY <1>4, <3>1 DEF DrawInv, RenderComing
    <3> QED
      BY <2>2, <3>2 DEF DrawInv
  <2> QED
    BY <2>3, <2>4
<1> QED
  BY <1>2, <1>3, <1>4

\* A worker's step leaves the batch as b, no more aborted than it was.
LEMMA WorkerDraws ==
  ASSUME DrawInv, batch.running, NEW b, Keeps(batch, b), NEW asked, NEW changed,
         Settles(b, asked, changed), UNCHANGED chain
  PROVE  DrawInv'
<1>1. ~backoff /\ DOMAIN b = BatchFields /\ b.running /\ b.aborted = batch.aborted
  BY DEF DrawInv, NoBatchInBackoff, Keeps
<1>2. list' = list /\ cleared' = cleared
  BY DEF chain
<1>3. b.aborted => cleared' \/ list' = "running" \/ replan
  BY <1>1, <1>2 DEF DrawInv, AbortedReplans
<1> QED
  BY <1>1, <1>3, SettlesDraws

LEMMA ActiveRuns ==
  ASSUME DrawInv, NEW z \in Zones, batch.active[z] # "none"
  PROVE  batch.running /\ DOMAIN batch = BatchFields
<1>1. NoBatch.active[z] = "none"
  BY DEF NoBatch
<1> QED
  BY <1>1 DEF DrawInv, BatchShape

LEMMA StoreDraws ==
  ASSUME DrawInv, NEW z \in Zones, StoreHit(z) \/ StoreMiss(z)
  PROVE  DrawInv'
<1>1. batch.running /\ DOMAIN batch = BatchFields
  <2>1. batch.active[z] = "reading"
    BY DEF StoreHit, StoreMiss
  <2> QED
    BY <2>1, ActiveRuns
<1>2. UNCHANGED chain /\ UNCHANGED <<busy, popup>>
  BY DEF StoreHit, StoreMiss
<1>3. CASE StoreHit(z)
  <2> DEFINE b == [batch EXCEPT !.active[z] = "none", !.shapes = TRUE]
  <2>1. Settles(GoesRound(b), FALSE, TRUE)
    BY <1>3 DEF StoreHit
  <2>2. Keeps(batch, b)
    BY <1>1, SettledKeeps
  <2> HIDE DEF b
  <2>3. Keeps(b, GoesRound(b))
    BY <2>2, GoesRoundKeeps DEF Keeps
  <2>4. Keeps(batch, GoesRound(b))
    BY <2>2, <2>3 DEF Keeps
  <2> QED
    BY <1>1, <1>2, <2>1, <2>4, WorkerDraws
<1>4. CASE StoreMiss(z) /\ batch.aborted
  <2> DEFINE b == [batch EXCEPT !.active[z] = "none"]
  <2>1. Settles(b, FALSE, dirty)
    BY <1>4 DEF StoreMiss
  <2>2. Keeps(batch, b)
    BY <1>1, SettledKeeps
  <2> HIDE DEF b
  <2> QED
    BY <1>1, <1>2, <2>1, <2>2, WorkerDraws
<1>5. CASE StoreMiss(z) /\ ~batch.aborted
  <2> DEFINE b == [batch EXCEPT !.active[z] = "requesting"]
  <2>1. batch' = b /\ UNCHANGED <<replan, backoff, drawn>>
    BY <1>5 DEF StoreMiss
  <2>2. Keeps(batch, b)
    BY <1>1, SettledKeeps
  <2> HIDE DEF b
  <2> QED
    BY <1>1, <1>2, <2>1, <2>2
    DEF Keeps, DrawInv, BatchShape, RenderComing, AbortedReplans, NoBatchInBackoff, chain, drawn
<1> QED
  BY <1>3, <1>4, <1>5

LEMMA ZoneDraws ==
  ASSUME DrawInv, NEW z \in Zones, ZoneArrives(z) \/ ZoneFails(z) \/ ZoneBlocked(z)
  PROVE  DrawInv'
<1>1. batch.running /\ DOMAIN batch = BatchFields
  <2>1. batch.active[z] = "requesting"
    BY DEF ZoneArrives, ZoneFails, ZoneBlocked
  <2> QED
    BY <2>1, ActiveRuns
<1>2. UNCHANGED chain /\ UNCHANGED <<busy, popup>>
  BY DEF ZoneArrives, ZoneFails, ZoneBlocked
<1>3. CASE ZoneArrives(z)
  <2> DEFINE b == [batch EXCEPT !.active[z] = "none", !.shapes = TRUE]
  <2>1. Settles(GoesRound(b), FALSE, TRUE)
    BY <1>3 DEF ZoneArrives
  <2>2. Keeps(batch, b)
    BY <1>1, SettledKeeps
  <2> HIDE DEF b
  <2>3. Keeps(batch, GoesRound(b))
    BY <2>2, GoesRoundKeeps DEF Keeps
  <2> QED
    BY <1>1, <1>2, <2>1, <2>3, WorkerDraws
<1>4. CASE ZoneFails(z)
  <2> DEFINE b == [batch EXCEPT !.active[z] = "none"]
  <2>1. Settles(GoesRound(b), FALSE, dirty)
    BY <1>4 DEF ZoneFails
  <2>2. Keeps(batch, b)
    BY <1>1, SettledKeeps
  <2> HIDE DEF b
  <2>3. Keeps(batch, GoesRound(b))
    BY <2>2, GoesRoundKeeps DEF Keeps
  <2> QED
    BY <1>1, <1>2, <2>1, <2>3, WorkerDraws
<1>5. CASE ZoneBlocked(z)
  <2> DEFINE b == [batch EXCEPT !.active[z] = "none", !.blocked = TRUE, !.refused = TRUE]
  <2>1. Settles(b, FALSE, dirty)
    BY <1>5 DEF ZoneBlocked
  <2>2. Keeps(batch, b)
    BY <1>1, SettledKeeps
  <2> HIDE DEF b
  <2> QED
    BY <1>1, <1>2, <2>1, <2>2, WorkerDraws
<1> QED
  BY <1>3, <1>4, <1>5

LEMMA ListDraws ==
  ASSUME DrawInv, ListArrives \/ ListFails
  PROVE  DrawInv'
<1>1. UNCHANGED <<cleared, busy, popup>>
  BY DEF ListArrives, ListFails
<1>2. CASE ListArrives
  <2>1. ResolveZones(TRUE, dirty \/ needed' # needed)
    BY <1>2 DEF ListArrives
  <2> DEFINE changed == dirty \/ needed' # needed
  <2> HIDE DEF changed
  <2>2. ResolveZones(TRUE, changed)
    BY <2>1 DEF changed
  <2> QED
    BY <1>1, <2>2, ResolveDraws
<1>3. CASE ListFails
  <2>1. ResolveZones(FALSE, dirty)
    BY <1>3 DEF ListFails
  <2> QED
    BY <1>1, <2>1, ResolveDraws
<1> QED
  BY <1>2, <1>3

LEMMA RetryDraws ==
  ASSUME DrawInv, ZoneRetryFires
  PROVE  DrawInv'
<1>1. ~backoff /\ ~backoff' /\ UNCHANGED chain /\ UNCHANGED <<busy, popup>>
  BY DEF ZoneRetryFires
<1>2. CASE batch.running
  <2>1. batch' = batch /\ replan' = TRUE /\ UNCHANGED drawn
    BY <1>2 DEF ZoneRetryFires
  <2> QED
    BY <1>1, <1>2, <2>1
    DEF DrawInv, BatchShape, RenderComing, AbortedReplans, NoBatchInBackoff, chain, drawn
<1>3. CASE ~batch.running /\ ZoneQueue = <<>>
  <2>1. batch' = NoBatch /\ Render(TRUE, dirty)
    BY <1>3 DEF ZoneRetryFires
  <2> QED
    BY <2>1, NoBatchIs, RenderAsked
    DEF DrawInv, BatchShape, RenderComing, AbortedReplans, NoBatchInBackoff
<1>4. CASE ~batch.running /\ ZoneQueue # <<>>
  <2>1. batch' = Fresh(ZoneQueue)
    BY <1>4 DEF ZoneRetryFires
  <2> QED
    BY <1>1, <2>1, FreshIs
    DEF DrawInv, BatchShape, RenderComing, AbortedReplans, NoBatchInBackoff
<1> QED
  BY <1>2, <1>3, <1>4

LEMMA QuietDraws ==
  ASSUME DrawInv, MapQuiet
  PROVE  DrawInv'
<1>1. UNCHANGED chain
  BY DEF MapQuiet
<1>2. CASE batch.running
  <2>1. Settles(Woken(batch), TRUE, dirty)
    BY <1>2 DEF MapQuiet
  <2>2. Keeps(batch, Woken(batch))
    BY WokenKeeps DEF DrawInv, BatchShape
  <2> QED
    BY <1>1, <1>2, <2>1, <2>2, WorkerDraws
<1>3. CASE ~batch.running
  <2>1. UNCHANGED plan /\ Render(TRUE, dirty)
    BY <1>3 DEF MapQuiet
  <2> QED
    BY <1>3, <2>1, RenderAsked
    DEF DrawInv, BatchShape, RenderComing, AbortedReplans, NoBatchInBackoff, plan
<1> QED
  BY <1>2, <1>3

LEMMA ClearDraws ==
  ASSUME DrawInv, Clear
  PROVE  DrawInv'
<1>1. cleared' /\ ~dirty' /\ ~backoff'
  BY DEF Clear
<1>2. CASE batch' = NoBatch
  BY <1>1, <1>2, NoBatchIs
  DEF DrawInv, BatchShape, RenderComing, AbortedReplans, NoBatchInBackoff
<1>3. CASE batch.running /\ batch' = Woken(Aborted(batch))
  <2>1. DOMAIN Aborted(batch) = BatchFields /\ Aborted(batch).running
    BY <1>3, AbortedIs DEF DrawInv, BatchShape
  <2>2. DOMAIN batch' = BatchFields /\ batch'.running
    BY <1>3, <2>1, WokenKeeps DEF Keeps
  <2> QED
    BY <1>1, <2>2
    DEF DrawInv, BatchShape, RenderComing, AbortedReplans, NoBatchInBackoff
<1> QED
  BY <1>2, <1>3 DEF Clear

LEMMA UserDraws ==
  ASSUME DrawInv, \/ MapBusy \/ HassTick \/ PopupOpens
                  \/ \E another \in BOOLEAN : PopupCloses(another)
  PROVE  DrawInv'
<1> USE DEF DrawInv, BatchShape, RenderComing, AbortedReplans, NoBatchInBackoff, chain, plan, drawn
<1>1. CASE MapBusy
  BY <1>1 DEF MapBusy
<1>2. CASE HassTick
  BY <1>2, RenderAsked DEF HassTick
<1>3. CASE PopupOpens
  BY <1>3 DEF PopupOpens
<1>4. ASSUME NEW another \in BOOLEAN, PopupCloses(another) PROVE DrawInv'
  BY <1>4 DEF PopupCloses
<1> QED
  BY <1>1, <1>2, <1>3, <1>4

LEMMA TimeDraws ==
  ASSUME DrawInv, Elapse \/ Pause \/ BackoffElapses \/ UNCHANGED vars
  PROVE  DrawInv'
<1> USE DEF DrawInv, BatchShape, RenderComing, AbortedReplans, NoBatchInBackoff, chain, plan, drawn
<1>1. CASE Elapse
  BY <1>1 DEF Elapse
<1>2. CASE Pause
  BY <1>2 DEF Pause
<1>3. CASE BackoffElapses
  BY <1>3 DEF BackoffElapses
<1>4. CASE UNCHANGED vars
  BY <1>4 DEF vars
<1> QED
  BY <1>1, <1>2, <1>3, <1>4

LEMMA ResumeDraws ==
  ASSUME DrawInv, Resume
  PROVE  DrawInv'
<1>1. CASE Fetch
  BY <1>1, FetchDraws
<1>2. CASE UNCHANGED <<list, cleared, plan, busy, popup, drawn>>
  BY <1>2
  DEF DrawInv, BatchShape, RenderComing, AbortedReplans, NoBatchInBackoff, plan, drawn
<1> QED
  BY <1>1, <1>2 DEF Resume

LEMMA DrawStep == DrawInv /\ [Next]_vars => DrawInv'
<1> SUFFICES ASSUME DrawInv, [Next]_vars PROVE DrawInv'
  OBVIOUS
<1>1. CASE TimerFires
  BY <1>1, FetchDraws DEF TimerFires
<1>2. CASE ListArrives \/ ListFails
  BY <1>2, ListDraws
<1>3. CASE Elapse \/ Pause \/ BackoffElapses \/ UNCHANGED vars
  BY <1>3, TimeDraws
<1>4. CASE Resume
  BY <1>4, ResumeDraws
<1>5. ASSUME NEW z \in Zones, StoreHit(z) \/ StoreMiss(z) PROVE DrawInv'
  BY <1>5, StoreDraws
<1>6. ASSUME NEW z \in Zones, ZoneArrives(z) \/ ZoneFails(z) \/ ZoneBlocked(z) PROVE DrawInv'
  BY <1>6, ZoneDraws
<1>7. CASE ZoneRetryFires
  BY <1>7, RetryDraws
<1>8. CASE MapQuiet
  BY <1>8, QuietDraws
<1>9. CASE Clear
  BY <1>9, ClearDraws
<1>10. CASE \/ MapBusy \/ HassTick \/ PopupOpens
            \/ \E another \in BOOLEAN : PopupCloses(another)
  BY <1>10, UserDraws
<1> QED
  BY <1>1, <1>2, <1>3, <1>4, <1>5, <1>6, <1>7, <1>8, <1>9, <1>10, Zenon DEF Next

LEMMA DrawInit == Init => DrawInv
BY NoBatchIs
DEF Init, DrawInv, BatchShape, RenderComing, AbortedReplans, NoBatchInBackoff

\* What arrived and is not drawn will be: at the rest of the map, the close of
\* the popup, the end of a batch or of the list, for any zones and any pool.
THEOREM RenderOwedAlways == Spec => []RenderOwed
<1>1. DrawInv => RenderOwed
  BY DEF DrawInv, RenderComing, RenderOwed
<1> QED
  BY <1>1, DrawInit, DrawStep, PTL DEF Spec


-----------------------------------------------------------------------------
(* The shapes (AlertShapes).  What is drawn was built of an earlier look at   *)
(* the alerts, and nothing has changed since that the decisions could miss.  *)

Sight(s) == s.list \subseteq DOMAIN Alerts /\ s.zones \subseteq DOMAIN ZoneAt /\ s.time \in Int

\* s0 and s ask for the same shapes; outlines only ever arrive.
SameLook(s0, s) ==
  /\ Sight(s0) /\ Sight(s) /\ s0.zones \subseteq s.zones /\ None \notin s.view
  /\ Decisions(s0) = Decisions(s)

\* The inductive invariant.
BuiltOf(s0) == shapes.drawn = Built(s0) /\ shapes.decisions = Decisions(s0)
ShapesInv ==
  /\ features \subseteq DOMAIN Alerts /\ zones \subseteq DOMAIN ZoneAt
  /\ clock \in Int /\ eye.view \in Views /\ saw.zones \subseteq zones
  /\ \E s0 : BuiltOf(s0) /\ SameLook(s0, saw)

LEMMA SameDecisions ==
  ASSUME NEW s0, NEW s, SameLook(s0, s)
  PROVE  /\ Live(s0) = Live(s)
         /\ \A a \in Live(s) : /\ Cached(s0, a) = Cached(s, a) /\ s0.zoom = s.zoom
                               /\ Visible(s0, a) <=> Visible(s, a)
                               /\ Pending(s0, a) <=> Pending(s, a)
<1>1. Live(s0) = Live(s)
  BY DEF SameLook, Decisions
<1>2. ASSUME NEW a \in Live(s)
      PROVE  /\ Cached(s0, a) = Cached(s, a) /\ s0.zoom = s.zoom
             /\ Visible(s0, a) <=> Visible(s, a)
             /\ Pending(s0, a) <=> Pending(s, a)
  <2>1. Decision(s0, a) = Decision(s, a)
    <3>1. Decisions(s0)[a] = Decision(s0, a) /\ Decisions(s)[a] = Decision(s, a)
      BY <1>1 DEF Decisions
    <3> QED
      BY <3>1 DEF SameLook
  <2>2. /\ Cardinality(Cached(s0, a)) = Cardinality(Cached(s, a))
        /\ s0.zoom = s.zoom
        /\ Visible(s0, a) = Visible(s, a)
        /\ Pending(s0, a) = Pending(s, a)
    BY <2>1, Zenon DEF Decision
  <2>3. IsFiniteSet(Cached(s, a)) /\ Cached(s0, a) \in SUBSET Cached(s, a)
    <3>1. Cached(s, a) \in SUBSET DOMAIN ZoneAt
      BY DEF SameLook, Sight, Cached
    <3>2. IsFiniteSet(Cached(s, a))
      BY <3>1, FS_Subset, ShapesAssumption
    <3> QED
      BY <3>2 DEF SameLook, Cached
  <2>4. Cached(s0, a) = Cached(s, a)
    BY <2>2, <2>3, FS_Subset
  <2> QED
    BY <2>2, <2>4
<1> QED
  BY <1>1, <1>2

\* On a zone of which something applies, that the decisions saw, what was kept
\* is what is due.
LEMMA KeptIsDue ==
  ASSUME NEW s0, NEW s, SameLook(s0, s),
         NEW e, NEW z \in s0.zones, ZoneAt[z] \in s.view
  PROVE  Kept(s0, e, z) = Due(s, e, z)
<1> DEFINE cover == {a \in Drawn(s0) : Alerts[a].event = e /\ Alerts[a].polygon = None /\ z \in Alerts[a].zones}
           owing == {a \in s.list : Alerts[a].event = e /\ Alerts[a].polygon = None
                                    /\ z \in Alerts[a].zones /\ s.time < Alerts[a].over}
<1>1. cover = owing
  <2>1. ASSUME NEW a \in cover PROVE a \in owing
    BY SameDecisions DEF Drawn, Live
  <2>2. ASSUME NEW a \in owing PROVE a \in cover
    <3>1. a \in Live(s) /\ z \in Cached(s0, a)
      BY DEF Live, Cached
    <3>2. Visible(s, a)
      BY <3>1, SameDecisions DEF Visible
    <3>3. a \in Live(s0) /\ Visible(s0, a)
      BY <3>1, <3>2, SameDecisions
    <3> QED
      BY <3>1, <3>3 DEF Drawn, HasShape
  <2> QED
    BY <2>1, <2>2
<1>2. \A a \in cover : a \in DOMAIN Alerts /\ a \in Live(s0)
  BY DEF SameLook, Sight, Drawn, Live
<1>3. \A a \in cover : Pending(s0, a) <=> ~(Alerts[a].inForce <= s.time)
  <2> SUFFICES ASSUME NEW a \in cover PROVE Pending(s0, a) <=> ~(Alerts[a].inForce <= s.time)
    OBVIOUS
  <2>1. a \in Live(s) /\ Alerts[a].inForce \in Int /\ s.time \in Int
    <3> HIDE DEF cover
    <3> QED
      BY <1>2, SameDecisions, ShapesAssumption DEF SameLook, Sight
  <2>2. Pending(s, a) <=> ~(Alerts[a].inForce <= s.time)
    BY <2>1 DEF Pending
  <2> QED
    BY <2>1, <2>2, SameDecisions
<1>4. Kept(s0, e, z) = {a \in cover : \A b \in {c \in cover : ~Pending(s0, c)} : Alerts[a].sent >= Alerts[b].sent}
  BY DEF Kept
<1>5. Due(s, e, z) = {a \in owing : ~\E b \in owing : Alerts[b].inForce <= s.time /\ Alerts[b].sent > Alerts[a].sent}
  BY DEF Due
<1>6. \A a, b \in cover : Alerts[a].sent >= Alerts[b].sent <=> ~(Alerts[b].sent > Alerts[a].sent)
  <2>1. \A a \in cover : Alerts[a].sent \in Int
    <3> HIDE DEF cover
    <3> QED
      BY <1>2, ShapesAssumption
  <2> HIDE DEF cover
  <2> QED
    BY <2>1, SMT
<1> HIDE DEF cover
<1> QED
  BY <1>1, <1>3, <1>4, <1>5, <1>6

\* A feature drawn on a zone is of all that was kept there.
LEMMA FeatureOnZone ==
  ASSUME NEW s0, Sight(s0), BuiltOf(s0), NEW e, NEW z \in DOMAIN ZoneAt
  PROVE  /\ \A f \in On(e, z) : /\ z \in s0.zones /\ Kept(s0, e, z) # {}
                                /\ f = [event |-> e, alerts |-> Kept(s0, e, z), zoom |-> s0.zoom,
                                        on |-> {y \in s0.zones : Kept(s0, e, y) = Kept(s0, e, z)}]
         /\ e \in Events /\ z \in s0.zones /\ Kept(s0, e, z) # {} => On(e, z) # {}
<1> DEFINE covered(d) == {y \in s0.zones : Kept(s0, d, y) # {}}
           ofGroup(d, g) == [event |-> d, alerts |-> g, zoom |-> s0.zoom, on |-> {y \in covered(d) : Kept(s0, d, y) = g}]
           ofPolygon(a) == [event |-> Alerts[a].event, alerts |-> {a}, zoom |-> s0.zoom, on |-> {Alerts[a].polygon}]
           groups(d) == {Kept(s0, d, y) : y \in covered(d)}
           grouped(d) == {ofGroup(d, g) : g \in groups(d)}
           polygons == {ofPolygon(a) : a \in {b \in Drawn(s0) : Alerts[b].polygon # None}}
<1>1. \A f : f \in shapes.drawn <=>
         \/ \E d \in Events : \E y \in covered(d) : f = ofGroup(d, Kept(s0, d, y))
         \/ \E a \in Drawn(s0) : Alerts[a].polygon # None /\ f = ofPolygon(a)
  <2>1. shapes.drawn = (UNION {grouped(d) : d \in Events}) \cup polygons
    BY DEF BuiltOf, Built
  <2>2. \A d, f : f \in grouped(d) <=> \E y \in covered(d) : f = ofGroup(d, Kept(s0, d, y))
    <3> HIDE DEF ofGroup, covered
    <3> QED
      OBVIOUS
  <2>3. \A f : f \in polygons <=> \E a \in Drawn(s0) : Alerts[a].polygon # None /\ f = ofPolygon(a)
    <3> HIDE DEF ofPolygon
    <3> QED
      OBVIOUS
  <2> HIDE DEF grouped, polygons, ofPolygon, ofGroup, covered
  <2> QED
    BY <2>1, <2>2, <2>3
<1>2. ASSUME NEW f \in On(e, z)
      PROVE  z \in covered(e) /\ f = ofGroup(e, Kept(s0, e, z))
  <2>1. f \in shapes.drawn /\ f.event = e /\ z \in f.on
    BY DEF On
  <2>2. CASE \E d \in Events : \E y \in covered(d) : f = ofGroup(d, Kept(s0, d, y))
    <3>1. PICK d \in Events : \E y \in covered(d) : f = ofGroup(d, Kept(s0, d, y))
      BY <2>2
    <3>2. PICK y \in covered(d) : f = ofGroup(d, Kept(s0, d, y))
      BY <3>1
    <3>3. d = e /\ z \in covered(d) /\ Kept(s0, d, z) = Kept(s0, d, y)
      BY <2>1, <3>2
    <3> QED
      BY <3>2, <3>3
  <2>3. CASE \E a \in Drawn(s0) : Alerts[a].polygon # None /\ f = ofPolygon(a)
    <3>1. PICK a \in Drawn(s0) : f = ofPolygon(a)
      BY <2>3
    <3>2. a \in DOMAIN Alerts
      BY DEF Drawn, Live, Sight
    <3> QED
      BY <2>1, <3>1, <3>2, ShapesAssumption
  <2> QED
    BY <1>1, <2>1, <2>2, <2>3
<1>3. ASSUME e \in Events, z \in covered(e)
      PROVE  On(e, z) # {}
  <2>1. ofGroup(e, Kept(s0, e, z)) \in shapes.drawn
    BY <1>1, <1>3
  <2> QED
    BY <1>3, <2>1 DEF On
<1>4. ASSUME z \in covered(e)
      PROVE  {y \in covered(e) : Kept(s0, e, y) = Kept(s0, e, z)} = {y \in s0.zones : Kept(s0, e, y) = Kept(s0, e, z)}
  BY <1>4
<1> QED
  BY <1>2, <1>3, <1>4

\* What was built of s0 is what is due at s.
LEMMA BuiltIsDue ==
  ASSUME NEW s0, BuiltOf(s0), SameLook(s0, saw)
  PROVE  ShapesDue
<1>0. Sight(s0) /\ saw.zones \subseteq DOMAIN ZoneAt /\ None \notin saw.view
  BY DEF SameLook, Sight
<1>1. ASSUME NEW e \in Events, NEW z \in saw.zones, ZoneAt[z] \in saw.view
      PROVE  IF Due(saw, e, z) = {} THEN On(e, z) = {}
             ELSE \E f \in On(e, z) : On(e, z) = {f} /\ f.alerts = Due(saw, e, z) /\ f.zoom = saw.zoom
  <2>1. z \in DOMAIN ZoneAt
    BY <1>0
  <2>2. CASE Due(saw, e, z) = {}
    <3>1. \A f \in On(e, z) : z \in s0.zones /\ Kept(s0, e, z) # {}
      BY <1>0, <2>1, FeatureOnZone
    <3>2. z \in s0.zones => Kept(s0, e, z) = {}
      BY <1>1, <2>2, KeptIsDue
    <3> QED
      BY <2>2, <3>1, <3>2
  <2>3. CASE Due(saw, e, z) # {}
    <3>1. PICK a : a \in Due(saw, e, z)
      BY <2>3
    <3>2. a \in Live(saw) /\ z \in Cached(saw, a)
      BY <3>1, ShapesAssumption DEF Due, Live, Cached, SameLook, Sight
    <3>3. Cached(s0, a) = Cached(saw, a) /\ s0.zoom = saw.zoom
      BY <3>2, SameDecisions
    <3>4. z \in s0.zones
      BY <3>2, <3>3 DEF Cached
    <3>5. Kept(s0, e, z) = Due(saw, e, z)
      BY <1>1, <3>4, KeptIsDue
    <3>6. PICK f : f \in On(e, z)
      BY <1>0, <1>1, <2>1, <2>3, <3>4, <3>5, FeatureOnZone
    <3> DEFINE there == [event |-> e, alerts |-> Kept(s0, e, z), zoom |-> s0.zoom,
                         on |-> {y \in s0.zones : Kept(s0, e, y) = Kept(s0, e, z)}]
    <3>7. \A g \in On(e, z) : g = there
      BY <1>0, <2>1, FeatureOnZone
    <3>8. there.alerts = Due(saw, e, z) /\ there.zoom = saw.zoom
      BY <3>3, <3>5
    <3> HIDE DEF there
    <3> QED
      BY <2>3, <3>6, <3>7, <3>8
  <2> QED
    BY <2>2, <2>3
<1>2. ASSUME NEW a \in Live(saw), Alerts[a].polygon \in saw.view
      PROVE  \E f \in shapes.drawn : f.alerts = {a} /\ f.zoom = saw.zoom
  <2>1. Alerts[a].polygon # None /\ Visible(saw, a)
    BY <1>0, <1>2 DEF Visible
  <2>2. a \in Drawn(s0) /\ s0.zoom = saw.zoom
    BY <2>1, SameDecisions DEF Drawn, HasShape
  <2> DEFINE there == [event |-> Alerts[a].event, alerts |-> {a}, zoom |-> s0.zoom, on |-> {Alerts[a].polygon}]
  <2>3. there \in shapes.drawn
    BY <2>1, <2>2 DEF BuiltOf, Built
  <2>4. there.alerts = {a} /\ there.zoom = saw.zoom
    BY <2>2
  <2> QED
    BY <2>3, <2>4
<1> QED
  BY <1>1, <1>2 DEF ShapesDue

\* A render, and a step without one, keep the invariant.
LEMMA RenderKeeps ==
  ASSUME ShapesInv,
         features' \subseteq DOMAIN Alerts, zones \subseteq zones', zones' \subseteq DOMAIN ZoneAt,
         clock' \in Int, eye'.view \in Views, _render \/ UNCHANGED <<shapes, saw>>
  PROVE  ShapesInv'
<1>1. PICK s0 : BuiltOf(s0) /\ SameLook(s0, saw)
  BY DEF ShapesInv
<1>2. CASE UNCHANGED <<shapes, saw>>
  <2>1. BuiltOf(s0)' /\ SameLook(s0, saw')
    BY <1>1, <1>2 DEF BuiltOf
  <2>2. saw'.zones \subseteq zones'
    BY <1>2 DEF ShapesInv
  <2> QED
    BY <2>1, <2>2 DEF ShapesInv
<1>3. CASE ~eye'.busy /\ _render
  <2>1. saw' = Seen /\ shapes' = IF Decisions(Seen) = shapes.decisions THEN shapes
                                 ELSE [drawn |-> Built(Seen), decisions |-> Decisions(Seen)]
    BY <1>3 DEF _render
  <2>2. Sight(Seen) /\ None \notin Seen.view /\ Seen.zones = zones'
    BY ShapesAssumption DEF Seen, Sight
  <2>3. \E s1 : BuiltOf(s1)' /\ SameLook(s1, Seen)
    <3>1. CASE Decisions(Seen) = shapes.decisions
      <4>1. s0.zones \subseteq Seen.zones
        BY <1>1, <2>2 DEF SameLook, ShapesInv
      <4>2. SameLook(s0, Seen)
        BY <1>1, <2>2, <3>1, <4>1 DEF SameLook, BuiltOf
      <4>3. BuiltOf(s0)'
        BY <1>1, <2>1, <3>1 DEF BuiltOf
      <4> QED
        BY <4>2, <4>3
    <3>2. CASE Decisions(Seen) # shapes.decisions
      <4>1. BuiltOf(saw)'
        BY <2>1, <3>2 DEF BuiltOf
      <4>2. SameLook(Seen, Seen)
        BY <2>2 DEF SameLook
      <4>3. \E s1 : s1 = saw'
        OBVIOUS
      <4> QED
        BY <2>1, <4>1, <4>2
    <3> QED
      BY <3>1, <3>2
  <2> QED
    BY <2>1, <2>2, <2>3 DEF ShapesInv
<1> QED
  BY <1>2, <1>3 DEF _render

LEMMA ShapesStep ==
  ASSUME ShapesInv, [NextShapes]_shapeVars
  PROVE  ShapesInv'
<1> USE DEF ShapesInv
<1>1. ASSUME NEW alerts \in SUBSET DOMAIN Alerts, ListShown(alerts)
      PROVE  ShapesInv'
  BY <1>1, RenderKeeps DEF ListShown, Filtered
<1>2. ASSUME NEW arrived \in SUBSET DOMAIN ZoneAt, ZonesArrive(arrived)
      PROVE  ShapesInv'
  BY <1>2, RenderKeeps DEF ZonesArrive
<1>3. CASE updateHass
  BY <1>3, RenderKeeps DEF updateHass
<1>4. CASE Busy
  BY <1>4, RenderKeeps DEF Busy
<1>5. CASE Quiet
  BY <1>5, RenderKeeps DEF Quiet
<1>6. CASE Time
  BY <1>6, RenderKeeps DEF Time
<1>7. CASE UNCHANGED shapeVars
  BY <1>7, RenderKeeps DEF shapeVars
<1> QED
  BY <1>1, <1>2, <1>3, <1>4, <1>5, <1>6, <1>7 DEF NextShapes

\* Whatever the alerts, the zones and the views are: leaving the shapes alone
\* never leaves them stale.
THEOREM ShapesDueAlways == SpecShapes => []ShapesDue
<1>1. InitShapes => ShapesInv
  <2> SUFFICES ASSUME InitShapes PROVE ShapesInv
    OBVIOUS
  <2>1. Sight(NoneSeen) /\ SameLook(NoneSeen, NoneSeen)
    BY DEF Sight, SameLook, NoneSeen
  <2>2. Live(NoneSeen) = {} /\ Drawn(NoneSeen) = {}
    BY DEF NoneSeen, Live, Drawn
  <2>3. Built(NoneSeen) = {}
    BY <2>2 DEF Built, NoneSeen
  <2>4. Decisions(NoneSeen) = <<>>
    BY <2>2 DEF Decisions
  <2>5. BuiltOf(NoneSeen)
    BY <2>3, <2>4 DEF InitShapes, BuiltOf
  <2> QED
    BY <2>1, <2>5 DEF ShapesInv, InitShapes, NoneSeen
<1>2. ShapesInv /\ [NextShapes]_shapeVars => ShapesInv'
  BY ShapesStep
<1>3. ShapesInv => ShapesDue
  BY BuiltIsDue DEF ShapesInv
<1> QED
  BY <1>1, <1>2, <1>3, PTL DEF SpecShapes

-----------------------------------------------------------------------------
(* ZoneStore.  A record's time is no later than its shape's, wherever it is:  *)
(* in the database, in a request or waiting to be written back.  For that,   *)
(* one shape at a time is written back, and the drain has it in hand.        *)

Timed(rec) == rec.ts \in Int /\ rec.made \in Int /\ rec.ts <= rec.made

RequestFields == {"call", "op", "url", "rec", "drop", "at", "awaited"}

Sound(r) ==
  /\ DOMAIN r = RequestFields /\ r.at \in Int
  /\ r.call \in {"read", "sweep", "write", "back"}
  /\ r.call = "read" => r.url \in Urls /\ r.op \in {"get", "delete"}
  /\ r.call = "sweep" => r.op \in {"keys", "drop"}
  /\ r.call \in {"write", "back"} => Timed(r.rec)

SoundQueue(q) == \E S : q \in Seq(S) /\ \A r \in S : Sound(r)

\* A request to write back that is awaited.
WritesBack(r) == r.call = "back" /\ r.awaited

OneWriteBack(q, b) ==
  \A i \in DOMAIN q : WritesBack(q[i]) =>
     b.drain = "writing" /\ \A j \in DOMAIN q : WritesBack(q[j]) => j = i

KeptShapes == {h \in [url : Urls, ts : Int, made : Int] : h.ts <= h.made}

SoundDrain(b) ==
  /\ b \in [wb : Seq(KeptShapes), drain : {"none", "idle", "encoding", "writing"}, hand : Seq(KeptShapes)]
  /\ b.drain = "idle" => b.wb # <<>>
  /\ b.drain \in {"encoding", "writing"} => b.hand # <<>>

SoundRecords(d) == \A u \in Urls : d[u] # Nothing => Timed(d[u])

SoundPast(p) ==
  /\ {"age", "owed", "refreshes"} = DOMAIN p /\ p.age \in [Urls -> Int]
  /\ \A u \in Urls : p.age[u] <= TTL

\* The inductive invariant.
FreshInv ==
  /\ now \in Int
  /\ SoundQueue(queue) /\ OneWriteBack(queue, back)
  /\ SoundDrain(back) /\ SoundRecords(db) /\ SoundPast(past)

\* The queue without its first request, and with one more.
LEMMA ShorterQueue ==
  ASSUME NEW q, SoundQueue(q), q # <<>>
  PROVE  SoundQueue(Tail(q)) /\ Sound(Head(q)) /\ Head(q) = q[1]
         /\ \A i \in DOMAIN Tail(q) : i + 1 \in DOMAIN q /\ i + 1 # 1 /\ Tail(q)[i] = q[i + 1]
<1>1. PICK S : q \in Seq(S) /\ \A r \in S : Sound(r)
  BY DEF SoundQueue
<1>2. Tail(q) \in Seq(S) /\ Head(q) \in S /\ Head(q) = q[1]
  BY <1>1
<1>3. \A i \in DOMAIN Tail(q) : i + 1 \in DOMAIN q /\ i + 1 # 1 /\ Tail(q)[i] = q[i + 1]
  BY <1>1
<1> QED
  BY <1>1, <1>2, <1>3 DEF SoundQueue

LEMMA LongerQueue ==
  ASSUME NEW q, SoundQueue(q), NEW r, Sound(r), NEW t, t = Append(q, r)
  PROVE  /\ SoundQueue(t)
         /\ \A i \in DOMAIN t : \/ i \in DOMAIN q /\ t[i] = q[i]
                                \/ i \notin DOMAIN q /\ t[i] = r
         /\ \A i, j \in DOMAIN t : i \notin DOMAIN q /\ j \notin DOMAIN q => i = j
<1>1. PICK S : q \in Seq(S) /\ \A s \in S : Sound(s)
  BY DEF SoundQueue
<1>2. t \in Seq(S \cup {r})
  BY <1>1
<1>3. SoundQueue(t)
  BY <1>1, <1>2 DEF SoundQueue
<1> QED
  BY <1>1, <1>3

LEMMA QuietQueue ==
  ASSUME NEW q, SoundQueue(q), NEW b, OneWriteBack(q, b), NEW r, Sound(r), ~WritesBack(r),
         NEW t, t = Append(q, r)
  PROVE  SoundQueue(t) /\ OneWriteBack(t, b)
<1>1. PICK S : q \in Seq(S) /\ \A s \in S : Sound(s)
  BY DEF SoundQueue
<1>2. t \in Seq(S \cup {r}) /\ \A s \in S \cup {r} : Sound(s)
  BY <1>1
<1>3. \A i \in DOMAIN t : (i \in DOMAIN q /\ t[i] = q[i]) \/ t[i] = r
  BY <1>1
<1>4. SoundQueue(t)
  BY <1>2 DEF SoundQueue
<1> QED
  BY <1>3, <1>4 DEF OneWriteBack

\* The i-th request is awaited no longer.
LEMMA ForsakenQueue ==
  ASSUME NEW q, SoundQueue(q), NEW i \in DOMAIN q, NEW t, t = [q EXCEPT ![i].awaited = FALSE]
  PROVE  /\ SoundQueue(t) /\ Sound(q[i]) /\ ~WritesBack(t[i])
         /\ DOMAIN t = DOMAIN q /\ \A j \in DOMAIN q : j # i => t[j] = q[j]
<1>1. PICK S : q \in Seq(S) /\ \A s \in S : Sound(s)
  BY DEF SoundQueue
<1>2. q[i] \in S
  BY <1>1
<1> DEFINE r == [q[i] EXCEPT !.awaited = FALSE]
<1>3. Sound(r) /\ r.awaited = FALSE
  BY <1>1, <1>2 DEF Sound, RequestFields, Timed
<1>4. t \in Seq(S \cup {r})
  BY <1>1
<1>5. SoundQueue(t)
  BY <1>1, <1>3, <1>4 DEF SoundQueue
<1>6. t[i] = r /\ DOMAIN t = DOMAIN q /\ \A j \in DOMAIN q : j # i => t[j] = q[j]
  BY <1>1
<1> QED
  BY <1>1, <1>2, <1>3, <1>5, <1>6 DEF WritesBack

\* The elements of a finite set in some order, behind a queue.
LEMMA QueuedSet ==
  ASSUME NEW A, IsFiniteSet(A)
  PROVE  SetToSeq(A) \in Seq(A)
<1> DEFINE n == Cardinality(A)
<1>1. n \in Nat /\ ExistsBijection(1..n, A)
  BY FS_CardinalityType
<1>2. PICK f \in Bijection(1..n, A) : TRUE
  BY <1>1 DEF ExistsBijection
<1>3. f \in [1..n -> A] /\ \A a, b \in DOMAIN f : f[a] = f[b] => a = b
  BY <1>2 DEF Bijection, Injection, IsInjective
<1>4. SetToSeq(A) \in [1..n -> A]
  BY <1>3 DEF SetToSeq, IsInjective
<1> QED
  BY <1>1, <1>4

LEMMA JoinedQueue ==
  ASSUME NEW q, SoundQueue(q), NEW A, IsFiniteSet(A), \A r \in A : Sound(r) /\ ~WritesBack(r),
         NEW t, t = q \o SetToSeq(A)
  PROVE  /\ SoundQueue(t)
         /\ \A i \in DOMAIN t : \/ i \in DOMAIN q /\ t[i] = q[i]
                                \/ ~WritesBack(t[i])
<1>1. PICK S : q \in Seq(S) /\ \A s \in S : Sound(s)
  BY DEF SoundQueue
<1> DEFINE u == SetToSeq(A)
<1>2. u \in Seq(A)
  BY QueuedSet
<1> HIDE DEF u
<1>3. t = q \o u
  BY DEF u
<1>4. t \in Seq(S \cup A)
  BY <1>1, <1>2, <1>3
<1>5. SoundQueue(t)
  BY <1>1, <1>4 DEF SoundQueue
<1>6. ASSUME NEW i \in DOMAIN t
      PROVE  (i \in DOMAIN q /\ t[i] = q[i]) \/ ~WritesBack(t[i])
  <2>1. (i \in DOMAIN q /\ t[i] = q[i]) \/ t[i] \in A
    BY <1>1, <1>2, <1>3
  <2> QED
    BY <2>1
<1> QED
  BY <1>5, <1>6

-----------------------------------------------------------------------------
(* ZoneStore: a request is answered.                                         *)

LEMMA FollowsSound ==
  ASSUME NEW r, Sound(r), NEW answer, NEW f, f = Follows(r, answer), f # Nothing
  PROVE  Sound(f) /\ f.call = r.call /\ f.awaited = r.awaited
<1>1. \A op, d : LET g == [r EXCEPT !.op = op, !.drop = d] IN
         g.op = op /\ g.call = r.call /\ g.awaited = r.awaited /\ g.at = r.at /\ g.url = r.url /\ g.rec = r.rec
         /\ DOMAIN g = RequestFields
  BY DEF Sound, RequestFields
<1>2. \A op : LET g == [r EXCEPT !.op = op] IN
         g.op = op /\ g.call = r.call /\ g.awaited = r.awaited /\ g.at = r.at /\ g.url = r.url /\ g.rec = r.rec
         /\ DOMAIN g = RequestFields
  BY DEF Sound, RequestFields
<1>3. CASE r.op = "get" /\ f = [r EXCEPT !.op = "delete"]
  BY <1>2, <1>3 DEF Sound
<1>4. CASE r.op = "put" /\ f = [r EXCEPT !.op = "keys"]
  BY <1>2, <1>4 DEF Sound
<1>5. CASE r.op = "keys" /\ r.call = "sweep" /\ f = [r EXCEPT !.op = "drop", !.drop = Doomed(r.at)]
  BY <1>1, <1>5 DEF Sound
<1>6. CASE r.op = "keys" /\ r.call # "sweep" /\ f = [r EXCEPT !.op = "drop", !.drop = {Oldest}]
  BY <1>1, <1>6 DEF Sound
<1>7. CASE r.op \in {"keys", "drop"} /\ r.call # "sweep" /\ f = [r EXCEPT !.op = "again"]
  BY <1>2, <1>7 DEF Sound
<1> QED
  BY <1>3, <1>4, <1>5, <1>6, <1>7 DEF Follows

LEMMA SettledSound ==
  ASSUME TTL \in Nat, SoundRecords(db), SoundPast(past), SoundDrain(back),
         NEW r, Sound(r), r.call = "back" => back.hand # <<>>,
         NEW answer, Settled(r, answer)
  PROVE  /\ SoundDrain(back') /\ SoundPast(past')
         /\ r.call # "back" => back'.drain = back.drain
<1>1. CASE r.call = "read" /\ Hit(r, answer)
  <2> DEFINE rec == db[r.url]
             shape == [url |-> r.url, ts |-> rec.ts, made |-> rec.made]
  <2>1. r.url \in Urls /\ r.at \in Int /\ Timed(rec) /\ ~(r.at - rec.ts > TTL)
    BY <1>1 DEF Sound, SoundRecords, Hit, isExpired
  <2>2. shape \in KeptShapes
    BY <2>1 DEF Timed, KeptShapes
  <2>3. /\ back' = [back EXCEPT !.wb = IF rec.format = "old" THEN Append(@, shape) ELSE @]
        /\ past' = [past EXCEPT !.age[r.url] = r.at - rec.made,
                               !.owed = IF rec.format = "old" THEN @ \cup {r.url} ELSE @]
    BY <1>1 DEF Settled
  <2>4. SoundDrain(back') /\ back'.drain = back.drain
    <3> DEFINE wb == IF rec.format = "old" THEN Append(back.wb, shape) ELSE back.wb
    <3>1. wb \in Seq(KeptShapes) /\ (back.drain = "idle" => wb # <<>>)
      <4> HIDE DEF shape
      <4> QED
        BY <2>2 DEF SoundDrain
    <3>2. back' = [back EXCEPT !.wb = wb]
      BY <2>3
    <3> HIDE DEF wb
    <3> QED
      BY <3>1, <3>2 DEF SoundDrain
  <2>5. SoundPast(past')
    <3>1. r.at - rec.made \in Int /\ r.at - rec.made <= TTL
      BY <2>1 DEF Timed
    <3> QED
      BY <2>1, <2>3, <3>1 DEF SoundPast
  <2> QED
    BY <2>4, <2>5
<1>2. CASE r.call = "read" /\ ~Hit(r, answer)
  BY <1>2 DEF Settled
<1>3. CASE r.call = "back"
  <2>1. /\ back' = [back EXCEPT !.hand = Tail(back.hand),
                    !.drain = IF Tail(back.hand) # <<>> THEN "encoding" ELSE Awaits(back.wb, loads.running)]
        /\ past' = [past EXCEPT !.owed = @ \ {r.url}]
    BY <1>3 DEF Settled
  <2>2. Awaits(back.wb, loads.running) \in {"none", "idle"}
        /\ (Awaits(back.wb, loads.running) = "idle" => back.wb # <<>>)
    BY DEF Awaits
  <2>3. Tail(back.hand) \in Seq(KeptShapes)
    BY <1>3 DEF SoundDrain
  <2>4. SoundDrain(back')
    BY <2>1, <2>2, <2>3 DEF SoundDrain
  <2>5. SoundPast(past')
    BY <2>1 DEF SoundPast
  <2> QED
    BY <1>3, <2>4, <2>5
<1>4. CASE r.call \in {"sweep", "write"}
  BY <1>4 DEF Settled
<1> QED
  BY <1>1, <1>2, <1>3, <1>4 DEF Sound

\* The i-th request is answered; of the others those in rest are left.
LEMMA SettledFresh ==
  ASSUME TTL \in Nat, FreshInv, UNCHANGED now, SoundRecords(db'),
         NEW i \in DOMAIN queue, queue[i].awaited, Sound(queue[i]), NEW answer,
         NEW rest, SoundQueue(rest), OneWriteBack(rest, back),
         \A j \in DOMAIN rest : WritesBack(rest[j]) => \E k \in DOMAIN queue : k # i /\ queue[k] = rest[j],
         NEW f, f = Nothing \/ f = Follows(queue[i], answer),
         queue' = IF f = Nothing THEN rest ELSE Append(rest, f),
         IF f = Nothing THEN Settled(queue[i], answer) ELSE UNCHANGED <<zone, back, past>>
  PROVE  FreshInv'
<1> DEFINE r == queue[i]
<1>1. WritesBack(r) <=> r.call = "back"
  BY DEF WritesBack
<1>2. r.call = "back" => back.hand # <<>> /\ back.drain = "writing"
  BY <1>1 DEF FreshInv, OneWriteBack, SoundDrain
<1>3. r.call = "back" => \A j \in DOMAIN rest : ~WritesBack(rest[j])
  BY <1>1 DEF FreshInv, OneWriteBack
<1>4. CASE f = Nothing
  <2>1. SoundDrain(back') /\ SoundPast(past') /\ (r.call # "back" => back'.drain = back.drain)
    BY <1>2, <1>4, SettledSound DEF FreshInv
  <2>2. OneWriteBack(rest, back')
    BY <1>3, <2>1 DEF OneWriteBack
  <2> QED
    BY <1>4, <2>1, <2>2 DEF FreshInv
<1>5. CASE f # Nothing
  <2>1. Sound(f) /\ f.call = r.call /\ f.awaited = r.awaited
    BY <1>5, FollowsSound
  <2> DEFINE t == Append(rest, f)
  <2>2. /\ SoundQueue(t)
        /\ \A j \in DOMAIN t : \/ j \in DOMAIN rest /\ t[j] = rest[j]
                               \/ j \notin DOMAIN rest /\ t[j] = f
        /\ \A j, k \in DOMAIN t : j \notin DOMAIN rest /\ k \notin DOMAIN rest => j = k
    BY <2>1, LongerQueue
  <2>3. queue' = t /\ back' = back /\ past' = past
    BY <1>5
  <2> HIDE DEF t
  <2>4. OneWriteBack(t, back)
    <3>1. CASE r.call = "back"
      BY <1>2, <1>3, <2>2, <3>1 DEF OneWriteBack
    <3>2. CASE r.call # "back"
      <4>1. ~WritesBack(f)
        BY <2>1, <3>2 DEF WritesBack
      <4> QED
        BY <2>2, <4>1 DEF OneWriteBack
    <3> QED
      BY <3>1, <3>2
  <2> QED
    BY <2>2, <2>3, <2>4 DEF FreshInv
<1> QED
  BY <1>4, <1>5

\* What IndexedDB carries out stores no record that is newer than its shape.
LEMMA EffectSound ==
  ASSUME SoundRecords(db), NEW r, Sound(r)
  PROVE  SoundRecords(Effect(r))
BY DEF SoundRecords, Effect, Sound

LEMMA DatabaseAnswersFresh ==
  ASSUME TTL \in Nat, FreshInv, DatabaseAnswers
  PROVE  FreshInv'
<1>1. PICK answer \in Answers(Head(queue)) :
         /\ db' = IF answer = "done" THEN Effect(Head(queue)) ELSE db
         /\ IF Head(queue).awaited THEN Answered(1, Head(queue), answer)
            ELSE queue' = Tail(queue) /\ UNCHANGED <<zone, back, past>>
  BY DEF DatabaseAnswers
<1>2. queue # <<>> /\ UNCHANGED <<now, dead, loads>>
  BY DEF DatabaseAnswers
<1>3. /\ SoundQueue(Tail(queue)) /\ Sound(Head(queue)) /\ Head(queue) = queue[1] /\ 1 \in DOMAIN queue
      /\ \A i \in DOMAIN Tail(queue) : i + 1 \in DOMAIN queue /\ i + 1 # 1 /\ Tail(queue)[i] = queue[i + 1]
  <2>1. 1 \in DOMAIN queue
    BY <1>2 DEF FreshInv, SoundQueue
  <2> QED
    BY <1>2, <2>1, ShorterQueue DEF FreshInv
<1>4. SoundRecords(db')
  BY <1>1, <1>3, EffectSound DEF FreshInv
<1>5. OneWriteBack(Tail(queue), back)
  <2>1. \A i, j \in DOMAIN Tail(queue) : i + 1 = j + 1 => i = j
    BY DEF FreshInv, SoundQueue
  <2> QED
    BY <1>3, <2>1 DEF FreshInv, OneWriteBack
<1>6. CASE Head(queue).awaited
  <2>0. Answered(1, Head(queue), answer) /\ answer # "late"
    BY <1>1, <1>6 DEF Answers
  <2> DEFINE f == IF dead' THEN Nothing ELSE Follows(queue[1], answer)
  <2>1. /\ queue' = IF f = Nothing THEN Tail(queue) ELSE Append(Tail(queue), f)
        /\ IF f = Nothing THEN Settled(queue[1], answer) ELSE UNCHANGED <<zone, back, past>>
    BY <1>3, <2>0 DEF Answered
  <2>2. f = Nothing \/ f = Follows(queue[1], answer)
    OBVIOUS
  <2>3. \A j \in DOMAIN Tail(queue) : WritesBack(Tail(queue)[j]) =>
          \E k \in DOMAIN queue : k # 1 /\ queue[k] = Tail(queue)[j]
    BY <1>3
  <2> HIDE DEF f
  <2> QED
    BY <1>2, <1>3, <1>4, <1>5, <1>6, <2>1, <2>2, <2>3, SettledFresh
<1>7. CASE ~Head(queue).awaited
  BY <1>1, <1>2, <1>3, <1>4, <1>5, <1>7 DEF FreshInv
<1> QED
  BY <1>6, <1>7

LEMMA TimesOutFresh ==
  ASSUME TTL \in Nat, FreshInv, NEW i, TimesOut(i)
  PROVE  FreshInv'
<1>1. /\ i \in DOMAIN queue /\ queue[i].awaited /\ dead' = TRUE /\ UNCHANGED <<now, db, loads>>
      /\ Answered(i, queue[i], "late")
  BY DEF TimesOut, Guarded
<1> DEFINE rest == [queue EXCEPT ![i].awaited = FALSE]
<1>2. queue' = rest /\ Settled(queue[i], "late")
  BY <1>1 DEF Answered
<1>3. /\ SoundQueue(rest) /\ Sound(queue[i]) /\ ~WritesBack(rest[i])
      /\ DOMAIN rest = DOMAIN queue /\ \A j \in DOMAIN queue : j # i => rest[j] = queue[j]
  BY <1>1, ForsakenQueue DEF FreshInv
<1> HIDE DEF rest
<1>4. OneWriteBack(rest, back)
  BY <1>3 DEF FreshInv, OneWriteBack
<1>5. \A j \in DOMAIN rest : WritesBack(rest[j]) => \E k \in DOMAIN queue : k # i /\ queue[k] = rest[j]
  BY <1>3
<1>6. SoundRecords(db')
  BY <1>1 DEF FreshInv
<1> QED
  BY <1>1, <1>2, <1>3, <1>4, <1>5, <1>6, SettledFresh

-----------------------------------------------------------------------------
(* ZoneStore: what the layer does.                                           *)

\* The drain that _zonesSettled may start has nothing in hand yet.
LEMMA ZonesSettledKeeps ==
  ASSUME FreshInv, _zonesSettled
  PROVE  SoundDrain(back') /\ OneWriteBack(queue, back')
<1>1. back' = [back EXCEPT !.drain = IF @ = "none" THEN Awaits(back.wb, FALSE) ELSE @]
  BY DEF _zonesSettled
<1>2. Awaits(back.wb, FALSE) \in {"none", "idle"}
      /\ (Awaits(back.wb, FALSE) = "idle" => back.wb # <<>>)
  BY DEF Awaits
<1>3. SoundDrain(back') /\ (back.drain = "writing" => back'.drain = "writing")
  BY <1>1, <1>2 DEF FreshInv, SoundDrain
<1> QED
  BY <1>3 DEF FreshInv, OneWriteBack

LEMMA ResolveKeeps ==
  ASSUME FreshInv, UNCHANGED <<now, db, past>>, NEW b, _resolveZones(b)
  PROVE  FreshInv'
<1> DEFINE missing == {u \in Urls : zone[u] = "missing"}
           reads == {Request("read", "get", u, Nothing, now) : u \in missing}
<1>1. CASE UNCHANGED queue /\ (UNCHANGED back \/ _zonesSettled)
  BY <1>1, ZonesSettledKeeps DEF FreshInv
<1>2. CASE UNCHANGED back /\ queue' = queue \o <<>>
  BY <1>2 DEF FreshInv, SoundQueue
<1>3. CASE UNCHANGED back /\ queue' = queue \o SetToSeq(reads)
  <2>1. IsFiniteSet(reads)
    <3>1. IsFiniteSet(missing)
      BY StoreAssumption, FS_Subset
    <3> DEFINE f == [u \in missing |-> Request("read", "get", u, Nothing, now)]
    <3>2. f \in Surjection(missing, reads)
      BY DEF Surjection
    <3> HIDE DEF f, missing, reads
    <3> QED
      BY <3>1, <3>2, FS_Surjection
  <2>2. ASSUME NEW r \in reads PROVE Sound(r) /\ ~WritesBack(r)
    <3>1. PICK u \in missing : r = Request("read", "get", u, Nothing, now)
      OBVIOUS
    <3>2. u \in Urls /\ now \in Int
      BY <3>1 DEF FreshInv
    <3> QED
      BY <3>1, <3>2 DEF Request, Sound, RequestFields, WritesBack
  <2> HIDE DEF reads
  <2>3. /\ SoundQueue(queue')
        /\ \A i \in DOMAIN queue' : (i \in DOMAIN queue /\ queue'[i] = queue[i]) \/ ~WritesBack(queue'[i])
    BY <1>3, <2>1, <2>2, JoinedQueue DEF FreshInv
  <2>4. OneWriteBack(queue', back)
    BY <2>3 DEF FreshInv, OneWriteBack
  <2> QED
    BY <1>3, <2>3, <2>4 DEF FreshInv
<1> QED
  BY <1>1, <1>2, <1>3 DEF _resolveZones

LEMMA ListAnswersFresh ==
  ASSUME FreshInv, ListAnswers
  PROVE  FreshInv'
BY ResolveKeeps DEF ListAnswers

LEMMA RefreshFresh ==
  ASSUME FreshInv, ListRefresh
  PROVE  FreshInv'
BY DEF ListRefresh, FreshInv, SoundPast

LEMMA ZoneAnswersFresh ==
  ASSUME TTL \in Nat, FreshInv, NEW u \in Urls, ZoneAnswers(u)
  PROVE  FreshInv'
<1>1. UNCHANGED <<now, db, dead, loads, back>>
  BY DEF ZoneAnswers
<1> DEFINE rec == Record(now, now, "now")
           put == Request("write", "put", u, rec, now)
<1>2. CASE UNCHANGED <<queue, past>>
  BY <1>1, <1>2 DEF FreshInv
<1>3. CASE past' = [past EXCEPT !.age[u] = 0] /\ queue' = IF dead THEN queue ELSE Append(queue, put)
  <2>1. SoundPast(past')
    BY <1>3 DEF FreshInv, SoundPast
  <2>2. now \in Int /\ rec = [ts |-> now, made |-> now, format |-> "now"]
    BY DEF FreshInv, Record
  <2>3. Timed(rec)
    BY <2>2 DEF Timed
  <2> HIDE DEF rec
  <2>4. Sound(put) /\ ~WritesBack(put)
    BY <2>2, <2>3 DEF Request, Sound, RequestFields, WritesBack
  <2> HIDE DEF put
  <2>5. SoundQueue(queue') /\ OneWriteBack(queue', back)
    <3>1. CASE dead
      BY <1>1, <1>3, <3>1 DEF FreshInv
    <3>2. CASE ~dead
      <4>1. SoundQueue(queue) /\ OneWriteBack(queue, back) /\ queue' = Append(queue, put)
        BY <1>3, <3>2 DEF FreshInv
      <4> QED
        BY <2>4, <4>1, QuietQueue
    <3> QED
      BY <3>1, <3>2
  <2> QED
    BY <1>1, <2>1, <2>5 DEF FreshInv
<1> QED
  BY <1>2, <1>3 DEF ZoneAnswers

LEMMA BatchEndsFresh ==
  ASSUME FreshInv, ZoneBatchEnds
  PROVE  FreshInv'
<1>1. UNCHANGED <<now, db, dead, past>>
  BY DEF ZoneBatchEnds
<1>2. \/ \E b : _resolveZones(b)
      \/ UNCHANGED queue /\ (UNCHANGED back \/ _zonesSettled)
  BY DEF ZoneBatchEnds
<1>3. CASE UNCHANGED queue /\ (UNCHANGED back \/ _zonesSettled)
  BY <1>1, <1>3, ZonesSettledKeeps DEF FreshInv
<1> QED
  BY <1>1, <1>2, <1>3, ResolveKeeps

LEMMA DrainResumesFresh ==
  ASSUME FreshInv, DrainResumes
  PROVE  FreshInv'
<1>1. back.drain = "idle" /\ UNCHANGED <<now, db, queue, dead, zone, loads, past>>
      /\ back' = Resumed(loads.running)
  BY DEF DrainResumes
<1> DEFINE n == Taken
<1>2. back.wb # <<>> /\ back.wb \in Seq(KeptShapes) /\ Len(back.wb) \in Nat \ {0}
  BY <1>1 DEF FreshInv, SoundDrain
<1>3. n \in 1 .. Len(back.wb)
  <2>1. PICK m : m = IF Len(back.wb) <= WriteBackBatch THEN Len(back.wb) ELSE WriteBackBatch
    OBVIOUS
  <2>2. m \in {Len(back.wb), WriteBackBatch} /\ \A k \in {Len(back.wb), WriteBackBatch} : m <= k
    BY <1>2, <2>1, StoreAssumption
  <2>3. n \in {Len(back.wb), WriteBackBatch} /\ \A k \in {Len(back.wb), WriteBackBatch} : n <= k
    BY <2>2 DEF Taken, Min
  <2> QED
    BY <1>2, <2>3, StoreAssumption
<1>4. back' = [back EXCEPT !.drain = "none"]
      \/ back' = [wb |-> SubSeq(back.wb, n + 1, Len(back.wb)), hand |-> SubSeq(back.wb, 1, n), drain |-> "encoding"]
  BY <1>1 DEF Resumed
<1> HIDE DEF n
<1>5. SubSeq(back.wb, n + 1, Len(back.wb)) \in Seq(KeptShapes) /\ SubSeq(back.wb, 1, n) \in Seq(KeptShapes)
      /\ SubSeq(back.wb, 1, n) # <<>>
  BY <1>2, <1>3
<1>6. SoundDrain(back')
  <2>1. SoundDrain(back)
    BY DEF FreshInv
  <2>2. CASE back' = [back EXCEPT !.drain = "none"]
    BY <2>1, <2>2 DEF SoundDrain
  <2>3. CASE back' = [wb |-> SubSeq(back.wb, n + 1, Len(back.wb)), hand |-> SubSeq(back.wb, 1, n),
                      drain |-> "encoding"]
    BY <1>5, <2>3 DEF SoundDrain
  <2> QED
    BY <1>4, <2>2, <2>3
<1>7. OneWriteBack(queue, back')
  BY <1>1 DEF FreshInv, OneWriteBack
<1> QED
  BY <1>1, <1>6, <1>7 DEF FreshInv

LEMMA DrainStoresFresh ==
  ASSUME TTL \in Nat, FreshInv, DrainStores
  PROVE  FreshInv'
<1> DEFINE h == Head(back.hand)
           put == Request("back", "put", h.url, Record(WrittenBackAt(h), h.made, "now"), now)
<1>1. back.drain = "encoding" /\ UNCHANGED <<now, db, dead, loads>>
      /\ IF dead THEN Settled(put, "late") /\ UNCHANGED queue
         ELSE /\ queue' = Append(queue, put) /\ back' = [back EXCEPT !.drain = "writing"]
              /\ UNCHANGED <<zone, past>>
  BY DEF DrainStores
<1>2. back.hand # <<>> /\ h \in KeptShapes
  BY <1>1 DEF FreshInv, SoundDrain
<1>3. Sound(put)
  BY <1>2 DEF FreshInv, Request, Record, WrittenBackAt, Sound, RequestFields, Timed, KeptShapes
<1>4. \A i \in DOMAIN queue : ~WritesBack(queue[i])
  BY <1>1 DEF FreshInv, OneWriteBack
<1> HIDE DEF put
<1>5. CASE dead
  <2>1. SoundDrain(back') /\ SoundPast(past')
    BY <1>1, <1>2, <1>3, <1>5, SettledSound DEF FreshInv
  <2> QED
    BY <1>1, <1>4, <1>5, <2>1 DEF FreshInv, OneWriteBack
<1>6. CASE ~dead
  <2>1. /\ SoundQueue(queue')
        /\ \A i \in DOMAIN queue' : \/ i \in DOMAIN queue /\ queue'[i] = queue[i]
                                    \/ i \notin DOMAIN queue /\ queue'[i] = put
        /\ \A i, j \in DOMAIN queue' : i \notin DOMAIN queue /\ j \notin DOMAIN queue => i = j
    BY <1>1, <1>3, <1>6, LongerQueue DEF FreshInv
  <2>2. SoundDrain(back') /\ back'.drain = "writing"
    BY <1>1, <1>2, <1>6 DEF FreshInv, SoundDrain
  <2>3. OneWriteBack(queue', back')
    BY <1>4, <2>1, <2>2 DEF OneWriteBack
  <2> QED
    BY <1>1, <1>6, <2>1, <2>2, <2>3 DEF FreshInv
<1> QED
  BY <1>5, <1>6

\* A page that starts has its sweep in the queue and nothing in hand.
LEMMA PageIsFresh ==
  ASSUME now \in Int
  PROVE  /\ SoundQueue(FreshTab.queue) /\ SoundDrain(FreshTab.back)
         /\ OneWriteBack(FreshTab.queue, FreshTab.back)
<1> DEFINE r == Request("sweep", "keys", Nothing, Nothing, now)
<1>1. FreshTab.queue = <<r>> /\ FreshTab.back = [wb |-> <<>>, drain |-> "none", hand |-> <<>>]
  BY DEF FreshTab
<1>2. Sound(r) /\ ~WritesBack(r)
  BY DEF Request, Sound, RequestFields, WritesBack
<1> HIDE DEF r
<1> DEFINE one == <<r>>
           only == {r}
<1>3. one \in Seq(only) /\ \A i \in DOMAIN one : one[i] = r
  OBVIOUS
<1>4. SoundQueue(one)
  <2>1. \A s \in only : Sound(s)
    BY <1>2
  <2> HIDE DEF one, only
  <2> QED
    BY <1>3, <2>1 DEF SoundQueue
<1>5. <<>> \in Seq(KeptShapes)
  OBVIOUS
<1> QED
  BY <1>1, <1>2, <1>3, <1>4, <1>5 DEF SoundDrain, OneWriteBack

LEMMA ReloadFresh ==
  ASSUME TTL \in Nat, FreshInv, PageReloads
  PROVE  FreshInv'
<1>1. queue' = FreshTab.queue /\ back' = FreshTab.back /\ UNCHANGED <<now, db>>
      /\ past' = [past EXCEPT !.age = [u \in Urls |-> 0], !.owed = {}]
  BY DEF PageReloads
<1>2. SoundPast(past')
  BY <1>1 DEF FreshInv, SoundPast
<1> QED
  BY <1>1, <1>2, PageIsFresh DEF FreshInv

LEMMA StoreStepFresh ==
  ASSUME FreshInv, [NextStore]_storeVars
  PROVE  FreshInv'
<1>1. TTL \in Nat
  BY StoreAssumption
<1>2. CASE UNCHANGED storeVars
  BY <1>2 DEF storeVars, FreshInv
<1>3. CASE Tick
  BY <1>3 DEF Tick, FreshInv
<1> QED
  BY <1>1, <1>2, <1>3, DatabaseAnswersFresh, TimesOutFresh, ListAnswersFresh, RefreshFresh, ZoneAnswersFresh,
     BatchEndsFresh, DrainResumesFresh, DrainStoresFresh, ReloadFresh DEF NextStore

\* However often a shape's record is read, rewritten, given up or found again on
\* another page, it is served no longer than TTL_MS after it left NWS.
THEOREM ServedFreshTheorem ==
    SpecStore => []ServedFresh
<1>1. InitStore => FreshInv
  <2> SUFFICES ASSUME InitStore PROVE FreshInv
    OBVIOUS
  <2>1. now \in Int /\ queue = FreshTab.queue /\ back = FreshTab.back /\ db \in Stored
        /\ past = [age |-> [u \in Urls |-> 0], owed |-> {}, refreshes |-> 0]
    BY DEF InitStore
  <2>2. SoundRecords(db)
    BY <2>1, StoreAssumption DEF SoundRecords, Timed
  <2>3. SoundPast(past)
    BY <2>1, StoreAssumption DEF SoundPast
  <2> QED
    BY <2>1, <2>2, <2>3, PageIsFresh DEF FreshInv
<1>2. FreshInv /\ [NextStore]_storeVars => FreshInv'
  BY StoreStepFresh
<1>3. FreshInv => ServedFresh
  BY DEF FreshInv, SoundPast, ServedFresh
<1> QED
  BY <1>1, <1>2, <1>3, PTL DEF SpecStore
=============================================================================
