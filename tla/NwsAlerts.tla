------------------------------ MODULE NwsAlerts ------------------------------
(***************************************************************************)
(* The NWS alerts overlay (src/src/nws-alerts-layer.ts).                   *)
(*                                                                         *)
(* Two activities share the layer.  The refresh chain fetches the list of  *)
(* alerts, arms the next fetch when one ends, and is paused while the card *)
(* is hidden.  The zone pool fetches the shapes of the zones the alerts    *)
(* name: a batch of workers takes URLs from one queue, rests while the map *)
(* moves, stops when NWS blocks the address, and is aborted and planned    *)
(* again when the list is fetched anew.  What arrives is drawn at once,    *)
(* or later when the map moves or an alert's popup is open.                *)
(*                                                                         *)
(* NWS, the zone store and the user are the environment.  Only zones of    *)
(* alerts without a shape of their own matter here.  Time passes as        *)
(* actions: Elapse (a refresh comes due) and BackoffElapses.  The model    *)
(* leaves out preload_while_hidden, which turns pause() off.               *)
(***************************************************************************)
EXTENDS Integers, Sequences, FiniteSets

CONSTANTS
  ZoneCount,      \* zones the alerts may name, 1..ZoneCount in queue order
  ZonePoolSize,   \* ZONE_POOL_SIZE
  ZonePoolMin,    \* ZONE_POOL_MIN
  Popups          \* whether the user may open alert popups

ASSUME ConstantsAssumption ==
  /\ ZoneCount \in Nat
  /\ ZonePoolMin \in Nat \ {0} /\ ZonePoolSize \in Nat /\ ZonePoolMin <= ZonePoolSize
  /\ Popups \in BOOLEAN

Zones == 1..ZoneCount

VARIABLES
  list,       \* the alerts-list fetch
  due,        \* _dueAt: null, ahead, or past
  timers,     \* refresh timers that are pending
  handle,     \* _timer: null, or armed
  paused,     \* _pausedAt
  cleared,    \* clear() has run
  needed,     \* zones the listed alerts need
  cache,      \* _zoneCache
  batch,      \* the running _resolveZones call, see NoBatch
  replan,     \* _zoneReplan
  pool,       \* _zonePool
  backoff,    \* _zoneBackoffUntil is ahead
  zoneRetry,  \* _zoneRetryTimer
  busy,       \* _mapBusy
  popup,      \* an alert's popup is open
  deferred,   \* _renderAfterPopup
  dirty       \* the alerts or shapes changed since they were last drawn

chain == <<list, due, timers, handle, paused, cleared>>
plan == <<batch, replan, pool, backoff, zoneRetry>>
drawn == <<deferred, dirty>>
vars == <<chain, needed, cache, plan, busy, popup, drawn>>

-----------------------------------------------------------------------------
(* The zone batch.  A worker is parked (it waits for the map to rest), or  *)
(* it reads its zone's stored record, or it requests the zone.  next       *)
(* counts the URLs taken.  refused says NWS answered this batch with a     *)
(* block, blocked that the batch believes it did.                          *)

NoBatch == [running |-> FALSE, queue |-> <<>>, next |-> 0, parked |-> 0,
            active |-> [z \in Zones |-> "none"], shapes |-> FALSE,
            blocked |-> FALSE, refused |-> FALSE, aborted |-> FALSE]

Least(a, b) == IF a < b THEN a ELSE b
Active(b) == {z \in Zones : b.active[z] # "none"}
Workers(b) == b.parked + Cardinality(Active(b))

\* _zoneQueue
ZoneQueue == SelectSeq([z \in Zones |-> z], LAMBDA z : z \in needed' \ cache')

\* A fresh batch: each worker runs to its first await.
Fresh(queue) ==
  LET n == Least(pool', Len(queue))
      taken == IF busy' THEN {} ELSE {queue[i] : i \in 1..n}
  IN  [NoBatch EXCEPT !.running = TRUE, !.queue = queue,
                      !.next = Cardinality(taken), !.parked = n - Cardinality(taken),
                      !.active = [z \in Zones |-> IF z \in taken THEN "reading" ELSE "none"]]

\* The worker whose zone settled goes round its loop.
GoesRound(b) ==
  IF b.next >= Len(b.queue) \/ b.blocked \/ b.aborted THEN b
  ELSE IF busy' THEN [b EXCEPT !.parked = @ + 1]
  ELSE [b EXCEPT !.next = @ + 1, !.active[b.queue[b.next + 1]] = "reading"]

\* The map rests: parked workers look at the abort signal only, then take
\* queue[next++].  Past the end that is undefined, which throws a TypeError
\* in the store's key function, and the batch reads it as a block.
Woken(b) ==
  IF b.aborted THEN [b EXCEPT !.parked = 0]
  ELSE LET taken == {b.queue[i] : i \in (b.next + 1)..Least(b.next + b.parked, Len(b.queue))}
       IN  [b EXCEPT !.parked = 0, !.next = @ + b.parked,
                     !.active = [z \in Zones |-> IF z \in taken THEN "reading" ELSE @[z]],
                     !.blocked = @ \/ b.parked > Cardinality(taken)]

\* _zoneAbortCtrl.abort(): requests in flight are dropped, store reads are not.
Aborted(b) ==
  [b EXCEPT !.aborted = TRUE,
            !.active = [z \in Zones |-> IF @[z] = "requesting" THEN "none" ELSE @[z]]]

-----------------------------------------------------------------------------
(* Drawing and planning, as the handlers call them.                        *)

\* Mutant of Render: a render an open popup holds back is forgotten.
RenderDropped(asked, changed) ==
  IF ~asked \/ busy' \/ popup' THEN dirty' = changed /\ UNCHANGED deferred
  ELSE dirty' = FALSE /\ UNCHANGED deferred

\* _render, if the handler asks for it; changed: there is something new.
Render(asked, changed) ==
  IF ~asked \/ busy' THEN dirty' = changed /\ UNCHANGED deferred
  ELSE IF popup' THEN dirty' = changed /\ deferred' = TRUE
  ELSE dirty' = FALSE /\ UNCHANGED deferred

\* _resolveZones with no batch running.
PlanZones(asked, changed) ==
  \/ /\ backoff' /\ zoneRetry' = TRUE /\ batch' = NoBatch
     /\ Render(asked, changed)
  \/ /\ ~backoff' /\ ZoneQueue = <<>> /\ batch' = NoBatch
     /\ UNCHANGED zoneRetry
     /\ Render(TRUE, changed)
  \/ /\ ~backoff' /\ ZoneQueue # <<>> /\ batch' = Fresh(ZoneQueue)
     /\ UNCHANGED zoneRetry
     /\ Render(asked, changed)

\* _resolveZones
ResolveZones(asked, changed) ==
  /\ UNCHANGED <<pool, backoff>>
  /\ IF batch.running
     THEN replan' = TRUE /\ UNCHANGED <<batch, zoneRetry>> /\ Render(asked, changed)
     ELSE UNCHANGED replan /\ PlanZones(asked, changed)

\* The tail of _resolveZones, once every worker has left its loop.
BatchEnds(b, asked, changed) ==
  IF replan THEN replan' = FALSE /\ UNCHANGED <<pool, backoff>> /\ PlanZones(asked, changed)
  ELSE
    /\ batch' = NoBatch /\ UNCHANGED replan
    /\ IF b.aborted THEN UNCHANGED <<pool, backoff, zoneRetry>>
       ELSE IF b.blocked
       THEN /\ pool' = IF pool \div 2 < ZonePoolMin THEN ZonePoolMin ELSE pool \div 2
            /\ backoff' = TRUE /\ zoneRetry' = TRUE
       ELSE /\ pool' = IF b.shapes THEN ZonePoolSize ELSE pool
            /\ UNCHANGED <<backoff, zoneRetry>>
    /\ Render(asked \/ ~b.aborted, changed)

\* A step of the batch left it as b.
Settles(b, asked, changed) ==
  IF Workers(b) > 0
  THEN batch' = b /\ UNCHANGED <<replan, pool, backoff, zoneRetry>> /\ Render(asked, changed)
  ELSE BatchEnds(b, asked, changed)

-----------------------------------------------------------------------------
(* The refresh chain.                                                      *)

\* _arm
Arm ==
  /\ due' = "ahead"
  /\ IF paused THEN UNCHANGED <<timers, handle>>
     ELSE timers' = (IF handle = "armed" THEN timers ELSE timers + 1) /\ handle' = "armed"

\* _fetch up to its request; the zone batch is aborted.
Fetch ==
  /\ list' = "running" /\ due' = "none"
  /\ UNCHANGED <<cleared, needed, cache, busy, popup>>
  /\ IF batch.running THEN Settles(Aborted(batch), FALSE, dirty) ELSE UNCHANGED <<plan, drawn>>

TimerFires ==
  /\ timers > 0 /\ due # "ahead"
  /\ timers' = timers - 1 /\ handle' = "null"
  /\ UNCHANGED paused
  /\ Fetch

\* _fetch after an answer: the new alerts need other zones.
ListArrives ==
  /\ list = "running" /\ list' = "none"
  /\ needed' \in SUBSET Zones
  /\ UNCHANGED <<paused, cleared, cache, busy, popup>>
  /\ Arm
  /\ ResolveZones(TRUE, dirty \/ needed' # needed)

\* _fetch after an error, a time limit included.
ListFails ==
  /\ list = "running" /\ list' = "none"
  /\ UNCHANGED <<paused, cleared, needed, cache, busy, popup>>
  /\ Arm
  /\ ResolveZones(FALSE, dirty)

Elapse ==
  /\ due = "ahead" /\ due' = "past"
  /\ UNCHANGED <<list, timers, handle, paused, cleared, needed, cache, plan, busy, popup, drawn>>

\* Mutant of Pause: the timer is left pending.
PauseKeepsTimer ==
  /\ ~paused /\ ~cleared
  /\ paused' = TRUE /\ handle' = "null"
  /\ zoneRetry' = FALSE
  /\ UNCHANGED <<list, due, timers, cleared, needed, cache, batch, replan, pool, backoff, busy, popup, drawn>>

\* pause
Pause ==
  /\ ~paused /\ ~cleared
  /\ paused' = TRUE /\ handle' = "null"
  /\ timers' = (IF handle = "armed" THEN timers - 1 ELSE timers)
  /\ zoneRetry' = FALSE
  /\ UNCHANGED <<list, due, cleared, needed, cache, batch, replan, pool, backoff, busy, popup, drawn>>

\* resume: fetch what came due meanwhile, else wait what is left of it.
Resume ==
  /\ paused /\ ~cleared /\ paused' = FALSE
  /\ \/ due = "none" /\ UNCHANGED <<list, due, timers, handle>>
        /\ UNCHANGED <<cleared, needed, cache, plan, busy, popup, drawn>>
     \/ due = "past" /\ UNCHANGED <<timers, handle>> /\ Fetch
     \/ due = "ahead" /\ timers' = timers + 1 /\ handle' = "armed"
        /\ UNCHANGED <<list, due, cleared, needed, cache, plan, busy, popup, drawn>>

-----------------------------------------------------------------------------
(* The zone pool.                                                          *)

\* _fetchZone finds the zone in the store, also in an aborted batch.
StoreHit(z) ==
  /\ batch.active[z] = "reading"
  /\ cache' = cache \cup {z}
  /\ UNCHANGED <<chain, needed, busy, popup>>
  /\ Settles(GoesRound([batch EXCEPT !.active[z] = "none", !.shapes = TRUE]), FALSE, TRUE)

\* _fetchZone does not: it sends a request unless the batch was aborted.
StoreMiss(z) ==
  /\ batch.active[z] = "reading"
  /\ UNCHANGED <<chain, needed, cache, busy, popup>>
  /\ IF batch.aborted THEN Settles([batch EXCEPT !.active[z] = "none"], FALSE, dirty)
     ELSE batch' = [batch EXCEPT !.active[z] = "requesting"]
          /\ UNCHANGED <<replan, pool, backoff, zoneRetry, drawn>>

\* The zone's shape arrives, or the answer that it has none.
ZoneArrives(z) ==
  /\ batch.active[z] = "requesting"
  /\ cache' = cache \cup {z}
  /\ UNCHANGED <<chain, needed, busy, popup>>
  /\ Settles(GoesRound([batch EXCEPT !.active[z] = "none", !.shapes = TRUE]), FALSE, TRUE)

\* An HTTP error or a time limit.
ZoneFails(z) ==
  /\ batch.active[z] = "requesting"
  /\ UNCHANGED <<chain, needed, cache, busy, popup>>
  /\ Settles(GoesRound([batch EXCEPT !.active[z] = "none"]), FALSE, dirty)

\* NWS blocks the address: a failure without a status.
ZoneBlocked(z) ==
  /\ batch.active[z] = "requesting"
  /\ UNCHANGED <<chain, needed, cache, busy, popup>>
  /\ Settles([batch EXCEPT !.active[z] = "none", !.blocked = TRUE, !.refused = TRUE], FALSE, dirty)

BackoffElapses ==
  /\ backoff /\ backoff' = FALSE
  /\ UNCHANGED <<chain, needed, cache, batch, replan, pool, zoneRetry, busy, popup, drawn>>

\* The timer of _armZoneRetry.
ZoneRetryFires ==
  /\ zoneRetry /\ ~backoff
  /\ zoneRetry' = FALSE
  /\ UNCHANGED <<chain, needed, cache, pool, backoff, busy, popup>>
  /\ IF batch.running
     THEN replan' = TRUE /\ UNCHANGED <<batch, drawn>>
     ELSE /\ UNCHANGED replan
          /\ batch' = IF ZoneQueue = <<>> THEN NoBatch ELSE Fresh(ZoneQueue)
          /\ Render(ZoneQueue = <<>>, dirty)

-----------------------------------------------------------------------------
(* The map and the user.                                                   *)

\* _onMapBusy
MapBusy ==
  /\ ~busy /\ ~cleared /\ busy' = TRUE
  /\ UNCHANGED <<chain, needed, cache, plan, popup, drawn>>

\* Mutant of MapQuiet: the parked workers are not released.
MapQuietHoldsWorkers ==
  /\ busy /\ busy' = FALSE
  /\ UNCHANGED <<chain, needed, cache, plan, popup>>
  /\ Render(TRUE, dirty)

\* _onMapQuiet: render for the new view, then the workers go on.
MapQuiet ==
  /\ busy /\ busy' = FALSE
  /\ UNCHANGED <<chain, needed, cache, popup>>
  /\ IF batch.running THEN Settles(Woken(batch), TRUE, dirty)
     ELSE UNCHANGED plan /\ Render(TRUE, dirty)

\* updateHass
HassTick ==
  /\ ~cleared
  /\ UNCHANGED <<chain, needed, cache, plan, busy, popup>>
  /\ Render(TRUE, dirty)

PopupOpens ==
  /\ Popups /\ ~popup /\ ~cleared /\ popup' = TRUE
  /\ UNCHANGED <<chain, needed, cache, plan, busy, drawn>>

\* _onPopupClose and its microtask; another alert's popup may have opened.
PopupCloses(another) ==
  /\ popup /\ popup' = another
  /\ UNCHANGED <<chain, needed, cache, plan, busy>>
  /\ IF ~deferred THEN UNCHANGED drawn
     ELSE IF busy THEN deferred' = FALSE /\ UNCHANGED dirty
     ELSE deferred' = another /\ dirty' = (dirty /\ another)

\* clear
Clear ==
  /\ ~cleared /\ cleared' = TRUE
  /\ list' = "none" /\ due' = "none" /\ handle' = "null"
  /\ timers' = (IF handle = "armed" THEN timers - 1 ELSE timers)
  /\ needed' = {} /\ cache' = {}
  /\ busy' = FALSE /\ popup' = FALSE /\ deferred' = FALSE /\ dirty' = FALSE
  /\ replan' = FALSE /\ pool' = ZonePoolSize /\ backoff' = FALSE /\ zoneRetry' = FALSE
  /\ batch' = IF batch.running /\ Workers(Woken(Aborted(batch))) > 0
              THEN Woken(Aborted(batch)) ELSE NoBatch
  /\ UNCHANGED paused

-----------------------------------------------------------------------------

\* start()
Init ==
  /\ list = "running" /\ due = "none" /\ timers = 0 /\ handle = "null"
  /\ paused = FALSE /\ cleared = FALSE
  /\ needed = {} /\ cache = {}
  /\ batch = NoBatch /\ replan = FALSE /\ pool = ZonePoolSize
  /\ backoff = FALSE /\ zoneRetry = FALSE
  /\ busy = FALSE /\ popup = FALSE /\ deferred = FALSE /\ dirty = FALSE

Next ==
  \/ TimerFires \/ ListArrives \/ ListFails \/ Elapse \/ Pause \/ Resume
  \/ \E z \in Zones : StoreHit(z) \/ StoreMiss(z)
                      \/ ZoneArrives(z) \/ ZoneFails(z) \/ ZoneBlocked(z)
  \/ BackoffElapses \/ ZoneRetryFires
  \/ MapBusy \/ MapQuiet \/ HassTick
  \/ PopupOpens \/ \E another \in BOOLEAN : PopupCloses(another)
  \/ Clear

\* Requests end (their time limit sees to it), the store answers, timers
\* fire and a moving map comes to rest.  A refresh comes round every 30 s at
\* most, so it does not overtake every read of the store and every rest of
\* the map, and a zone requested again and again arrives some time.
Fairness ==
  /\ WF_vars(TimerFires) /\ WF_vars(Elapse) /\ WF_vars(ListArrives \/ ListFails)
  /\ \A z \in Zones : WF_vars(StoreHit(z) \/ StoreMiss(z))
  /\ \A z \in Zones : WF_vars(ZoneArrives(z) \/ ZoneFails(z) \/ ZoneBlocked(z))
  /\ \A z \in Zones : SF_vars(~batch.aborted /\ (StoreHit(z) \/ StoreMiss(z)))
  /\ SF_vars(batch.running /\ ~batch.aborted /\ MapQuiet)
  /\ \A z \in Zones : SF_vars(ZoneArrives(z))
  /\ WF_vars(BackoffElapses) /\ WF_vars(ZoneRetryFires) /\ WF_vars(MapQuiet)

Spec == Init /\ [][Next]_vars
LiveSpec == Spec /\ Fairness

-----------------------------------------------------------------------------
(* Properties.                                                             *)

TypeOK ==
  /\ list \in {"none", "running"} /\ due \in {"none", "ahead", "past"}
  /\ timers \in Nat /\ handle \in {"null", "armed"}
  /\ {paused, cleared, replan, backoff, zoneRetry, busy, popup, deferred, dirty} \subseteq BOOLEAN
  /\ needed \subseteq Zones /\ cache \subseteq Zones
  /\ pool \in ZonePoolMin..ZonePoolSize
  /\ batch.running \in BOOLEAN /\ batch.next \in Nat /\ batch.parked \in Nat
  /\ batch.active \in [Zones -> {"none", "reading", "requesting"}]

Armed == due # "none" /\ ~paused

\* The chain is a promise of one refresh: in flight, or armed, or kept for
\* resume().  Three flags and a counter in five handlers agree on it.
OneRefresh ==
  /\ list = (IF cleared \/ due # "none" THEN "none" ELSE "running")
  /\ timers = (IF Armed THEN 1 ELSE 0)
  /\ handle = (IF Armed THEN "armed" ELSE "null")

\* What arrived and is not drawn is going to be: at the rest of the map, at
\* the close of the popup, or at the end of the batch or of the list.
RenderOwed ==
  dirty => \/ cleared \/ busy \/ (popup /\ deferred) \/ batch.running
           \/ list = "running"

\* Every zone the alerts need gets its shape, through aborted batches,
\* failures and blocks, while the card is shown now and then.
ZonesHeal ==
  \/ <>cleared
  \/ <>[]paused
  \/ \A z \in Zones : []<>(z \notin needed \/ z \in cache)

\* The layer's refreshes are the chain that RefreshChain promises.
Refresh == INSTANCE RefreshChain WITH
  phase <- IF cleared THEN "off" ELSE IF list = "running" THEN "running" ELSE "waiting",
  hidden <- paused

RefreshSafe == Refresh!Safe

\* The chain is safe, and while the card is shown it goes on: "the card shown 50 s
\* and hidden 50 s in turn" refreshes too.
RefreshChained == RefreshSafe /\ Refresh!Refreshes

=============================================================================
