------------------------------ MODULE TileFetch ------------------------------
(***************************************************************************)
(* The tiles of the radar frames after a view change: each tile's way from *)
(* Leaflet's createTile through the persistent store, the network and its  *)
(* retries (src/src/fetch-tile-layer.ts), and the fetch window that lets   *)
(* only a few frames fetch at a time (src/src/radar-player.ts).            *)
(*                                                                         *)
(* Leaflet is external: it creates tiles in a burst when the view moves,   *)
(* unloads tiles outside the view later, or all of them at once when the   *)
(* view is reset, and fires 'load' when every tile it holds is ready.      *)
(* Microtasks run before the next event: the window plan first, then the   *)
(* rejections of aborted requests, which take one promise hop more.        *)
(*                                                                         *)
(* The rate limiter is abstract: a request starts at once or waits in the  *)
(* "retry" stage until a slot is free (module RateLimiter).                *)
(***************************************************************************)
EXTENDS Integers, Sequences, FiniteSets

CONSTANTS
  Frames,                \* number of attached frame layers
  LoadedSlots,           \* _loadedSlots: frame indices in playback order
  Places,                \* tile positions
  Views,                 \* sets of positions the map may show
  FrameFetchWindow,      \* FRAME_FETCH_WINDOW
  MaxRetries,            \* maxRetries
  MaxServerErrorRetries, \* maxServerErrorRetries
  MaxRateLimitRetries,   \* maxRateLimitRetries
  Errors,                \* the kinds of failed download to consider
  Filter                 \* a pixelFilter re-encodes each tile (DWD)

ErrorKinds == {"missing", "limited", "statusless", "server", "timeout", "other"}

ASSUME ConstantsAssumption ==
  /\ Frames \in Nat \ {0}
  /\ LoadedSlots \in Seq(0..(Frames - 1)) /\ Len(LoadedSlots) > 0
  /\ \A j, k \in 1..Len(LoadedSlots) : LoadedSlots[j] = LoadedSlots[k] => j = k
  /\ IsFiniteSet(Places) /\ Views \subseteq (SUBSET Places) \ {{}}
  /\ FrameFetchWindow \in Nat \ {0}
  /\ MaxRetries \in Nat /\ MaxServerErrorRetries \in Nat /\ MaxRateLimitRetries \in Nat
  /\ Errors \subseteq ErrorKinds
  /\ Filter \in BOOLEAN

VARIABLES
  view,     \* the positions the map shows
  stage,    \* per layer and position: where the tile Leaflet holds there stands
  tries,    \* per layer and position: attempt, rateLimited and timedOut of that tile
  leaving,  \* per layer: unloaded tiles whose continuation has not settled yet
  pending,  \* _tilePending
  hold,     \* _holdTiles
  ready,    \* per layer: positions Leaflet has marked loaded
  loading,  \* Leaflet's _loading
  planned,  \* _fetchWindowQueued
  cursor    \* _currentSlot

leaflet == <<ready, loading>>
fetchVars == <<view, stage, tries, leaving, pending, hold, leaflet, planned, cursor>>

Layers == 0..(Frames - 1)
Slots == Len(LoadedSlots)

\* A "cached" or "delivering" tile has its bytes and is on its way to the image.
Underway == {"held", "lookup", "fetching", "retry", "cached", "delivering"}

\* Stages in which a promise is still to settle, also after an unload.
Promised == {"lookup", "fetching", "cached", "delivering"}

NoTries == [attempt |-> 0, limited |-> 0, timedOut |-> FALSE]

FetchTypes ==
  /\ view \in Views
  /\ stage \in [Layers -> [Places -> {"none", "shown", "failed"} \cup Underway]]
  /\ tries \in [Layers -> [Places -> [attempt : Nat, limited : Nat, timedOut : BOOLEAN]]]
  /\ leaving \in [Layers -> SUBSET (Places \X Promised)]
  /\ pending \in [Layers -> Nat]
  /\ hold \in [Layers -> BOOLEAN] /\ loading \in [Layers -> BOOLEAN]
  /\ ready \in [Layers -> SUBSET Places]
  /\ planned \in BOOLEAN
  /\ cursor \in 0..(Slots - 1)

\* The loop is complete: every tile in view is shown and every layer held.
InitFetch ==
  /\ view \in Views
  /\ stage = [l \in Layers |-> [p \in Places |-> IF p \in view THEN "shown" ELSE "none"]]
  /\ tries = [l \in Layers |-> [p \in Places |-> NoTries]]
  /\ leaving = [l \in Layers |-> {}]
  /\ pending = [l \in Layers |-> 0]
  /\ hold = [l \in Layers |-> TRUE]
  /\ ready = [l \in Layers |-> view]
  /\ loading = [l \in Layers |-> FALSE]
  /\ planned = FALSE
  /\ cursor = 0

-----------------------------------------------------------------------------
(* What the handlers are made of.                                          *)

Present(l) == {p \in Places : stage[l][p] # "none"}
Outstanding(l) == {p \in Places : stage[l][p] \in Underway}
Aborted(l) == {g \in leaving[l] : g[2] = "fetching"}
Aborting == \E l \in Layers : Aborted(l) # {}

\* Without a filter a tile's bytes reach its image in microtasks.
Delivering == ~Filter /\ \E l \in Layers : \E p \in Places : stage[l][p] \in {"cached", "delivering"}

\* No microtask is due, so the next event may be handled.
EventDue == ~planned /\ ~Aborting /\ ~Delivering

\* fetchWindowOrder: a frame's place in playback order from the shown slot;
\* frames not loaded yet come after all of these.
FetchWindowOrder(l) ==
  LET plays(k) == LoadedSlots[((cursor + k) % Slots) + 1]
  IN  IF \E k \in 0..(Slots - 1) : plays(k) = l
      THEN CHOOSE k \in 0..(Slots - 1) : plays(k) = l
      ELSE Slots + l

\* Mutant of PlanFetchWindow: the frames come first to last, not as they play.
PlanFetchWindowByFrame ==
  LET busy == {l \in Layers : pending[l] > 0}
  IN  {l \in busy : Cardinality({m \in busy : m < l}) < FrameFetchWindow}

\* planFetchWindow: the first frames of that order with tiles outstanding.
PlanFetchWindow ==
  LET busy == {l \in Layers : pending[l] > 0}
      before(l) == {m \in busy : FetchWindowOrder(m) < FetchWindowOrder(l)}
  IN  {l \in busy : Cardinality(before(l)) < FrameFetchWindow}

\* start(): a copy in memory is delivered, otherwise the store is asked.
Starts == {"cached", "lookup"}

\* Mutants of CountedOff: a tile waiting for its retry is forgotten; a request
\* is counted off at the abort and again when its rejection arrives.
CountedOffHeldOnly(l, gone) == {p \in gone : stage[l][p] = "held"}

\* cancelTile counts a deferred tile or an armed retry off itself; anything
\* else still pending is counted off when its promise settles.
CountedOff(l, gone) == {p \in gone : stage[l][p] \in {"held", "retry"}}
Continued(l, gone) == {<<p, stage[l][p]>> : p \in {q \in gone : stage[l][q] \in Promised}}

\* Leaflet unloads the positions gone[l] of each layer, which cancels their
\* tiles, and creates the tiles that v lacks; a held layer defers its new ones.
\* 'tileunload', and 'loading' of a layer that was idle, queue a plan.
\* Bound: one leaving tile per layer, position and stage.
UnloadAndCreate(v, gone) ==
  LET fresh(l) == v \ (Present(l) \ gone[l])
      started == {t \in Layers \X v : t[2] \in fresh(t[1]) /\ ~hold[t[1]]}
  IN  /\ \A l \in Layers : Continued(l, gone[l]) \cap leaving[l] = {}
      /\ leaving' = [l \in Layers |-> leaving[l] \cup Continued(l, gone[l])]
      /\ pending' = [l \in Layers |->
           pending[l] - Cardinality(CountedOff(l, gone[l])) + Cardinality(fresh(l))]
      /\ \E start \in [started -> Starts] :
           stage' = [l \in Layers |-> [p \in Places |->
             IF <<l, p>> \in started THEN start[<<l, p>>]
             ELSE IF p \in fresh(l) THEN "held"
             ELSE IF p \in gone[l] THEN "none"
             ELSE stage[l][p]]]
      /\ tries' = [l \in Layers |-> [p \in Places |->
           IF p \in fresh(l) \cup gone[l] THEN NoTries ELSE tries[l][p]]]
      /\ ready' = [l \in Layers |-> ready[l] \ gone[l]]
      /\ loading' = [l \in Layers |-> loading[l] \/ fresh(l) # {}]
      /\ planned' = \E l \in Layers : gone[l] # {} \/ (~loading[l] /\ fresh(l) # {})

\* done(): Leaflet marks whatever tile it holds there now; when all are ready
\* it fires 'load', and the player queues a plan.
Done(l, p) ==
  LET complete == Present(l) \subseteq ready[l] \cup {p}
  IN  /\ ready' = [ready EXCEPT ![l] = @ \cup {p}]
      /\ loading' = [loading EXCEPT ![l] = @ /\ ~complete]
      /\ planned' = (planned \/ complete)

Becomes(l, p, to) == stage' = [stage EXCEPT ![l][p] = to]

\* A tile ends as an image or as fail()'s transparent one.
Finish(l, p, to) ==
  /\ Becomes(l, p, to)
  /\ pending' = [pending EXCEPT ![l] = @ - 1]
  /\ Done(l, p)

-----------------------------------------------------------------------------
(* Microtasks.                                                             *)

\* Mutant of ApplyFetchWindow: a released layer's deferred tiles are not started.
ApplyFetchWindowForgetsDeferred ==
  /\ planned /\ planned' = FALSE
  /\ hold' = [l \in Layers |-> l \notin PlanFetchWindow]
  /\ UNCHANGED <<view, stage, tries, leaving, pending, leaflet, cursor>>

\* _applyFetchWindow: release the window's layers, hold all the others.
ApplyFetchWindow ==
  /\ planned /\ planned' = FALSE
  /\ LET released == PlanFetchWindow
         started == {t \in released \X Places : stage[t[1]][t[2]] = "held"}
     IN  /\ hold' = [l \in Layers |-> l \notin released]
         /\ \E start \in [started -> Starts] :
              stage' = [l \in Layers |-> [p \in Places |->
                IF <<l, p>> \in started THEN start[<<l, p>>] ELSE stage[l][p]]]
  /\ UNCHANGED <<view, tries, leaving, pending, leaflet, cursor>>

\* The AbortErrors arrive: each takes its tile out of the count, nothing else.
AbortsSettle ==
  /\ ~planned /\ Aborting
  /\ leaving' = [l \in Layers |-> leaving[l] \ Aborted(l)]
  /\ pending' = [l \in Layers |-> pending[l] - Cardinality(Aborted(l))]
  /\ UNCHANGED <<view, stage, tries, hold, leaflet, planned, cursor>>

\* Bytes reach the image: a real image, and done().
Deliver(l, p) ==
  /\ ~planned /\ ~Aborting
  /\ stage[l][p] \in {"cached", "delivering"}
  /\ Finish(l, p, "shown")
  /\ UNCHANGED <<view, tries, leaving, hold, cursor>>

-----------------------------------------------------------------------------
(* One tile.                                                               *)

LookupHits(l, p) ==
  /\ stage[l][p] = "lookup" /\ EventDue
  /\ Becomes(l, p, "cached")
  /\ UNCHANGED <<view, tries, leaving, pending, hold, leaflet, planned, cursor>>

\* tryFetch: a request now, or a timer when the rate limiter has no slot.
tryFetch(l, p) == Becomes(l, p, "fetching") \/ Becomes(l, p, "retry")

LookupMisses(l, p) ==
  /\ stage[l][p] = "lookup" /\ EventDue
  /\ tryFetch(l, p)
  /\ UNCHANGED <<view, tries, leaving, pending, hold, leaflet, planned, cursor>>

\* The retry timer fires and the limiter has a slot; without one it is re-armed.
RetryStarts(l, p) ==
  /\ stage[l][p] = "retry" /\ EventDue
  /\ Becomes(l, p, "fetching")
  /\ UNCHANGED <<view, tries, leaving, pending, hold, leaflet, planned, cursor>>

BytesArrive(l, p) ==
  /\ stage[l][p] = "fetching" /\ EventDue
  /\ Becomes(l, p, "delivering")
  /\ UNCHANGED <<view, tries, leaving, pending, hold, leaflet, planned, cursor>>

\* The attempt failed: count it, and wait for another one or give up.
RetryOrFail(l, p, counted, again) ==
  /\ tries' = [tries EXCEPT ![l][p] = IF again THEN counted ELSE NoTries]
  /\ IF again
     THEN Becomes(l, p, "retry") /\ UNCHANGED <<pending, leaflet, planned>>
     ELSE Finish(l, p, "failed")

\* Mutant of AttemptFails: rate-limited attempts are not counted.
AttemptFailsUncapped(l, p) ==
  /\ stage[l][p] = "fetching" /\ EventDue
  /\ \E why \in Errors :
       LET t == tries[l][p]
       IN  IF why \in {"limited", "statusless"}
           THEN RetryOrFail(l, p, t, TRUE)
           ELSE RetryOrFail(l, p, [t EXCEPT !.attempt = @ + 1], t.attempt + 1 < MaxRetries)
  /\ UNCHANGED <<view, leaving, hold, cursor>>

\* tryFetch's catch.  A tile that timed out once no longer reads a statusless
\* error as a rate limit; rate limits and other errors are counted apart.
AttemptFails(l, p) ==
  /\ stage[l][p] = "fetching" /\ EventDue
  /\ \E why \in Errors :
       LET t == [tries[l][p] EXCEPT !.timedOut = @ \/ why = "timeout"]
           limit == why = "limited" \/ (why = "statusless" /\ ~t.timedOut)
           cap == IF why = "server" THEN MaxServerErrorRetries ELSE MaxRetries
       IN  \/ /\ why = "missing"
              /\ RetryOrFail(l, p, t, FALSE)
           \/ /\ limit
              /\ RetryOrFail(l, p, [t EXCEPT !.limited = @ + 1], t.limited + 1 < MaxRateLimitRetries)
           \/ /\ why # "missing" /\ ~limit
              /\ RetryOrFail(l, p, [t EXCEPT !.attempt = @ + 1], t.attempt + 1 < cap)
  /\ UNCHANGED <<view, leaving, hold, cursor>>

\* Mutant of LeftoverSettles: an unloaded tile's lookup reports it done.
LeftoverSettlesDone(l, g) ==
  /\ g \in leaving[l] /\ EventDue
  /\ leaving' = [leaving EXCEPT ![l] = @ \ {g}]
  /\ pending' = [pending EXCEPT ![l] = @ - 1]
  /\ Done(l, g[1])
  /\ UNCHANGED <<view, stage, tries, hold, cursor>>

\* The lookup of an unloaded tile answers, or its bytes come out of the filter:
\* the tile leaves the count.  Bytes that were on their way still call done(),
\* which Leaflet looks up by position.
LeftoverSettles(l, g) ==
  /\ g \in leaving[l] /\ EventDue
  /\ leaving' = [leaving EXCEPT ![l] = @ \ {g}]
  /\ pending' = [pending EXCEPT ![l] = @ - 1]
  /\ IF g[2] # "lookup" /\ stage[l][g[1]] # "none"
     THEN Done(l, g[1])
     ELSE UNCHANGED <<leaflet, planned>>
  /\ UNCHANGED <<view, stage, tries, hold, cursor>>

-----------------------------------------------------------------------------
(* Events of Leaflet and the player.                                       *)

\* The map moves a little: new positions are asked for, old ones linger.
Pan ==
  /\ EventDue
  /\ \E v \in Views \ {view} :
       /\ view' = v
       /\ UnloadAndCreate(v, [l \in Layers |-> {}])
  /\ UNCHANGED <<hold, cursor>>

\* Leaflet drops a layer's tiles outside the view.
Prune(l) ==
  /\ EventDue
  /\ Present(l) \ view # {}
  /\ UnloadAndCreate(view, [m \in Layers |-> IF m = l THEN Present(l) \ view ELSE {}])
  /\ UNCHANGED <<view, hold, cursor>>

\* The view is reset (a preset, a zoom): all tiles go and new ones come.
Jump ==
  /\ EventDue
  /\ \E v \in Views :
       /\ view' = v
       /\ UnloadAndCreate(v, [l \in Layers |-> Present(l)])
  /\ UNCHANGED <<hold, cursor>>

\* The playback tick shows the next slot and queues a plan (_showSlot).
ShowNextSlot ==
  /\ EventDue
  /\ cursor' = (cursor + 1) % Slots
  /\ planned' = TRUE
  /\ UNCHANGED <<view, stage, tries, leaving, pending, hold, leaflet>>

-----------------------------------------------------------------------------
TileStep(l, p) ==
  \/ LookupHits(l, p) \/ LookupMisses(l, p) \/ RetryStarts(l, p)
  \/ BytesArrive(l, p) \/ AttemptFails(l, p) \/ Deliver(l, p)

\* What happens on a map that is reset, but not moved by less.
NextResting ==
  \/ ApplyFetchWindow \/ AbortsSettle
  \/ \E l \in Layers :
       \/ \E p \in Places : TileStep(l, p)
       \/ \E g \in leaving[l] : LeftoverSettles(l, g)
  \/ Jump \/ ShowNextSlot

NextFetch == NextResting \/ Pan \/ (\E l \in Layers : Prune(l))

SpecFetch == InitFetch /\ [][NextFetch]_fetchVars

\* Microtasks run.  Lookups answer (5 s limit), downloads end (30 s limit), retry
\* timers fire and the limiter's slots expire; strong fairness because microtasks
\* come first.  Nothing is assumed of the viewer or of Leaflet's unloads.
TileFairness ==
  /\ WF_fetchVars(ApplyFetchWindow) /\ WF_fetchVars(AbortsSettle)
  /\ \A l \in Layers : \A p \in Places : SF_fetchVars(TileStep(l, p))
  /\ SF_fetchVars(\E l \in Layers : \E g \in leaving[l] : LeftoverSettles(l, g))

\* While the loop plays, its timer fires.
PlayingSpec == InitFetch /\ [][NextResting]_fetchVars /\ TileFairness /\ SF_fetchVars(ShowNextSlot)

-----------------------------------------------------------------------------
(* Properties.                                                             *)

\* The count behind the spinner, the progress bar and the window is exact:
\* every tile that Leaflet was given is counted off once, whether it was shown,
\* failed or left the map in any stage.
PendingExact ==
  \A l \in Layers : pending[l] = Cardinality(Outstanding(l)) + Cardinality(leaving[l])

\* Types, and the window: a view change lets no more frames ask for new tiles
\* than it admits, and the shown frame is among them, so that after a reset it
\* never waits for others.
WindowKept ==
  /\ FetchTypes
  /\ ~planned => /\ Cardinality({l \in Layers : ~hold[l]}) <= FrameFetchWindow
                 /\ \A p \in Places : stage[LoadedSlots[cursor + 1]][p] # "held"

\* 'load' means complete: a layer stops loading only with no tile outstanding.
LoadMeansComplete ==
  [][\A l \in Layers : loading[l] /\ ~loading'[l] => Outstanding(l)' = {}]_fetchVars

\* Once the map rests, every tile that started ends, as an image or a failure.
TilesSettle ==
  \/ []<><<Jump>>_fetchVars
  \/ \A l \in Layers : \A p \in Places :
       stage[l][p] \in Underway \ {"held"} ~> stage[l][p] \notin Underway \ {"held"}

\* The window moves on: once the map rests, no tile is held back for ever.
HeldTilesStart ==
  \/ []<><<Jump>>_fetchVars
  \/ \A l \in Layers : \A p \in Places : stage[l][p] = "held" ~> stage[l][p] # "held"
=============================================================================
