-------------------------------- MODULE Wind --------------------------------
(***************************************************************************)
(* The wind of the card: the WindGridFetcher that the overlays share        *)
(* (src/src/wind-grid-fetcher.ts) and the two overlays that draw from it,   *)
(* the arrows (wind-overlay.ts) and the streamlines (wind-flow-overlay.ts). *)
(*                                                                          *)
(* A bounding box, snapped as the cache key snaps it, is a member of Views; *)
(* a model slice is a number, and slice is the one nearest to now.  Time    *)
(* passes in half hours: the overlays wake 30 s after each, a request lasts *)
(* a minute at most.  The WCS server is external: it answers or it fails;   *)
(* how fetchWindGrid names the model run it asks for is left out.           *)
(*                                                                          *)
(* A generation counter (_gen) is compared for equality only, so a fetch is *)
(* kept with the overlay that waits for it, and one whose generation has    *)
(* passed with nobody.                                                      *)
(***************************************************************************)
EXTENDS Naturals

CONSTANTS Views,        \* bounding boxes the map can show
          NdfdViews,    \* those NDFD answers: inside US coverage, NDFD configured
          Nothing,
          MaxSlice,     \* bound: slices that pass
          MaxRequests   \* bound: requests under way at once

\* Nothing is no slice, no grid or key, and no entry of the cache.
ASSUME WindAssumption ==
    /\ MaxSlice \in Nat
    /\ Nothing \notin Nat \cup [view : Views, slice : Nat \cup {Nothing}] \cup [req : Nat, grid : {Nothing}]

VARIABLES
    slice,     \* the model slice nearest to now
    map,       \* the map: the box it shows, whether it is being moved
    preload,   \* preload_while_hidden
    hidden,    \* the card is hidden: the overlays are paused
    reduced,   \* prefers-reduced-motion
    wind       \* the overlays, the fetcher's cache, and its requests

windVars == <<slice, map, preload, hidden, reduced, wind>>

Ids == 1..MaxRequests
Keys == [view : Views, slice : 0..MaxSlice \cup {Nothing}]

\* Mutant: the key is taken before the time is resolved.
KeyUntimed(v) == [view |-> v, slice |-> Nothing]

\* resolveSourceForBbox: outside US coverage NDFD gives way to the default source.
Ndfd(v) == v \in NdfdViews

\* The slice to ask for; NDFD's is picked later, from the coverage's own times.
effectiveTimeIso(v) == IF Ndfd(v) THEN Nothing ELSE slice

\* So NDFD's slice is not part of the key.
_cacheKey(v) == [view |-> v, slice |-> effectiveTimeIso(v)]

\* slice: the one the request asks for.
Free == [key |-> Nothing, slice |-> 0, waiters |-> {}]

\* due: a half hour has passed since the refresh timer was armed.  frames: the
\* animation frames the streamlines have asked for.  last is history: how the
\* last fetch of the overlay's generation ended.
NoOverlay == [alive |-> FALSE, paused |-> FALSE, debounce |-> FALSE, tick |-> FALSE,
              due |-> FALSE, grid |-> Nothing, last |-> "none",
              running |-> FALSE, frames |-> 0]
Constructed == [NoOverlay EXCEPT !.alive = TRUE, !.tick = TRUE]

HasRoom == \E r \in Ids : wind.reqs[r] = Free
FreeId(w) == CHOOSE r \in Ids : w.reqs[r] = Free

-----------------------------------------------------------------------------
(* What a settled fetch does to those that wait for it (got is Nothing after a  *)
(* failure): the overlay keeps the grid, or else the one it had, and a       *)
(* restart then starts the loop.                                             *)

Drawn(o, got) ==
    [o EXCEPT !.grid = IF got # Nothing THEN got ELSE @,
              !.last = IF got # Nothing THEN "ok" ELSE "failed"]

Looping(f) == [f EXCEPT !.running = TRUE, !.frames = @ + 1]

\* Mutant: a pause() during the fetch goes unnoticed.
StartsUnread(f) == Looping(f)

\* pause() leaves the generation as it is, so it is looked at after the await.
Starts(f) == IF f.paused THEN f ELSE Looping(f)

Delivered(w, waiters, got) ==
    [w EXCEPT
        !.arrows = IF "arrows" \in waiters THEN Drawn(@, got) ELSE @,
        !.flow = IF "restart" \in waiters THEN Starts(Drawn(@, got))
                 ELSE IF "tick" \in waiters THEN Drawn(@, got) ELSE @]

\* _stopLoop: cancelAnimationFrame cancels the one frame there is a handle on.
_stopLoop(f) == [f EXCEPT !.running = FALSE, !.frames = IF @ > 0 THEN @ - 1 ELSE 0]

-----------------------------------------------------------------------------
(* WindGridFetcher.fetch and fetchWindGrid                                   *)

\* A generation has passed: nobody waits for what these asked for.
LeftBy(reqs, who) == [r \in Ids |-> [reqs[r] EXCEPT !.waiters = @ \ who]]
Forgotten(w, who) == [w EXCEPT !.reqs = LeftBy(@, who)]

\* An entry is shared until CACHE_TTL_MS after its request was made; an
\* expired one is as good as none (a sweep frees it later).
Requested(w, who, v) ==
    LET r == FreeId(w)
    IN  [w EXCEPT !.cache[_cacheKey(v)] = [req |-> r, grid |-> Nothing],
                  !.reqs[r] = [key |-> _cacheKey(v), slice |-> slice, waiters |-> {who}]]

\* An answered entry settles the fetch at once, one under way is shared.
fetch(w, who, v) ==
    LET e == w.cache[_cacheKey(v)]
    IN  IF e = Nothing THEN Requested(w, who, v)
        ELSE IF e.grid # Nothing THEN Delivered(w, {who}, e.grid)
        ELSE [w EXCEPT !.reqs[e.req].waiters = @ \cup {who}]

\* What becomes of the key's entry: a rejected request takes its own out,
\* before its callers hear of it.
EntryAfter(e, r, got) ==
    IF e = Nothing \/ e.req # r THEN e
    ELSE IF got = Nothing THEN Nothing ELSE [e EXCEPT !.req = 0, !.grid = got]

Settled(w, r, got) ==
    [Delivered(w, w.reqs[r].waiters, got) EXCEPT
        !.cache[w.reqs[r].key] = EntryAfter(@, r, got), !.reqs[r] = Free]

\* GetCoverage answers.
GridAnswer(r) ==
    /\ wind.reqs[r] # Free
    /\ wind' = Settled(wind, r, [view |-> wind.reqs[r].key.view, slice |-> wind.reqs[r].slice])
    /\ UNCHANGED <<preload, slice, map, hidden, reduced>>

\* It fails, or WIND_TIMEOUT_MS has passed.
GridFails(r) ==
    /\ wind.reqs[r] # Free
    /\ wind' = Settled(wind, r, Nothing)
    /\ UNCHANGED <<preload, slice, map, hidden, reduced>>

EntryExpires(k) ==
    /\ wind.cache[k] # Nothing
    /\ wind' = [wind EXCEPT !.cache[k] = Nothing]
    /\ UNCHANGED <<preload, slice, map, hidden, reduced>>

-----------------------------------------------------------------------------
(* The overlays: the arrows' _refresh and the streamlines' _restart, each    *)
(* under its next generation.                                                *)

_refresh(w, v) ==
    fetch([Forgotten(w, {"arrows"}) EXCEPT !.arrows.last = "none"], "arrows", v)

\* Paused it does nothing; without motion it fetches nothing.
_restart(w, v, still) ==
    LET quiet == [Forgotten(w, {"restart", "tick"}) EXCEPT
                      !.flow = [_stopLoop(@) EXCEPT !.last = "none"]]
    IN  IF w.flow.paused THEN w ELSE IF still THEN quiet ELSE fetch(quiet, "restart", v)

StartArrows ==
    /\ ~wind.arrows.alive /\ ~hidden /\ HasRoom
    /\ wind' = _refresh([wind EXCEPT !.arrows = Constructed], map.view)
    /\ UNCHANGED <<preload, slice, map, hidden, reduced>>

StartFlow ==
    /\ ~wind.flow.alive /\ ~hidden /\ HasRoom
    /\ wind' = _restart([wind EXCEPT !.flow = Constructed], map.view, reduced)
    /\ UNCHANGED <<preload, slice, map, hidden, reduced>>

DestroyArrows ==
    /\ wind.arrows.alive
    /\ wind' = [Forgotten(wind, {"arrows"}) EXCEPT !.arrows = NoOverlay]
    /\ UNCHANGED <<preload, slice, map, hidden, reduced>>

DestroyFlow ==
    /\ wind.flow.alive
    /\ wind' = [Forgotten(wind, {"restart", "tick"}) EXCEPT
                    !.flow = [NoOverlay EXCEPT !.frames = _stopLoop(wind.flow).frames]]
    /\ UNCHANGED <<preload, slice, map, hidden, reduced>>

MoveStart ==
    /\ ~map.moving
    /\ map' = [map EXCEPT !.moving = TRUE]
    /\ wind' = [wind EXCEPT !.flow = _stopLoop(@)]
    /\ UNCHANGED <<preload, slice, hidden, reduced>>

\* moveend: the arrows wait MOVE_DEBOUNCE_MS, the streamlines restart.
MoveEnd(v) ==
    LET w == [wind EXCEPT !.arrows.debounce = wind.arrows.alive /\ ~wind.arrows.paused]
    IN  /\ map.moving /\ HasRoom
        /\ map' = [view |-> v, moving |-> FALSE]
        /\ wind' = IF w.flow.alive THEN _restart(w, v, reduced) ELSE w
        /\ UNCHANGED <<preload, slice, hidden, reduced>>

Debounced ==
    /\ wind.arrows.debounce /\ HasRoom
    /\ wind' = _refresh([wind EXCEPT !.arrows.debounce = FALSE], map.view)
    /\ UNCHANGED <<preload, slice, map, hidden, reduced>>

\* The map is resized, or the reduced-motion setting changes.
Resize ==
    /\ wind.flow.alive /\ HasRoom
    /\ reduced' \in BOOLEAN
    /\ wind' = _restart(wind, map.view, reduced')
    /\ UNCHANGED <<preload, slice, map, hidden>>

-----------------------------------------------------------------------------
(* The card is hidden and shown, the half hours pass                         *)

\* pause(): with preload_while_hidden the arrows go on as they are and the
\* streamlines keep their timer.
pauseArrows(a) ==
    IF ~a.alive \/ preload THEN a
    ELSE [a EXCEPT !.paused = TRUE, !.debounce = FALSE, !.tick = FALSE, !.due = FALSE]

pauseFlow(f) ==
    IF ~f.alive THEN f
    ELSE [_stopLoop(f) EXCEPT !.paused = TRUE, !.tick = preload, !.due = f.due /\ preload]

Hide ==
    /\ ~hidden
    /\ hidden' = TRUE
    /\ wind' = [wind EXCEPT !.arrows = pauseArrows(@), !.flow = pauseFlow(@)]
    /\ UNCHANGED <<preload, slice, map, reduced>>

Resumed(o) == [o EXCEPT !.paused = FALSE, !.tick = TRUE, !.due = FALSE]

resumeArrows(w) ==
    IF w.arrows.paused THEN _refresh([w EXCEPT !.arrows = Resumed(@)], map.view) ELSE w

resumeFlow(w) ==
    IF w.flow.paused THEN _restart([w EXCEPT !.flow = Resumed(@)], map.view, reduced) ELSE w

Show ==
    /\ hidden /\ HasRoom
    /\ hidden' = FALSE
    /\ wind' = resumeFlow(resumeArrows(wind))
    /\ UNCHANGED <<preload, slice, map, reduced>>

\* A half hour passes, and with it another slice may be the nearest.  By then
\* every request of the half hour before has ended and every timer has fired.
HalfHour ==
    /\ slice < MaxSlice
    /\ ~wind.arrows.due /\ ~wind.flow.due
    /\ \A r \in Ids : wind.reqs[r] # Free => wind.reqs[r].slice = slice
    /\ slice' = slice + 1
    /\ wind' = [wind EXCEPT !.arrows.due = wind.arrows.tick, !.flow.due = wind.flow.tick]
    /\ UNCHANGED <<preload, map, hidden, reduced>>

\* The refresh timers, which arm themselves again.
ArrowsTick ==
    /\ wind.arrows.due /\ HasRoom
    /\ wind' = _refresh([wind EXCEPT !.arrows.due = FALSE], map.view)
    /\ UNCHANGED <<preload, slice, map, hidden, reduced>>

\* Hidden, the streamlines fetch under the generation they have.
FlowTick ==
    LET w == [wind EXCEPT !.flow.due = FALSE]
    IN  /\ wind.flow.due /\ HasRoom
        /\ wind' = IF w.flow.paused THEN fetch(w, "tick", map.view)
                   ELSE _restart(w, map.view, reduced)
        /\ UNCHANGED <<preload, slice, map, hidden, reduced>>

-----------------------------------------------------------------------------
InitWind ==
    /\ slice = 0
    /\ map \in [view : Views, moving : {FALSE}]
    /\ preload \in BOOLEAN /\ hidden = FALSE /\ reduced \in BOOLEAN
    /\ wind = [arrows |-> NoOverlay, flow |-> NoOverlay, cache |-> [k \in Keys |-> Nothing],
               reqs |-> [r \in Ids |-> Free]]

NextWind ==
    \/ \E r \in Ids : GridAnswer(r) \/ GridFails(r)
    \/ \E k \in Keys : EntryExpires(k)
    \/ StartArrows \/ StartFlow \/ DestroyArrows \/ DestroyFlow
    \/ MoveStart \/ (\E v \in Views : MoveEnd(v)) \/ Debounced \/ Resize
    \/ Hide \/ Show \/ HalfHour \/ ArrowsTick \/ FlowTick

SpecWind == InitWind /\ [][NextWind]_windVars

-----------------------------------------------------------------------------
Awaited(who) == \E r \in Ids : wind.reqs[r].waiters \cap who # {}

OfNow(grid) ==
    grid # Nothing /\ grid.view = map.view /\ (map.view \in NdfdViews \/ grid.slice = slice)

ArrowsCurrent ==
    LET a == wind.arrows
    IN  a.alive /\ ~a.paused /\ ~a.debounce /\ ~a.due /\ ~map.moving
        /\ a.last = "ok" /\ ~Awaited({"arrows"}) => OfNow(a.grid)

FlowCurrent ==
    LET f == wind.flow
    IN  f.alive /\ ~f.paused /\ ~f.due /\ ~map.moving /\ ~reduced
        /\ f.last = "ok" /\ ~Awaited({"restart", "tick"}) => OfNow(f.grid) /\ f.running

\* An overlay that can be seen, has nothing under way or owed, and whose last
\* fetch came back, draws the slice nearest to now for the box on screen, through
\* pans, hides, half hours and answers out of order; NDFD's slices aside, which
\* the fetcher's key does not tell apart.
WindCurrent == ArrowsCurrent /\ FlowCurrent

\* One loop of the streamlines at most, none in a hidden card, none of an
\* overlay that was destroyed, and none while motion is reduced.
OneLoop ==
    LET f == wind.flow
    IN  /\ f.frames = IF f.running THEN 1 ELSE 0
        /\ f.running => f.alive /\ ~f.paused /\ ~reduced

=============================================================================
