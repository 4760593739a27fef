------------------------------ MODULE FrameLoop ------------------------------
(***************************************************************************)
(* The frames of one RadarPlayer generation (src/src/radar-player.ts): the *)
(* per-frame arrays, the loaded slots, the playback cursor, the layers on  *)
(* the map and which of them are on screen.  Three writers renumber or     *)
(* extend the same arrays between their awaits: the initial load, the      *)
(* periodic shift and the forecast refresh that swaps layers in place.     *)
(*                                                                         *)
(* Frame indices and slot positions are one higher than in the code, so 0  *)
(* is the code's -1.  A frame's time is its number on the source's grid.   *)
(* PlayerLifecycle models when these tasks run and what cancels them.      *)
(***************************************************************************)
EXTENDS Arrays, Integers, Sequences, FiniteSets, SequencesExt, FiniteSetsExt

CONSTANTS
  Past,        \* frames before the newest observed one
  Forecast,    \* frames after it
  LastTime,    \* bound on the clock
  MaxShifting, \* bound on the shifted-in frames still loading
  LayerIds,    \* names for layers
  Chain,       \* transitions take time: frames cross-fade
  Motion,      \* motion compensation: duplicates are dropped after the load
  Refresh,     \* forecast refresh replaces layers in place
  ThinLoop,    \* the clock may move, and replacements arrive, with less than two frames loaded
  StaleOwed    \* a refresh is still owed from before this generation began

ASSUME FrameAssumption ==
  /\ Past \in Nat /\ Forecast \in Nat /\ LastTime \in Nat /\ MaxShifting \in Nat
  /\ LayerIds \subseteq Nat /\ IsFiniteSet(LayerIds) /\ LayerIds \ {0} # {}
  /\ {Chain, Motion, Refresh, ThinLoop, StaleOwed} \subseteq BOOLEAN

VARIABLES
  p,         \* the fields the synchronous code reads and writes, see TypeOK
  init,      \* the load loop: its order, its position and the layer it awaits
  shifting,  \* shifted-in layers whose 'load' has not fired
  staging,   \* _forecastLoading: replacements still loading, with their times
  updating,  \* an _updateRadar call awaits its listing
  owed,      \* _doRadarUpdate
  clock      \* the time of the newest observed frame

vars == <<p, init, shifting, staging, updating, owed, clock>>

None == 0
Frames == Past + Forecast + 1

Window(t) == [i \in 1..Frames |-> t - Past - 1 + i]

-----------------------------------------------------------------------------
(* Small helpers of the player.                                            *)

Distance(a, b) == IF a >= b THEN a - b ELSE b - a

\* nearestFrameIndex: the first of the closest frames.
NearestIndex(times, t) ==
  LET nearest == Min({Distance(times[i], t) : i \in DOMAIN times})
  IN  Min({i \in DOMAIN times : Distance(times[i], t) = nearest})

\* buildLoadOrder: now, then backwards, then the forecast.
LoadOrder(n, now) == [k \in 1..n |-> IF k <= now THEN now - k + 1 ELSE k]

\* resumeIndexAfterFailure: a failed past frame skips to the forecast leg.
ResumeAfterFailure(order, k) ==
  LET forward == order[1] + 1
  IN  IF k > 1 /\ k < forward /\ forward <= Len(order) THEN forward ELSE None

\* insertSorted and the position it returns: the search ends at the first slot that is not less.
InsertPosition(slots, fi) ==
  Min({k \in 1..(Len(slots) + 1) : k > Len(slots) \/ slots[k] >= fi})
InsertSorted(slots, fi) == InsertAt(slots, InsertPosition(slots, fi), fi)

\* indexOf, one higher than the code's.
PositionOf(seq, x) == IF x \in ToSet(seq) THEN SelectInSeq(seq, LAMBDA y : y = x) ELSE None

LayerAt(v, slot) == v.img[v.loaded[slot]]
LoadedLayers(v) == {LayerAt(v, s) : s \in DOMAIN v.loaded} \ {None}
MayTick(v) == v.run /\ ~v.paused /\ Len(v.loaded) >= 2

\* The names no layer holds, the first of them, and whether n are left.
Free(v) == LayerIds \ ({None} \cup v.attached)
FreshIn(v) == Min(Free(v))
FreshLayers(v, n) == Cardinality(Free(v)) >= n

\* layer.remove(): off the map, so off the screen.
Detach(v, layer) == [v EXCEPT !.attached = @ \ {layer}, !.shown = @ \ {layer}]

-----------------------------------------------------------------------------
(* _showSlot, _startLoop, _afterFrameInserted and _swapStagedFrames call   *)
(* one another in a circle.  It closes once at most: only the frame that   *)
(* joins as the 2nd starts the loop, and the frames that join during that  *)
(* start are later ones.  So these operators take what a frame does that   *)
(* joins, `Join`: AfterFrameInserted, or PushPositions within it.          *)

\* Frames a swap must leave alone while a fade may be running (swappableFrames).
Busy(v, slot, hold) ==
  LET n == Len(v.loaded)
  IN  IF hold /\ n > 0
      THEN {v.loaded[((slot - 1 - back) % n) + 1] : back \in 0..(Min({3, n}) - 1)}
      ELSE {}

\* One replacement takes its frame's place and its opacity.  A frame that had
\* failed joins the loop now.  `missed`: the entry was gone, so the loop threw.
SwapOne(v, fi, Join(_, _)) ==
  LET mine == {s \in v.staged : s.time = v.times[fi]}
      s == CHOOSE x \in mine : TRUE
      old == v.img[fi]
      new == [v EXCEPT !.staged = @ \ mine,
                       !.img[fi] = s.layer,
                       !.attached = @ \ {old},
                       !.shown = IF old \in @ THEN (@ \ {old}) \cup {s.layer} ELSE @]
  IN  IF v.missed THEN v
      ELSE IF mine = {} THEN [v EXCEPT !.missed = TRUE]
      ELSE IF fi \in ToSet(v.loaded) THEN new
      ELSE Join([new EXCEPT !.loaded = InsertSorted(@, fi)], InsertPosition(v.loaded, fi))

\* _swapStagedFrames: replacements whose frame slid out are dropped first, the
\* others are swapped in one after the other.
SwapStaged(v, slot, hold, Join(_, _)) ==
  LET gone == {s \in v.staged : s.time \notin ToSet(v.times)}
      here == {PositionOf(v.times, s.time) : s \in v.staged \ gone}
      fis == Ascending(here \ Busy(v, slot, hold))
      after[k \in 0..Len(fis)] ==
        IF k = 0 THEN [v EXCEPT !.staged = @ \ gone, !.attached = @ \ {s.layer : s \in gone}]
        ELSE SwapOne(after[k - 1], fis[k], Join)
  IN  after[Len(fis)]

\* _showSlot: bring a slot on screen.  Cross-fading, only the frame shown before
\* it fades out; the others are trusted to be hidden already.
Show(v, slot, snap, Join(_, _)) ==
  LET out == IF Chain /\ ~snap
             THEN IF v.prev1 \in DOMAIN v.loaded THEN {LayerAt(v, v.prev1)} ELSE {}
             ELSE LoadedLayers(v)
      on == (v.shown \ out) \cup ({LayerAt(v, slot)} \ {None})
  IN  IF slot \notin DOMAIN v.loaded THEN v
      ELSE SwapStaged([v EXCEPT !.shown = on, !.prev1 = slot,
                                !.now = NearestIndex(v.times, clock)], slot, TRUE, Join)

\* The next tick is armed if the loop may play.
Armed(v) == [v EXCEPT !.tick = MayTick(v)]

\* _startLoop: the cursor jumps, its frame is shown, the next tick is armed.
Start(v, slot, Join(_, _)) ==
  Armed(Show([v EXCEPT !.cur = slot], slot, FALSE, Join))

\* Mutant of PushPositions: the frame shown is not followed.
PushPositionsLosesShown(v, pos) ==
  [v EXCEPT !.ready = TRUE, !.cur = IF pos <= @ THEN @ + 1 ELSE @]

\* _afterFrameInserted from the 3rd frame on: a frame that joins pushes the
\* positions behind it up.
PushPositions(v, pos) ==
  [v EXCEPT !.ready = TRUE,
            !.cur = IF pos <= @ THEN @ + 1 ELSE @,
            !.prev1 = IF @ > 0 /\ pos <= @ THEN @ + 1 ELSE @]

\* Mutant of AfterFrameInserted: later frames do not move the cursor.
AfterFrameInsertedKeepsCursor(v, pos) ==
  IF Len(v.loaded) < 2 THEN v
  ELSE LET r == [v EXCEPT !.ready = TRUE]
       IN  IF Len(v.loaded) >= 3 THEN r ELSE Start(r, PositionOf(r.loaded, r.now), PushPositions)

\* The 2nd frame starts the loop at "now".
AfterFrameInserted(v, pos) ==
  IF Len(v.loaded) < 2 THEN v
  ELSE IF Len(v.loaded) >= 3 THEN PushPositions(v, pos)
  ELSE Start([v EXCEPT !.ready = TRUE], PositionOf(v.loaded, v.now), PushPositions)

InsertFrame(v, fi) ==
  AfterFrameInserted([v EXCEPT !.loaded = InsertSorted(@, fi)], InsertPosition(v.loaded, fi))

SwapStagedFrames(v, slot, hold) == SwapStaged(v, slot, hold, AfterFrameInserted)
ShowSlot(v, slot, snap) == Show(v, slot, snap, AfterFrameInserted)
StartLoop(v, slot) == Start(v, slot, AfterFrameInserted)

\* _settleVisibility, from _stopLoop: only the frame last shown stays.
StopLoop(v) ==
  LET keep == IF v.prev1 \in DOMAIN v.loaded THEN {LayerAt(v, v.prev1)} \ {None} ELSE {}
  IN  SwapStagedFrames([v EXCEPT !.tick = FALSE, !.shown = (@ \ LoadedLayers(v)) \cup keep],
                       v.cur, FALSE)

-----------------------------------------------------------------------------
(* The initial load (_initRadarBody, from its listing on).                 *)

\* A new layer at the load loop's next frame, hidden until it has loaded.
Request(v, fi, layer) ==
  [v EXCEPT !.img[fi] = layer, !.attached = @ \cup {layer}]

Init ==
  /\ clock = Past + 1
  /\ \E run \in BOOLEAN :
       LET times == Window(Past + 1)
           now == NearestIndex(times, Past + 1)
           order == LoadOrder(Frames, now)
           empty == [times |-> times, img |-> [i \in 1..Frames |-> None], loaded |-> <<>>,
                     cur |-> 1, prev1 |-> None, now |-> now, shown |-> {}, attached |-> {},
                     staged |-> {}, ready |-> FALSE, run |-> run, paused |-> FALSE,
                     tick |-> FALSE, missed |-> FALSE]
           first == FreshIn(empty)
       IN  /\ p = Request(empty, order[1], first)
           /\ init = [order |-> order, at |-> 1, layer |-> first, stage |-> "frames", firstShown |-> FALSE]
  /\ shifting = {} /\ staging = {}
  /\ updating = FALSE
  /\ owed = StaleOwed

\* Go to the load loop's k-th frame, or past the end.
ContinueAt(v, k, firstShown) ==
  IF k = None \/ k > Frames
  THEN /\ init' = [init EXCEPT !.stage = IF Motion /\ firstShown THEN "snapshots" ELSE "done",
                             !.firstShown = firstShown]
       /\ p' = [v EXCEPT !.ready = @ \/ (v.loaded # <<>> /\ ~Motion)]
  ELSE LET layer == FreshIn(v)
       IN  /\ FreshLayers(v, 1)
           /\ p' = Request(v, init.order[k], layer)
           /\ init' = [init EXCEPT !.at = k, !.layer = layer, !.firstShown = firstShown]

\* The awaited layer has all its tiles.  The first frame is shown at once.
InitFrameLoads ==
  /\ init.stage = "frames" /\ init.layer \in p.attached
  /\ LET fi == init.order[init.at]
         preview == IF init.firstShown THEN p
                    ELSE [p EXCEPT !.shown = @ \cup {init.layer}, !.prev1 = InsertPosition(p.loaded, fi)]
     IN  ContinueAt(InsertFrame(preview, fi), init.at + 1, TRUE)
  /\ UNCHANGED <<shifting, staging, updating, owed, clock>>

\* A tile failed or 90 s passed: _dropFailedLayer, by frame index.
InitFrameFails ==
  /\ init.stage = "frames"
  /\ LET fi == init.order[init.at]
     IN  ContinueAt([Detach(p, p.img[fi]) EXCEPT !.img[fi] = None],
                    ResumeAfterFailure(init.order, init.at), init.firstShown)
  /\ UNCHANGED <<shifting, staging, updating, owed, clock>>

\* Mutant of Dedup: the loaded positions are not renumbered.
DedupKeepsNumbers(v, kept) ==
  LET at(slot) == IF slot \in DOMAIN v.loaded THEN PositionOf(kept, v.loaded[slot]) ELSE None
      out == {v.img[i] : i \in DOMAIN v.img \ ToSet(kept)}
  IN  [v EXCEPT !.loaded = kept, !.attached = @ \ out, !.shown = @ \ out,
                !.cur = Max({1, at(@)}), !.prev1 = at(@)]

\* _dedupFrames: every array is compacted to the frames kept, and the positions
\* follow; a dropped cursor falls back to now.
Dedup(v, kept) ==
  LET at(slot) == IF slot \in DOMAIN v.loaded THEN PositionOf(kept, v.loaded[slot]) ELSE None
      times == [i \in DOMAIN kept |-> v.times[kept[i]]]
      img == [i \in DOMAIN kept |-> v.img[kept[i]]]
      out == {v.img[i] : i \in DOMAIN v.img \ ToSet(kept)}
      cur == IF at(v.cur) # None THEN at(v.cur) ELSE NearestIndex(times, clock)
  IN  [v EXCEPT !.times = times, !.img = img, !.loaded = [i \in DOMAIN kept |-> i],
                !.attached = @ \ out, !.shown = @ \ out,
                !.cur = cur,
                !.prev1 = IF @ = None THEN @ ELSE IF at(@) # None THEN at(@) ELSE cur,
                !.now = NearestIndex(times, clock)]

\* The snapshots are in: drop duplicates and put the stand-in on screen.
InitDedups ==
  /\ init.stage = "snapshots"
  /\ \E drop \in SUBSET DOMAIN p.loaded :
       LET running == p.run /\ p.ready /\ Len(p.loaded) >= 2
           v == IF running THEN StopLoop(p) ELSE p
           \* the first loaded frame is never a duplicate
           kept == Kept(v.loaded, ToSet(v.loaded) \ {v.loaded[s] : s \in drop \ {1}})
           w == IF Len(kept) < Len(v.loaded) THEN Dedup(v, kept) ELSE v
           shown == IF running /\ Len(w.loaded) >= 2 THEN StartLoop(w, w.cur)
                    ELSE IF Len(kept) < Len(v.loaded) THEN ShowSlot(w, w.cur, TRUE)
                    ELSE w
       IN  p' = [shown EXCEPT !.ready = TRUE]
  /\ init' = [init EXCEPT !.stage = "done"]
  /\ UNCHANGED <<shifting, staging, updating, owed, clock>>

-----------------------------------------------------------------------------
(* The periodic refresh.                                                   *)

ClockAdvances ==
  /\ clock < LastTime
  /\ ThinLoop \/ Len(p.loaded) >= 2
  /\ clock' = clock + 1
  /\ UNCHANGED <<p, init, shifting, staging, updating, owed>>

\* The update timer, armed at the end of the load; a pause only marks it owed.
UpdateDue ==
  /\ init.stage = "done" /\ p.ready /\ ~updating
  /\ updating' = ~p.paused
  /\ owed' = (owed \/ p.paused)
  /\ UNCHANGED <<p, init, shifting, staging, clock>>

\* Mutant of ShiftIn: the oldest layer stays on the map.
ShiftInKeepsLayer(v, time, layer) ==
  LET dropped == v.loaded # <<>> /\ v.loaded[1] = 1
  IN  [v EXCEPT
        !.times = Append(Tail(@), time),
        !.img = Append(Tail(@), layer),
        !.loaded = Kept([k \in DOMAIN @ |-> @[k] - 1], 1..Frames),
        !.cur = IF dropped THEN Max({1, @ - 1}) ELSE @,
        !.attached = @ \cup {layer}]

\* _shiftInFrame: append a frame, drop the oldest, renumber everything.
ShiftIn(v, time, layer) ==
  LET old == v.img[1]
      dropped == v.loaded # <<>> /\ v.loaded[1] = 1
      shownDropped == dropped /\ v.prev1 = 1
      slots == Kept([k \in DOMAIN v.loaded |-> v.loaded[k] - 1], 1..Frames)
      down(slot) == IF dropped /\ slot > 1 THEN slot - 1 ELSE slot
      times == Append(Tail(v.times), time)
      w == [Detach(v, old) EXCEPT
             !.times = times,
             !.img = Append(Tail(@), layer),
             !.loaded = slots,
             !.cur = IF dropped THEN Max({1, @ - 1}) ELSE @,
             !.prev1 = down(@),
             !.now = NearestIndex(times, clock),
             !.attached = @ \cup {layer},
             \* with no loaded frame left, the new one fills in as its tiles arrive
             !.shown = IF slots = <<>> THEN @ \cup {layer} ELSE @]
  IN  IF slots # <<>> /\ shownDropped THEN ShowSlot(w, w.cur, TRUE) ELSE w

ShiftAll(v, news) ==
  LET after[k \in 0..Len(news)] ==
        IF k = 0 THEN v ELSE ShiftIn(after[k - 1], news[k], FreshIn(after[k - 1]))
  IN  after[Len(news)]

\* Frames of the listing newer than the newest held (the newness guard).
NewFrames(v) == Kept(Window(clock), (Last(v.times) + 1)..(clock + Forecast))

\* _refreshForecast: hidden replacements for the frames from `from` on.
Due(v, from) == {i \in DOMAIN v.times : v.times[i] >= from}
Stage(v, from) ==
  LET nth(i) == Ascending(Free(v))[Cardinality({j \in Due(v, from) : j <= i})]
  IN  {[time |-> v.times[i], layer |-> nth(i)] : i \in Due(v, from)}

\* The listing is in: shift, and with a newer run stage its replacements.
UpdateArrives ==
  /\ updating /\ updating' = FALSE /\ owed' = FALSE
  /\ LET news == NewFrames(p)
         count == Len(p.times)
         taken == IF Len(news) > count THEN SubSeq(news, Len(news) - count + 1, Len(news)) ELSE news
         loading == shifting \cap ToSet(p.img)
     IN  /\ Cardinality(loading) + Len(news) <= MaxShifting
         /\ FreshLayers(p, Len(news))
         /\ LET v == IF news = <<>> THEN p ELSE ShiftAll(StopLoop(p), taken)
                added == {v.img[i] : i \in (count - Len(taken) + 1)..count} \ {None}
            IN  /\ shifting' = (shifting \cap v.attached) \cup (IF news = <<>> THEN {} ELSE added)
                /\ \/ p' = v /\ UNCHANGED staging
                   \/ /\ Refresh /\ staging = {}
                      /\ \E from \in ToSet(v.times) :
                           /\ FreshLayers(v, Cardinality(Due(v, from)))
                           /\ staging' = Stage(v, from)
                           /\ p' = [v EXCEPT !.attached = @ \cup {s.layer : s \in Stage(v, from)}]
  /\ UNCHANGED <<init, clock>>

\* The listing failed.
UpdateFails ==
  /\ updating /\ updating' = FALSE
  /\ UNCHANGED <<p, init, shifting, staging, owed, clock>>

\* The 'load' of a shifted-in layer: it joins the loop at its current index.
ShiftedSettles(layer, ok) ==
  /\ layer \in shifting
  /\ shifting' = shifting \ {layer}
  /\ LET fi == PositionOf(p.img, layer)
         v == IF fi = None THEN p
              ELSE IF ok THEN [p EXCEPT !.loaded = InsertSorted(@, fi)]
              ELSE [Detach(p, layer) EXCEPT !.img[fi] = None]
     IN  p' = IF fi = None \/ v.loaded = <<>> THEN v ELSE StartLoop(v, Len(v.loaded))
  /\ UNCHANGED <<init, staging, updating, owed, clock>>

\* Every replacement of the batch has settled; those in `ok` loaded.
StagingSettles(ok) ==
  /\ staging # {} /\ staging' = {}
  /\ ThinLoop \/ Len(p.loaded) >= 2
  /\ LET failed == {s.layer : s \in staging \ ok}
         replaced == {s \in p.staged : \E t \in ok : t.time = s.time}
         v == [p EXCEPT !.attached = @ \ (failed \cup {s.layer : s \in replaced}),
                        !.staged = (@ \ replaced) \cup ok]
     IN  p' = SwapStagedFrames(v, v.cur, MayTick(v))
  /\ UNCHANGED <<init, shifting, updating, owed, clock>>

-----------------------------------------------------------------------------
(* Playback and the viewer.                                                *)

\* The playback timeout; the wrap to the oldest frame snaps.
Tick ==
  /\ p.tick
  /\ LET n == Len(p.loaded)
         next == (p.cur % n) + 1
     IN  p' = Armed(ShowSlot([p EXCEPT !.cur = next], next, p.cur = n))
  /\ UNCHANGED <<init, shifting, staging, updating, owed, clock>>

TogglePlay ==
  /\ p' = IF p.run THEN StopLoop([p EXCEPT !.run = FALSE])
                   ELSE LET v == [p EXCEPT !.run = TRUE] IN StartLoop(v, v.cur)
  /\ UNCHANGED <<init, shifting, staging, updating, owed, clock>>

ScrubTo(slot) ==
  /\ LET v == StopLoop(p)
     IN  p' = ShowSlot([v EXCEPT !.cur = slot], slot, FALSE)
  /\ UNCHANGED <<init, shifting, staging, updating, owed, clock>>

ScrubEnd ==
  /\ p.run /\ ~p.paused
  /\ p' = StartLoop(p, p.cur)
  /\ UNCHANGED <<init, shifting, staging, updating, owed, clock>>

SkipNext ==
  /\ p.ready /\ Len(p.loaded) >= 2
  /\ LET next == (p.cur % Len(p.loaded)) + 1
         v == StopLoop(ShowSlot([p EXCEPT !.cur = next], next, FALSE))
     IN  p' = [v EXCEPT !.run = FALSE, !.tick = FALSE]
  /\ UNCHANGED <<init, shifting, staging, updating, owed, clock>>

\* A pan, or the card leaves the screen.
Pause ==
  /\ ~p.paused
  /\ p' = StopLoop([p EXCEPT !.paused = TRUE])
  /\ UNCHANGED <<init, shifting, staging, updating, owed, clock>>

\* The pan settles (nothing is shown again) or the card comes back on screen.
Resume ==
  /\ p.paused
  /\ LET v == [p EXCEPT !.paused = FALSE]
     IN  \/ p' = IF v.ready /\ v.run THEN StartLoop(v, v.cur) ELSE v
         \/ p' = IF v.ready /\ v.run THEN Armed(v) ELSE v
  /\ LET pays == owed /\ p.ready /\ ~updating
     IN  updating' = (updating \/ pays) /\ owed' = (owed /\ ~pays)
  /\ UNCHANGED <<init, shifting, staging, clock>>

Next ==
  \/ InitFrameLoads \/ InitFrameFails \/ InitDedups
  \/ ClockAdvances \/ UpdateDue \/ UpdateArrives \/ UpdateFails
  \/ \E layer \in shifting, ok \in BOOLEAN : ShiftedSettles(layer, ok)
  \/ \E ok \in SUBSET staging : StagingSettles(ok)
  \/ Tick \/ TogglePlay \/ ScrubEnd \/ SkipNext \/ Pause \/ Resume
  \/ \E slot \in DOMAIN p.loaded : ScrubTo(slot)

Spec == Init /\ [][Next]_vars

-----------------------------------------------------------------------------
(* Properties.                                                             *)

TypeOK ==
  /\ Len(p.times) = Len(p.img) /\ Len(p.times) \in 1..Frames
  /\ p.img \in Seq(LayerIds \cup {None})
  /\ p.loaded \in Seq(DOMAIN p.img)
  /\ p.cur \in 0..Frames /\ p.prev1 \in 0..Frames /\ p.now \in DOMAIN p.times
  /\ p.shown \subseteq LayerIds /\ p.attached \subseteq LayerIds
  /\ {p.ready, p.run, p.paused, p.tick, p.missed, updating, owed} \subseteq BOOLEAN
  /\ shifting \subseteq LayerIds
  /\ \A s \in p.staged \cup staging : s.layer \in LayerIds

\* The loop plays each frame once, in order, and only frames that are on the
\* map: whatever renumbered the arrays, the slots followed.
SlotsPlayable ==
  /\ \A a, b \in DOMAIN p.loaded : a < b => p.loaded[a] < p.loaded[b]
  /\ \A s \in DOMAIN p.loaded : LayerAt(p, s) \in p.attached

\* Every layer on the map is one the player can still find, and so remove.
NoOrphanLayers ==
  p.attached \subseteq ToSet(p.img) \cup {s.layer : s \in p.staged \cup staging}

\* The frames stay in time order without repeats: a slow source never makes the
\* loop fill up with copies of its newest frame.
FramesInOrder == \A a, b \in DOMAIN p.times : a < b => p.times[a] < p.times[b]

\* The loop survives every renumbering of its arrays: the types, the slots, the
\* order of the frames, and no layer is lost on the map.
LoopIntact == TypeOK /\ SlotsPlayable /\ FramesInOrder /\ NoOrphanLayers

\* _showSlot's claim that between fades only the new frame is visible: the one
\* the cursor is on, no ghost of another.  (A frame shifted into an empty loop
\* fills in on screen.)
OneFrameShown ==
  Len(p.loaded) >= 2 => p.shown \ shifting = {LayerAt(p, p.cur)} /\ p.prev1 = p.cur

\* A shifted-in frame joins the loop when a newer one already has.  Its handler
\* shows the newest and leaves _prev1Slot where it was.
JoinsLate ==
  \E layer \in shifting :
    /\ ShiftedSettles(layer, TRUE)
    /\ p.loaded # <<>> /\ PositionOf(p.img, layer) \in 1..Last(p.loaded)

\* Nothing else leaves a second frame on screen, or the cursor off the frame
\* shown: not the load, a swap, a shift, the dedup or the viewer.
OneFrameKept == [][OneFrameShown => OneFrameShown' \/ JoinsLate]_vars

\* A replacement _swapStagedFrames set out to swap is still staged when its turn
\* comes (the non-null assertion there).
StagedStillThere == ~p.missed

\* A frame joining, failing or being replaced does not make playback jump: with
\* two frames or more, neither the load nor a swap takes the cursor off its frame.
PlaybackKeepsPlace ==
  [][ Len(p.loaded) >= 2
        /\ ~(/\ p'.cur \in DOMAIN p'.loaded
             /\ p'.times[p'.loaded[p'.cur]] = p.times[p.loaded[p.cur]])
      => ~(InitFrameLoads \/ InitFrameFails \/ \E ok \in SUBSET staging : StagingSettles(ok)) ]_vars
=============================================================================
