-------------------------- MODULE PlayerLifecycle --------------------------
(***************************************************************************)
(* The asynchronous life of one RadarPlayer (src/src/radar-player.ts):     *)
(* inits and updates suspended at an await, the periodic-update timer, the *)
(* init-retry and rate-limit timers, the pause flags the card sets, the    *)
(* playback tick and the teardown.  JavaScript runs one callback at a      *)
(* time, so a step is everything a callback does up to its next await.     *)
(*                                                                         *)
(* Frames are counted, not told apart (module FrameLoop tells them apart). *)
(* Configurations without forecast refresh: no staged replacement layers,  *)
(* so _swapStagedFrames in _stopLoop and _showSlot changes nothing here.   *)
(***************************************************************************)
EXTENDS Integers, FiniteSets

CONSTANTS
  MaxFrames,     \* frames a listing may hold
  MaxShift,      \* new frames one update may find
  MaxGen,        \* bound on _frameGeneration: how often the world forces a rebuild
  UpdateSlots,   \* bound on _updateRadar calls suspended at once
  ShiftSlots,    \* bound on shifted-in layers still loading
  TimerIds,      \* names for armed update timers
  NoTimer,       \* _cancelScheduledUpdate = null
  Motion,        \* motion_compensation: the init waits for snapshots, then dedups
  Preload        \* preload_while_hidden

ASSUME ConstantsAssumption ==
  /\ MaxFrames \in Nat \ {0}
  /\ MaxShift \in Nat \ {0}
  /\ MaxGen \in Nat \ {0}
  /\ NoTimer \notin TimerIds
  /\ Motion \in BOOLEAN
  /\ Preload \in BOOLEAN

VARIABLES
  gen,        \* _frameGeneration
  ready,      \* _radarReady
  loaded,     \* _loadedSlots.length
  inits,      \* _initRadar calls suspended at an await
  flight,     \* _initFlightGen
  updates,    \* per slot: generation of a suspended _updateRadar call, or NoGen
  shifts,     \* per slot: generation of a shifted-in layer still loading, or NoGen
  timers,     \* per timer: generation it was armed under, or NoGen when not armed
  handle,     \* the timer _cancelScheduledUpdate cancels
  retry,      \* generation _initRetryTimer was armed under, or NoGen
  limited,    \* _isRateLimited
  serverErr,  \* _isServerError
  rateTimer,  \* _rateLimitTimer is armed
  run, navPaused, viewPaused,
  owed,       \* _doRadarUpdate
  scrubbing,  \* the card holds the progress bar (active in _setupProgressBarScrub)
  ticks,      \* playback timeouts carrying the current _loopGen
  cleared     \* clear() ran and the card dropped the player

tasks == <<inits, flight, updates, shifts>>
clocks == <<timers, handle, retry>>
outage == <<limited, serverErr, rateTimer>>
pauses == <<run, navPaused, viewPaused, scrubbing>>
vars == <<gen, ready, loaded, tasks, clocks, outage, pauses, owed, ticks, cleared>>

NoGen == -1

InitTask ==
  [gen : Nat, pc : {"frames"}, left : Nat \ {0}] \cup
  [gen : Nat, pc : {"listing", "snapshots"}, left : {0}]
Task(g, pc, left) == [gen |-> g, pc |-> pc, left |-> left]

FlagsOK ==
  /\ ready \in BOOLEAN
  /\ limited \in BOOLEAN /\ serverErr \in BOOLEAN /\ rateTimer \in BOOLEAN
  /\ run \in BOOLEAN /\ navPaused \in BOOLEAN /\ viewPaused \in BOOLEAN
  /\ owed \in BOOLEAN /\ scrubbing \in BOOLEAN /\ cleared \in BOOLEAN

TypeOK ==
  /\ FlagsOK
  /\ gen \in Nat /\ loaded \in Nat /\ ticks \in Nat
  /\ inits \subseteq InitTask
  /\ flight \in Nat \cup {NoGen} /\ retry \in Nat \cup {NoGen}
  /\ updates \in [UpdateSlots -> Nat \cup {NoGen}]
  /\ shifts \in [ShiftSlots -> Nat \cup {NoGen}]
  /\ timers \in [TimerIds -> Nat \cup {NoGen}]
  /\ handle \in TimerIds \cup {NoTimer}

\* The card builds the player and calls start() at once; start_paused clears run.
Init ==
  /\ gen = 1 /\ ready = FALSE /\ loaded = 0
  /\ inits = {Task(1, "listing", 0)}
  /\ flight = 1
  /\ updates = [u \in UpdateSlots |-> NoGen]
  /\ shifts = [s \in ShiftSlots |-> NoGen]
  /\ timers = [t \in TimerIds |-> NoGen]
  /\ handle = NoTimer /\ retry = NoGen
  /\ limited = FALSE /\ serverErr = FALSE /\ rateTimer = FALSE
  /\ run \in BOOLEAN /\ navPaused = FALSE /\ viewPaused = FALSE
  /\ owed = FALSE /\ scrubbing = FALSE /\ ticks = 0 /\ cleared = FALSE

-----------------------------------------------------------------------------
(* What the handlers are made of.                                          *)

InitInFlight == flight = gen
Hidden == viewPaused /\ ~Preload
Shifting == \E s \in ShiftSlots : shifts[s] = gen
LiveInit == \E i \in inits : i.gen = gen
LayersAttached == loaded > 0 \/ Shifting \/ \E i \in inits : i.gen = gen /\ i.pc = "frames"

\* _scheduleNext arms a playback timeout only if all of this holds.
MayTick(n) == run' /\ ~navPaused' /\ ~viewPaused' /\ n >= 2

\* _stopLoop: a new _loopGen, so no timeout carries the current one any more.
StopLoop == ticks' = 0

\* _startLoop with n loaded frames: a new _loopGen, then _scheduleNext.
StartLoop(n) == ticks' = IF MayTick(n) THEN 1 ELSE 0

\* _clearLayers followed by _initRadar, which every rebuild runs back to back.
Rebuild ==
  /\ gen + 2 <= MaxGen
  /\ gen' = gen + 2
  /\ ready' = FALSE
  /\ loaded' = 0
  /\ inits' = inits \cup {Task(gen + 2, "listing", 0)}
  /\ flight' = gen + 2
  /\ StopLoop

\* The update timers once the one behind _cancelScheduledUpdate is cancelled.
Cancelled == [t \in TimerIds |-> IF t = handle THEN NoGen ELSE timers[t]]

\* _scheduleUpdate: cancel the armed timer, then arm a fresh one.
ScheduleUpdate ==
  LET kept == Cancelled
  IN  \E t \in TimerIds :
        /\ kept[t] = NoGen
        /\ timers' = [kept EXCEPT ![t] = gen]
        /\ handle' = t

\* _updateRadar up to its first await.
StartUpdate ==
  \E u \in UpdateSlots :
    /\ updates[u] = NoGen
    /\ updates' = [updates EXCEPT ![u] = gen]

EndUpdate(u) == updates' = [updates EXCEPT ![u] = NoGen]

\* The finally block of _initRadar: a superseded init leaves its successor's flag.
EndInit(i) ==
  /\ inits' = inits \ {i}
  /\ flight' = IF flight = i.gen THEN NoGen ELSE flight

-----------------------------------------------------------------------------
(* _initRadar, resumed after each await.                                   *)

\* Mutant of InitListingFails: nothing is armed, the card stays blank.
InitListingFailsForGood(i) ==
  /\ i \in inits /\ i.pc = "listing" /\ i.gen = gen
  /\ EndInit(i)
  /\ UNCHANGED <<gen, ready, loaded, updates, shifts, clocks, outage, pauses, owed, ticks, cleared>>

\* The listing failed or came back empty: retry later.
InitListingFails(i) ==
  /\ i \in inits /\ i.pc = "listing" /\ i.gen = gen
  /\ gen + 2 <= MaxGen
  /\ EndInit(i)
  /\ retry' = gen
  /\ UNCHANGED <<gen, ready, loaded, updates, shifts, timers, handle, outage, pauses, owed, ticks, cleared>>

InitListingArrives(i) ==
  /\ i \in inits /\ i.pc = "listing" /\ i.gen = gen
  /\ \E n \in 1..MaxFrames :
       inits' = (inits \ {i}) \cup {Task(gen, "frames", n)}
  /\ UNCHANGED <<gen, ready, loaded, flight, updates, shifts, clocks, outage, pauses, owed, ticks, cleared>>

\* The tail of _initRadarBody: arm the update chain, or retry with no frame at all.
FinishInit(i, n) ==
  /\ EndInit(i)
  /\ IF n > 0
     THEN ready' = TRUE /\ ScheduleUpdate /\ UNCHANGED retry
     ELSE /\ gen + 2 <= MaxGen
          /\ retry' = gen
          /\ UNCHANGED <<ready, timers, handle>>

\* After a frame settled: the next frame, the snapshots, or the end of the init.
\* n frames are loaded; nowReady is _radarReady unless the init ends here.
NextFrame(i, remaining, n, nowReady) ==
  IF remaining > 0 \/ (Motion /\ n > 0)
  THEN /\ inits' = (inits \ {i}) \cup
            {Task(gen, IF remaining > 0 THEN "frames" ELSE "snapshots", remaining)}
       /\ ready' = nowReady
       /\ UNCHANGED <<flight, timers, handle, retry>>
  ELSE FinishInit(i, n)

\* The 2nd loaded frame starts the loop (_afterFrameInserted).
InitFrameLoads(i) ==
  /\ i \in inits /\ i.pc = "frames" /\ i.gen = gen
  /\ loaded' = loaded + 1
  /\ UNCHANGED pauses
  /\ IF loaded + 1 = 2 THEN StartLoop(2) ELSE UNCHANGED ticks
  /\ NextFrame(i, i.left - 1, loaded + 1, ready \/ loaded + 1 >= 2)
  /\ UNCHANGED <<gen, updates, shifts, outage, owed, cleared>>

\* A failure skips some of the frames left, or all (resumeIndexAfterFailure).
InitFrameFails(i) ==
  /\ i \in inits /\ i.pc = "frames" /\ i.gen = gen
  /\ \E remaining \in 0..(i.left - 1) :
       NextFrame(i, remaining, loaded, ready)
  /\ UNCHANGED <<gen, loaded, updates, shifts, outage, pauses, owed, ticks, cleared>>

\* All snapshots are in: _dedupFrames, and the loop restarts if it was running.
InitDedups(i) ==
  /\ i \in inits /\ i.pc = "snapshots" /\ i.gen = gen
  /\ \E kept \in 0..loaded :
       /\ (kept = 0) = (loaded = 0)
       /\ loaded' = kept
       /\ UNCHANGED pauses
       /\ IF run /\ ready /\ loaded >= 2 THEN StartLoop(kept) ELSE UNCHANGED ticks
       /\ FinishInit(i, kept)
  /\ UNCHANGED <<gen, updates, shifts, outage, owed, cleared>>

\* A superseded init returns at its next generation check.
InitSuperseded(i) ==
  /\ i \in inits /\ i.gen # gen
  /\ EndInit(i)
  /\ UNCHANGED <<gen, ready, loaded, updates, shifts, clocks, outage, pauses, owed, ticks, cleared>>

-----------------------------------------------------------------------------
(* _updateRadar, resumed after its listing and run are in.                 *)

UpdateSuperseded(u) ==
  /\ updates[u] # NoGen /\ updates[u] # gen
  /\ EndUpdate(u)
  /\ UNCHANGED <<gen, ready, loaded, inits, flight, shifts, clocks, outage, pauses, owed, ticks, cleared>>

\* Mutants of UpdateFails: no generation check before the timer is armed; no timer.
UpdateFailsUnchecked(u) ==
  /\ updates[u] # NoGen
  /\ EndUpdate(u)
  /\ ScheduleUpdate
  /\ UNCHANGED <<gen, ready, loaded, inits, flight, shifts, retry, outage, pauses, owed, ticks, cleared>>
UpdateFailsForGood(u) ==
  /\ updates[u] = gen
  /\ EndUpdate(u)
  /\ UNCHANGED <<gen, ready, loaded, inits, flight, shifts, clocks, outage, pauses, owed, ticks, cleared>>

\* The listing failed or is empty: try on the next cycle.
UpdateFails(u) ==
  /\ updates[u] = gen
  /\ EndUpdate(u)
  /\ ScheduleUpdate
  /\ UNCHANGED <<gen, ready, loaded, inits, flight, shifts, retry, outage, pauses, owed, ticks, cleared>>

UpdateFindsNothing(u) ==
  /\ updates[u] = gen
  /\ EndUpdate(u)
  /\ owed' = FALSE
  /\ ScheduleUpdate
  /\ UNCHANGED <<gen, ready, loaded, inits, flight, shifts, retry, outage, pauses, ticks, cleared>>

\* NOAA's listing is back after the legacy grid, or RainViewer's count changed.
UpdateRebuilds(u) ==
  /\ updates[u] = gen
  /\ EndUpdate(u)
  /\ owed' = FALSE
  /\ Rebuild
  /\ UNCHANGED <<shifts, clocks, outage, pauses, cleared>>

\* New frames: the loop stops and restarts as their layers load (_shiftInFrame).
UpdateShifts(u) ==
  /\ updates[u] = gen
  /\ EndUpdate(u)
  /\ owed' = FALSE
  /\ StopLoop
  /\ \E fresh \in SUBSET {s \in ShiftSlots : shifts[s] = NoGen} :
       /\ fresh # {} /\ Cardinality(fresh) <= MaxShift
       /\ shifts' = [s \in ShiftSlots |-> IF s \in fresh THEN gen ELSE shifts[s]]
       /\ \E dropped \in 0..Cardinality(fresh) :
            /\ loaded >= MaxFrames => dropped > 0
            /\ dropped <= loaded
            /\ loaded' = loaded - dropped
  /\ ScheduleUpdate
  /\ UNCHANGED <<gen, ready, inits, flight, retry, outage, pauses, cleared>>

\* A shifted-in layer fires 'load'; with every tile in, it joins the loop.
ShiftLoads(s) ==
  /\ shifts[s] # NoGen
  /\ shifts' = [shifts EXCEPT ![s] = NoGen]
  /\ UNCHANGED pauses
  /\ IF shifts[s] # gen
     THEN UNCHANGED <<loaded, ticks>>
     ELSE \E n \in {loaded, loaded + 1} :
            /\ loaded' = n
            /\ IF n > 0 THEN StartLoop(n) ELSE UNCHANGED ticks
  /\ UNCHANGED <<gen, ready, inits, flight, updates, clocks, outage, owed, cleared>>

-----------------------------------------------------------------------------
(* Timers.                                                                 *)

\* The periodic update falls due.  Paused, it only marks a refresh as owed.
UpdateTimerFires(t) ==
  /\ timers[t] # NoGen
  /\ timers' = [timers EXCEPT ![t] = NoGen]
  /\ handle' = NoTimer
  /\ \/ /\ timers[t] # gen
        /\ UNCHANGED <<updates, owed>>
     \/ /\ timers[t] = gen /\ ready /\ ~navPaused /\ ~Hidden
        /\ StartUpdate
        /\ UNCHANGED owed
     \/ /\ timers[t] = gen /\ (~ready \/ navPaused \/ Hidden)
        /\ owed' = TRUE
        /\ UNCHANGED updates
  /\ UNCHANGED <<gen, ready, loaded, inits, flight, shifts, retry, outage, pauses, ticks, cleared>>

\* An init that found nothing is tried again; while hidden, only re-armed.
RetryTimerFires ==
  /\ retry # NoGen
  /\ UNCHANGED <<updates, shifts, timers, handle, outage, pauses, owed, cleared>>
  /\ \/ /\ retry # gen
        /\ retry' = NoGen
        /\ UNCHANGED <<gen, ready, loaded, inits, flight, ticks>>
     \/ /\ retry = gen /\ Hidden
        /\ UNCHANGED <<retry, gen, ready, loaded, inits, flight, ticks>>
     \/ /\ retry = gen /\ ~Hidden
        /\ retry' = NoGen
        /\ Rebuild

\* _retryAfterRateLimit, 10 s after the first 429.
RateLimitTimerFires ==
  /\ rateTimer
  /\ rateTimer' = FALSE /\ limited' = FALSE
  /\ Rebuild
  /\ UNCHANGED <<serverErr, updates, shifts, clocks, pauses, owed, cleared>>

\* The playback timeout: show the next frame, arm the next timeout.
Tick ==
  /\ ticks > 0
  /\ UNCHANGED pauses
  /\ ticks' = (ticks - 1) + (IF MayTick(loaded) THEN 1 ELSE 0)
  /\ UNCHANGED <<gen, ready, loaded, tasks, clocks, outage, owed, cleared>>

-----------------------------------------------------------------------------
(* Tile callbacks of attached layers.                                      *)

OnRateLimited ==
  /\ LayersAttached /\ ~limited
  /\ limited' = TRUE
  /\ rateTimer' = (rateTimer \/ ~serverErr)
  /\ UNCHANGED <<gen, ready, loaded, tasks, clocks, serverErr, pauses, owed, ticks, cleared>>

OnServerError ==
  /\ LayersAttached
  /\ serverErr' = TRUE
  /\ rateTimer' = FALSE
  /\ UNCHANGED <<gen, ready, loaded, tasks, clocks, limited, pauses, owed, ticks, cleared>>

OnTileRecovered ==
  /\ LayersAttached /\ (limited \/ serverErr)
  /\ serverErr' = FALSE /\ limited' = FALSE
  /\ rateTimer' = (rateTimer /\ ~limited)
  /\ UNCHANGED <<gen, ready, loaded, tasks, clocks, pauses, owed, ticks, cleared>>

\* opengeo no longer has one of the requested layers.
OnNoaaLayerMissing ==
  /\ LayersAttached
  /\ Rebuild
  /\ UNCHANGED <<updates, shifts, clocks, outage, pauses, owed, cleared>>

-----------------------------------------------------------------------------
(* The card's calls.                                                       *)

OnNavPaused ==
  /\ ~cleared
  /\ navPaused' = TRUE
  /\ StopLoop
  /\ UNCHANGED <<gen, ready, loaded, tasks, clocks, outage, run, viewPaused, owed, scrubbing, cleared>>

\* A refresh owed from the pause starts after the loop resumed.
PayOwed ==
  IF owed THEN owed' = FALSE /\ StartUpdate ELSE UNCHANGED <<owed, updates>>

\* 100 ms after the last moveend.  `reshaped`: the requested frame count changed.
OnNavSettled(reshaped) ==
  /\ ~cleared
  /\ navPaused' = FALSE
  /\ UNCHANGED <<run, viewPaused, scrubbing, shifts, clocks, outage, cleared>>
  /\ \/ /\ InitInFlight /\ ~ready /\ ~reshaped
        /\ UNCHANGED <<gen, ready, loaded, inits, flight, updates, owed, ticks>>
     \/ /\ ~(InitInFlight /\ ~ready /\ ~reshaped)
        /\ ~ready \/ reshaped
        /\ Rebuild
        /\ UNCHANGED <<updates, owed>>
     \/ /\ ready /\ ~reshaped
        /\ IF run THEN StartLoop(loaded) ELSE UNCHANGED ticks
        /\ PayOwed
        /\ UNCHANGED <<gen, ready, loaded, inits, flight>>

OnVisibilityHidden ==
  /\ ~cleared
  /\ viewPaused' = TRUE
  /\ StopLoop
  /\ UNCHANGED <<gen, ready, loaded, tasks, clocks, outage, run, navPaused, owed, scrubbing, cleared>>

\* Mutant of OnVisibilityVisible: only a refresh that is owed restarts the loop.
OnVisibilityVisibleFreezes(stale) ==
  /\ ~cleared /\ viewPaused /\ ready /\ ~stale
  /\ viewPaused' = FALSE
  /\ UNCHANGED <<run, navPaused, scrubbing, shifts, clocks, outage, cleared>>
  /\ IF run /\ ~owed THEN StartLoop(loaded) ELSE UNCHANGED ticks
  /\ PayOwed
  /\ UNCHANGED <<gen, ready, loaded, inits, flight>>

\* `stale`: more than two refresh periods since the last successful listing.
OnVisibilityVisible(stale) ==
  /\ ~cleared /\ viewPaused
  /\ viewPaused' = FALSE
  /\ UNCHANGED <<run, navPaused, scrubbing, shifts, clocks, outage, cleared>>
  /\ \/ /\ ready /\ stale
        /\ owed' = FALSE
        /\ Rebuild
        /\ UNCHANGED updates
     \/ /\ ~ready
        /\ UNCHANGED <<gen, ready, loaded, inits, flight, updates, owed, ticks>>
     \/ /\ ready /\ ~stale
        /\ IF run THEN StartLoop(loaded) ELSE UNCHANGED ticks
        /\ PayOwed
        /\ UNCHANGED <<gen, ready, loaded, inits, flight>>

TogglePlay ==
  /\ ~cleared
  /\ run' = ~run
  /\ UNCHANGED <<navPaused, viewPaused, scrubbing>>
  /\ IF run' THEN StartLoop(loaded) ELSE StopLoop
  /\ UNCHANGED <<gen, ready, loaded, tasks, clocks, outage, owed, cleared>>

\* The finger is on the progress bar; only a loaded frame stops the loop.
ScrubTo ==
  /\ ~cleared
  /\ scrubbing' = TRUE
  /\ (loaded > 0 /\ StopLoop) \/ UNCHANGED ticks
  /\ UNCHANGED <<gen, ready, loaded, tasks, clocks, outage, run, navPaused, viewPaused, owed, cleared>>

ScrubEnd ==
  /\ ~cleared /\ scrubbing
  /\ scrubbing' = FALSE
  /\ UNCHANGED <<run, navPaused, viewPaused>>
  /\ IF run /\ ~navPaused /\ ~viewPaused THEN StartLoop(loaded) ELSE UNCHANGED ticks
  /\ UNCHANGED <<gen, ready, loaded, tasks, clocks, outage, owed, cleared>>

\* skipNext and skipBack stop playback for good.
Skip ==
  /\ ~cleared /\ ready /\ loaded >= 2
  /\ run' = FALSE
  /\ StopLoop
  /\ UNCHANGED <<gen, ready, loaded, tasks, clocks, outage, navPaused, viewPaused, owed, scrubbing, cleared>>

\* clear(): teardown.  The card drops its reference, so no call follows.
Clear ==
  /\ ~cleared
  /\ cleared' = TRUE
  /\ gen' = gen + 1
  /\ ready' = FALSE /\ loaded' = 0
  /\ StopLoop
  /\ timers' = Cancelled
  /\ handle' = NoTimer
  /\ retry' = NoGen
  /\ rateTimer' = FALSE
  /\ UNCHANGED <<tasks, limited, serverErr, pauses, owed>>

-----------------------------------------------------------------------------
InitStep ==
  \E i \in inits :
    \/ InitListingFails(i) \/ InitListingArrives(i)
    \/ InitFrameLoads(i) \/ InitFrameFails(i)
    \/ InitDedups(i) \/ InitSuperseded(i)

UpdateStep ==
  \E u \in UpdateSlots :
    \/ UpdateSuperseded(u) \/ UpdateFails(u) \/ UpdateFindsNothing(u)
    \/ UpdateRebuilds(u) \/ UpdateShifts(u)

ShiftStep == \E s \in ShiftSlots : ShiftLoads(s)
TimerStep == \E t \in TimerIds : UpdateTimerFires(t)

TileEvent == OnRateLimited \/ OnServerError \/ OnTileRecovered \/ OnNoaaLayerMissing

CardCall ==
  \/ OnNavPaused \/ \E reshaped \in BOOLEAN : OnNavSettled(reshaped)
  \/ OnVisibilityHidden \/ \E stale \in BOOLEAN : OnVisibilityVisible(stale)
  \/ TogglePlay \/ ScrubTo \/ ScrubEnd \/ Skip \/ Clear

Next ==
  \/ InitStep \/ UpdateStep \/ ShiftStep \/ TimerStep
  \/ RetryTimerFires \/ RateLimitTimerFires \/ Tick
  \/ TileEvent \/ CardCall

Spec == Init /\ [][Next]_vars

\* Fetches and tile loads end (each has a timeout), armed timers fire, and a
\* move settles 100 ms after its moveend.  Nothing is assumed of the user.
Fairness ==
  /\ WF_vars(InitStep) /\ WF_vars(UpdateStep) /\ WF_vars(ShiftStep)
  /\ WF_vars(TimerStep) /\ WF_vars(RetryTimerFires) /\ WF_vars(RateLimitTimerFires)
  /\ WF_vars(navPaused /\ OnNavSettled(FALSE))

FairSpec == Spec /\ Fairness

-----------------------------------------------------------------------------
(* Properties.                                                             *)

\* _scheduleUpdate's claim: at most one periodic-update timer is armed, and it
\* is the one a later call or clear() would cancel.
SingleUpdateChain == \A t \in TimerIds : timers[t] # NoGen => handle = t

\* The refresh never dies silently.  While the card is up something still
\* carries it: an init, an update, an armed timer or retry of the current
\* generation, or a refresh that is owed to a pause.
RefreshAlive ==
  \/ cleared
  \/ LiveInit
  \/ \E u \in UpdateSlots : updates[u] = gen
  \/ \E t \in TimerIds : timers[t] = gen
  \/ retry = gen
  \/ ready /\ owed /\ (navPaused \/ viewPaused)

\* A loop that shows "playing" is animated: with two frames loaded, nothing
\* paused, no finger on the bar and no shifted-in frame still loading, exactly
\* one playback timeout carries the current _loopGen.
PlayingMeansTicking ==
  /\ ticks <= 1
  /\ run /\ ready /\ ~navPaused /\ ~viewPaused /\ ~scrubbing /\ loaded >= 2 /\ ~Shifting
     => ticks = 1

\* A playback timeout that would act finds something to play: the tick takes
\* the next slot modulo _loadedSlots.length, so an empty loop would make it NaN.
TickFindsFrames ==
  ticks > 0 => run /\ ~navPaused /\ ~viewPaused /\ loaded >= 2 /\ ~cleared

\* After clear() nothing of the player acts again: no timer of any kind is
\* armed and no frame comes back, whatever was suspended at the teardown.
QuietAfterClear ==
  cleared => /\ \A t \in TimerIds : timers[t] = NoGen
             /\ retry = NoGen /\ ~rateTimer /\ ticks = 0
             /\ loaded = 0 /\ ~ready

\* The periodic refresh as a whole: while the card is up it is carried by
\* something, at most one timer of it is armed, and clear() leaves nothing.
RefreshCarried == SingleUpdateChain /\ RefreshAlive /\ QuietAfterClear

\* onNavSettled's churn guard reads the truth: _initInFlight holds exactly
\* while an init of the current generation is suspended, and there is only one.
FlightFlagExact ==
  /\ InitInFlight <=> LiveInit
  /\ \A i, j \in inits : i.gen = j.gen => i = j

\* The full reinit is only ever pending for a rate limit that is not known to
\* be a server error: it never tears down a loop that is backing off per tile.
ReinitOnlyForRateLimit == rateTimer => limited /\ ~serverErr

\* A blank card heals by itself once the source answers: no pan or reload needed.
BlankHeals == (~ready /\ ~cleared) ~> (ready \/ cleared \/ Hidden)

\* A visible, idle card keeps asking its source for new frames.
RefreshesForever ==
  <>[](ready /\ ~cleared /\ ~navPaused /\ ~Hidden) => []<>(\E u \in UpdateSlots : updates[u] = gen)

-----------------------------------------------------------------------------
(* The inductive invariant: what the safety properties rest on.            *)

\* Nothing is stamped with a generation that has not begun.
StampsInThePast ==
  /\ \A i \in inits : i.gen <= gen
  /\ flight <= gen /\ retry <= gen
  /\ \A u \in UpdateSlots : updates[u] <= gen
  /\ \A s \in ShiftSlots : shifts[s] <= gen
  /\ \A t \in TimerIds : timers[t] <= gen

\* A loop of two frames, and every refresh of this generation, comes after readiness.
RefreshMeansReady ==
  \/ loaded >= 2
  \/ Shifting
  \/ \E u \in UpdateSlots : updates[u] = gen
  \/ \E t \in TimerIds : timers[t] = gen
  => ready

\* The teardown superseded every suspended task.
NothingLiveAfterClear ==
  cleared => /\ ~LiveInit /\ ~Shifting
             /\ \A u \in UpdateSlots : updates[u] # gen

IInv ==
  /\ TypeOK
  /\ StampsInThePast
  /\ RefreshMeansReady
  /\ NothingLiveAfterClear
  /\ SingleUpdateChain
  /\ RefreshAlive
  /\ PlayingMeansTicking
  /\ TickFindsFrames
  /\ QuietAfterClear
  /\ FlightFlagExact
  /\ ReinitOnlyForRateLimit
=============================================================================
