--------------------------- MODULE Lifecycles_proofs --------------------------
(***************************************************************************)
(* What is torn down and rebuilt while its own requests are under way: the *)
(* player (PlayerLifecycle), the wind overlays (Wind) and the base map      *)
(* (Basemap), for every value of their constants.                           *)
(***************************************************************************)
EXTENDS PlayerLifecycle, Wind, Basemap, TLAPS

-----------------------------------------------------------------------------
(* The safety properties of PlayerLifecycle: IInv is inductive and implies  *)
(* each of them.                                                            *)

-----------------------------------------------------------------------------
(* Type correctness: first the flags, then the rest, action by action.     *)

\* The flags stay Boolean, whatever else a step does.
LEMMA FlagsInductive == FlagsOK /\ [Next]_vars => FlagsOK'
<1> SUFFICES ASSUME FlagsOK, [Next]_vars PROVE FlagsOK'
  OBVIOUS
<1> USE DEF FlagsOK, pauses, tasks, clocks, outage
<1>1. ASSUME NEW i \in inits, InitListingFails(i) \/ InitListingArrives(i) \/ InitSuperseded(i)
      PROVE  FlagsOK'
  BY <1>1 DEF InitListingFails, InitListingArrives, InitSuperseded
<1>2. ASSUME NEW i \in inits, InitFrameLoads(i) PROVE FlagsOK'
  BY <1>2 DEF InitFrameLoads, NextFrame, FinishInit
<1>3. ASSUME NEW i \in inits, InitFrameFails(i) PROVE FlagsOK'
  BY <1>3 DEF InitFrameFails, NextFrame, FinishInit
<1>4. ASSUME NEW i \in inits, InitDedups(i) PROVE FlagsOK'
  BY <1>4 DEF InitDedups, FinishInit
<1>5. ASSUME NEW u \in UpdateSlots, UpdateSuperseded(u) \/ UpdateFails(u) \/ UpdateFindsNothing(u)
      PROVE  FlagsOK'
  BY <1>5 DEF UpdateSuperseded, UpdateFails, UpdateFindsNothing
<1>6. ASSUME NEW u \in UpdateSlots, UpdateRebuilds(u) PROVE FlagsOK'
  BY <1>6 DEF UpdateRebuilds, Rebuild
<1>7. ASSUME NEW u \in UpdateSlots, UpdateShifts(u) PROVE FlagsOK'
  BY <1>7 DEF UpdateShifts
<1>8. CASE ShiftStep
  BY <1>8 DEF ShiftStep, ShiftLoads
<1>9. CASE TimerStep
  BY <1>9 DEF TimerStep, UpdateTimerFires
<1>10. CASE RetryTimerFires
  BY <1>10 DEF RetryTimerFires, Rebuild
<1>11. CASE RateLimitTimerFires \/ Tick
  BY <1>11 DEF RateLimitTimerFires, Rebuild, Tick
<1>12. CASE OnRateLimited \/ OnServerError \/ OnTileRecovered
  BY <1>12 DEF OnRateLimited, OnServerError, OnTileRecovered
<1>13. CASE OnNoaaLayerMissing
  BY <1>13 DEF OnNoaaLayerMissing, Rebuild
<1>14. CASE OnNavPaused \/ OnVisibilityHidden \/ ScrubTo \/ Skip \/ Clear
  BY <1>14 DEF OnNavPaused, OnVisibilityHidden, ScrubTo, Skip, Clear
<1>15. CASE TogglePlay
  BY <1>15 DEF TogglePlay
<1>16. CASE ScrubEnd
  BY <1>16 DEF ScrubEnd
<1>17. ASSUME NEW reshaped \in BOOLEAN, OnNavSettled(reshaped) PROVE FlagsOK'
  BY <1>17 DEF OnNavSettled, Rebuild, PayOwed
<1>18. ASSUME NEW stale \in BOOLEAN, OnVisibilityVisible(stale) PROVE FlagsOK'
  BY <1>18 DEF OnVisibilityVisible, Rebuild, PayOwed
<1>19. CASE UNCHANGED vars
  BY <1>19 DEF vars
<1>20. QED
  BY <1>1, <1>2, <1>3, <1>4, <1>5, <1>6, <1>7, <1>8, <1>9, <1>10, <1>11, <1>12, <1>13,
     <1>14, <1>15, <1>16, <1>17, <1>18, <1>19
  DEF Next, InitStep, UpdateStep, TileEvent, CardCall

\* What a rebuild leaves behind has its type.
LEMMA RebuildTypes ==
  ASSUME TypeOK, Rebuild
  PROVE  /\ gen' \in Nat /\ loaded' \in Nat /\ ticks' \in Nat
         /\ inits' \subseteq InitTask /\ flight' \in Nat \cup {NoGen}
<1>1. Task(gen + 2, "listing", 0) \in InitTask
  BY DEF Task, InitTask, TypeOK
<1>2. gen' \in Nat /\ loaded' \in Nat /\ ticks' \in Nat /\ flight' \in Nat \cup {NoGen}
  BY DEF Rebuild, TypeOK, StopLoop
<1>3. inits' \subseteq InitTask
  BY <1>1 DEF Rebuild, TypeOK
<1>4. QED
  BY <1>2, <1>3

\* Arming the update timer keeps the types of the timers and of the handle.
LEMMA ScheduleTypes ==
  ASSUME TypeOK, ScheduleUpdate
  PROVE  timers' \in [TimerIds -> Nat \cup {NoGen}] /\ handle' \in TimerIds \cup {NoTimer}
<1>1. Cancelled \in [TimerIds -> Nat \cup {NoGen}]
  BY DEF Cancelled, TypeOK
<1>2. PICK t \in TimerIds : timers' = [Cancelled EXCEPT ![t] = gen] /\ handle' = t
  BY DEF ScheduleUpdate
<1>3. QED
  BY <1>1, <1>2 DEF TypeOK

\* A task that is not the current init's leaves _initInFlight of a known type.
LEMMA EndInitTypes ==
  ASSUME TypeOK, NEW i, EndInit(i)
  PROVE  inits' \subseteq InitTask /\ flight' \in Nat \cup {NoGen}
  BY DEF EndInit, TypeOK

\* So has what the tail of an init leaves behind.
LEMMA FinishInitTypes ==
  ASSUME TypeOK, NEW i, NEW n \in Nat, FinishInit(i, n)
  PROVE  /\ inits' \subseteq InitTask /\ flight' \in Nat \cup {NoGen}
         /\ timers' \in [TimerIds -> Nat \cup {NoGen}] /\ handle' \in TimerIds \cup {NoTimer}
         /\ retry' \in Nat \cup {NoGen}
<1>1. inits' \subseteq InitTask /\ flight' \in Nat \cup {NoGen}
  BY EndInitTypes DEF FinishInit
<1>2. CASE n > 0
  BY <1>1, <1>2, ScheduleTypes DEF FinishInit, TypeOK
<1>3. CASE ~(n > 0)
  BY <1>1, <1>3 DEF FinishInit, TypeOK
<1>4. QED
  BY <1>2, <1>3

\* So has what the init's step to its next frame leaves behind.
LEMMA NextFrameTypes ==
  ASSUME TypeOK, NEW i, NEW n \in Nat, NEW remaining \in Nat, NEW nowReady,
         NextFrame(i, remaining, n, nowReady)
  PROVE  /\ inits' \subseteq InitTask /\ flight' \in Nat \cup {NoGen}
         /\ timers' \in [TimerIds -> Nat \cup {NoGen}] /\ handle' \in TimerIds \cup {NoTimer}
         /\ retry' \in Nat \cup {NoGen}
<1>1. CASE remaining > 0 \/ (Motion /\ n > 0)
  <2>1. Task(gen, IF remaining > 0 THEN "frames" ELSE "snapshots", remaining) \in InitTask
    BY DEF Task, InitTask, TypeOK
  <2>2. inits' \subseteq InitTask
    BY <1>1, <2>1 DEF NextFrame, TypeOK
  <2>3. QED
    BY <1>1, <2>2 DEF NextFrame, TypeOK
<1>2. CASE ~(remaining > 0 \/ (Motion /\ n > 0))
  BY <1>2, FinishInitTypes DEF NextFrame
<1>3. QED
  BY <1>1, <1>2

\* Every step keeps every type.
LEMMA TypeInductive == TypeOK /\ [Next]_vars => TypeOK'
<1> SUFFICES ASSUME TypeOK, [Next]_vars PROVE TypeOK'
  OBVIOUS
<1> DEFINE DataOK ==
      /\ gen \in Nat /\ loaded \in Nat /\ ticks \in Nat
      /\ inits \subseteq InitTask
      /\ flight \in Nat \cup {NoGen} /\ retry \in Nat \cup {NoGen}
      /\ updates \in [UpdateSlots -> Nat \cup {NoGen}]
      /\ shifts \in [ShiftSlots -> Nat \cup {NoGen}]
      /\ timers \in [TimerIds -> Nat \cup {NoGen}]
      /\ handle \in TimerIds \cup {NoTimer}
<1>0. DataOK
  BY DEF TypeOK
<1> SUFFICES DataOK'
  BY FlagsInductive DEF TypeOK
<1> USE DEF NoGen, tasks, clocks
<1>1. ASSUME NEW i \in inits, InitListingFails(i) PROVE DataOK'
  BY <1>0, <1>1, EndInitTypes DEF InitListingFails
<1>2. ASSUME NEW i \in inits, InitListingArrives(i) PROVE DataOK'
  <2>1. PICK n \in 1..MaxFrames : inits' = (inits \ {i}) \cup {Task(gen, "frames", n)}
    BY <1>2 DEF InitListingArrives
  <2>2. Task(gen, "frames", n) \in InitTask
    BY <1>0, ConstantsAssumption DEF Task, InitTask
  <2>3. inits' \subseteq InitTask
    BY <1>0, <2>1, <2>2
  <2>4. QED
    BY <1>0, <1>2, <2>3 DEF InitListingArrives
<1>3. ASSUME NEW i \in inits, InitFrameLoads(i) PROVE DataOK'
  <2>1. loaded + 1 \in Nat /\ i.left - 1 \in Nat
    BY <1>0, <1>3 DEF InitTask, InitFrameLoads
  <2>2. loaded' \in Nat /\ ticks' \in Nat
    BY <1>0, <1>3 DEF InitFrameLoads, StartLoop
  <2>3. QED
    BY <1>0, <1>3, <2>1, <2>2, NextFrameTypes DEF InitFrameLoads
<1>4. ASSUME NEW i \in inits, InitFrameFails(i) PROVE DataOK'
  <2>1. PICK remaining \in 0..(i.left - 1) : NextFrame(i, remaining, loaded, ready)
    BY <1>4 DEF InitFrameFails
  <2>2. remaining \in Nat
    BY <1>0 DEF InitTask
  <2>3. QED
    BY <1>0, <1>4, <2>1, <2>2, NextFrameTypes DEF InitFrameFails
<1>5. ASSUME NEW i \in inits, InitDedups(i) PROVE DataOK'
  <2>1. PICK kept \in 0..loaded :
          /\ loaded' = kept
          /\ IF run /\ ready /\ loaded >= 2 THEN StartLoop(kept) ELSE UNCHANGED ticks
          /\ FinishInit(i, kept)
    BY <1>5 DEF InitDedups
  <2>2. kept \in Nat /\ loaded' \in Nat
    BY <1>0, <2>1
  <2>3. ticks' \in Nat
    BY <1>0, <2>1 DEF StartLoop
  <2>4. QED
    BY <1>0, <1>5, <2>1, <2>2, <2>3, FinishInitTypes DEF InitDedups
<1>6. ASSUME NEW i \in inits, InitSuperseded(i) PROVE DataOK'
  BY <1>0, <1>6, EndInitTypes DEF InitSuperseded
<1>7. ASSUME NEW u \in UpdateSlots, UpdateSuperseded(u) PROVE DataOK'
  BY <1>0, <1>7 DEF UpdateSuperseded, EndUpdate
<1>8. ASSUME NEW u \in UpdateSlots, UpdateFails(u) \/ UpdateFindsNothing(u) PROVE DataOK'
  <2>1. ScheduleUpdate /\ EndUpdate(u)
    BY <1>8 DEF UpdateFails, UpdateFindsNothing
  <2>2. updates' \in [UpdateSlots -> Nat \cup {NoGen}]
    BY <1>0, <2>1 DEF EndUpdate
  <2>3. QED
    BY <1>0, <1>8, <2>1, <2>2, ScheduleTypes DEF UpdateFails, UpdateFindsNothing
<1>9. ASSUME NEW u \in UpdateSlots, UpdateRebuilds(u) PROVE DataOK'
  <2>1. updates' \in [UpdateSlots -> Nat \cup {NoGen}]
    BY <1>0, <1>9 DEF UpdateRebuilds, EndUpdate
  <2>2. QED
    BY <1>0, <1>9, <2>1, RebuildTypes DEF UpdateRebuilds
<1>10. ASSUME NEW u \in UpdateSlots, UpdateShifts(u) PROVE DataOK'
  <2>1. PICK fresh \in SUBSET {s \in ShiftSlots : shifts[s] = NoGen} :
          /\ shifts' = [s \in ShiftSlots |-> IF s \in fresh THEN gen ELSE shifts[s]]
          /\ \E dropped \in 0..Cardinality(fresh) : dropped <= loaded /\ loaded' = loaded - dropped
    BY <1>10 DEF UpdateShifts
  <2>2. loaded' \in Nat
    BY <1>0, <2>1
  <2>3. shifts' \in [ShiftSlots -> Nat \cup {NoGen}]
    BY <1>0, <2>1
  <2>4. updates' \in [UpdateSlots -> Nat \cup {NoGen}] /\ ticks' \in Nat
    BY <1>0, <1>10 DEF UpdateShifts, EndUpdate, StopLoop
  <2>5. QED
    BY <1>0, <1>10, <2>2, <2>3, <2>4, ScheduleTypes DEF UpdateShifts
<1>11. ASSUME NEW s \in ShiftSlots, ShiftLoads(s) PROVE DataOK'
  <2>1. loaded' \in Nat /\ ticks' \in Nat
    BY <1>0, <1>11 DEF ShiftLoads, StartLoop
  <2>2. shifts' \in [ShiftSlots -> Nat \cup {NoGen}]
    BY <1>0, <1>11 DEF ShiftLoads
  <2>3. QED
    BY <1>0, <1>11, <2>1, <2>2 DEF ShiftLoads
<1>12. ASSUME NEW t \in TimerIds, UpdateTimerFires(t) PROVE DataOK'
  <2>1. updates' \in [UpdateSlots -> Nat \cup {NoGen}]
    BY <1>0, <1>12 DEF UpdateTimerFires, StartUpdate
  <2>2. QED
    BY <1>0, <1>12, <2>1 DEF UpdateTimerFires
<1>13. CASE RetryTimerFires
  BY <1>0, <1>13, RebuildTypes DEF RetryTimerFires
<1>14. CASE RateLimitTimerFires
  BY <1>0, <1>14, RebuildTypes DEF RateLimitTimerFires
<1>15. CASE Tick
  BY <1>0, <1>15 DEF Tick
<1>16. CASE OnRateLimited \/ OnServerError \/ OnTileRecovered
  BY <1>0, <1>16 DEF OnRateLimited, OnServerError, OnTileRecovered
<1>17. CASE OnNoaaLayerMissing
  BY <1>0, <1>17, RebuildTypes DEF OnNoaaLayerMissing
<1>18. CASE OnNavPaused \/ OnVisibilityHidden \/ ScrubTo \/ Skip
  BY <1>0, <1>18 DEF OnNavPaused, OnVisibilityHidden, ScrubTo, Skip, StopLoop
<1>19. CASE TogglePlay \/ ScrubEnd
  <2>1. ticks' \in Nat
    BY <1>0, <1>19 DEF TogglePlay, ScrubEnd, StartLoop, StopLoop
  <2>2. QED
    BY <1>0, <1>19, <2>1 DEF TogglePlay, ScrubEnd
<1>20. ASSUME PayOwed PROVE updates' \in [UpdateSlots -> Nat \cup {NoGen}]
  BY <1>0, <1>20 DEF PayOwed, StartUpdate
<1>21. ASSUME NEW reshaped \in BOOLEAN, OnNavSettled(reshaped) PROVE DataOK'
  <2>1. CASE Rebuild
    BY <1>0, <1>20, <1>21, <2>1, RebuildTypes DEF OnNavSettled
  <2>2. CASE ~Rebuild
    <3>1. ticks' \in Nat
      BY <1>0, <1>21, <2>2 DEF OnNavSettled, StartLoop
    <3>2. QED
      BY <1>0, <1>20, <1>21, <2>2, <3>1 DEF OnNavSettled
  <2>3. QED
    BY <2>1, <2>2
<1>22. ASSUME NEW stale \in BOOLEAN, OnVisibilityVisible(stale) PROVE DataOK'
  <2>1. CASE Rebuild
    BY <1>0, <1>20, <1>22, <2>1, RebuildTypes DEF OnVisibilityVisible
  <2>2. CASE ~Rebuild
    <3>1. ticks' \in Nat
      BY <1>0, <1>22, <2>2 DEF OnVisibilityVisible, StartLoop
    <3>2. QED
      BY <1>0, <1>20, <1>22, <2>2, <3>1 DEF OnVisibilityVisible
  <2>3. QED
    BY <2>1, <2>2
<1>23. CASE Clear
  BY <1>0, <1>23 DEF Clear, Cancelled, StopLoop
<1>24. CASE UNCHANGED vars
  BY <1>0, <1>24 DEF vars
<1>25. QED
  BY <1>1, <1>2, <1>3, <1>4, <1>5, <1>6, <1>7, <1>8, <1>9, <1>10, <1>11, <1>12, <1>13,
     <1>14, <1>15, <1>16, <1>17, <1>18, <1>19, <1>21, <1>22, <1>23, <1>24
  DEF Next, InitStep, UpdateStep, ShiftStep, TimerStep, TileEvent, CardCall
-----------------------------------------------------------------------------
(* What the helpers of the actions do to a state that satisfies IInv.      *)

\* The update timers after _scheduleUpdate: t is the only one armed.
Armed(t) == handle' = t /\ timers' = [x \in TimerIds |-> IF x = t THEN gen ELSE NoGen]

\* Cancelling through the handle leaves no update timer armed.
LEMMA CancelledIsQuiet ==
  ASSUME TypeOK, SingleUpdateChain
  PROVE  Cancelled = [t \in TimerIds |-> NoGen]
BY DEF Cancelled, SingleUpdateChain, TypeOK

\* _scheduleUpdate leaves exactly one update timer armed, the one it can cancel.
LEMMA ScheduleArms ==
  ASSUME IInv, ScheduleUpdate
  PROVE  \E t \in TimerIds : Armed(t)
<1>1. PICK t \in TimerIds : timers' = [Cancelled EXCEPT ![t] = gen] /\ handle' = t
  BY DEF ScheduleUpdate
<1>2. timers' = [x \in TimerIds |-> IF x = t THEN gen ELSE NoGen]
  BY <1>1, CancelledIsQuiet DEF IInv
<1>3. QED
  BY <1>1, <1>2 DEF Armed

\* The current init ends: either it armed the update chain or it will be retried.
InitEnds(i, n) ==
  /\ inits' = inits \ {i} /\ flight' = NoGen
  /\ \/ n > 0 /\ ready' = TRUE /\ retry' = retry /\ \E t \in TimerIds : Armed(t)
     \/ n = 0 /\ ready' = ready /\ retry' = gen /\ timers' = timers /\ handle' = handle

\* The current init goes on.
InitGoesOn(i, nowReady) ==
  /\ \E task \in InitTask : task.gen = gen /\ inits' = (inits \ {i}) \cup {task}
  /\ ready' = nowReady /\ flight' = flight /\ retry' = retry /\ timers' = timers /\ handle' = handle

\* The tail of the current init clears the flag and hands the refresh on.
LEMMA FinishInitEnds ==
  ASSUME IInv, NEW i \in inits, i.gen = gen, NEW n \in Nat, FinishInit(i, n)
  PROVE  InitEnds(i, n)
<1>1. flight = gen
  BY DEF IInv, FlightFlagExact, LiveInit, InitInFlight
<1>2. inits' = inits \ {i} /\ flight' = NoGen
  BY <1>1 DEF FinishInit, EndInit
<1>3. CASE n > 0
  BY <1>2, <1>3, ScheduleArms DEF FinishInit, InitEnds
<1>4. CASE n = 0
  BY <1>2, <1>4 DEF FinishInit, InitEnds
<1>5. QED
  BY <1>3, <1>4

\* After a frame the current init goes on or ends.
LEMMA NextFrameCases ==
  ASSUME IInv, NEW i \in inits, i.gen = gen, NEW n \in Nat, NEW remaining \in Nat, NEW nowReady,
         NextFrame(i, remaining, n, nowReady)
  PROVE  InitGoesOn(i, nowReady) \/ InitEnds(i, n)
<1>1. CASE remaining > 0 \/ (Motion /\ n > 0)
  <2>1. Task(gen, IF remaining > 0 THEN "frames" ELSE "snapshots", remaining) \in InitTask
    BY DEF Task, InitTask, IInv, TypeOK
  <2>2. Task(gen, IF remaining > 0 THEN "frames" ELSE "snapshots", remaining).gen = gen
    BY DEF Task
  <2>3. QED
    BY <1>1, <2>1, <2>2 DEF NextFrame, InitGoesOn
<1>2. CASE ~(remaining > 0 \/ (Motion /\ n > 0))
  BY <1>2, FinishInitEnds DEF NextFrame
<1>3. QED
  BY <1>1, <1>2

\* The init's own steps, seen from outside: the frame settles or the frames are dedup'd.
LEMMA InitMoves ==
  ASSUME IInv, NEW i \in inits, InitFrameLoads(i) \/ InitFrameFails(i) \/ InitDedups(i)
  PROVE  /\ i.gen = gen /\ gen' = gen /\ updates' = updates /\ shifts' = shifts
         /\ run' = run /\ navPaused' = navPaused /\ viewPaused' = viewPaused
         /\ scrubbing' = scrubbing /\ owed' = owed /\ cleared' = cleared /\ rateTimer' = rateTimer
         /\ \E n \in Nat, nowReady \in BOOLEAN :
              /\ (ready => nowReady) /\ n = loaded'
              /\ loaded' >= 2 => nowReady \/ InitEnds(i, n)
              /\ InitGoesOn(i, nowReady) \/ InitEnds(i, n)
<1>0. loaded \in Nat /\ ready \in BOOLEAN /\ i \in InitTask /\ (loaded >= 2 => ready)
  BY DEF IInv, TypeOK, FlagsOK, RefreshMeansReady
<1> USE DEF pauses, outage
<1>1. CASE InitFrameLoads(i)
  <2>1. loaded + 1 \in Nat /\ i.left - 1 \in Nat
    BY <1>0, <1>1 DEF InitTask, InitFrameLoads
  <2>2. InitGoesOn(i, ready \/ loaded + 1 >= 2) \/ InitEnds(i, loaded + 1)
    BY <1>1, <2>1, NextFrameCases DEF InitFrameLoads
  <2>3. (ready \/ loaded + 1 >= 2) \in BOOLEAN
    OBVIOUS
  <2>4. QED
    BY <1>1, <2>1, <2>2, <2>3 DEF InitFrameLoads
<1>2. CASE InitFrameFails(i)
  <2>1. PICK remaining \in 0..(i.left - 1) : NextFrame(i, remaining, loaded, ready)
    BY <1>2 DEF InitFrameFails
  <2>2. remaining \in Nat
    BY <1>0 DEF InitTask
  <2>3. InitGoesOn(i, ready) \/ InitEnds(i, loaded)
    BY <1>0, <1>2, <2>1, <2>2, NextFrameCases DEF InitFrameFails
  <2>4. QED
    BY <1>0, <1>2, <2>3 DEF InitFrameFails
<1>3. CASE InitDedups(i)
  <2>1. PICK kept \in 0..loaded : loaded' = kept /\ FinishInit(i, kept)
    BY <1>3 DEF InitDedups
  <2>2. InitEnds(i, kept)
    BY <1>0, <1>3, <2>1, FinishInitEnds DEF InitDedups
  <2>3. QED
    BY <1>0, <1>3, <2>1, <2>2 DEF InitDedups
<1>4. QED
  BY <1>1, <1>2, <1>3

\* A rebuild leaves exactly one init of the new generation, and the flag names it.
LEMMA RebuildFlight ==
  ASSUME IInv, Rebuild
  PROVE  FlightFlagExact' /\ LiveInit'
<1> DEFINE new == Task(gen + 2, "listing", 0)
<1>1. gen' = gen + 2 /\ flight' = gen' /\ inits' = inits \cup {new} /\ new.gen = gen'
  BY DEF Rebuild, Task
<1>2. \A i \in inits : i.gen \in Nat /\ i.gen <= gen /\ gen \in Nat
  BY DEF IInv, TypeOK, InitTask, StampsInThePast
<1>3. \A i \in inits : i.gen # gen'
  BY <1>1, <1>2
<1>4. LiveInit' /\ InitInFlight'
  BY <1>1 DEF LiveInit, InitInFlight
<1>5. \A i, j \in inits' : i.gen = j.gen => i = j
  BY <1>1, <1>3 DEF IInv, FlightFlagExact
<1>6. QED
  BY <1>4, <1>5 DEF FlightFlagExact

-----------------------------------------------------------------------------
(* Each conjunct of IInv is preserved by every action.                     *)

\* Stamps stay in the past.
LEMMA StampsInductive == IInv /\ TypeOK' /\ [Next]_vars => StampsInThePast'
<1> SUFFICES ASSUME IInv, TypeOK', [Next]_vars PROVE StampsInThePast'
  OBVIOUS
<1>0. /\ gen \in Nat /\ inits \subseteq InitTask /\ timers \in [TimerIds -> Nat \cup {NoGen}]
      /\ updates \in [UpdateSlots -> Nat \cup {NoGen}]
      /\ shifts \in [ShiftSlots -> Nat \cup {NoGen}]
      /\ flight \in Nat \cup {NoGen} /\ retry \in Nat \cup {NoGen}
      /\ \A i \in inits : i.gen \in Nat
      /\ StampsInThePast
  BY DEF IInv, TypeOK, InitTask
<1> USE DEF StampsInThePast, NoGen, tasks, clocks
<1>1. ASSUME NEW i \in inits, InitListingFails(i) PROVE StampsInThePast'
  BY <1>1, <1>0
  DEF InitListingFails, EndInit
<1>2. ASSUME NEW i \in inits, InitListingArrives(i) PROVE StampsInThePast'
  BY <1>2, <1>0
  DEF InitListingArrives, Task
<1>3. ASSUME NEW i \in inits, InitFrameLoads(i) \/ InitFrameFails(i) \/ InitDedups(i)
      PROVE  StampsInThePast'
  <2>1. gen' = gen /\ updates' = updates /\ shifts' = shifts
    BY <1>3, InitMoves
  <2>2. PICK n \in Nat, nowReady \in BOOLEAN : InitGoesOn(i, nowReady) \/ InitEnds(i, n)
    BY <1>3, InitMoves
  <2>3. CASE InitGoesOn(i, nowReady)
    BY <1>0, <2>1, <2>3 DEF InitGoesOn
  <2>4. CASE InitEnds(i, n)
    BY <1>0, <2>1, <2>4 DEF InitEnds, Armed
  <2>5. QED
    BY <2>2, <2>3, <2>4
<1>4. ASSUME NEW i \in inits, InitSuperseded(i) PROVE StampsInThePast'
  BY <1>4, <1>0
  DEF InitSuperseded, EndInit
<1>5. ASSUME NEW u \in UpdateSlots, UpdateSuperseded(u) PROVE StampsInThePast'
  BY <1>5, <1>0
  DEF UpdateSuperseded, EndUpdate
<1>6. ASSUME NEW u \in UpdateSlots, UpdateFails(u) \/ UpdateFindsNothing(u) PROVE StampsInThePast'
  BY <1>6, <1>0, ScheduleArms
  DEF UpdateFails, UpdateFindsNothing, EndUpdate, Armed
<1>7. ASSUME NEW u \in UpdateSlots, UpdateRebuilds(u) PROVE StampsInThePast'
  BY <1>7, <1>0
  DEF UpdateRebuilds, EndUpdate, Rebuild, Task
<1>8. ASSUME NEW u \in UpdateSlots, UpdateShifts(u) PROVE StampsInThePast'
  BY <1>8, <1>0, ScheduleArms
  DEF UpdateShifts, EndUpdate, Armed
<1>9. ASSUME NEW s \in ShiftSlots, ShiftLoads(s) PROVE StampsInThePast'
  BY <1>9, <1>0
  DEF ShiftLoads
<1>10. ASSUME NEW t \in TimerIds, UpdateTimerFires(t) PROVE StampsInThePast'
  BY <1>10, <1>0
  DEF UpdateTimerFires, StartUpdate
<1>11. ASSUME RetryTimerFires PROVE StampsInThePast'
  BY <1>11, <1>0
  DEF RetryTimerFires, Rebuild, Task
<1>12. ASSUME RateLimitTimerFires PROVE StampsInThePast'
  BY <1>12, <1>0
  DEF RateLimitTimerFires, Rebuild, Task
<1>13. ASSUME Tick PROVE StampsInThePast'
  BY <1>13, <1>0
  DEF Tick
<1>14. ASSUME OnRateLimited \/ OnServerError \/ OnTileRecovered PROVE StampsInThePast'
  BY <1>14, <1>0
  DEF OnRateLimited, OnServerError, OnTileRecovered
<1>15. ASSUME OnNoaaLayerMissing PROVE StampsInThePast'
  BY <1>15, <1>0
  DEF OnNoaaLayerMissing, Rebuild, Task
<1>16. ASSUME OnNavPaused \/ OnVisibilityHidden \/ ScrubTo \/ Skip PROVE StampsInThePast'
  BY <1>16, <1>0
  DEF OnNavPaused, OnVisibilityHidden, ScrubTo, Skip
<1>17. ASSUME NEW reshaped \in BOOLEAN, OnNavSettled(reshaped) PROVE StampsInThePast'
  BY <1>17, <1>0
  DEF OnNavSettled, Rebuild, Task, PayOwed, StartUpdate
<1>18. ASSUME NEW stale \in BOOLEAN, OnVisibilityVisible(stale) PROVE StampsInThePast'
  BY <1>18, <1>0
  DEF OnVisibilityVisible, Rebuild, Task, PayOwed, StartUpdate
<1>19. ASSUME TogglePlay PROVE StampsInThePast'
  BY <1>19, <1>0
  DEF TogglePlay
<1>20. ASSUME ScrubEnd PROVE StampsInThePast'
  BY <1>20, <1>0
  DEF ScrubEnd
<1>21. ASSUME Clear PROVE StampsInThePast'
  BY <1>21, <1>0
  DEF Clear, Cancelled
<1>22. ASSUME UNCHANGED vars PROVE StampsInThePast'
  BY <1>22, <1>0
  DEF vars
<1>23. QED
  BY <1>1, <1>2, <1>3, <1>4, <1>5, <1>6, <1>7, <1>8, <1>9, <1>10, <1>11, <1>12, <1>13, <1>14,
     <1>15, <1>16, <1>17, <1>18, <1>19, <1>20, <1>21, <1>22
  DEF Next, InitStep, UpdateStep, ShiftStep, TimerStep, TileEvent, CardCall

\* Arming cancels first, so a second update timer never appears.
LEMMA ChainInductive == IInv /\ TypeOK' /\ [Next]_vars => SingleUpdateChain'
<1> SUFFICES ASSUME IInv, TypeOK', [Next]_vars PROVE SingleUpdateChain'
  OBVIOUS
<1>0. /\ timers \in [TimerIds -> Nat \cup {NoGen}] /\ SingleUpdateChain
  BY DEF IInv, TypeOK
<1> USE DEF SingleUpdateChain, NoGen, tasks, clocks
<1>1. ASSUME NEW i \in inits, InitListingFails(i) PROVE SingleUpdateChain'
  BY <1>1, <1>0
  DEF InitListingFails
<1>2. ASSUME NEW i \in inits, InitListingArrives(i) PROVE SingleUpdateChain'
  BY <1>2, <1>0
  DEF InitListingArrives
<1>3. ASSUME NEW i \in inits, InitFrameLoads(i) \/ InitFrameFails(i) \/ InitDedups(i)
      PROVE  SingleUpdateChain'
  <2>1. PICK n \in Nat, nowReady \in BOOLEAN : InitGoesOn(i, nowReady) \/ InitEnds(i, n)
    BY <1>3, InitMoves
  <2>2. QED
    BY <1>0, <2>1 DEF InitGoesOn, InitEnds, Armed
<1>4. ASSUME NEW i \in inits, InitSuperseded(i) PROVE SingleUpdateChain'
  BY <1>4, <1>0
  DEF InitSuperseded
<1>5. ASSUME NEW u \in UpdateSlots, UpdateSuperseded(u) PROVE SingleUpdateChain'
  BY <1>5, <1>0
  DEF UpdateSuperseded
<1>6. ASSUME NEW u \in UpdateSlots, UpdateFails(u) \/ UpdateFindsNothing(u)
      PROVE  SingleUpdateChain'
  BY <1>6, <1>0, ScheduleArms
  DEF UpdateFails, UpdateFindsNothing, Armed
<1>7. ASSUME NEW u \in UpdateSlots, UpdateRebuilds(u) PROVE SingleUpdateChain'
  BY <1>7, <1>0
  DEF UpdateRebuilds, Rebuild
<1>8. ASSUME NEW u \in UpdateSlots, UpdateShifts(u) PROVE SingleUpdateChain'
  BY <1>8, <1>0, ScheduleArms
  DEF UpdateShifts, Armed
<1>9. ASSUME NEW s \in ShiftSlots, ShiftLoads(s) PROVE SingleUpdateChain'
  BY <1>9, <1>0
  DEF ShiftLoads
<1>10. ASSUME NEW t \in TimerIds, UpdateTimerFires(t) PROVE SingleUpdateChain'
  BY <1>10, <1>0
  DEF UpdateTimerFires
<1>11. ASSUME RetryTimerFires PROVE SingleUpdateChain'
  BY <1>11, <1>0
  DEF RetryTimerFires
<1>12. ASSUME RateLimitTimerFires PROVE SingleUpdateChain'
  BY <1>12, <1>0
  DEF RateLimitTimerFires
<1>13. ASSUME Tick PROVE SingleUpdateChain'
  BY <1>13, <1>0
  DEF Tick
<1>14. ASSUME OnRateLimited \/ OnServerError \/ OnTileRecovered PROVE SingleUpdateChain'
  BY <1>14, <1>0
  DEF OnRateLimited, OnServerError, OnTileRecovered
<1>15. ASSUME OnNoaaLayerMissing PROVE SingleUpdateChain'
  BY <1>15, <1>0
  DEF OnNoaaLayerMissing
<1>16. ASSUME OnNavPaused \/ OnVisibilityHidden \/ ScrubTo \/ Skip PROVE SingleUpdateChain'
  BY <1>16, <1>0
  DEF OnNavPaused, OnVisibilityHidden, ScrubTo, Skip
<1>17. ASSUME NEW reshaped \in BOOLEAN, OnNavSettled(reshaped) PROVE SingleUpdateChain'
  BY <1>17, <1>0
  DEF OnNavSettled
<1>18. ASSUME NEW stale \in BOOLEAN, OnVisibilityVisible(stale) PROVE SingleUpdateChain'
  BY <1>18, <1>0
  DEF OnVisibilityVisible
<1>19. ASSUME TogglePlay PROVE SingleUpdateChain'
  BY <1>19, <1>0
  DEF TogglePlay
<1>20. ASSUME ScrubEnd PROVE SingleUpdateChain'
  BY <1>20, <1>0
  DEF ScrubEnd
<1>21. ASSUME Clear PROVE SingleUpdateChain'
  BY <1>21, <1>0, CancelledIsQuiet
  DEF Clear, IInv
<1>22. ASSUME UNCHANGED vars PROVE SingleUpdateChain'
  BY <1>22, <1>0
  DEF vars
<1>23. QED
  BY <1>1, <1>2, <1>3, <1>4, <1>5, <1>6, <1>7, <1>8, <1>9, <1>10, <1>11, <1>12, <1>13, <1>14,
     <1>15, <1>16, <1>17, <1>18, <1>19, <1>20, <1>21, <1>22
  DEF Next, InitStep, UpdateStep, ShiftStep, TimerStep, TileEvent, CardCall

\* _initInFlight tracks the current init.
LEMMA FlightInductive == IInv /\ TypeOK' /\ [Next]_vars => FlightFlagExact'
<1> SUFFICES ASSUME IInv, TypeOK', [Next]_vars PROVE FlightFlagExact'
  OBVIOUS
<1>0. /\ gen \in Nat /\ flight \in Nat \cup {NoGen} /\ \A i \in inits : i.gen \in Nat
      /\ StampsInThePast /\ FlightFlagExact
  BY DEF IInv, TypeOK, InitTask
<1> USE DEF FlightFlagExact, InitInFlight, LiveInit, StampsInThePast, NoGen, tasks, clocks
<1>1. ASSUME NEW i \in inits, InitListingFails(i) PROVE FlightFlagExact'
  BY <1>1, <1>0
  DEF InitListingFails, EndInit
<1>2. ASSUME NEW i \in inits, InitListingArrives(i) PROVE FlightFlagExact'
  <2>1. PICK n \in 1..MaxFrames : inits' = (inits \ {i}) \cup {Task(gen, "frames", n)}
    BY <1>2 DEF InitListingArrives
  <2>2. Task(gen, "frames", n).gen = gen
    BY DEF Task
  <2>3. QED
    BY <1>2, <1>0, <2>1, <2>2 DEF InitListingArrives
<1>3. ASSUME NEW i \in inits, InitFrameLoads(i) \/ InitFrameFails(i) \/ InitDedups(i)
      PROVE  FlightFlagExact'
  <2>1. i.gen = gen /\ gen' = gen
    BY <1>3, InitMoves
  <2>2. PICK n \in Nat, nowReady \in BOOLEAN : InitGoesOn(i, nowReady) \/ InitEnds(i, n)
    BY <1>3, InitMoves
  <2>3. CASE InitGoesOn(i, nowReady)
    <3>1. PICK task \in InitTask : task.gen = gen /\ inits' = (inits \ {i}) \cup {task} /\ flight' = flight
      BY <2>3 DEF InitGoesOn
    <3>2. QED
      BY <1>0, <2>1, <3>1
  <2>4. CASE InitEnds(i, n)
    BY <1>0, <2>1, <2>4 DEF InitEnds
  <2>5. QED
    BY <2>2, <2>3, <2>4
<1>4. ASSUME NEW i \in inits, InitSuperseded(i) PROVE FlightFlagExact'
  BY <1>4, <1>0
  DEF InitSuperseded, EndInit
<1>5. ASSUME NEW u \in UpdateSlots, UpdateSuperseded(u) PROVE FlightFlagExact'
  BY <1>5, <1>0
  DEF UpdateSuperseded
<1>6. ASSUME NEW u \in UpdateSlots, UpdateFails(u) \/ UpdateFindsNothing(u) PROVE FlightFlagExact'
  BY <1>6, <1>0
  DEF UpdateFails, UpdateFindsNothing
<1>7. ASSUME NEW u \in UpdateSlots, UpdateRebuilds(u) PROVE FlightFlagExact'
  BY <1>7, RebuildFlight DEF UpdateRebuilds
<1>8. ASSUME NEW u \in UpdateSlots, UpdateShifts(u) PROVE FlightFlagExact'
  BY <1>8, <1>0
  DEF UpdateShifts
<1>9. ASSUME NEW s \in ShiftSlots, ShiftLoads(s) PROVE FlightFlagExact'
  BY <1>9, <1>0
  DEF ShiftLoads
<1>10. ASSUME NEW t \in TimerIds, UpdateTimerFires(t) PROVE FlightFlagExact'
  BY <1>10, <1>0
  DEF UpdateTimerFires
<1>11. ASSUME RetryTimerFires PROVE FlightFlagExact'
  BY <1>11, <1>0, RebuildFlight
  DEF RetryTimerFires
<1>12. ASSUME RateLimitTimerFires PROVE FlightFlagExact'
  BY <1>12, <1>0, RebuildFlight
  DEF RateLimitTimerFires
<1>13. ASSUME Tick PROVE FlightFlagExact'
  BY <1>13, <1>0
  DEF Tick
<1>14. ASSUME OnRateLimited \/ OnServerError \/ OnTileRecovered PROVE FlightFlagExact'
  BY <1>14, <1>0
  DEF OnRateLimited, OnServerError, OnTileRecovered
<1>15. ASSUME OnNoaaLayerMissing PROVE FlightFlagExact'
  BY <1>15, <1>0, RebuildFlight
  DEF OnNoaaLayerMissing
<1>16. ASSUME OnNavPaused \/ OnVisibilityHidden \/ ScrubTo \/ Skip PROVE FlightFlagExact'
  BY <1>16, <1>0
  DEF OnNavPaused, OnVisibilityHidden, ScrubTo, Skip
<1>17. ASSUME NEW reshaped \in BOOLEAN, OnNavSettled(reshaped) PROVE FlightFlagExact'
  <2>1. CASE Rebuild
    BY <2>1, RebuildFlight
  <2>2. CASE ~Rebuild
    BY <1>17, <1>0, <2>2 DEF OnNavSettled
  <2>3. QED
    BY <2>1, <2>2
<1>18. ASSUME NEW stale \in BOOLEAN, OnVisibilityVisible(stale) PROVE FlightFlagExact'
  <2>1. CASE Rebuild
    BY <2>1, RebuildFlight
  <2>2. CASE ~Rebuild
    BY <1>18, <1>0, <2>2 DEF OnVisibilityVisible
  <2>3. QED
    BY <2>1, <2>2
<1>19. ASSUME TogglePlay PROVE FlightFlagExact'
  BY <1>19, <1>0
  DEF TogglePlay
<1>20. ASSUME ScrubEnd PROVE FlightFlagExact'
  BY <1>20, <1>0
  DEF ScrubEnd
<1>21. ASSUME Clear PROVE FlightFlagExact'
  BY <1>21, <1>0
  DEF Clear
<1>22. ASSUME UNCHANGED vars PROVE FlightFlagExact'
  BY <1>22, <1>0
  DEF vars
<1>23. QED
  BY <1>1, <1>2, <1>3, <1>4, <1>5, <1>6, <1>7, <1>8, <1>9, <1>10, <1>11, <1>12, <1>13, <1>14,
     <1>15, <1>16, <1>17, <1>18, <1>19, <1>20, <1>21, <1>22
  DEF Next, InitStep, UpdateStep, ShiftStep, TimerStep, TileEvent, CardCall

\* After the teardown every task is superseded, so none gets past its generation check.
LEMMA TornInductive == IInv /\ TypeOK' /\ [Next]_vars => (NothingLiveAfterClear /\ QuietAfterClear)'
<1> SUFFICES ASSUME IInv, TypeOK', [Next]_vars PROVE (NothingLiveAfterClear /\ QuietAfterClear)'
  OBVIOUS
<1>0. /\ gen \in Nat /\ flight \in Nat \cup {NoGen} /\ \A i \in inits : i.gen \in Nat
      /\ updates \in [UpdateSlots -> Nat \cup {NoGen}]
      /\ shifts \in [ShiftSlots -> Nat \cup {NoGen}]
      /\ timers \in [TimerIds -> Nat \cup {NoGen}]
      /\ loaded \in Nat
      /\ StampsInThePast /\ NothingLiveAfterClear /\ QuietAfterClear
  BY DEF IInv, TypeOK, InitTask
<1> USE DEF NothingLiveAfterClear, QuietAfterClear, LiveInit, Shifting, StampsInThePast, NoGen, tasks, clocks, outage, pauses
<1>1. ASSUME NEW i \in inits, InitListingFails(i)
      PROVE  (NothingLiveAfterClear /\ QuietAfterClear)'
  BY <1>1, <1>0
  DEF InitListingFails
<1>2. ASSUME NEW i \in inits, InitListingArrives(i)
      PROVE  (NothingLiveAfterClear /\ QuietAfterClear)'
  BY <1>2, <1>0
  DEF InitListingArrives
<1>3. ASSUME NEW i \in inits, InitFrameLoads(i) \/ InitFrameFails(i) \/ InitDedups(i)
      PROVE  (NothingLiveAfterClear /\ QuietAfterClear)'
  <2>1. ~cleared /\ cleared' = cleared
    BY <1>0, <1>3, InitMoves
  <2>2. QED
    BY <2>1
<1>4. ASSUME NEW i \in inits, InitSuperseded(i) PROVE (NothingLiveAfterClear /\ QuietAfterClear)'
  BY <1>4, <1>0
  DEF InitSuperseded, EndInit
<1>5. ASSUME NEW u \in UpdateSlots, UpdateSuperseded(u)
      PROVE  (NothingLiveAfterClear /\ QuietAfterClear)'
  BY <1>5, <1>0
  DEF UpdateSuperseded, EndUpdate
<1>6. ASSUME NEW u \in UpdateSlots, UpdateFails(u) \/ UpdateFindsNothing(u)
      PROVE  (NothingLiveAfterClear /\ QuietAfterClear)'
  BY <1>6, <1>0
  DEF UpdateFails, UpdateFindsNothing
<1>7. ASSUME NEW u \in UpdateSlots, UpdateRebuilds(u)
      PROVE  (NothingLiveAfterClear /\ QuietAfterClear)'
  BY <1>7, <1>0 DEF UpdateRebuilds
<1>8. ASSUME NEW u \in UpdateSlots, UpdateShifts(u)
      PROVE  (NothingLiveAfterClear /\ QuietAfterClear)'
  BY <1>8, <1>0
  DEF UpdateShifts
<1>9. ASSUME NEW s \in ShiftSlots, ShiftLoads(s) PROVE (NothingLiveAfterClear /\ QuietAfterClear)'
  BY <1>9, <1>0
  DEF ShiftLoads
<1>10. ASSUME NEW t \in TimerIds, UpdateTimerFires(t)
       PROVE  (NothingLiveAfterClear /\ QuietAfterClear)'
  BY <1>10, <1>0
  DEF UpdateTimerFires
<1>11. ASSUME RetryTimerFires PROVE (NothingLiveAfterClear /\ QuietAfterClear)'
  BY <1>11, <1>0 DEF RetryTimerFires
<1>12. ASSUME RateLimitTimerFires PROVE (NothingLiveAfterClear /\ QuietAfterClear)'
  BY <1>12, <1>0 DEF RateLimitTimerFires
<1>13. ASSUME Tick PROVE (NothingLiveAfterClear /\ QuietAfterClear)'
  BY <1>13, <1>0
  DEF Tick
<1>14. ASSUME OnRateLimited \/ OnServerError \/ OnTileRecovered
       PROVE  (NothingLiveAfterClear /\ QuietAfterClear)'
  BY <1>14, <1>0
  DEF OnRateLimited, OnServerError, OnTileRecovered, LayersAttached
<1>15. ASSUME OnNoaaLayerMissing PROVE (NothingLiveAfterClear /\ QuietAfterClear)'
  BY <1>15, <1>0
  DEF OnNoaaLayerMissing, LayersAttached
<1>16. ASSUME OnNavPaused \/ OnVisibilityHidden \/ ScrubTo \/ Skip
       PROVE  (NothingLiveAfterClear /\ QuietAfterClear)'
  BY <1>16, <1>0
  DEF OnNavPaused, OnVisibilityHidden, ScrubTo, Skip
<1>17. ASSUME NEW reshaped \in BOOLEAN, OnNavSettled(reshaped)
       PROVE  (NothingLiveAfterClear /\ QuietAfterClear)'
  BY <1>17, <1>0
  DEF OnNavSettled
<1>18. ASSUME NEW stale \in BOOLEAN, OnVisibilityVisible(stale)
       PROVE  (NothingLiveAfterClear /\ QuietAfterClear)'
  BY <1>18, <1>0
  DEF OnVisibilityVisible
<1>19. ASSUME TogglePlay PROVE (NothingLiveAfterClear /\ QuietAfterClear)'
  BY <1>19, <1>0
  DEF TogglePlay
<1>20. ASSUME ScrubEnd PROVE (NothingLiveAfterClear /\ QuietAfterClear)'
  BY <1>20, <1>0
  DEF ScrubEnd
<1>21. ASSUME Clear PROVE (NothingLiveAfterClear /\ QuietAfterClear)'
  <2>1. timers' = [t \in TimerIds |-> NoGen]
    BY <1>21, CancelledIsQuiet DEF Clear, IInv
  <2>2. QED
    BY <1>0, <1>21, <2>1 DEF Clear, StopLoop
<1>22. ASSUME UNCHANGED vars PROVE (NothingLiveAfterClear /\ QuietAfterClear)'
  BY <1>22, <1>0
  DEF vars
<1>23. QED
  BY <1>1, <1>2, <1>3, <1>4, <1>5, <1>6, <1>7, <1>8, <1>9, <1>10, <1>11, <1>12, <1>13, <1>14,
     <1>15, <1>16, <1>17, <1>18, <1>19, <1>20, <1>21, <1>22
  DEF Next, InitStep, UpdateStep, ShiftStep, TimerStep, TileEvent, CardCall

\* Nothing refreshes, and no loop of two frames exists, before the player is ready.
LEMMA ReadyInductive == IInv /\ TypeOK' /\ [Next]_vars => RefreshMeansReady'
<1> SUFFICES ASSUME IInv, TypeOK', [Next]_vars PROVE RefreshMeansReady'
  OBVIOUS
<1>0. /\ gen \in Nat /\ loaded \in Nat
      /\ updates \in [UpdateSlots -> Nat \cup {NoGen}]
      /\ shifts \in [ShiftSlots -> Nat \cup {NoGen}]
      /\ timers \in [TimerIds -> Nat \cup {NoGen}]
      /\ StampsInThePast /\ RefreshMeansReady
  BY DEF IInv, TypeOK
<1>00. ASSUME gen' = gen + 2 \/ gen' = gen + 1, loaded' = 0,
             updates' = updates \/ (\E u \in UpdateSlots : EndUpdate(u)), shifts' = shifts,
             timers' = timers \/ timers' = [t \in TimerIds |-> NoGen]
      PROVE  RefreshMeansReady'
  BY <1>0, <1>00 DEF EndUpdate, StampsInThePast, RefreshMeansReady, Shifting, NoGen
<1> USE DEF RefreshMeansReady, Shifting, NoGen, tasks, clocks, outage, pauses
<1>1. ASSUME NEW i \in inits, InitListingFails(i) PROVE RefreshMeansReady'
  BY <1>1, <1>0
  DEF InitListingFails
<1>2. ASSUME NEW i \in inits, InitListingArrives(i) PROVE RefreshMeansReady'
  BY <1>2, <1>0
  DEF InitListingArrives
<1>3. ASSUME NEW i \in inits, InitFrameLoads(i) \/ InitFrameFails(i) \/ InitDedups(i)
      PROVE  RefreshMeansReady'
  <2>1. i.gen = gen /\ gen' = gen /\ updates' = updates /\ shifts' = shifts /\ cleared' = cleared
    BY <1>3, InitMoves
  <2>2. PICK n \in Nat, nowReady \in BOOLEAN :
          /\ (ready => nowReady) /\ n = loaded' /\ (loaded' >= 2 => nowReady \/ InitEnds(i, n))
          /\ (InitGoesOn(i, nowReady) \/ InitEnds(i, n))
    BY <1>3, InitMoves
  <2>3. CASE InitEnds(i, n)
    BY <1>0, <1>3, <2>1, <2>2, <2>3 DEF InitEnds
  <2>4. CASE InitGoesOn(i, nowReady) /\ ~InitEnds(i, n)
    BY <1>0, <1>3, <2>1, <2>2, <2>4 DEF InitGoesOn
  <2>5. QED
    BY <2>2, <2>3, <2>4
<1>4. ASSUME NEW i \in inits, InitSuperseded(i) PROVE RefreshMeansReady'
  BY <1>4, <1>0
  DEF InitSuperseded
<1>5. ASSUME NEW u \in UpdateSlots, UpdateSuperseded(u) PROVE RefreshMeansReady'
  BY <1>5, <1>0
  DEF UpdateSuperseded, EndUpdate
<1>6. ASSUME NEW u \in UpdateSlots, UpdateFails(u) \/ UpdateFindsNothing(u)
      PROVE  RefreshMeansReady'
  BY <1>6, <1>0, ScheduleArms
  DEF UpdateFails, UpdateFindsNothing, EndUpdate, Armed
<1>7. ASSUME NEW u \in UpdateSlots, UpdateRebuilds(u) PROVE RefreshMeansReady'
  BY <1>7, <1>0, <1>00
  DEF UpdateRebuilds, Rebuild
<1>8. ASSUME NEW u \in UpdateSlots, UpdateShifts(u) PROVE RefreshMeansReady'
  BY <1>8, <1>0, ScheduleArms
  DEF UpdateShifts, EndUpdate, Armed
<1>9. ASSUME NEW s \in ShiftSlots, ShiftLoads(s) PROVE RefreshMeansReady'
  BY <1>9, <1>0
  DEF ShiftLoads
<1>10. ASSUME NEW t \in TimerIds, UpdateTimerFires(t) PROVE RefreshMeansReady'
  BY <1>10, <1>0
  DEF UpdateTimerFires, StartUpdate
<1>11. ASSUME RetryTimerFires PROVE RefreshMeansReady'
  BY <1>11, <1>0, <1>00
  DEF RetryTimerFires, Rebuild
<1>12. ASSUME RateLimitTimerFires PROVE RefreshMeansReady'
  BY <1>12, <1>0, <1>00
  DEF RateLimitTimerFires, Rebuild
<1>13. ASSUME Tick PROVE RefreshMeansReady'
  BY <1>13, <1>0
  DEF Tick
<1>14. ASSUME OnRateLimited \/ OnServerError \/ OnTileRecovered PROVE RefreshMeansReady'
  BY <1>14, <1>0
  DEF OnRateLimited, OnServerError, OnTileRecovered
<1>15. ASSUME OnNoaaLayerMissing PROVE RefreshMeansReady'
  BY <1>15, <1>0, <1>00
  DEF OnNoaaLayerMissing, Rebuild
<1>16. ASSUME OnNavPaused \/ OnVisibilityHidden \/ ScrubTo \/ Skip PROVE RefreshMeansReady'
  BY <1>16, <1>0
  DEF OnNavPaused, OnVisibilityHidden, ScrubTo, Skip
<1>17. ASSUME NEW reshaped \in BOOLEAN, OnNavSettled(reshaped) PROVE RefreshMeansReady'
  <2>1. CASE Rebuild
    BY <1>00, <1>17, <2>1 DEF OnNavSettled, Rebuild, Task, PayOwed
  <2>2. CASE ~Rebuild
    BY <1>17, <1>0, <2>2 DEF OnNavSettled, PayOwed, StartUpdate
  <2>3. QED
    BY <2>1, <2>2
<1>18. ASSUME NEW stale \in BOOLEAN, OnVisibilityVisible(stale) PROVE RefreshMeansReady'
  <2>1. CASE Rebuild
    BY <1>00, <1>18, <2>1 DEF OnVisibilityVisible, Rebuild, Task, PayOwed
  <2>2. CASE ~Rebuild
    BY <1>18, <1>0, <2>2 DEF OnVisibilityVisible, PayOwed, StartUpdate
  <2>3. QED
    BY <2>1, <2>2
<1>19. ASSUME TogglePlay PROVE RefreshMeansReady'
  BY <1>19, <1>0
  DEF TogglePlay
<1>20. ASSUME ScrubEnd PROVE RefreshMeansReady'
  BY <1>20, <1>0
  DEF ScrubEnd
<1>21. ASSUME Clear PROVE RefreshMeansReady'
  <2>1. timers' = [t \in TimerIds |-> NoGen]
    BY <1>21, CancelledIsQuiet DEF Clear, IInv
  <2>2. QED
    BY <1>00, <1>21, <2>1 DEF Clear
<1>22. ASSUME UNCHANGED vars PROVE RefreshMeansReady'
  BY <1>22, <1>0
  DEF vars
<1>23. QED
  BY <1>1, <1>2, <1>3, <1>4, <1>5, <1>6, <1>7, <1>8, <1>9, <1>10, <1>11, <1>12, <1>13, <1>14,
     <1>15, <1>16, <1>17, <1>18, <1>19, <1>20, <1>21, <1>22
  DEF Next, InitStep, UpdateStep, ShiftStep, TimerStep, TileEvent, CardCall

\* The full reinit is pending only for a rate limit.
LEMMA ReinitInductive == IInv /\ TypeOK' /\ [Next]_vars => ReinitOnlyForRateLimit'
<1> SUFFICES ASSUME IInv, TypeOK', [Next]_vars PROVE ReinitOnlyForRateLimit'
  OBVIOUS
<1>0. ReinitOnlyForRateLimit /\ FlagsOK
  BY DEF IInv, TypeOK
<1> USE DEF ReinitOnlyForRateLimit, FlagsOK, outage
<1>1. ASSUME NEW i \in inits, InitListingFails(i) PROVE ReinitOnlyForRateLimit'
  BY <1>1, <1>0
  DEF InitListingFails
<1>2. ASSUME NEW i \in inits, InitListingArrives(i) PROVE ReinitOnlyForRateLimit'
  BY <1>2, <1>0
  DEF InitListingArrives
<1>3. ASSUME NEW i \in inits, InitFrameLoads(i) \/ InitFrameFails(i) \/ InitDedups(i)
      PROVE  ReinitOnlyForRateLimit'
  BY <1>3, <1>0
  DEF InitFrameLoads, InitFrameFails, InitDedups
<1>4. ASSUME NEW i \in inits, InitSuperseded(i) PROVE ReinitOnlyForRateLimit'
  BY <1>4, <1>0
  DEF InitSuperseded
<1>5. ASSUME NEW u \in UpdateSlots, UpdateSuperseded(u) PROVE ReinitOnlyForRateLimit'
  BY <1>5, <1>0
  DEF UpdateSuperseded
<1>6. ASSUME NEW u \in UpdateSlots, UpdateFails(u) \/ UpdateFindsNothing(u)
      PROVE  ReinitOnlyForRateLimit'
  BY <1>6, <1>0
  DEF UpdateFails, UpdateFindsNothing
<1>7. ASSUME NEW u \in UpdateSlots, UpdateRebuilds(u) PROVE ReinitOnlyForRateLimit'
  BY <1>7, <1>0
  DEF UpdateRebuilds
<1>8. ASSUME NEW u \in UpdateSlots, UpdateShifts(u) PROVE ReinitOnlyForRateLimit'
  BY <1>8, <1>0
  DEF UpdateShifts
<1>9. ASSUME NEW s \in ShiftSlots, ShiftLoads(s) PROVE ReinitOnlyForRateLimit'
  BY <1>9, <1>0
  DEF ShiftLoads
<1>10. ASSUME NEW t \in TimerIds, UpdateTimerFires(t) PROVE ReinitOnlyForRateLimit'
  BY <1>10, <1>0
  DEF UpdateTimerFires
<1>11. ASSUME RetryTimerFires PROVE ReinitOnlyForRateLimit'
  BY <1>11, <1>0
  DEF RetryTimerFires
<1>12. ASSUME RateLimitTimerFires PROVE ReinitOnlyForRateLimit'
  BY <1>12, <1>0
  DEF RateLimitTimerFires
<1>13. ASSUME Tick PROVE ReinitOnlyForRateLimit'
  BY <1>13, <1>0
  DEF Tick
<1>14. ASSUME OnRateLimited \/ OnServerError \/ OnTileRecovered PROVE ReinitOnlyForRateLimit'
  BY <1>14, <1>0
  DEF OnRateLimited, OnServerError, OnTileRecovered
<1>15. ASSUME OnNoaaLayerMissing PROVE ReinitOnlyForRateLimit'
  BY <1>15, <1>0
  DEF OnNoaaLayerMissing
<1>16. ASSUME OnNavPaused \/ OnVisibilityHidden \/ ScrubTo \/ Skip PROVE ReinitOnlyForRateLimit'
  BY <1>16, <1>0
  DEF OnNavPaused, OnVisibilityHidden, ScrubTo, Skip
<1>17. ASSUME NEW reshaped \in BOOLEAN, OnNavSettled(reshaped) PROVE ReinitOnlyForRateLimit'
  BY <1>17, <1>0
  DEF OnNavSettled
<1>18. ASSUME NEW stale \in BOOLEAN, OnVisibilityVisible(stale) PROVE ReinitOnlyForRateLimit'
  BY <1>18, <1>0
  DEF OnVisibilityVisible
<1>19. ASSUME TogglePlay PROVE ReinitOnlyForRateLimit'
  BY <1>19, <1>0
  DEF TogglePlay
<1>20. ASSUME ScrubEnd PROVE ReinitOnlyForRateLimit'
  BY <1>20, <1>0
  DEF ScrubEnd
<1>21. ASSUME Clear PROVE ReinitOnlyForRateLimit'
  BY <1>21, <1>0
  DEF Clear
<1>22. ASSUME UNCHANGED vars PROVE ReinitOnlyForRateLimit'
  BY <1>22, <1>0
  DEF vars
<1>23. QED
  BY <1>1, <1>2, <1>3, <1>4, <1>5, <1>6, <1>7, <1>8, <1>9, <1>10, <1>11, <1>12, <1>13, <1>14,
     <1>15, <1>16, <1>17, <1>18, <1>19, <1>20, <1>21, <1>22
  DEF Next, InitStep, UpdateStep, ShiftStep, TimerStep, TileEvent, CardCall

\* Whatever carried the refresh hands it on.
LEMMA AliveInductive == IInv /\ TypeOK' /\ [Next]_vars => RefreshAlive'
<1> SUFFICES ASSUME IInv, TypeOK', [Next]_vars PROVE RefreshAlive'
  OBVIOUS
<1>0. /\ gen \in Nat /\ flight \in Nat \cup {NoGen}
      /\ updates \in [UpdateSlots -> Nat \cup {NoGen}]
      /\ timers \in [TimerIds -> Nat \cup {NoGen}]
      /\ FlagsOK /\ RefreshAlive /\ RefreshMeansReady /\ FlightFlagExact
  BY DEF IInv, TypeOK
<1>a. ASSUME gen' = gen, ScheduleUpdate PROVE RefreshAlive'
  BY <1>a, ScheduleArms DEF Armed, RefreshAlive
<1>b. ASSUME Rebuild PROVE RefreshAlive'
  BY <1>b, RebuildFlight DEF RefreshAlive
<1>c. ASSUME gen' = gen, cleared' = cleared, \A i \in inits : i \in inits', updates' = updates,
             timers' = timers, retry' = retry, ready' = ready, owed' = owed,
             ready => (navPaused => navPaused') /\ (viewPaused => viewPaused')
      PROVE  RefreshAlive'
  BY <1>0, <1>c DEF RefreshAlive, LiveInit
<1> USE DEF NoGen, tasks, clocks, outage, pauses
<1>1. ASSUME NEW i \in inits, InitListingFails(i) PROVE RefreshAlive'
  BY <1>1 DEF InitListingFails, RefreshAlive
<1>2. ASSUME NEW i \in inits, InitListingArrives(i) PROVE RefreshAlive'
  <2>1. PICK n \in 1..MaxFrames : inits' = (inits \ {i}) \cup {Task(gen, "frames", n)}
    BY <1>2 DEF InitListingArrives
  <2>2. Task(gen, "frames", n).gen = gen
    BY DEF Task
  <2>3. LiveInit'
    BY <1>2, <2>1, <2>2 DEF LiveInit, InitListingArrives
  <2>4. QED
    BY <2>3 DEF RefreshAlive
<1>3. ASSUME NEW i \in inits, InitFrameLoads(i) \/ InitFrameFails(i) \/ InitDedups(i)
      PROVE  RefreshAlive'
  <2>1. gen' = gen
    BY <1>3, InitMoves
  <2>2. PICK n \in Nat, nowReady \in BOOLEAN : InitGoesOn(i, nowReady) \/ InitEnds(i, n)
    BY <1>3, InitMoves
  <2>3. CASE InitGoesOn(i, nowReady)
    BY <2>1, <2>3 DEF InitGoesOn, LiveInit, RefreshAlive
  <2>4. CASE InitEnds(i, n)
    BY <2>1, <2>4 DEF InitEnds, Armed, RefreshAlive
  <2>5. QED
    BY <2>2, <2>3, <2>4
<1>4. ASSUME NEW i \in inits, InitSuperseded(i) PROVE RefreshAlive'
  <2>1. LiveInit => LiveInit'
    BY <1>4 DEF InitSuperseded, EndInit, LiveInit
  <2>2. QED
    BY <1>4, <1>0, <2>1 DEF InitSuperseded, RefreshAlive
<1>5. ASSUME NEW u \in UpdateSlots, UpdateSuperseded(u) PROVE RefreshAlive'
  <2>1. \A v \in UpdateSlots : updates[v] = gen => updates'[v] = gen
    BY <1>5, <1>0 DEF UpdateSuperseded, EndUpdate
  <2>2. QED
    BY <1>5, <1>0, <2>1 DEF UpdateSuperseded, RefreshAlive, LiveInit
<1>6. ASSUME NEW u \in UpdateSlots, UpdateFails(u) \/ UpdateFindsNothing(u) PROVE RefreshAlive'
  BY <1>6, <1>a DEF UpdateFails, UpdateFindsNothing
<1>7. ASSUME NEW u \in UpdateSlots, UpdateRebuilds(u) PROVE RefreshAlive'
  BY <1>7, <1>b DEF UpdateRebuilds
<1>8. ASSUME NEW u \in UpdateSlots, UpdateShifts(u) PROVE RefreshAlive'
  BY <1>8, <1>a DEF UpdateShifts
<1>9. ASSUME NEW s \in ShiftSlots, ShiftLoads(s) PROVE RefreshAlive'
  BY <1>9, <1>c DEF ShiftLoads
<1>10. ASSUME NEW t \in TimerIds, UpdateTimerFires(t) PROVE RefreshAlive'
  <2>1. CASE timers[t] # gen
    <3>1. \A x \in TimerIds : timers[x] = gen => timers'[x] = gen
      BY <1>10, <1>0, <2>1 DEF UpdateTimerFires
    <3>2. QED
      BY <1>10, <1>0, <2>1, <3>1 DEF UpdateTimerFires, RefreshAlive, LiveInit
  <2>2. CASE timers[t] = gen /\ ready /\ ~navPaused /\ ~Hidden
    <3>1. \E u \in UpdateSlots : updates'[u] = gen'
      BY <1>10, <1>0, <2>2 DEF UpdateTimerFires, StartUpdate
    <3>2. QED
      BY <3>1 DEF RefreshAlive
  <2>3. CASE timers[t] = gen /\ (~ready \/ navPaused \/ Hidden)
    <3>1. ready
      BY <1>0, <2>3 DEF RefreshMeansReady
    <3>2. owed' /\ ready' = ready /\ navPaused' = navPaused /\ viewPaused' = viewPaused
      BY <1>10, <2>3 DEF UpdateTimerFires
    <3>3. QED
      BY <2>3, <3>1, <3>2 DEF RefreshAlive, Hidden
  <2>4. QED
    BY <2>1, <2>2, <2>3
<1>11. ASSUME RetryTimerFires PROVE RefreshAlive'
  <2>1. CASE Rebuild
    BY <1>b, <2>1
  <2>2. CASE ~Rebuild
    BY <1>11, <1>0, <2>2 DEF RetryTimerFires, RefreshAlive, LiveInit
  <2>3. QED
    BY <2>1, <2>2
<1>12. ASSUME RateLimitTimerFires PROVE RefreshAlive'
  BY <1>12, <1>b DEF RateLimitTimerFires
<1>13. ASSUME Tick PROVE RefreshAlive'
  BY <1>13, <1>c DEF Tick
<1>14. ASSUME OnRateLimited \/ OnServerError \/ OnTileRecovered PROVE RefreshAlive'
  BY <1>14, <1>c DEF OnRateLimited, OnServerError, OnTileRecovered
<1>15. ASSUME OnNoaaLayerMissing PROVE RefreshAlive'
  BY <1>15, <1>b DEF OnNoaaLayerMissing
<1>16. ASSUME OnNavPaused \/ OnVisibilityHidden \/ ScrubTo \/ Skip PROVE RefreshAlive'
  <2>1. /\ (navPaused => navPaused') /\ (viewPaused => viewPaused') /\ owed' = owed /\ ready' = ready
        /\ cleared' = cleared /\ gen' = gen
        /\ UNCHANGED <<inits, updates, timers, retry>>
    BY <1>16, <1>0 DEF OnNavPaused, OnVisibilityHidden, ScrubTo, Skip, FlagsOK
  <2>2. QED
    BY <1>c, <2>1
<1>17. ASSUME NEW reshaped \in BOOLEAN, OnNavSettled(reshaped) PROVE RefreshAlive'
  <2>1. CASE Rebuild
    BY <1>b, <2>1
  <2>2. CASE InitInFlight /\ ~Rebuild
    <3>1. LiveInit /\ inits' = inits /\ gen' = gen
      BY <1>17, <1>0, <2>2 DEF OnNavSettled, FlightFlagExact
    <3>2. QED
      BY <3>1 DEF LiveInit, RefreshAlive
  <2>3. CASE ~InitInFlight /\ ~Rebuild
    <3>1. PayOwed /\ UNCHANGED <<gen, ready, inits, timers, retry, cleared>>
      BY <1>17, <2>3 DEF OnNavSettled
    <3>2. CASE owed
      BY <1>0, <3>1, <3>2 DEF PayOwed, StartUpdate, RefreshAlive
    <3>3. CASE ~owed
      BY <1>0, <3>1, <3>3 DEF PayOwed, RefreshAlive, LiveInit
    <3>4. QED
      BY <3>2, <3>3
  <2>4. QED
    BY <2>1, <2>2, <2>3
<1>18. ASSUME NEW stale \in BOOLEAN, OnVisibilityVisible(stale) PROVE RefreshAlive'
  <2>1. CASE Rebuild
    BY <1>b, <2>1
  <2>2. CASE ~ready
    <3>1. UNCHANGED <<gen, ready, inits, updates, timers, retry, cleared>>
      BY <1>18, <2>2 DEF OnVisibilityVisible
    <3>2. QED
      BY <1>0, <2>2, <3>1 DEF RefreshAlive, LiveInit
  <2>3. CASE ready /\ ~Rebuild
    <3>1. PayOwed /\ UNCHANGED <<gen, ready, inits, timers, retry, cleared>>
      BY <1>18, <2>3 DEF OnVisibilityVisible
    <3>2. CASE owed
      BY <1>0, <3>1, <3>2 DEF PayOwed, StartUpdate, RefreshAlive
    <3>3. CASE ~owed
      BY <1>0, <3>1, <3>3 DEF PayOwed, RefreshAlive, LiveInit
    <3>4. QED
      BY <3>2, <3>3
  <2>4. QED
    BY <2>1, <2>2, <2>3
<1>19. ASSUME TogglePlay PROVE RefreshAlive'
  BY <1>19, <1>c DEF TogglePlay
<1>20. ASSUME ScrubEnd PROVE RefreshAlive'
  BY <1>20, <1>c DEF ScrubEnd
<1>21. ASSUME Clear PROVE RefreshAlive'
  BY <1>21 DEF Clear, RefreshAlive
<1>22. ASSUME UNCHANGED vars PROVE RefreshAlive'
  BY <1>22, <1>c DEF vars
<1>23. QED
  BY <1>1, <1>2, <1>3, <1>4, <1>5, <1>6, <1>7, <1>8, <1>9, <1>10, <1>11, <1>12, <1>13, <1>14,
     <1>15, <1>16, <1>17, <1>18, <1>19, <1>20, <1>21, <1>22
  DEF Next, InitStep, UpdateStep, ShiftStep, TimerStep, TileEvent, CardCall

\* Every step keeps the playback timeout in line with what is loaded and paused.
LEMMA TickInductive == IInv /\ TypeOK' /\ [Next]_vars => (PlayingMeansTicking /\ TickFindsFrames)'
<1> SUFFICES ASSUME IInv, TypeOK', [Next]_vars PROVE (PlayingMeansTicking /\ TickFindsFrames)'
  OBVIOUS
<1>0. /\ gen \in Nat /\ loaded \in Nat /\ ticks \in Nat
      /\ shifts \in [ShiftSlots -> Nat \cup {NoGen}]
      /\ PlayingMeansTicking /\ TickFindsFrames /\ RefreshMeansReady /\ NothingLiveAfterClear
  BY DEF IInv, TypeOK
<1>a. ASSUME NEW n \in Nat, StartLoop(n), loaded' = n, ~cleared, cleared' = cleared
      PROVE  PlayingMeansTicking' /\ TickFindsFrames'
  BY <1>a DEF StartLoop, MayTick, PlayingMeansTicking, TickFindsFrames
<1>r. ASSUME Rebuild PROVE PlayingMeansTicking' /\ TickFindsFrames'
  BY <1>r DEF Rebuild, StopLoop, PlayingMeansTicking, TickFindsFrames
<1>c. ASSUME ticks' = ticks, gen' = gen, shifts' = shifts, cleared' = cleared, scrubbing' = scrubbing,
             run' = run, navPaused' = navPaused, viewPaused' = viewPaused,
             loaded' >= 2 <=> loaded >= 2, ready' = ready \/ (loaded >= 2 => ready)
      PROVE  PlayingMeansTicking' /\ TickFindsFrames'
  BY <1>0, <1>c DEF PlayingMeansTicking, TickFindsFrames, Shifting
<1>d. ASSUME IF run THEN StartLoop(loaded) ELSE UNCHANGED ticks, run' = run, loaded' = loaded,
             ~cleared, cleared' = cleared
      PROVE  PlayingMeansTicking' /\ TickFindsFrames'
  <2>1. CASE run
    BY <1>0, <1>a, <1>d, <2>1
  <2>2. CASE ~run
    BY <1>0, <1>d, <2>2 DEF PlayingMeansTicking, TickFindsFrames
  <2>3. QED
    BY <2>1, <2>2
<1> USE DEF tasks, pauses, outage, clocks
<1>1. ASSUME NEW i \in inits, InitListingFails(i) PROVE (PlayingMeansTicking /\ TickFindsFrames)'
  BY <1>1, <1>c DEF InitListingFails
<1>2. ASSUME NEW i \in inits, InitListingArrives(i)
      PROVE  (PlayingMeansTicking /\ TickFindsFrames)'
  BY <1>2, <1>c DEF InitListingArrives
<1>3. ASSUME NEW i \in inits, InitFrameLoads(i) PROVE (PlayingMeansTicking /\ TickFindsFrames)'
  <2>1. /\ ~cleared /\ gen' = gen /\ shifts' = shifts
        /\ UNCHANGED <<run, navPaused, viewPaused, scrubbing, cleared>>
    BY <1>3, <1>0, InitMoves DEF LiveInit, NothingLiveAfterClear
  <2>2. loaded' = loaded + 1 /\ IF loaded + 1 = 2 THEN StartLoop(2) ELSE UNCHANGED ticks
    BY <1>3 DEF InitFrameLoads
  <2>3. CASE loaded + 1 = 2
    BY <1>a, <2>1, <2>2, <2>3
  <2>4. CASE loaded + 1 # 2
    <3>1. loaded' >= 2 => loaded >= 2 /\ ready
      BY <1>0, <2>2, <2>4 DEF RefreshMeansReady
    <3>2. QED
      BY <1>0, <1>c, <2>1, <2>2, <2>4, <3>1
  <2>5. QED
    BY <2>3, <2>4
<1>4. ASSUME NEW i \in inits, InitFrameFails(i) PROVE (PlayingMeansTicking /\ TickFindsFrames)'
  <2>1. /\ gen' = gen /\ shifts' = shifts /\ loaded' = loaded /\ ticks' = ticks
        /\ UNCHANGED <<run, navPaused, viewPaused, scrubbing, cleared>>
    BY <1>4, InitMoves DEF InitFrameFails
  <2>2. loaded >= 2 => ready
    BY <1>0 DEF RefreshMeansReady
  <2>3. QED
    BY <1>c, <2>1, <2>2
<1>5. ASSUME NEW i \in inits, InitDedups(i) PROVE (PlayingMeansTicking /\ TickFindsFrames)'
  <2>1. /\ ~cleared /\ gen' = gen /\ shifts' = shifts
        /\ UNCHANGED <<run, navPaused, viewPaused, scrubbing, cleared>>
    BY <1>5, <1>0, InitMoves DEF LiveInit, NothingLiveAfterClear
  <2>2. PICK kept \in 0..loaded :
          /\ loaded' = kept
          /\ IF run /\ ready /\ loaded >= 2 THEN StartLoop(kept) ELSE UNCHANGED ticks
    BY <1>5 DEF InitDedups
  <2>3. CASE run /\ ready /\ loaded >= 2
    BY <1>0, <1>a, <2>1, <2>2, <2>3
  <2>4. CASE ~(run /\ ready /\ loaded >= 2)
    <3>1. ticks' = ticks /\ ~(run /\ loaded >= 2)
      BY <1>0, <2>2, <2>4 DEF RefreshMeansReady
    <3>2. ticks = 0
      BY <1>0, <3>1 DEF TickFindsFrames
    <3>3. run' /\ loaded' >= 2 => FALSE
      BY <1>0, <2>1, <2>2, <3>1
    <3>4. QED
      BY <3>1, <3>2, <3>3 DEF PlayingMeansTicking, TickFindsFrames
  <2>5. QED
    BY <2>3, <2>4
<1>6. ASSUME NEW i \in inits, InitSuperseded(i) PROVE (PlayingMeansTicking /\ TickFindsFrames)'
  BY <1>6, <1>c DEF InitSuperseded
<1>7. ASSUME NEW u \in UpdateSlots, UpdateSuperseded(u)
      PROVE  (PlayingMeansTicking /\ TickFindsFrames)'
  BY <1>7, <1>c DEF UpdateSuperseded
<1>8. ASSUME NEW u \in UpdateSlots, UpdateFails(u) \/ UpdateFindsNothing(u)
      PROVE  (PlayingMeansTicking /\ TickFindsFrames)'
  BY <1>8, <1>c DEF UpdateFails, UpdateFindsNothing
<1>9. ASSUME NEW u \in UpdateSlots, UpdateRebuilds(u)
      PROVE  (PlayingMeansTicking /\ TickFindsFrames)'
  BY <1>9, <1>r DEF UpdateRebuilds
<1>10. ASSUME NEW u \in UpdateSlots, UpdateShifts(u)
       PROVE  (PlayingMeansTicking /\ TickFindsFrames)'
  <2>1. ticks' = 0 /\ gen' = gen
    BY <1>10 DEF UpdateShifts, StopLoop
  <2>2. PICK fresh \in SUBSET {s \in ShiftSlots : shifts[s] = NoGen} :
          fresh # {} /\ shifts' = [s \in ShiftSlots |-> IF s \in fresh THEN gen ELSE shifts[s]]
    BY <1>10 DEF UpdateShifts
  <2>3. Shifting'
    BY <2>1, <2>2 DEF Shifting
  <2>4. QED
    BY <2>1, <2>3 DEF PlayingMeansTicking, TickFindsFrames
<1>11. ASSUME NEW s \in ShiftSlots, ShiftLoads(s) PROVE (PlayingMeansTicking /\ TickFindsFrames)'
  <2>1. /\ UNCHANGED <<gen, ready, run, navPaused, viewPaused, scrubbing, cleared>>
        /\ shifts[s] # NoGen /\ shifts' = [shifts EXCEPT ![s] = NoGen]
    BY <1>11 DEF ShiftLoads, pauses
  <2>2. CASE shifts[s] # gen
    <3>1. ticks' = ticks /\ loaded' = loaded
      BY <1>11, <2>2 DEF ShiftLoads
    <3>2. Shifting' <=> Shifting
      BY <1>0, <2>1, <2>2 DEF Shifting, NoGen
    <3>3. QED
      BY <1>0, <2>1, <3>1, <3>2 DEF PlayingMeansTicking, TickFindsFrames
  <2>3. CASE shifts[s] = gen
    <3>1. ~cleared
      BY <1>0, <2>3 DEF NothingLiveAfterClear, Shifting
    <3>2. PICK n \in {loaded, loaded + 1} :
            loaded' = n /\ IF n > 0 THEN StartLoop(n) ELSE UNCHANGED ticks
      BY <1>11, <2>3 DEF ShiftLoads
    <3>3. CASE n > 0
      BY <1>0, <1>a, <2>1, <3>1, <3>2, <3>3
    <3>4. CASE ~(n > 0)
      <4>1. ticks' = ticks /\ loaded' = 0 /\ loaded = 0
        BY <1>0, <3>2, <3>4
      <4>2. ticks = 0
        BY <1>0, <4>1 DEF TickFindsFrames
      <4>3. QED
        BY <4>1, <4>2 DEF PlayingMeansTicking, TickFindsFrames
    <3>5. QED
      BY <3>3, <3>4
  <2>4. QED
    BY <2>2, <2>3
<1>12. ASSUME NEW t \in TimerIds, UpdateTimerFires(t)
       PROVE  (PlayingMeansTicking /\ TickFindsFrames)'
  BY <1>12, <1>c DEF UpdateTimerFires
<1>13. ASSUME RetryTimerFires PROVE (PlayingMeansTicking /\ TickFindsFrames)'
  <2>1. CASE Rebuild
    BY <1>r, <2>1
  <2>2. CASE ~Rebuild
    BY <1>13, <1>c, <2>2 DEF RetryTimerFires, pauses
  <2>3. QED
    BY <2>1, <2>2
<1>14. ASSUME RateLimitTimerFires PROVE (PlayingMeansTicking /\ TickFindsFrames)'
  BY <1>14, <1>r DEF RateLimitTimerFires
<1>15. ASSUME Tick PROVE (PlayingMeansTicking /\ TickFindsFrames)'
  <2>1. /\ UNCHANGED <<gen, ready, run, navPaused, viewPaused, scrubbing, cleared, loaded, shifts>>
        /\ ticks > 0 /\ ticks' = (ticks - 1) + (IF MayTick(loaded) THEN 1 ELSE 0)
    BY <1>15 DEF Tick, tasks, pauses
  <2>2. ticks = 1 /\ run /\ ~navPaused /\ ~viewPaused /\ loaded >= 2 /\ ~cleared
    BY <1>0, <2>1 DEF PlayingMeansTicking, TickFindsFrames
  <2>3. MayTick(loaded)
    BY <2>1, <2>2 DEF MayTick
  <2>4. ticks' = 1
    BY <2>1, <2>2, <2>3
  <2>5. QED
    BY <2>1, <2>2, <2>4 DEF PlayingMeansTicking, TickFindsFrames
<1>16. ASSUME OnRateLimited \/ OnServerError \/ OnTileRecovered
       PROVE  (PlayingMeansTicking /\ TickFindsFrames)'
  BY <1>16, <1>c DEF OnRateLimited, OnServerError, OnTileRecovered
<1>17. ASSUME OnNoaaLayerMissing PROVE (PlayingMeansTicking /\ TickFindsFrames)'
  BY <1>17, <1>r DEF OnNoaaLayerMissing
<1>18. ASSUME OnNavPaused \/ OnVisibilityHidden \/ ScrubTo \/ Skip
       PROVE  (PlayingMeansTicking /\ TickFindsFrames)'
  <2>1. CASE ticks' = 0
    BY <1>18, <2>1 DEF OnNavPaused, OnVisibilityHidden, ScrubTo, Skip, PlayingMeansTicking,
       TickFindsFrames
  <2>2. CASE ticks' # 0
    BY <1>18, <1>0, <2>2 DEF OnNavPaused, OnVisibilityHidden, ScrubTo, Skip, StopLoop,
       PlayingMeansTicking, TickFindsFrames
  <2>3. QED
    BY <2>1, <2>2
<1>19. ASSUME NEW reshaped \in BOOLEAN, OnNavSettled(reshaped)
       PROVE  (PlayingMeansTicking /\ TickFindsFrames)'
  <2>1. CASE Rebuild
    BY <1>r, <2>1
  <2>2. CASE ~Rebuild /\ ~ready
    BY <1>19, <1>0, <2>2 DEF OnNavSettled, tasks, PlayingMeansTicking, TickFindsFrames
  <2>3. CASE ~Rebuild /\ ready
    BY <1>19, <1>d, <2>3 DEF OnNavSettled
  <2>4. QED
    BY <2>1, <2>2, <2>3
<1>20. ASSUME NEW stale \in BOOLEAN, OnVisibilityVisible(stale)
       PROVE  (PlayingMeansTicking /\ TickFindsFrames)'
  <2>1. CASE Rebuild
    BY <1>r, <2>1
  <2>2. CASE ~Rebuild /\ ~ready
    BY <1>20, <1>0, <2>2 DEF OnVisibilityVisible, PlayingMeansTicking, TickFindsFrames
  <2>3. CASE ~Rebuild /\ ready
    BY <1>20, <1>d, <2>3 DEF OnVisibilityVisible
  <2>4. QED
    BY <2>1, <2>2, <2>3
<1>21. ASSUME TogglePlay PROVE (PlayingMeansTicking /\ TickFindsFrames)'
  <2>1. CASE run'
    BY <1>21, <1>0, <1>a, <2>1 DEF TogglePlay, tasks
  <2>2. CASE ~run'
    BY <1>21, <2>2 DEF TogglePlay, StopLoop, PlayingMeansTicking, TickFindsFrames
  <2>3. QED
    BY <2>1, <2>2
<1>22. ASSUME ScrubEnd PROVE (PlayingMeansTicking /\ TickFindsFrames)'
  <2>1. CASE run /\ ~navPaused /\ ~viewPaused
    BY <1>22, <1>0, <1>a, <2>1 DEF ScrubEnd, tasks
  <2>2. CASE ~(run /\ ~navPaused /\ ~viewPaused)
    <3>1. ticks' = ticks /\ ticks = 0 /\ UNCHANGED <<run, navPaused, viewPaused>>
      BY <1>22, <1>0, <2>2 DEF ScrubEnd, TickFindsFrames
    <3>2. QED
      BY <2>2, <3>1 DEF PlayingMeansTicking, TickFindsFrames
  <2>3. QED
    BY <2>1, <2>2
<1>23. ASSUME Clear PROVE (PlayingMeansTicking /\ TickFindsFrames)'
  BY <1>23 DEF Clear, StopLoop, PlayingMeansTicking, TickFindsFrames
<1>24. ASSUME UNCHANGED vars PROVE (PlayingMeansTicking /\ TickFindsFrames)'
  BY <1>24, <1>c DEF vars
<1>25. QED
  BY <1>1, <1>2, <1>3, <1>4, <1>5, <1>6, <1>7, <1>8, <1>9, <1>10, <1>11, <1>12, <1>13, <1>14,
     <1>15, <1>16, <1>17, <1>18, <1>19, <1>20, <1>21, <1>22, <1>23, <1>24
  DEF Next, InitStep, UpdateStep, ShiftStep, TimerStep, TileEvent, CardCall

-----------------------------------------------------------------------------
(* The theorems.                                                           *)

\* The player starts in the invariant.
LEMMA InitInvariant == Init => IInv
<1> SUFFICES ASSUME Init PROVE IInv
  OBVIOUS
<1>1. FlagsOK
  BY DEF Init, FlagsOK
<1>2. Task(1, "listing", 0) \in InitTask /\ Task(1, "listing", 0).gen = 1
  BY DEF Task, InitTask
<1>3. TypeOK
  BY <1>1, <1>2 DEF Init, TypeOK
<1>4. StampsInThePast /\ RefreshMeansReady /\ NothingLiveAfterClear
  BY <1>2 DEF Init, StampsInThePast, RefreshMeansReady, NothingLiveAfterClear, Shifting, NoGen
<1>5. FlightFlagExact /\ LiveInit
  BY <1>2 DEF Init, FlightFlagExact, LiveInit, InitInFlight
<1>6. SingleUpdateChain /\ PlayingMeansTicking /\ TickFindsFrames /\ QuietAfterClear /\ ReinitOnlyForRateLimit
  BY DEF Init, SingleUpdateChain, PlayingMeansTicking, TickFindsFrames, QuietAfterClear,
         ReinitOnlyForRateLimit, NoGen
<1>7. QED
  BY <1>3, <1>4, <1>5, <1>6 DEF IInv, RefreshAlive

\* Every step preserves it, conjunct by conjunct.
LEMMA InvariantInductive == IInv /\ [Next]_vars => IInv'
<1> SUFFICES ASSUME IInv, [Next]_vars PROVE IInv'
  OBVIOUS
<1>1. TypeOK'
  BY TypeInductive DEF IInv
<1>2. QED
  BY <1>1, StampsInductive, ReadyInductive, TornInductive, ChainInductive, AliveInductive,
     TickInductive, FlightInductive, ReinitInductive
  DEF IInv

\* IInv holds in every reachable state; each property below is a part of it.
THEOREM Safety == Spec => []IInv
BY InitInvariant, InvariantInductive, PTL DEF Spec

\* Every variable keeps its type.
THEOREM TypeCorrect == Spec => []TypeOK
<1>1. IInv => TypeOK
  BY DEF IInv
<1>2. QED
  BY <1>1, Safety, PTL

\* However inits, updates, pauses and teardowns interleave, _scheduleUpdate never
\* leaves two update timers armed, nor one that clear() cannot cancel.
THEOREM ChainTheorem == Spec => []SingleUpdateChain
<1>1. IInv => SingleUpdateChain
  BY DEF IInv
<1>2. QED
  BY <1>1, Safety, PTL

\* Something always carries the refresh on while the card is up.
THEOREM AliveTheorem == Spec => []RefreshAlive
<1>1. IInv => RefreshAlive
  BY DEF IInv
<1>2. QED
  BY <1>1, Safety, PTL

\* A loop that shows "playing" is animated by exactly one playback timeout.
THEOREM TickingTheorem == Spec => []PlayingMeansTicking
<1>1. IInv => PlayingMeansTicking
  BY DEF IInv
<1>2. QED
  BY <1>1, Safety, PTL

\* A playback timeout never finds fewer than two frames, a pause or a teardown.
THEOREM TickFindsFramesTheorem == Spec => []TickFindsFrames
<1>1. IInv => TickFindsFrames
  BY DEF IInv
<1>2. QED
  BY <1>1, Safety, PTL

\* Nothing of the player acts after clear().
THEOREM QuietTheorem == Spec => []QuietAfterClear
<1>1. IInv => QuietAfterClear
  BY DEF IInv
<1>2. QED
  BY <1>1, Safety, PTL

\* The refresh is carried by one chain while the card is up, by none after clear().
THEOREM CarriedTheorem == Spec => []RefreshCarried
<1>1. IInv => RefreshCarried
  BY DEF IInv, RefreshCarried
<1>2. QED
  BY <1>1, Safety, PTL

\* _initInFlight holds exactly while the current init is suspended.
THEOREM FlightTheorem == Spec => []FlightFlagExact
<1>1. IInv => FlightFlagExact
  BY DEF IInv
<1>2. QED
  BY <1>1, Safety, PTL

\* A full reinit is pending only for a rate limit that no server error explains.
THEOREM ReinitTheorem == Spec => []ReinitOnlyForRateLimit
<1>1. IInv => ReinitOnlyForRateLimit
  BY DEF IInv
<1> QED
  BY Safety, <1>1, PTL


-----------------------------------------------------------------------------
(* OneLoop and WindCurrent of Wind, for any boxes, slices and number of     *)
(* requests; and, last, LabelsOnce of Basemap.                              *)
(*                                                                          *)
(* OneLoop is not inductive by itself: the answer of a restart's request    *)
(* starts a loop, so at most one request has a restart waiting for it, and  *)
(* meanwhile the streamlines are still and may run when it answers          *)
(* (RestartsWait).  Which grid an entry of the cache holds does not matter. *)
(*                                                                          *)
(* For WindCurrent it does: an entry under its key is of that key, answered *)
(* or under way (Entries, Requests), and what an overlay waits for has the  *)
(* key of the box on screen and of now unless a half hour, a move or a      *)
(* hidden card makes it fetch again first (ArrowsOK, FlowOK).               *)

OverlayFields == {"alive", "paused", "debounce", "tick", "due", "grid", "last", "running", "frames"}

\* The records are records, whatever their fields hold.
Records(w) ==
    /\ DOMAIN w = {"arrows", "flow", "cache", "reqs"}
    /\ DOMAIN w.arrows = OverlayFields /\ DOMAIN w.flow = OverlayFields
    /\ DOMAIN w.reqs = Ids
    /\ \A r \in Ids : DOMAIN w.reqs[r] = {"key", "slice", "waiters"}

LoopOfFlow(f, still) ==
    /\ f.alive \in BOOLEAN /\ f.paused \in BOOLEAN /\ f.running \in BOOLEAN
    /\ f.frames = IF f.running THEN 1 ELSE 0
    /\ f.running => f.alive /\ ~f.paused /\ ~still
    /\ f.paused \/ f.tick \/ f.due => f.alive

Restarting(w, r) == "restart" \in w.reqs[r].waiters

RestartsWait(w, still) ==
    /\ \A r \in Ids : Restarting(w, r) =>
           w.flow.alive /\ ~w.flow.running /\ (still => w.flow.paused)
    /\ \A r, s \in Ids : Restarting(w, r) /\ Restarting(w, s) => r = s

LoopInv(w, still) == Records(w) /\ LoopOfFlow(w.flow, still) /\ RestartsWait(w, still)

\* The streamlines are as a restart leaves them before it fetches.
Quiet(w) ==
    /\ Records(w)
    /\ w.flow.alive = TRUE /\ w.flow.paused = FALSE
    /\ w.flow.running = FALSE /\ w.flow.frames = 0
    /\ \A r \in Ids : ~Restarting(w, r)

-----------------------------------------------------------------------------
(* Two states that differ in nothing the streamlines' loop depends on        *)

SameLoop(f, g) ==
    /\ g.alive = f.alive /\ g.paused = f.paused /\ g.running = f.running /\ g.frames = f.frames
    /\ g.tick \/ g.due => f.tick \/ f.due \/ f.alive

\* A state with the same loop and no new restart waiting keeps the invariant.
LEMMA KeepsLoop ==
    ASSUME NEW w, NEW u, NEW still, LoopInv(w, still), Records(u), SameLoop(w.flow, u.flow),
           \A r \in Ids : Restarting(u, r) => Restarting(w, r)
    PROVE  LoopInv(u, still)
BY DEF LoopInv, LoopOfFlow, RestartsWait, SameLoop

\* The answer of a restart's request: the loop starts, unless it was paused.
Answered(f, g) ==
    /\ g.alive = f.alive /\ g.paused = f.paused
    /\ g.tick \/ g.due => f.tick \/ f.due \/ f.alive
    /\ f.paused => g.running = f.running /\ g.frames = f.frames
    /\ ~f.paused => g.running = TRUE /\ g.frames = f.frames + 1

-----------------------------------------------------------------------------
(* What the steps of the fetcher do                                          *)

LEMMA ForgottenLeaves ==
    ASSUME NEW w, Records(w), NEW who
    PROVE  /\ Records(Forgotten(w, who))
           /\ Forgotten(w, who).flow = w.flow
           /\ Forgotten(w, who).arrows = w.arrows
           /\ \A r \in Ids : Forgotten(w, who).reqs[r].waiters = w.reqs[r].waiters \ who
<1> DEFINE u == Forgotten(w, who)
<1>1. /\ DOMAIN u = DOMAIN w /\ u.flow = w.flow /\ u.arrows = w.arrows
      /\ u.reqs = LeftBy(w.reqs, who)
  BY DEF Forgotten, Records
<1>2. /\ DOMAIN u.reqs = Ids
      /\ \A r \in Ids : DOMAIN u.reqs[r] = DOMAIN w.reqs[r]
      /\ \A r \in Ids : u.reqs[r].waiters = w.reqs[r].waiters \ who
  BY <1>1 DEF LeftBy, Records
<1> HIDE DEF u
<1>3. Records(u)
  BY <1>1, <1>2 DEF Records
<1> QED
  BY <1>1, <1>2, <1>3 DEF u

\* What fetch() does to an overlay's records unless it delivers.
LEMMA AsksFor ==
    ASSUME NEW w, Records(w), NEW who, NEW v,
           w.cache[_cacheKey(v)] = Nothing \/ w.cache[_cacheKey(v)].grid = Nothing
    PROVE  \E q : /\ Records(fetch(w, who, v))
                  /\ fetch(w, who, v).flow = w.flow
                  /\ fetch(w, who, v).arrows = w.arrows
                  /\ \A r \in Ids : r # q => fetch(w, who, v).reqs[r].waiters = w.reqs[r].waiters
                  /\ q \in Ids => fetch(w, who, v).reqs[q].waiters \subseteq w.reqs[q].waiters \cup {who}
<1> DEFINE k == _cacheKey(v)
<1>1. CASE w.cache[k] = Nothing
  <2> DEFINE q == FreeId(w)
             c == [w.cache EXCEPT ![k] = [req |-> q, grid |-> Nothing]]
             e == [key |-> k, slice |-> slice, waiters |-> {who}]
  <2>1. fetch(w, who, v) = [[w EXCEPT !.cache = c] EXCEPT !.reqs = [w.reqs EXCEPT ![q] = e]]
    BY <1>1 DEF fetch, Requested, Records
  <2>2. DOMAIN e = {"key", "slice", "waiters"} /\ e.waiters = {who}
    OBVIOUS
  <2> HIDE DEF c, e, q
  <2> QED
    BY <2>1, <2>2 DEF Records
<1>2. CASE w.cache[k] # Nothing
  <2> DEFINE q == w.cache[k].req
  <2>1. fetch(w, who, v) = [w EXCEPT !.reqs = [w.reqs EXCEPT ![q] = [w.reqs[q] EXCEPT !.waiters = w.reqs[q].waiters \cup {who}]]]
    BY <1>2 DEF fetch, Records
  <2> HIDE DEF q
  <2> QED
    BY <2>1 DEF Records
<1> QED
  BY <1>1, <1>2

\* What a delivery to the arrows or to a tick of the streamlines does.
LEMMA DeliversGrid ==
    ASSUME NEW w, Records(w), NEW waiters, NEW got, "restart" \notin waiters
    PROVE  /\ Records(Delivered(w, waiters, got))
           /\ Delivered(w, waiters, got).reqs = w.reqs
           /\ Delivered(w, waiters, got).cache = w.cache
           /\ SameLoop(w.flow, Delivered(w, waiters, got).flow)
<1> DEFINE a == IF "arrows" \in waiters THEN Drawn(w.arrows, got) ELSE w.arrows
           f == IF "tick" \in waiters THEN Drawn(w.flow, got) ELSE w.flow
<1>1. Delivered(w, waiters, got) = [[w EXCEPT !.arrows = a] EXCEPT !.flow = f]
  BY DEF Delivered, Records
<1>2. DOMAIN a = OverlayFields
  BY DEF Drawn, Records
<1>3. DOMAIN f = OverlayFields /\ SameLoop(w.flow, f)
  BY DEF Drawn, Records, SameLoop, OverlayFields
<1> HIDE DEF a, f
<1> QED
  BY <1>1, <1>2, <1>3 DEF Records

\* What a delivery to a restart does: the loop starts, unless it was paused.
LEMMA DeliversRestart ==
    ASSUME NEW w, Records(w), NEW waiters, NEW got, "restart" \in waiters
    PROVE  /\ Records(Delivered(w, waiters, got))
           /\ Delivered(w, waiters, got).reqs = w.reqs
           /\ Delivered(w, waiters, got).cache = w.cache
           /\ Answered(w.flow, Delivered(w, waiters, got).flow)
<1> DEFINE a == IF "arrows" \in waiters THEN Drawn(w.arrows, got) ELSE w.arrows
           g == Drawn(w.flow, got)
           f == Starts(g)
<1>1. Delivered(w, waiters, got) = [[w EXCEPT !.arrows = a] EXCEPT !.flow = f]
  BY DEF Delivered, Records
<1>2. DOMAIN a = OverlayFields
  BY DEF Drawn, Records
<1>3. DOMAIN g = OverlayFields /\ SameLoop(w.flow, g)
  BY DEF Drawn, Records, SameLoop, OverlayFields
<1> HIDE DEF a, g
<1>4. DOMAIN f = OverlayFields /\ Answered(w.flow, f)
  BY <1>3 DEF Starts, Looping, SameLoop, Answered, OverlayFields
<1> HIDE DEF f
<1> QED
  BY <1>1, <1>2, <1>4 DEF Records

-----------------------------------------------------------------------------
(* fetch and _restart keep the invariant                                     *)

LEMMA FetchKeeps ==
    ASSUME NEW w, NEW still, LoopInv(w, still), NEW who \in {"arrows", "tick"}, NEW v
    PROVE  LoopInv(fetch(w, who, v), still)
<1> DEFINE e == w.cache[_cacheKey(v)]
           u == fetch(w, who, v)
<1>0. Records(w)
  BY DEF LoopInv
<1>1. CASE e = Nothing \/ e.grid = Nothing
  <2>1. PICK q : /\ Records(u) /\ u.flow = w.flow
                 /\ \A r \in Ids : r # q => u.reqs[r].waiters = w.reqs[r].waiters
                 /\ q \in Ids => u.reqs[q].waiters \subseteq w.reqs[q].waiters \cup {who}
    BY <1>0, <1>1, AsksFor
  <2> HIDE DEF u
  <2>2. \A r \in Ids : Restarting(u, r) => Restarting(w, r)
    BY <2>1 DEF Restarting
  <2> QED
    BY <2>1, <2>2, KeepsLoop DEF SameLoop, u
<1>2. CASE e # Nothing /\ e.grid # Nothing
  <2>1. u = Delivered(w, {who}, e.grid)
    BY <1>2 DEF fetch
  <2>2. "restart" \notin {who}
    OBVIOUS
  <2>3. Records(u) /\ u.reqs = w.reqs /\ SameLoop(w.flow, u.flow)
    BY <1>0, <2>1, <2>2, DeliversGrid
  <2> HIDE DEF u
  <2> QED
    BY <2>3, KeepsLoop DEF Restarting, u
<1> QED
  BY <1>1, <1>2

LEMMA RestartFetches ==
    ASSUME NEW w, Quiet(w), NEW v
    PROVE  LoopInv(fetch(w, "restart", v), FALSE)
<1> DEFINE e == w.cache[_cacheKey(v)]
           u == fetch(w, "restart", v)
<1>0. Records(w)
  BY DEF Quiet
<1>1. CASE e = Nothing \/ e.grid = Nothing
  <2>1. PICK q : /\ Records(u) /\ u.flow = w.flow
                 /\ \A r \in Ids : r # q => u.reqs[r].waiters = w.reqs[r].waiters
                 /\ q \in Ids => u.reqs[q].waiters \subseteq w.reqs[q].waiters \cup {"restart"}
    BY <1>0, <1>1, AsksFor
  <2> HIDE DEF u
  <2>2. \A r \in Ids : Restarting(u, r) => r = q
    BY <2>1 DEF Restarting, Quiet
  <2>3. LoopOfFlow(u.flow, FALSE)
    BY <2>1 DEF LoopOfFlow, Quiet
  <2> QED
    BY <2>1, <2>2, <2>3 DEF LoopInv, RestartsWait, Quiet, u
<1>2. CASE e # Nothing /\ e.grid # Nothing
  <2>1. u = Delivered(w, {"restart"}, e.grid)
    BY <1>2 DEF fetch
  <2>2. "restart" \in {"restart"}
    OBVIOUS
  <2> DEFINE n == {"restart"}
             got == e.grid
  <2>a. u = Delivered(w, n, got) /\ "restart" \in n
    BY <2>1
  <2> HIDE DEF n, got, u
  <2>3. Records(u) /\ u.reqs = w.reqs /\ Answered(w.flow, u.flow)
    BY <1>0, <2>a, DeliversRestart
  <2> HIDE DEF u
  <2>4. u.flow.alive = TRUE /\ u.flow.paused = FALSE /\ u.flow.running = TRUE /\ u.flow.frames = 1
    BY <2>3 DEF Quiet, Answered
  <2>5. \A r \in Ids : ~Restarting(u, r)
    BY <2>3 DEF Quiet, Restarting
  <2> QED
    BY <2>3, <2>4, <2>5 DEF LoopInv, LoopOfFlow, RestartsWait, u
<1> QED
  BY <1>1, <1>2

\* Two changes of one overlay's record that the loop does not depend on.
LEMMA ArrowsSet ==
    ASSUME NEW w, NEW still, LoopInv(w, still), NEW a, DOMAIN a = OverlayFields
    PROVE  LoopInv([w EXCEPT !.arrows = a], still)
<1> DEFINE u == [w EXCEPT !.arrows = a]
<1>1. Records(u) /\ u.flow = w.flow /\ u.reqs = w.reqs
  BY DEF LoopInv, Records
<1> HIDE DEF u
<1> QED
  BY <1>1, KeepsLoop DEF SameLoop, Restarting, u

LEMMA FlowSet ==
    ASSUME NEW w, NEW still, LoopInv(w, still), NEW f, DOMAIN f = OverlayFields, SameLoop(w.flow, f)
    PROVE  LoopInv([w EXCEPT !.flow = f], still)
<1> DEFINE u == [w EXCEPT !.flow = f]
<1>1. Records(u) /\ u.flow = f /\ u.reqs = w.reqs
  BY DEF LoopInv, Records
<1> HIDE DEF u
<1> QED
  BY <1>1, KeepsLoop DEF Restarting, u

LEMMA RefreshKeeps ==
    ASSUME NEW w, NEW still, LoopInv(w, still), NEW v
    PROVE  LoopInv(_refresh(w, v), still)
<1> DEFINE g == Forgotten(w, {"arrows"})
           a == [g.arrows EXCEPT !.last = "none"]
           u == [g EXCEPT !.arrows = a]
<1>1. /\ Records(g) /\ g.flow = w.flow
      /\ \A r \in Ids : g.reqs[r].waiters = w.reqs[r].waiters \ {"arrows"}
  BY ForgottenLeaves DEF LoopInv
<1>2. _refresh(w, v) = fetch(u, "arrows", v)
  BY DEF _refresh
<1> HIDE DEF g
<1>3. LoopInv(g, still)
  BY <1>1, KeepsLoop DEF SameLoop, Restarting
<1>4. DOMAIN a = OverlayFields
  BY <1>1 DEF Records
<1> HIDE DEF a
<1>5. LoopInv(u, still)
  BY <1>3, <1>4, ArrowsSet
<1> HIDE DEF u
<1> QED
  BY <1>2, <1>5, FetchKeeps

\* A restart of streamlines that are not paused, whatever waited before.
LEMMA RestartAnew ==
    ASSUME NEW w, Records(w), w.flow.alive = TRUE, w.flow.paused = FALSE,
           w.flow.running \in BOOLEAN, w.flow.frames = (IF w.flow.running THEN 1 ELSE 0),
           NEW v, NEW still \in BOOLEAN
    PROVE  LoopInv(_restart(w, v, still), still)
<1> DEFINE g == Forgotten(w, {"restart", "tick"})
           f == [_stopLoop(g.flow) EXCEPT !.last = "none"]
           u == [g EXCEPT !.flow = f]
<1>1. /\ Records(g) /\ g.flow = w.flow
      /\ \A r \in Ids : g.reqs[r].waiters = w.reqs[r].waiters \ {"restart", "tick"}
  BY ForgottenLeaves
<1>2. _restart(w, v, still) = IF still THEN u ELSE fetch(u, "restart", v)
  BY DEF _restart
<1> HIDE DEF g
<1>3. /\ DOMAIN f = OverlayFields /\ f.alive = TRUE /\ f.paused = FALSE
      /\ f.running = FALSE /\ f.frames = 0
  BY <1>1 DEF _stopLoop, Records, OverlayFields
<1> HIDE DEF f
<1>4. Records(u) /\ u.flow = f /\ u.reqs = g.reqs
  BY <1>1, <1>3 DEF Records
<1> HIDE DEF u
<1>5. Quiet(u)
  BY <1>1, <1>3, <1>4 DEF Quiet, Restarting
<1>6. LoopInv(u, still)
  BY <1>5 DEF Quiet, LoopInv, LoopOfFlow, RestartsWait
<1>7. LoopInv(fetch(u, "restart", v), FALSE)
  BY <1>5, RestartFetches
<1> QED
  BY <1>2, <1>6, <1>7

LEMMA RestartKeeps ==
    ASSUME NEW w, NEW before, LoopInv(w, before), w.flow.alive, NEW v, NEW still \in BOOLEAN
    PROVE  LoopInv(_restart(w, v, still), still)
<1>1. CASE w.flow.paused
  <2>1. _restart(w, v, still) = w
    BY <1>1 DEF _restart
  <2> QED
    BY <1>1, <2>1 DEF LoopInv, LoopOfFlow, RestartsWait
<1>2. CASE ~w.flow.paused
  BY <1>2, RestartAnew DEF LoopInv, LoopOfFlow
<1> QED
  BY <1>1, <1>2

\* An answer or a failure: the restart that waited for it, if any, was the only one.
LEMMA SettledKeeps ==
    ASSUME NEW w, NEW still, LoopInv(w, still), NEW r \in Ids, NEW got
    PROVE  LoopInv(Settled(w, r, got), still)
<1> DEFINE n == w.reqs[r].waiters
           d == Delivered(w, n, got)
           c == [d.cache EXCEPT ![w.reqs[r].key] = EntryAfter(@, r, got)]
           u == [[d EXCEPT !.cache = c] EXCEPT !.reqs = [d.reqs EXCEPT ![r] = Free]]
<1>0. Records(w)
  BY DEF LoopInv
<1> HIDE DEF n
<1>a. "restart" \notin n => Records(d) /\ d.reqs = w.reqs /\ SameLoop(w.flow, d.flow)
  BY <1>0, DeliversGrid
<1>b. "restart" \in n => Records(d) /\ d.reqs = w.reqs /\ Answered(w.flow, d.flow)
  BY <1>0, DeliversRestart
<1>c. Records(d) /\ d.reqs = w.reqs
  BY <1>a, <1>b
<1> HIDE DEF d
<1>2. Settled(w, r, got) = u
  BY <1>c DEF Settled, d, n, Records
<1> HIDE DEF c
<1>3. Records(u) /\ u.flow = d.flow /\ u.reqs = [w.reqs EXCEPT ![r] = Free]
  BY <1>c DEF Records, Free
<1> HIDE DEF u
<1>4. \A s \in Ids : Restarting(u, s) => s # r /\ Restarting(w, s)
  BY <1>3 DEF Restarting, Free, LoopInv, Records
<1>5. CASE "restart" \notin n
  BY <1>a, <1>2, <1>3, <1>4, <1>5, KeepsLoop
<1>6. CASE "restart" \in n
  <2>1. \A s \in Ids : ~Restarting(u, s)
    BY <1>4, <1>6 DEF n, Restarting, LoopInv, RestartsWait
  <2>2. w.flow.alive /\ ~w.flow.running /\ (still => w.flow.paused)
    BY <1>6 DEF n, Restarting, LoopInv, RestartsWait
  <2>3. LoopOfFlow(w.flow, still)
    BY DEF LoopInv
  <2>4. Answered(w.flow, d.flow)
    BY <1>b, <1>6
  <2> DEFINE f == w.flow
             g == d.flow
  <2> HIDE DEF f, g
  <2>5. LoopOfFlow(f, still) /\ Answered(f, g) /\ f.alive /\ ~f.running /\ (still => f.paused)
    BY <2>2, <2>3, <2>4 DEF f, g
  <2>6. LoopOfFlow(g, still)
    <3>1. CASE f.paused
      BY <2>5, <3>1 DEF LoopOfFlow, Answered
    <3>2. CASE ~f.paused
      <4>1. g.running = TRUE /\ g.frames = f.frames + 1 /\ f.frames = 0
        BY <2>5, <3>2 DEF LoopOfFlow, Answered
      <4>2. g.frames = 1
        BY <4>1
      <4>3. g.alive = f.alive /\ g.paused = f.paused /\ ~still
        BY <2>5, <3>2 DEF Answered
      <4> QED
        BY <2>5, <3>2, <4>1, <4>2, <4>3 DEF LoopOfFlow
    <3> QED
      BY <3>1, <3>2
  <2> QED
    BY <1>2, <1>3, <2>1, <2>6 DEF LoopInv, RestartsWait, g
<1> QED
  BY <1>5, <1>6

-----------------------------------------------------------------------------
(* The steps                                                                *)

StreamInv == LoopInv(wind, reduced) /\ reduced \in BOOLEAN

LEMMA ConstructedFields ==
    /\ DOMAIN NoOverlay = OverlayFields /\ DOMAIN Constructed = OverlayFields
    /\ Constructed.alive = TRUE /\ Constructed.paused = FALSE
    /\ Constructed.running = FALSE /\ Constructed.frames = 0
BY DEF NoOverlay, Constructed, OverlayFields

LEMMA SettledSteps ==
    ASSUME StreamInv, NEW r \in Ids, GridAnswer(r) \/ GridFails(r)
    PROVE  StreamInv'
<1>1. PICK got : wind' = Settled(wind, r, got) /\ reduced' = reduced
  BY DEF GridAnswer, GridFails
<1> QED
  BY <1>1, SettledKeeps DEF StreamInv

LEMMA ExpiresStep ==
    ASSUME StreamInv, NEW k, EntryExpires(k)
    PROVE  StreamInv'
<1> DEFINE c == [wind.cache EXCEPT ![k] = Nothing]
           u == [wind EXCEPT !.cache = c]
<1>1. wind' = u /\ reduced' = reduced
  BY DEF EntryExpires
<1> HIDE DEF c
<1>2. Records(u) /\ u.flow = wind.flow /\ u.reqs = wind.reqs
  BY DEF StreamInv, LoopInv, Records
<1> HIDE DEF u
<1> QED
  BY <1>1, <1>2, KeepsLoop DEF StreamInv, SameLoop, Restarting

LEMMA StartArrowsStep ==
    ASSUME StreamInv, StartArrows
    PROVE  StreamInv'
<1> DEFINE u == [wind EXCEPT !.arrows = Constructed]
<1>1. wind' = _refresh(u, map.view) /\ reduced' = reduced
  BY DEF StartArrows
<1>2. LoopInv(u, reduced)
  BY ArrowsSet, ConstructedFields DEF StreamInv
<1> HIDE DEF u
<1> QED
  BY <1>1, <1>2, RefreshKeeps DEF StreamInv

LEMMA StartFlowStep ==
    ASSUME StreamInv, StartFlow
    PROVE  StreamInv'
<1> DEFINE f == Constructed
           u == [wind EXCEPT !.flow = f]
<1>1. wind' = _restart(u, map.view, reduced) /\ reduced' = reduced
  BY DEF StartFlow
<1>2. DOMAIN f = OverlayFields /\ f.alive = TRUE /\ f.paused = FALSE /\ f.running = FALSE /\ f.frames = 0
  BY ConstructedFields
<1> HIDE DEF f
<1>3. Records(u) /\ u.flow = f
  BY <1>2 DEF StreamInv, LoopInv, Records
<1> HIDE DEF u
<1>4. LoopInv(_restart(u, map.view, reduced), reduced)
  BY <1>2, <1>3, RestartAnew DEF StreamInv
<1> QED
  BY <1>1, <1>4 DEF StreamInv

LEMMA DestroyArrowsStep ==
    ASSUME StreamInv, DestroyArrows
    PROVE  StreamInv'
<1> DEFINE g == Forgotten(wind, {"arrows"})
           u == [g EXCEPT !.arrows = NoOverlay]
<1>1. wind' = u /\ reduced' = reduced
  BY DEF DestroyArrows
<1>2. /\ Records(g) /\ g.flow = wind.flow
      /\ \A r \in Ids : g.reqs[r].waiters = wind.reqs[r].waiters \ {"arrows"}
  BY ForgottenLeaves DEF StreamInv, LoopInv
<1> HIDE DEF g
<1>3. LoopInv(g, reduced)
  BY <1>2, KeepsLoop DEF StreamInv, SameLoop, Restarting
<1>4. LoopInv(u, reduced)
  BY <1>3, ArrowsSet, ConstructedFields
<1> HIDE DEF u
<1> QED
  BY <1>1, <1>4 DEF StreamInv

LEMMA DestroyFlowStep ==
    ASSUME StreamInv, DestroyFlow
    PROVE  StreamInv'
<1> DEFINE g == Forgotten(wind, {"restart", "tick"})
           n == _stopLoop(wind.flow).frames
           f == [NoOverlay EXCEPT !.frames = n]
           u == [g EXCEPT !.flow = f]
<1>1. wind' = u /\ reduced' = reduced
  BY DEF DestroyFlow
<1>2. /\ Records(g)
      /\ \A r \in Ids : g.reqs[r].waiters = wind.reqs[r].waiters \ {"restart", "tick"}
  BY ForgottenLeaves DEF StreamInv, LoopInv
<1> HIDE DEF g
<1>3. n = 0
  BY DEF _stopLoop, StreamInv, LoopInv, LoopOfFlow, Records, OverlayFields
<1> HIDE DEF n
<1>4. /\ DOMAIN f = OverlayFields /\ f.alive = FALSE /\ f.paused = FALSE
      /\ f.running = FALSE /\ f.frames = 0 /\ f.tick = FALSE /\ f.due = FALSE
  BY <1>3 DEF NoOverlay, OverlayFields
<1> HIDE DEF f
<1>5. Records(u) /\ u.flow = f /\ u.reqs = g.reqs
  BY <1>2, <1>4 DEF Records
<1> HIDE DEF u
<1>6. \A r \in Ids : ~Restarting(u, r)
  BY <1>2, <1>5 DEF Restarting
<1> QED
  BY <1>1, <1>4, <1>5, <1>6 DEF StreamInv, LoopInv, LoopOfFlow, RestartsWait

\* The loop stops; whether the overlay is paused may change.
LEMMA StopKeeps ==
    ASSUME NEW w, NEW still, LoopInv(w, still),
           NEW f, DOMAIN f = OverlayFields, f.alive = w.flow.alive, f.running = FALSE, f.frames = 0,
           f.paused \in BOOLEAN, w.flow.paused => f.paused,
           f.paused \/ f.tick \/ f.due => w.flow.paused \/ w.flow.tick \/ w.flow.due \/ w.flow.alive
    PROVE  LoopInv([w EXCEPT !.flow = f], still)
<1> DEFINE u == [w EXCEPT !.flow = f]
<1>1. Records(u) /\ u.flow = f /\ u.reqs = w.reqs
  BY DEF LoopInv, Records
<1> HIDE DEF u
<1>2. LoopOfFlow(f, still)
  BY DEF LoopInv, LoopOfFlow
<1>3. RestartsWait(u, still)
  BY <1>1 DEF LoopInv, RestartsWait, Restarting
<1> QED
  BY <1>1, <1>2, <1>3 DEF LoopInv, u

LEMMA MoveStartStep ==
    ASSUME StreamInv, MoveStart
    PROVE  StreamInv'
<1> DEFINE f == _stopLoop(wind.flow)
           u == [wind EXCEPT !.flow = f]
<1>1. wind' = u /\ reduced' = reduced
  BY DEF MoveStart
<1>2. /\ DOMAIN f = OverlayFields /\ f.alive = wind.flow.alive /\ f.paused = wind.flow.paused
      /\ f.running = FALSE /\ f.frames = 0 /\ f.tick = wind.flow.tick /\ f.due = wind.flow.due
  BY DEF _stopLoop, StreamInv, LoopInv, LoopOfFlow, Records, OverlayFields
<1> HIDE DEF f
<1>3. LoopInv(u, reduced)
  BY <1>2, StopKeeps DEF StreamInv, LoopInv, LoopOfFlow
<1> QED
  BY <1>1, <1>3 DEF StreamInv

LEMMA MoveEndStep ==
    ASSUME StreamInv, NEW v, MoveEnd(v)
    PROVE  StreamInv'
<1> DEFINE b == wind.arrows.alive /\ ~wind.arrows.paused
           a == [wind.arrows EXCEPT !.debounce = b]
           w == [wind EXCEPT !.arrows = a]
<1>1. wind' = (IF w.flow.alive THEN _restart(w, v, reduced) ELSE w) /\ reduced' = reduced
  BY DEF MoveEnd, StreamInv, LoopInv, Records
<1> HIDE DEF b
<1>2. DOMAIN a = OverlayFields
  BY DEF StreamInv, LoopInv, Records
<1> HIDE DEF a
<1>3. LoopInv(w, reduced)
  BY <1>2, ArrowsSet DEF StreamInv
<1> HIDE DEF w
<1> QED
  BY <1>1, <1>3, RestartKeeps DEF StreamInv

LEMMA DebouncedStep ==
    ASSUME StreamInv, Debounced
    PROVE  StreamInv'
<1> DEFINE a == [wind.arrows EXCEPT !.debounce = FALSE]
           w == [wind EXCEPT !.arrows = a]
<1>1. wind' = _refresh(w, map.view) /\ reduced' = reduced
  BY DEF Debounced, StreamInv, LoopInv, Records
<1>2. DOMAIN a = OverlayFields
  BY DEF StreamInv, LoopInv, Records
<1> HIDE DEF a
<1>3. LoopInv(w, reduced)
  BY <1>2, ArrowsSet DEF StreamInv
<1> HIDE DEF w
<1> QED
  BY <1>1, <1>3, RefreshKeeps DEF StreamInv

LEMMA ArrowsTickStep ==
    ASSUME StreamInv, ArrowsTick
    PROVE  StreamInv'
<1> DEFINE a == [wind.arrows EXCEPT !.due = FALSE]
           w == [wind EXCEPT !.arrows = a]
<1>1. wind' = _refresh(w, map.view) /\ reduced' = reduced
  BY DEF ArrowsTick, StreamInv, LoopInv, Records
<1>2. DOMAIN a = OverlayFields
  BY DEF StreamInv, LoopInv, Records
<1> HIDE DEF a
<1>3. LoopInv(w, reduced)
  BY <1>2, ArrowsSet DEF StreamInv
<1> HIDE DEF w
<1> QED
  BY <1>1, <1>3, RefreshKeeps DEF StreamInv

LEMMA ResizeStep ==
    ASSUME StreamInv, Resize
    PROVE  StreamInv'
<1>1. wind' = _restart(wind, map.view, reduced') /\ reduced' \in BOOLEAN /\ wind.flow.alive
  BY DEF Resize
<1> QED
  BY <1>1, RestartKeeps DEF StreamInv

LEMMA FlowTickStep ==
    ASSUME StreamInv, FlowTick
    PROVE  StreamInv'
<1> DEFINE f == [wind.flow EXCEPT !.due = FALSE]
           w == [wind EXCEPT !.flow = f]
<1>1. /\ wind' = IF w.flow.paused THEN fetch(w, "tick", map.view) ELSE _restart(w, map.view, reduced)
      /\ reduced' = reduced /\ wind.flow.due
  BY DEF FlowTick, StreamInv, LoopInv, Records
<1>2. DOMAIN f = OverlayFields /\ SameLoop(wind.flow, f)
  BY <1>1 DEF StreamInv, LoopInv, Records, SameLoop, OverlayFields
<1> HIDE DEF f
<1>3. LoopInv(w, reduced) /\ w.flow = f
  BY <1>2, FlowSet DEF StreamInv, LoopInv, Records
<1> HIDE DEF w
<1>4. w.flow.alive
  BY <1>1, <1>2, <1>3 DEF StreamInv, LoopInv, LoopOfFlow, SameLoop
<1>5. LoopInv(fetch(w, "tick", map.view), reduced)
  BY <1>3, FetchKeeps
<1>6. LoopInv(_restart(w, map.view, reduced), reduced)
  BY <1>3, <1>4, RestartKeeps DEF StreamInv
<1> QED
  BY <1>1, <1>5, <1>6 DEF StreamInv

LEMMA HalfHourStep ==
    ASSUME StreamInv, HalfHour
    PROVE  StreamInv'
<1> DEFINE a == [wind.arrows EXCEPT !.due = wind.arrows.tick]
           f == [wind.flow EXCEPT !.due = wind.flow.tick]
           w == [wind EXCEPT !.arrows = a]
           u == [w EXCEPT !.flow = f]
<1>1. wind' = u /\ reduced' = reduced
  BY DEF HalfHour, StreamInv, LoopInv, Records
<1>2. DOMAIN a = OverlayFields
  BY DEF StreamInv, LoopInv, Records
<1>3. DOMAIN f = OverlayFields /\ SameLoop(wind.flow, f)
  BY DEF StreamInv, LoopInv, Records, SameLoop, OverlayFields
<1> HIDE DEF a, f
<1>4. LoopInv(w, reduced) /\ w.flow = wind.flow
  BY <1>2, ArrowsSet DEF StreamInv, LoopInv, Records
<1> HIDE DEF w
<1>5. LoopInv(u, reduced)
  BY <1>3, <1>4, FlowSet
<1> QED
  BY <1>1, <1>5 DEF StreamInv

LEMMA HideStep ==
    ASSUME StreamInv, Hide
    PROVE  StreamInv'
<1> DEFINE a == pauseArrows(wind.arrows)
           f == pauseFlow(wind.flow)
           w == [wind EXCEPT !.arrows = a]
           u == [w EXCEPT !.flow = f]
<1>1. wind' = u /\ reduced' = reduced
  BY DEF Hide, StreamInv, LoopInv, Records
<1>2. DOMAIN a = OverlayFields
  BY DEF pauseArrows, StreamInv, LoopInv, Records
<1> HIDE DEF a
<1>3. LoopInv(w, reduced) /\ w.flow = wind.flow
  BY <1>2, ArrowsSet DEF StreamInv, LoopInv, Records
<1> HIDE DEF w
<1>4. CASE ~wind.flow.alive
  <2>1. DOMAIN f = OverlayFields /\ SameLoop(wind.flow, f)
    BY <1>4 DEF pauseFlow, StreamInv, LoopInv, Records, SameLoop
  <2> HIDE DEF f
  <2> QED
    BY <1>1, <1>3, <2>1, FlowSet DEF StreamInv
<1>5. CASE wind.flow.alive
  <2> DEFINE g == _stopLoop(wind.flow)
             d == wind.flow.due /\ preload
  <2>a. /\ DOMAIN g = OverlayFields /\ g.alive = wind.flow.alive
        /\ g.running = FALSE /\ g.frames = 0
    BY DEF _stopLoop, StreamInv, LoopInv, LoopOfFlow, Records, OverlayFields
  <2>b. f = [g EXCEPT !.paused = TRUE, !.tick = preload, !.due = d]
    BY <1>5 DEF pauseFlow
  <2> HIDE DEF g, d
  <2>1. /\ DOMAIN f = OverlayFields /\ f.alive = wind.flow.alive /\ f.paused = TRUE
        /\ f.running = FALSE /\ f.frames = 0
    BY <2>a, <2>b DEF OverlayFields
  <2> HIDE DEF f
  <2>2. LoopInv(u, reduced)
    BY <1>3, <1>5, <2>1, StopKeeps
  <2> QED
    BY <1>1, <2>2 DEF StreamInv
<1> QED
  BY <1>4, <1>5

LEMMA ShowStep ==
    ASSUME StreamInv, Show
    PROVE  StreamInv'
<1> DEFINE a == Resumed(wind.arrows)
           v == [wind EXCEPT !.arrows = a]
           w == resumeArrows(wind)
           f == Resumed(w.flow)
           u == [w EXCEPT !.flow = f]
<1>1. wind' = resumeFlow(w) /\ reduced' = reduced
  BY DEF Show
<1>2. w = IF wind.arrows.paused THEN _refresh(v, map.view) ELSE wind
  BY DEF resumeArrows, StreamInv, LoopInv, Records
<1>3. DOMAIN a = OverlayFields
  BY DEF Resumed, StreamInv, LoopInv, Records
<1> HIDE DEF a
<1>4. LoopInv(v, reduced)
  BY <1>3, ArrowsSet DEF StreamInv
<1> HIDE DEF v, w
<1>5. LoopInv(w, reduced)
  BY <1>2, <1>4, RefreshKeeps DEF StreamInv
<1>6. resumeFlow(w) = IF w.flow.paused THEN _restart(u, map.view, reduced) ELSE w
  BY <1>5 DEF resumeFlow, LoopInv, Records
<1>7. CASE w.flow.paused
  <2>1. w.flow.alive = TRUE /\ w.flow.running = FALSE /\ w.flow.frames = 0
    BY <1>5, <1>7 DEF LoopInv, LoopOfFlow
  <2>2. /\ DOMAIN f = OverlayFields /\ f.alive = TRUE /\ f.paused = FALSE
        /\ f.running = FALSE /\ f.frames = 0
    BY <1>5, <2>1 DEF Resumed, LoopInv, Records, OverlayFields
  <2> HIDE DEF f
  <2>3. Records(u) /\ u.flow = f
    BY <1>5, <2>2 DEF LoopInv, Records
  <2> HIDE DEF u
  <2>4. LoopInv(_restart(u, map.view, reduced), reduced)
    BY <2>2, <2>3, RestartAnew DEF StreamInv
  <2> QED
    BY <1>1, <1>6, <1>7, <2>4 DEF StreamInv
<1>8. CASE ~w.flow.paused
  BY <1>1, <1>5, <1>6, <1>8 DEF StreamInv
<1> QED
  BY <1>7, <1>8

-----------------------------------------------------------------------------
LEMMA InitLoop ==
    ASSUME InitWind
    PROVE  StreamInv
<1>1. /\ DOMAIN wind = {"arrows", "flow", "cache", "reqs"}
      /\ wind.arrows = NoOverlay /\ wind.flow = NoOverlay
      /\ wind.reqs = [r \in Ids |-> Free] /\ reduced \in BOOLEAN
  BY DEF InitWind
<1>2. /\ NoOverlay.alive = FALSE /\ NoOverlay.paused = FALSE /\ NoOverlay.running = FALSE
      /\ NoOverlay.frames = 0 /\ NoOverlay.tick = FALSE /\ NoOverlay.due = FALSE
  BY DEF NoOverlay
<1>3. DOMAIN Free = {"key", "slice", "waiters"} /\ Free.waiters = {}
  BY DEF Free
<1>4. Records(wind) /\ \A r \in Ids : ~Restarting(wind, r)
  BY <1>1, <1>3, ConstructedFields DEF Records, Restarting
<1> QED
  BY <1>1, <1>2, <1>4 DEF StreamInv, LoopInv, LoopOfFlow, RestartsWait

LEMMA StutterStep ==
    ASSUME StreamInv, UNCHANGED windVars
    PROVE  StreamInv'
BY DEF StreamInv, LoopInv, Records, LoopOfFlow, RestartsWait, Restarting, windVars

LEMMA NextStep ==
    ASSUME StreamInv, NextWind
    PROVE  StreamInv'
<1>1. CASE \E r \in Ids : GridAnswer(r) \/ GridFails(r)
  BY <1>1, SettledSteps
<1>2. CASE \E k \in Keys : EntryExpires(k)
  BY <1>2, ExpiresStep
<1>3. CASE StartArrows
  BY <1>3, StartArrowsStep
<1>4. CASE StartFlow
  BY <1>4, StartFlowStep
<1>5. CASE DestroyArrows
  BY <1>5, DestroyArrowsStep
<1>6. CASE DestroyFlow
  BY <1>6, DestroyFlowStep
<1>7. CASE MoveStart
  BY <1>7, MoveStartStep
<1>8. CASE \E v \in Views : MoveEnd(v)
  BY <1>8, MoveEndStep
<1>9. CASE Debounced
  BY <1>9, DebouncedStep
<1>10. CASE Resize
  BY <1>10, ResizeStep
<1>11. CASE Hide
  BY <1>11, HideStep
<1>12. CASE Show
  BY <1>12, ShowStep
<1>13. CASE HalfHour
  BY <1>13, HalfHourStep
<1>14. CASE ArrowsTick
  BY <1>14, ArrowsTickStep
<1>15. CASE FlowTick
  BY <1>15, FlowTickStep
<1> HIDE DEF StreamInv
<1> QED
  BY <1>1, <1>2, <1>3, <1>4, <1>5, <1>6, <1>7, <1>8, <1>9, <1>10, <1>11, <1>12,
     <1>13, <1>14, <1>15 DEF NextWind

\* One loop of the streamlines at most, none while the card is hidden, none of
\* a destroyed overlay and none under reduced motion, whichever requests are
\* under way and in whatever order they are answered.
THEOREM OneLoopTheorem == SpecWind => []OneLoop
<1>1. InitWind => StreamInv
  BY InitLoop
<1>2. StreamInv /\ [NextWind]_windVars => StreamInv'
  BY NextStep, StutterStep
<1>3. StreamInv => OneLoop
  BY DEF StreamInv, LoopInv, LoopOfFlow, OneLoop
<1> QED
  BY <1>1, <1>2, <1>3, PTL DEF SpecWind

-----------------------------------------------------------------------------
(* WindCurrent: the fetcher                                                  *)

Key(v, t) == [view |-> v, slice |-> IF Ndfd(v) THEN Nothing ELSE t]

\* A grid is of its key's box, and of its slice if the key names one.
Fits(grid, k) == grid.view = k.view /\ (k.slice # Nothing => grid.slice = k.slice)

\* Of the cache: an entry is of its own key, be it answered or under way.
Entries(w) ==
    /\ DOMAIN w.cache = Keys
    /\ \A k \in Keys : w.cache[k] # Nothing =>
         /\ DOMAIN w.cache[k] = {"req", "grid"}
         /\ IF w.cache[k].grid = Nothing
            THEN w.cache[k].req \in Ids /\ w.reqs[w.cache[k].req].key = k
            ELSE Fits(w.cache[k].grid, k)

\* A request asks for the slice its key names, if it names one.
Requests(w) ==
    \A r \in Ids : \/ w.reqs[r] = Free
                   \/ /\ w.reqs[r].key \in Keys /\ w.reqs[r].slice \in Nat
                      /\ w.reqs[r].key.slice # Nothing => w.reqs[r].slice = w.reqs[r].key.slice

Fetcher(w) == Records(w) /\ Entries(w) /\ Requests(w)

-----------------------------------------------------------------------------
(* The overlays: what one waits for, and what it drew last                   *)

WaitsFor(w, who, k) == \A r \in Ids, x \in who : x \in w.reqs[r].waiters => w.reqs[r].key = k

Unawaited(w, who) == \A r \in Ids, x \in who : x \notin w.reqs[r].waiters

Current(grid, m, t) ==
    grid # Nothing /\ grid.view = m.view /\ (m.view \in NdfdViews \/ grid.slice = t)

Flags(o) ==
    /\ o.alive \in BOOLEAN /\ o.paused \in BOOLEAN /\ o.tick \in BOOLEAN /\ o.due \in BOOLEAN
    /\ o.alive /\ ~o.paused => o.tick

ArrowsSettle(a, m) == a.alive /\ ~a.paused /\ ~a.debounce /\ ~a.due /\ ~m.moving

ArrowsOK(w, m, t) ==
    /\ Flags(w.arrows)
    /\ ArrowsSettle(w.arrows, m) =>
         /\ WaitsFor(w, {"arrows"}, Key(m.view, t))
         /\ w.arrows.last = "ok" /\ Unawaited(w, {"arrows"}) => Current(w.arrows.grid, m, t)

FlowSettle(f, m, still) == f.alive /\ ~f.paused /\ ~f.due /\ ~m.moving /\ ~still

\* A paused overlay's tick starts no loop, so none waits when it is not paused.
FlowOK(w, m, t, still) ==
    /\ Flags(w.flow)
    /\ ~w.flow.paused => Unawaited(w, {"tick"})
    /\ FlowSettle(w.flow, m, still) =>
         /\ WaitsFor(w, {"restart", "tick"}, Key(m.view, t))
         /\ w.flow.last = "ok" /\ Unawaited(w, {"restart", "tick"}) =>
                Current(w.flow.grid, m, t) /\ w.flow.running

WindInv(w, m, t, still) == Fetcher(w) /\ ArrowsOK(w, m, t) /\ FlowOK(w, m, t, still)

CInv ==
    /\ slice \in 0..MaxSlice /\ map \in [view : Views, moving : BOOLEAN]
    /\ preload \in BOOLEAN /\ reduced \in BOOLEAN
    /\ WindInv(wind, map, slice, reduced)

-----------------------------------------------------------------------------
(* The keys, and what leaves an overlay's promise alone                      *)

LEMMA KeyOf ==
    ASSUME NEW v \in Views, NEW t \in 0..MaxSlice
    PROVE  /\ Key(v, t) \in Keys /\ Key(v, t).view = v
           /\ Key(v, t).slice = Nothing <=> v \in NdfdViews
           /\ Key(v, t).slice # Nothing => Key(v, t).slice = t
BY WindAssumption DEF Key, Keys, Ndfd

LEMMA NoKey == Nothing \notin Keys /\ Free.key = Nothing /\ Free.waiters = {}
BY WindAssumption DEF Keys, Free

LEMMA CacheKeyIs ==
    ASSUME NEW v
    PROVE  _cacheKey(v) = Key(v, slice)
BY DEF _cacheKey, effectiveTimeIso, Key

\* The same overlays wait, and for the same requests.
SameWaits(w, u, who) ==
    \A r \in Ids, x \in who :
        /\ x \in u.reqs[r].waiters <=> x \in w.reqs[r].waiters
        /\ x \in u.reqs[r].waiters => u.reqs[r].key = w.reqs[r].key

LEMMA SameWaitsKeeps ==
    ASSUME NEW w, NEW u, NEW who, SameWaits(w, u, who)
    PROVE  /\ \A k : WaitsFor(w, who, k) => WaitsFor(u, who, k)
           /\ Unawaited(u, who) <=> Unawaited(w, who)
BY DEF SameWaits, WaitsFor, Unawaited

LEMMA ArrowsFrame ==
    ASSUME NEW w, NEW u, NEW m, NEW t, ArrowsOK(w, m, t), u.arrows = w.arrows,
           SameWaits(w, u, {"arrows"})
    PROVE  ArrowsOK(u, m, t)
BY SameWaitsKeeps DEF ArrowsOK

LEMMA FlowFrame ==
    ASSUME NEW w, NEW u, NEW m, NEW t, NEW still, FlowOK(w, m, t, still), u.flow = w.flow,
           SameWaits(w, u, {"restart", "tick"})
    PROVE  FlowOK(u, m, t, still)
<1>1. SameWaits(w, u, {"tick"})
  BY DEF SameWaits
<1> QED
  BY <1>1, SameWaitsKeeps DEF FlowOK

LEMMA FitsCurrent ==
    ASSUME NEW m, m.view \in Views, NEW t \in 0..MaxSlice, NEW grid, grid # Nothing,
           Fits(grid, Key(m.view, t))
    PROVE  Current(grid, m, t)
BY KeyOf DEF Fits, Current

-----------------------------------------------------------------------------
(* The fetcher's steps                                                       *)

Room(w, v) == (\E r \in Ids : w.reqs[r] = Free) \/ w.cache[Key(v, slice)] # Nothing

LEMMA ForgottenFetcher ==
    ASSUME NEW w, Fetcher(w), NEW who
    PROVE  LET g == Forgotten(w, who)
           IN /\ Fetcher(g) /\ g.flow = w.flow /\ g.arrows = w.arrows /\ g.cache = w.cache
              /\ \A r \in Ids : /\ g.reqs[r].waiters = w.reqs[r].waiters \ who
                                /\ g.reqs[r].key = w.reqs[r].key
                                /\ w.reqs[r] = Free => g.reqs[r] = Free
<1> DEFINE g == Forgotten(w, who)
<1>1. /\ Records(g) /\ g.flow = w.flow /\ g.arrows = w.arrows
      /\ \A r \in Ids : g.reqs[r].waiters = w.reqs[r].waiters \ who
  BY ForgottenLeaves DEF Fetcher
<1>2. /\ g.cache = w.cache /\ g.reqs = LeftBy(w.reqs, who)
  BY DEF Forgotten, Fetcher, Records
<1> HIDE DEF g
<1>3. \A r \in Ids : /\ g.reqs[r] = [w.reqs[r] EXCEPT !.waiters = w.reqs[r].waiters \ who]
                     /\ g.reqs[r].key = w.reqs[r].key /\ g.reqs[r].slice = w.reqs[r].slice
  BY <1>2 DEF LeftBy, Fetcher, Records
<1>4. \A r \in Ids : w.reqs[r] = Free => g.reqs[r] = Free
  BY <1>3 DEF Free
<1>5. Entries(g)
  BY <1>2, <1>3 DEF Entries, Fetcher
<1>6. Requests(g)
  BY <1>3, <1>4 DEF Requests, Fetcher
<1> QED
  BY <1>1, <1>2, <1>3, <1>4, <1>5, <1>6 DEF Fetcher, g

\* One more waits for the request of k, which is new if nobody waited for it.
Asked(w, u, who, k) ==
    \E q \in Ids : /\ u.reqs[q].key = k
                   /\ u.reqs[q].waiters = w.reqs[q].waiters \cup {who}
                   /\ w.reqs[q].waiters # {} => w.reqs[q].key = k
                   /\ \A r \in Ids : r # q => u.reqs[r] = w.reqs[r]

\* fetch() when the key's grid is not there yet: its request has one more waiter.
LEMMA FetchAsks ==
    ASSUME NEW w, Fetcher(w), NEW who, NEW v \in Views, slice \in 0..MaxSlice, Room(w, v),
           w.cache[Key(v, slice)] = Nothing \/ w.cache[Key(v, slice)].grid = Nothing
    PROVE  LET u == fetch(w, who, v)
               k == Key(v, slice)
           IN /\ Fetcher(u) /\ u.flow = w.flow /\ u.arrows = w.arrows /\ u.cache[k] # Nothing
              /\ Asked(w, u, who, k)
<1> DEFINE k == Key(v, slice)
           u == fetch(w, who, v)
<1>1. k \in Keys /\ k # Nothing /\ (k.slice # Nothing => k.slice = slice) /\ _cacheKey(v) = k
  BY KeyOf, NoKey, CacheKeyIs
<1>2. slice \in Nat
  OBVIOUS
<1>3. CASE w.cache[k] = Nothing
  <2> DEFINE q == FreeId(w)
             n == [req |-> q, grid |-> Nothing]
             c == [w.cache EXCEPT ![k] = n]
             e == [key |-> k, slice |-> slice, waiters |-> {who}]
  <2>1. q \in Ids /\ w.reqs[q] = Free
    BY <1>3 DEF Room, FreeId
  <2>2. u = [[w EXCEPT !.cache = c] EXCEPT !.reqs = [w.reqs EXCEPT ![q] = e]]
    BY <1>1, <1>3 DEF fetch, Requested, Fetcher, Records
  <2>3. /\ DOMAIN e = {"key", "slice", "waiters"} /\ e.waiters = {who} /\ e.key = k /\ e.slice = slice
        /\ DOMAIN n = {"req", "grid"} /\ n.req = q /\ n.grid = Nothing
    OBVIOUS
  <2>4. n # Nothing
    BY <2>1, WindAssumption DEF Ids
  <2> HIDE DEF q, n, c, e, u, k
  <2>5. /\ DOMAIN u = DOMAIN w /\ u.flow = w.flow /\ u.arrows = w.arrows /\ u.cache = c
        /\ u.reqs = [w.reqs EXCEPT ![q] = e]
    BY <2>2 DEF Fetcher, Records
  <2>6. DOMAIN u.reqs = Ids /\ u.reqs[q] = e /\ \A r \in Ids : r # q => u.reqs[r] = w.reqs[r]
    BY <2>1, <2>5 DEF Fetcher, Records
  <2>7. Records(u)
    BY <2>3, <2>5, <2>6 DEF Fetcher, Records
  <2>8. DOMAIN u.cache = Keys /\ u.cache[k] = n /\ \A j \in Keys : j # k => u.cache[j] = w.cache[j]
    BY <1>1, <2>5 DEF Fetcher, Entries, c
  <2>9. Entries(u)
    <3>1. ASSUME NEW j \in Keys, j # k, u.cache[j] # Nothing, u.cache[j].grid = Nothing
          PROVE  u.cache[j].req \in Ids /\ u.reqs[u.cache[j].req].key = j
      <4>1. w.cache[j].req \in Ids /\ w.reqs[w.cache[j].req].key = j
        BY <2>8, <3>1 DEF Fetcher, Entries
      <4>2. w.cache[j].req # q
        BY <2>1, <4>1, NoKey
      <4> QED
        BY <2>6, <2>8, <3>1, <4>1, <4>2
    <3> QED
      BY <1>1, <2>1, <2>3, <2>6, <2>8, <3>1 DEF Fetcher, Entries
  <2>10. Requests(u)
    BY <1>1, <1>2, <2>3, <2>6 DEF Fetcher, Requests
  <2>11. w.reqs[q].waiters = {}
    BY <2>1, NoKey
  <2> QED
    BY <2>1, <2>3, <2>4, <2>5, <2>6, <2>7, <2>8, <2>9, <2>10, <2>11 DEF Fetcher, Asked, u, k
<1>4. CASE w.cache[k] # Nothing
  <2> DEFINE q == w.cache[k].req
             e == [w.reqs[q] EXCEPT !.waiters = w.reqs[q].waiters \cup {who}]
  <2>1. w.cache[k].grid = Nothing /\ q \in Ids /\ w.reqs[q].key = k
    BY <1>1, <1>4 DEF Fetcher, Entries
  <2>2. u = [w EXCEPT !.reqs = [w.reqs EXCEPT ![q] = e]]
    BY <1>1, <1>4, <2>1 DEF fetch, Fetcher, Records
  <2> HIDE DEF q, u, k
  <2>3. /\ DOMAIN e = {"key", "slice", "waiters"} /\ e.key = k /\ e.slice = w.reqs[q].slice
        /\ e.waiters = w.reqs[q].waiters \cup {who}
    BY <2>1 DEF Fetcher, Records
  <2> HIDE DEF e
  <2>4. /\ DOMAIN u = DOMAIN w /\ u.flow = w.flow /\ u.arrows = w.arrows /\ u.cache = w.cache
        /\ u.reqs = [w.reqs EXCEPT ![q] = e]
    BY <2>2 DEF Fetcher, Records
  <2>5. DOMAIN u.reqs = Ids /\ u.reqs[q] = e /\ \A r \in Ids : r # q => u.reqs[r] = w.reqs[r]
    BY <2>1, <2>4 DEF Fetcher, Records
  <2>6. Records(u)
    BY <2>3, <2>4, <2>5 DEF Fetcher, Records
  <2>7. \A r \in Ids : u.reqs[r].key = w.reqs[r].key
    BY <2>1, <2>3, <2>5
  <2>8. Entries(u)
    BY <2>4, <2>7 DEF Fetcher, Entries
  <2>9. Requests(u)
    <3>1. w.reqs[q] # Free
      BY <1>1, <2>1, NoKey
    <3> QED
      BY <2>1, <2>3, <2>5, <3>1 DEF Fetcher, Requests
  <2> QED
    BY <1>4, <2>1, <2>3, <2>4, <2>5, <2>6, <2>8, <2>9 DEF Fetcher, Asked, u, k
<1> QED
  BY <1>3, <1>4

\* fetch() when it is there.
LEMMA FetchHas ==
    ASSUME NEW w, Fetcher(w), NEW who, NEW v \in Views, slice \in 0..MaxSlice,
           w.cache[Key(v, slice)] # Nothing, w.cache[Key(v, slice)].grid # Nothing
    PROVE  \E grid : /\ fetch(w, who, v) = Delivered(w, {who}, grid)
                     /\ grid # Nothing /\ Fits(grid, Key(v, slice))
<1> DEFINE k == Key(v, slice)
<1>1. k \in Keys /\ _cacheKey(v) = k
  BY KeyOf, CacheKeyIs
<1>2. fetch(w, who, v) = Delivered(w, {who}, w.cache[k].grid)
  BY <1>1 DEF fetch
<1>3. Fits(w.cache[k].grid, k)
  BY <1>1 DEF Fetcher, Entries
<1> HIDE DEF k
<1> QED
  BY <1>2, <1>3 DEF k

\* What an overlay keeps of what it is delivered.
Kept(o, p, got) ==
    /\ DOMAIN p = OverlayFields
    /\ p.alive = o.alive /\ p.paused = o.paused /\ p.tick = o.tick /\ p.due = o.due
    /\ p.debounce = o.debounce
    /\ p.last = IF got # Nothing THEN "ok" ELSE "failed"
    /\ got # Nothing => p.grid = got

LEMMA DeliveredFetcher ==
    ASSUME NEW w, Fetcher(w), NEW waiters, NEW got
    PROVE  LET d == Delivered(w, waiters, got)
           IN /\ Fetcher(d) /\ d.reqs = w.reqs /\ d.cache = w.cache
              /\ IF "arrows" \in waiters THEN Kept(w.arrows, d.arrows, got) ELSE d.arrows = w.arrows
              /\ IF "restart" \in waiters
                 THEN Kept(w.flow, d.flow, got) /\ (w.flow.paused \/ d.flow.running)
                 ELSE IF "tick" \in waiters THEN Kept(w.flow, d.flow, got) ELSE d.flow = w.flow
<1> DEFINE x == Drawn(w.arrows, got)
           y == Drawn(w.flow, got)
           z == Starts(y)
           a == IF "arrows" \in waiters THEN x ELSE w.arrows
           f == IF "restart" \in waiters THEN z ELSE IF "tick" \in waiters THEN y ELSE w.flow
           d == Delivered(w, waiters, got)
<1>1. d = [[w EXCEPT !.arrows = a] EXCEPT !.flow = f]
  BY DEF Delivered, Fetcher, Records
<1>2. Kept(w.arrows, x, got) /\ Kept(w.flow, y, got)
  BY DEF Drawn, Kept, Fetcher, Records, OverlayFields
<1> HIDE DEF x, y
<1>3. Kept(w.flow, z, got) /\ (w.flow.paused \/ z.running)
  <2>1. CASE y.paused
    BY <1>2, <2>1 DEF Starts, Kept
  <2>2. CASE ~y.paused
    <3>1. z = [y EXCEPT !.running = TRUE, !.frames = y.frames + 1]
      BY <2>2 DEF Starts, Looping
    <3> HIDE DEF z
    <3> QED
      BY <1>2, <3>1 DEF Kept, OverlayFields
  <2> QED
    BY <2>1, <2>2
<1> HIDE DEF z
<1>4. DOMAIN a = OverlayFields /\ DOMAIN f = OverlayFields
  BY <1>2, <1>3 DEF Kept, Fetcher, Records
<1>5. /\ IF "arrows" \in waiters THEN Kept(w.arrows, a, got) ELSE a = w.arrows
      /\ IF "restart" \in waiters
         THEN Kept(w.flow, f, got) /\ (w.flow.paused \/ f.running)
         ELSE IF "tick" \in waiters THEN Kept(w.flow, f, got) ELSE f = w.flow
  BY <1>2, <1>3
<1> HIDE DEF a, f, d
<1>6. Records(d) /\ d.reqs = w.reqs /\ d.cache = w.cache /\ d.arrows = a /\ d.flow = f
  BY <1>1, <1>4 DEF Fetcher, Records
<1>7. Fetcher(d)
  BY <1>6 DEF Fetcher, Entries, Requests
<1> QED
  BY <1>5, <1>6, <1>7 DEF d

-----------------------------------------------------------------------------
(* _refresh, _restart and the hidden tick                                    *)

LEMMA SetArrows ==
    ASSUME NEW w, Fetcher(w), NEW a, DOMAIN a = OverlayFields
    PROVE  LET u == [w EXCEPT !.arrows = a]
           IN Fetcher(u) /\ u.arrows = a /\ u.flow = w.flow /\ u.reqs = w.reqs /\ u.cache = w.cache
<1> DEFINE u == [w EXCEPT !.arrows = a]
<1>1. Records(u) /\ u.arrows = a /\ u.flow = w.flow /\ u.reqs = w.reqs /\ u.cache = w.cache
  BY DEF Fetcher, Records
<1> HIDE DEF u
<1> QED
  BY <1>1 DEF Fetcher, Entries, Requests, u

LEMMA SetFlow ==
    ASSUME NEW w, Fetcher(w), NEW f, DOMAIN f = OverlayFields
    PROVE  LET u == [w EXCEPT !.flow = f]
           IN Fetcher(u) /\ u.flow = f /\ u.arrows = w.arrows /\ u.reqs = w.reqs /\ u.cache = w.cache
<1> DEFINE u == [w EXCEPT !.flow = f]
<1>1. Records(u) /\ u.flow = f /\ u.arrows = w.arrows /\ u.reqs = w.reqs /\ u.cache = w.cache
  BY DEF Fetcher, Records
<1> HIDE DEF u
<1> QED
  BY <1>1 DEF Fetcher, Entries, Requests, u

\* The same overlays wait for the same requests, `who' apart.
LeavesOthers(w, u, who) ==
    \A r \in Ids, x \in {"arrows", "restart", "tick"} \ who :
        /\ x \in u.reqs[r].waiters <=> x \in w.reqs[r].waiters
        /\ x \in u.reqs[r].waiters => u.reqs[r].key = w.reqs[r].key

\* fetch() for an overlay nobody of which waits: it waits for the request of
\* its key alone, or has drawn the key's grid.
LEMMA FetchCurrent ==
    ASSUME NEW w, Fetcher(w), NEW who \in {"arrows", "restart", "tick"}, NEW v \in Views,
           slice \in 0..MaxSlice, Room(w, v)
    PROVE  LET u == fetch(w, who, v)
               k == Key(v, slice)
           IN /\ Fetcher(u) /\ u.cache[k] # Nothing
              /\ LeavesOthers(w, u, {who})
              /\ who = "arrows" => u.flow = w.flow
              /\ who # "arrows" => u.arrows = w.arrows
              /\ Unawaited(w, {who}) => WaitsFor(u, {who}, k)
              /\ \/ u.flow = w.flow /\ u.arrows = w.arrows /\ ~Unawaited(u, {who})
                 \/ /\ u.reqs = w.reqs
                    /\ \E grid :
                         /\ grid # Nothing /\ Fits(grid, k)
                         /\ IF who = "arrows" THEN Kept(w.arrows, u.arrows, grid)
                            ELSE Kept(w.flow, u.flow, grid)
                                 /\ (who = "restart" => w.flow.paused \/ u.flow.running)
<1> DEFINE u == fetch(w, who, v)
           k == Key(v, slice)
<1>1. CASE w.cache[k] = Nothing \/ w.cache[k].grid = Nothing
  <2>1. /\ Fetcher(u) /\ u.flow = w.flow /\ u.arrows = w.arrows /\ u.cache[k] # Nothing
        /\ Asked(w, u, who, k)
    BY <1>1, FetchAsks
  <2>2. PICK q \in Ids : /\ u.reqs[q].key = k
                         /\ u.reqs[q].waiters = w.reqs[q].waiters \cup {who}
                         /\ w.reqs[q].waiters # {} => w.reqs[q].key = k
                         /\ \A r \in Ids : r # q => u.reqs[r] = w.reqs[r]
    BY <2>1 DEF Asked
  <2> HIDE DEF u, k
  <2>3. LeavesOthers(w, u, {who})
    BY <2>2 DEF LeavesOthers
  <2>4. Unawaited(w, {who}) => WaitsFor(u, {who}, k)
    BY <2>2 DEF Unawaited, WaitsFor
  <2>5. ~Unawaited(u, {who})
    BY <2>2 DEF Unawaited
  <2> QED
    BY <2>1, <2>3, <2>4, <2>5 DEF u, k
<1>2. CASE w.cache[k] # Nothing /\ w.cache[k].grid # Nothing
  <2>1. PICK grid : /\ u = Delivered(w, {who}, grid) /\ grid # Nothing /\ Fits(grid, k)
    BY <1>2, FetchHas
  <2> DEFINE n == {who}
  <2>2. \A x : x \in n <=> x = who
    OBVIOUS
  <2> HIDE DEF u, n
  <2>3. u = Delivered(w, n, grid)
    BY <2>1 DEF n
  <2>4. /\ Fetcher(u) /\ u.reqs = w.reqs /\ u.cache = w.cache
        /\ IF "arrows" \in n THEN Kept(w.arrows, u.arrows, grid) ELSE u.arrows = w.arrows
        /\ IF "restart" \in n
           THEN Kept(w.flow, u.flow, grid) /\ (w.flow.paused \/ u.flow.running)
           ELSE IF "tick" \in n THEN Kept(w.flow, u.flow, grid) ELSE u.flow = w.flow
    BY <2>3, DeliveredFetcher
  <2> HIDE DEF k
  <2>5. LeavesOthers(w, u, {who})
    BY <2>4 DEF LeavesOthers
  <2>6. Unawaited(w, {who}) => WaitsFor(u, {who}, k)
    BY <2>4 DEF Unawaited, WaitsFor
  <2> QED
    BY <1>2, <2>1, <2>2, <2>4, <2>5, <2>6 DEF u, k
<1> QED
  BY <1>1, <1>2

LEMMA RefreshCurrent ==
    ASSUME NEW w, Fetcher(w), Flags(w.arrows), NEW m, m.view \in Views, slice \in 0..MaxSlice,
           Room(w, m.view)
    PROVE  LET u == _refresh(w, m.view)
           IN /\ Fetcher(u) /\ ArrowsOK(u, m, slice) /\ u.flow = w.flow
              /\ u.cache[Key(m.view, slice)] # Nothing
              /\ \A still : FlowOK(w, m, slice, still) => FlowOK(u, m, slice, still)
<1> DEFINE g == Forgotten(w, {"arrows"})
           a == [g.arrows EXCEPT !.last = "none"]
           q == [g EXCEPT !.arrows = a]
           u == _refresh(w, m.view)
           k == Key(m.view, slice)
<1>1. /\ Fetcher(g) /\ g.flow = w.flow /\ g.arrows = w.arrows /\ g.cache = w.cache
      /\ \A r \in Ids : /\ g.reqs[r].waiters = w.reqs[r].waiters \ {"arrows"}
                        /\ g.reqs[r].key = w.reqs[r].key
                        /\ w.reqs[r] = Free => g.reqs[r] = Free
  BY ForgottenFetcher
<1>2. u = fetch(q, "arrows", m.view)
  BY DEF _refresh
<1> HIDE DEF g, u, k
<1>3. /\ DOMAIN a = OverlayFields /\ a.last = "none" /\ a.alive = w.arrows.alive
      /\ a.paused = w.arrows.paused /\ a.tick = w.arrows.tick /\ a.due = w.arrows.due
  BY <1>1 DEF Fetcher, Records, OverlayFields
<1> HIDE DEF a
<1>4. Fetcher(q) /\ q.arrows = a /\ q.flow = g.flow /\ q.reqs = g.reqs /\ q.cache = g.cache
  BY <1>1, <1>3, SetArrows
<1> HIDE DEF q
<1>5. Room(q, m.view) /\ Unawaited(q, {"arrows"})
  BY <1>1, <1>4 DEF Room, Unawaited
<1>6. /\ Fetcher(u) /\ u.cache[k] # Nothing
      /\ LeavesOthers(q, u, {"arrows"})
      /\ u.flow = q.flow
      /\ WaitsFor(u, {"arrows"}, k)
      /\ \/ u.arrows = q.arrows
         \/ \E grid : grid # Nothing /\ Fits(grid, k) /\ Kept(q.arrows, u.arrows, grid)
  BY <1>2, <1>4, <1>5, FetchCurrent DEF k
<1>7. Flags(u.arrows) /\ (u.arrows.last = "ok" => Current(u.arrows.grid, m, slice))
  <2>1. CASE u.arrows = q.arrows
    BY <1>3, <1>4, <2>1 DEF Flags
  <2>2. ASSUME NEW grid, grid # Nothing, Fits(grid, k), Kept(q.arrows, u.arrows, grid)
        PROVE  Flags(u.arrows) /\ Current(u.arrows.grid, m, slice)
    <3>1. Current(grid, m, slice)
      BY <2>2, FitsCurrent DEF k
    <3> QED
      BY <1>3, <1>4, <2>2, <3>1 DEF Flags, Kept
  <2> QED
    BY <1>6, <2>1, <2>2
<1>8. ArrowsOK(u, m, slice)
  BY <1>6, <1>7 DEF ArrowsOK, k
<1>9. SameWaits(w, u, {"restart", "tick"})
  BY <1>1, <1>4, <1>6 DEF LeavesOthers, SameWaits
<1>10. u.flow = w.flow
  BY <1>1, <1>4, <1>6
<1>11. ASSUME NEW still, FlowOK(w, m, slice, still)
       PROVE  FlowOK(u, m, slice, still)
  BY <1>9, <1>10, <1>11, FlowFrame
<1> QED
  BY <1>6, <1>8, <1>10, <1>11 DEF u, k

LEMMA RestartCurrent ==
    ASSUME NEW w, Fetcher(w), Flags(w.flow), w.flow.paused = FALSE, NEW m, m.view \in Views,
           slice \in 0..MaxSlice, Room(w, m.view), NEW still
    PROVE  LET u == _restart(w, m.view, still)
           IN /\ Fetcher(u) /\ FlowOK(u, m, slice, still)
              /\ ArrowsOK(w, m, slice) => ArrowsOK(u, m, slice)
<1> DEFINE g == Forgotten(w, {"restart", "tick"})
           f == [_stopLoop(g.flow) EXCEPT !.last = "none"]
           q == [g EXCEPT !.flow = f]
           u == _restart(w, m.view, still)
           k == Key(m.view, slice)
<1>1. /\ Fetcher(g) /\ g.flow = w.flow /\ g.arrows = w.arrows /\ g.cache = w.cache
      /\ \A r \in Ids : /\ g.reqs[r].waiters = w.reqs[r].waiters \ {"restart", "tick"}
                        /\ g.reqs[r].key = w.reqs[r].key
                        /\ w.reqs[r] = Free => g.reqs[r] = Free
  BY ForgottenFetcher
<1>2. u = IF still THEN q ELSE fetch(q, "restart", m.view)
  BY DEF _restart
<1> HIDE DEF g, u, k
<1>3. /\ DOMAIN f = OverlayFields /\ f.last = "none" /\ f.alive = w.flow.alive
      /\ f.paused = w.flow.paused /\ f.tick = w.flow.tick /\ f.due = w.flow.due
  BY <1>1 DEF _stopLoop, Fetcher, Records, OverlayFields
<1> HIDE DEF f
<1>4. Fetcher(q) /\ q.flow = f /\ q.arrows = g.arrows /\ q.reqs = g.reqs /\ q.cache = g.cache
  BY <1>1, <1>3, SetFlow
<1> HIDE DEF q
<1>5. Room(q, m.view) /\ Unawaited(q, {"restart"}) /\ Unawaited(q, {"tick"})
  BY <1>1, <1>4 DEF Room, Unawaited
<1>6. Flags(q.flow)
  BY <1>3, <1>4 DEF Flags
<1>7. CASE still
  <2>1. FlowOK(q, m, slice, still)
    BY <1>5, <1>6, <1>7 DEF FlowOK, FlowSettle
  <2>2. SameWaits(w, q, {"arrows"}) /\ q.arrows = w.arrows
    BY <1>1, <1>4 DEF SameWaits
  <2> QED
    BY <1>2, <1>4, <1>7, <2>1, <2>2, ArrowsFrame DEF u
<1>8. CASE ~still
  <2>1. /\ Fetcher(u)
        /\ LeavesOthers(q, u, {"restart"})
        /\ u.arrows = q.arrows
        /\ WaitsFor(u, {"restart"}, k)
        /\ \/ u.flow = q.flow
           \/ \E grid : /\ grid # Nothing /\ Fits(grid, k) /\ Kept(q.flow, u.flow, grid)
                        /\ q.flow.paused \/ u.flow.running
    BY <1>2, <1>4, <1>5, <1>8, FetchCurrent DEF k
  <2>2. Flags(u.flow) /\ (u.flow.last = "ok" => Current(u.flow.grid, m, slice) /\ u.flow.running)
    <3>1. CASE u.flow = q.flow
      BY <1>3, <1>4, <1>6, <3>1
    <3>2. ASSUME NEW grid, grid # Nothing, Fits(grid, k), Kept(q.flow, u.flow, grid),
                 q.flow.paused \/ u.flow.running
          PROVE  Flags(u.flow) /\ Current(u.flow.grid, m, slice) /\ u.flow.running
      <4>1. Current(grid, m, slice)
        BY <3>2, FitsCurrent DEF k
      <4>2. Flags(u.flow) /\ u.flow.grid = grid
        BY <1>6, <3>2 DEF Flags, Kept
      <4> QED
        BY <1>3, <1>4, <3>2, <4>1, <4>2
    <3> QED
      BY <2>1, <3>1, <3>2
  <2>3. Unawaited(u, {"tick"})
    BY <1>5, <2>1 DEF LeavesOthers, Unawaited
  <2>4. WaitsFor(u, {"restart", "tick"}, k)
    BY <2>1, <2>3 DEF WaitsFor, Unawaited
  <2>5. FlowOK(u, m, slice, still)
    BY <2>2, <2>3, <2>4 DEF FlowOK, k
  <2>6. SameWaits(w, u, {"arrows"}) /\ u.arrows = w.arrows
    BY <1>1, <1>4, <2>1 DEF LeavesOthers, SameWaits
  <2> QED
    BY <2>1, <2>5, <2>6, ArrowsFrame DEF u
<1> QED
  BY <1>7, <1>8

\* The tick of hidden streamlines.
LEMMA TickCurrent ==
    ASSUME NEW w, Fetcher(w), Flags(w.flow), w.flow.paused = TRUE, NEW m, m.view \in Views,
           slice \in 0..MaxSlice, Room(w, m.view), NEW still
    PROVE  LET u == fetch(w, "tick", m.view)
           IN /\ Fetcher(u) /\ FlowOK(u, m, slice, still)
              /\ ArrowsOK(w, m, slice) => ArrowsOK(u, m, slice)
<1> DEFINE u == fetch(w, "tick", m.view)
           k == Key(m.view, slice)
<1>1. /\ Fetcher(u)
      /\ LeavesOthers(w, u, {"tick"})
      /\ u.arrows = w.arrows
      /\ u.flow = w.flow \/ \E grid : Kept(w.flow, u.flow, grid)
  BY FetchCurrent DEF k
<1> HIDE DEF u
<1>2. Flags(u.flow) /\ u.flow.paused = TRUE
  BY <1>1 DEF Flags, Kept
<1>3. FlowOK(u, m, slice, still)
  BY <1>2 DEF FlowOK, FlowSettle
<1>4. SameWaits(w, u, {"arrows"})
  BY <1>1 DEF LeavesOthers, SameWaits
<1> QED
  BY <1>1, <1>3, <1>4, ArrowsFrame DEF u

-----------------------------------------------------------------------------
(* An answer, a failure, an expiry                                           *)

LEMMA SettledFetcher ==
    ASSUME NEW w, Fetcher(w), NEW r \in Ids, w.reqs[r] # Free, NEW got,
           \/ got = Nothing
           \/ got = [view |-> w.reqs[r].key.view, slice |-> w.reqs[r].slice]
    PROVE  LET u == Settled(w, r, got)
               n == w.reqs[r].waiters
           IN /\ Fetcher(u)
              /\ got # Nothing => Fits(got, w.reqs[r].key)
              /\ u.reqs[r] = Free /\ \A s \in Ids : s # r => u.reqs[s] = w.reqs[s]
              /\ IF "arrows" \in n THEN Kept(w.arrows, u.arrows, got) ELSE u.arrows = w.arrows
              /\ IF "restart" \in n
                 THEN Kept(w.flow, u.flow, got) /\ (w.flow.paused \/ u.flow.running)
                 ELSE IF "tick" \in n THEN Kept(w.flow, u.flow, got) ELSE u.flow = w.flow
<1> DEFINE n == w.reqs[r].waiters
           k == w.reqs[r].key
           d == Delivered(w, n, got)
           e == EntryAfter(w.cache[k], r, got)
           c == [w.cache EXCEPT ![k] = e]
           u == Settled(w, r, got)
<1>1. /\ k \in Keys /\ w.reqs[r].slice \in Nat
      /\ k.slice # Nothing => w.reqs[r].slice = k.slice
  BY DEF Fetcher, Requests
<1>2. got # Nothing => Fits(got, k)
  BY <1>1 DEF Fits
<1> HIDE DEF n
<1>3. /\ Fetcher(d) /\ d.reqs = w.reqs /\ d.cache = w.cache
      /\ IF "arrows" \in n THEN Kept(w.arrows, d.arrows, got) ELSE d.arrows = w.arrows
      /\ IF "restart" \in n
         THEN Kept(w.flow, d.flow, got) /\ (w.flow.paused \/ d.flow.running)
         ELSE IF "tick" \in n THEN Kept(w.flow, d.flow, got) ELSE d.flow = w.flow
  BY DeliveredFetcher
<1> HIDE DEF d
<1>4. u = [[d EXCEPT !.cache = c] EXCEPT !.reqs = [w.reqs EXCEPT ![r] = Free]]
  BY <1>3 DEF Settled, d, n, Fetcher, Records
<1> HIDE DEF k, c, e, u
<1>5. /\ DOMAIN u = DOMAIN d /\ u.arrows = d.arrows /\ u.flow = d.flow
      /\ u.cache = c /\ u.reqs = [w.reqs EXCEPT ![r] = Free]
  BY <1>3, <1>4 DEF Fetcher, Records
<1>6. DOMAIN u.reqs = Ids /\ u.reqs[r] = Free /\ \A s \in Ids : s # r => u.reqs[s] = w.reqs[s]
  BY <1>5 DEF Fetcher, Records
<1>7. Records(u)
  BY <1>3, <1>5, <1>6 DEF Fetcher, Records, Free
<1>8. DOMAIN u.cache = Keys /\ u.cache[k] = e /\ \A j \in Keys : j # k => u.cache[j] = w.cache[j]
  BY <1>1, <1>5 DEF Fetcher, Entries, c
<1>9. Entries(u)
  <2>1. ASSUME NEW j \in Keys, j # k, u.cache[j] # Nothing
        PROVE  /\ DOMAIN u.cache[j] = {"req", "grid"}
               /\ IF u.cache[j].grid = Nothing
                  THEN u.cache[j].req \in Ids /\ u.reqs[u.cache[j].req].key = j
                  ELSE Fits(u.cache[j].grid, j)
    <3>1. u.cache[j] = w.cache[j]
      BY <1>8, <2>1
    <3>2. CASE w.cache[j].grid = Nothing
      <4>1. w.cache[j].req \in Ids /\ w.reqs[w.cache[j].req].key = j
        BY <2>1, <3>1, <3>2 DEF Fetcher, Entries
      <4>2. w.cache[j].req # r
        BY <2>1, <4>1 DEF k
      <4> QED
        BY <1>6, <2>1, <3>1, <3>2, <4>1, <4>2 DEF Fetcher, Entries
    <3>3. CASE w.cache[j].grid # Nothing
      BY <2>1, <3>1, <3>3 DEF Fetcher, Entries
    <3> QED
      BY <3>2, <3>3
  <2>2. ASSUME e # Nothing
        PROVE  /\ DOMAIN e = {"req", "grid"}
               /\ IF e.grid = Nothing THEN e.req \in Ids /\ u.reqs[e.req].key = k ELSE Fits(e.grid, k)
    <3> DEFINE b == w.cache[k]
    <3>1. b # Nothing /\ (b.req # r => e = b) /\ (b.req = r => got # Nothing /\ e = [b EXCEPT !.req = 0, !.grid = got])
      BY <2>2 DEF EntryAfter, e
    <3>2. /\ DOMAIN b = {"req", "grid"}
          /\ IF b.grid = Nothing THEN b.req \in Ids /\ w.reqs[b.req].key = k ELSE Fits(b.grid, k)
      BY <1>1, <3>1 DEF Fetcher, Entries
    <3> HIDE DEF b
    <3>3. CASE b.req # r
      BY <1>6, <3>1, <3>2, <3>3
    <3>4. CASE b.req = r
      <4>1. DOMAIN e = {"req", "grid"} /\ e.grid = got /\ got # Nothing
        BY <3>1, <3>2, <3>4
      <4> QED
        BY <1>2, <4>1
    <3> QED
      BY <3>3, <3>4
  <2> QED
    BY <1>8, <2>1, <2>2 DEF Entries
<1>10. Requests(u)
  BY <1>6 DEF Fetcher, Requests
<1> QED
  BY <1>2, <1>3, <1>5, <1>6, <1>7, <1>9, <1>10 DEF Fetcher, n, k, u

LEMMA SettledCurrent ==
    ASSUME NEW w, NEW m, m.view \in Views, NEW t \in 0..MaxSlice, NEW still, WindInv(w, m, t, still),
           NEW r \in Ids, w.reqs[r] # Free, NEW got,
           \/ got = Nothing
           \/ got = [view |-> w.reqs[r].key.view, slice |-> w.reqs[r].slice]
    PROVE  WindInv(Settled(w, r, got), m, t, still)
<1> DEFINE n == w.reqs[r].waiters
           k == w.reqs[r].key
           u == Settled(w, r, got)
<1>1. /\ Fetcher(u)
      /\ got # Nothing => Fits(got, k)
      /\ u.reqs[r] = Free /\ \A s \in Ids : s # r => u.reqs[s] = w.reqs[s]
      /\ IF "arrows" \in n THEN Kept(w.arrows, u.arrows, got) ELSE u.arrows = w.arrows
      /\ IF "restart" \in n
         THEN Kept(w.flow, u.flow, got) /\ (w.flow.paused \/ u.flow.running)
         ELSE IF "tick" \in n THEN Kept(w.flow, u.flow, got) ELSE u.flow = w.flow
  BY SettledFetcher DEF WindInv
<1>3. ASSUME got # Nothing, k = Key(m.view, t)
      PROVE  Current(got, m, t)
  BY <1>1, <1>3, FitsCurrent
<1> HIDE DEF u
<1>4. \A x : \A s \in Ids : x \in u.reqs[s].waiters => s # r /\ x \in w.reqs[s].waiters /\ u.reqs[s].key = w.reqs[s].key
  BY <1>1, NoKey
<1>5. ASSUME NEW x, x \notin n
      PROVE  \A s \in Ids : x \in w.reqs[s].waiters => x \in u.reqs[s].waiters
  BY <1>1, <1>5
<1>6. ArrowsOK(u, m, t)
  <2>0. ArrowsOK(w, m, t)
    BY DEF WindInv
  <2>1. CASE "arrows" \notin n
    <3>1. SameWaits(w, u, {"arrows"})
      BY <1>4, <1>5, <2>1 DEF SameWaits
    <3> QED
      BY <1>1, <2>0, <2>1, <3>1, ArrowsFrame
  <2>2. CASE "arrows" \in n
    <3>1. Kept(w.arrows, u.arrows, got)
      BY <1>1, <2>2
    <3>2. Flags(u.arrows)
      BY <2>0, <3>1 DEF ArrowsOK, Flags, Kept
    <3>3. ASSUME ArrowsSettle(u.arrows, m)
          PROVE  /\ WaitsFor(u, {"arrows"}, Key(m.view, t))
                 /\ u.arrows.last = "ok" => Current(u.arrows.grid, m, t)
      <4>1. WaitsFor(w, {"arrows"}, Key(m.view, t))
        BY <2>0, <3>1, <3>3 DEF ArrowsOK, ArrowsSettle, Kept
      <4>2. k = Key(m.view, t)
        BY <2>2, <4>1 DEF WaitsFor
      <4>3. WaitsFor(u, {"arrows"}, Key(m.view, t))
        BY <1>4, <4>1 DEF WaitsFor
      <4> QED
        BY <1>3, <3>1, <4>2, <4>3 DEF Kept
    <3> QED
      BY <3>2, <3>3 DEF ArrowsOK
  <2> QED
    BY <2>1, <2>2
<1>7. FlowOK(u, m, t, still)
  <2>0. FlowOK(w, m, t, still)
    BY DEF WindInv
  <2>1. CASE "restart" \notin n /\ "tick" \notin n
    <3>1. SameWaits(w, u, {"restart", "tick"})
      BY <1>4, <1>5, <2>1 DEF SameWaits
    <3> QED
      BY <1>1, <2>0, <2>1, <3>1, FlowFrame
  <2>2. CASE "restart" \in n \/ "tick" \in n
    <3>1. Kept(w.flow, u.flow, got)
      BY <1>1, <2>2
    <3>2. Flags(u.flow) /\ u.flow.paused = w.flow.paused
      BY <2>0, <3>1 DEF FlowOK, Flags, Kept
    <3>3. ~w.flow.paused => Unawaited(u, {"tick"})
      BY <1>4, <2>0 DEF FlowOK, Unawaited
    <3>4. ASSUME ~w.flow.paused
          PROVE  u.flow.running
      <4>1. "tick" \notin n
        BY <2>0, <3>4 DEF FlowOK, Unawaited
      <4> QED
        BY <1>1, <2>2, <3>4, <4>1
    <3>5. ASSUME FlowSettle(u.flow, m, still)
          PROVE  /\ WaitsFor(u, {"restart", "tick"}, Key(m.view, t))
                 /\ u.flow.last = "ok" => Current(u.flow.grid, m, t)
      <4>1. WaitsFor(w, {"restart", "tick"}, Key(m.view, t))
        BY <2>0, <3>1, <3>5 DEF FlowOK, FlowSettle, Kept
      <4>2. k = Key(m.view, t)
        BY <2>2, <4>1 DEF WaitsFor
      <4>3. WaitsFor(u, {"restart", "tick"}, Key(m.view, t))
        BY <1>4, <4>1 DEF WaitsFor
      <4> QED
        BY <1>3, <3>1, <4>2, <4>3 DEF Kept
    <3> QED
      BY <3>2, <3>3, <3>4, <3>5 DEF FlowOK, FlowSettle
  <2> QED
    BY <2>1, <2>2
<1> QED
  BY <1>1, <1>6, <1>7 DEF WindInv, u

LEMMA AnswerCurrent ==
    ASSUME CInv, NEW r \in Ids, GridAnswer(r) \/ GridFails(r)
    PROVE  CInv'
<1>1. map.view \in Views
  BY DEF CInv
<1>2. PICK got : /\ wind' = Settled(wind, r, got) /\ wind.reqs[r] # Free
                 /\ \/ got = Nothing
                    \/ got = [view |-> wind.reqs[r].key.view, slice |-> wind.reqs[r].slice]
  BY DEF GridAnswer, GridFails
<1>3. UNCHANGED <<preload, slice, map, reduced>>
  BY DEF GridAnswer, GridFails
<1>4. WindInv(wind', map, slice, reduced)
  BY <1>1, <1>2, SettledCurrent DEF CInv
<1> QED
  BY <1>3, <1>4 DEF CInv

LEMMA ExpiresCurrent ==
    ASSUME CInv, NEW k \in Keys, EntryExpires(k)
    PROVE  CInv'
<1> DEFINE c == [wind.cache EXCEPT ![k] = Nothing]
           u == [wind EXCEPT !.cache = c]
<1>1. wind' = u /\ UNCHANGED <<preload, slice, map, reduced>>
  BY DEF EntryExpires
<1>2. c[k] = Nothing /\ DOMAIN c = DOMAIN wind.cache /\ \A j \in Keys : j # k => c[j] = wind.cache[j]
  BY DEF CInv, WindInv, Fetcher, Entries
<1> HIDE DEF c
<1>3. Records(u) /\ u.flow = wind.flow /\ u.arrows = wind.arrows /\ u.reqs = wind.reqs /\ u.cache = c
  BY DEF CInv, WindInv, Fetcher, Records
<1> HIDE DEF u
<1>4. Fetcher(u)
  BY <1>2, <1>3 DEF CInv, WindInv, Fetcher, Entries, Requests
<1>5. ArrowsOK(u, map, slice) /\ FlowOK(u, map, slice, reduced)
  BY <1>3 DEF CInv, WindInv, ArrowsOK, FlowOK, WaitsFor, Unawaited
<1> QED
  BY <1>1, <1>4, <1>5 DEF CInv, WindInv

-----------------------------------------------------------------------------
(* The overlays' own steps                                                   *)

LEMMA Facts ==
    ASSUME CInv
    PROVE  /\ map.view \in Views /\ slice \in 0..MaxSlice
           /\ Fetcher(wind) /\ Records(wind)
           /\ ArrowsOK(wind, map, slice) /\ FlowOK(wind, map, slice, reduced)
           /\ Flags(wind.arrows) /\ Flags(wind.flow)
           /\ HasRoom => \A w, v : w.reqs = wind.reqs => Room(w, v)
BY DEF CInv, WindInv, Fetcher, ArrowsOK, FlowOK, HasRoom, Room

\* One overlay's record has changed and its promise holds: the other's does still.
LEMMA OtherFlow ==
    ASSUME NEW w, NEW u, NEW m, NEW t, NEW still, FlowOK(w, m, t, still),
           u.flow = w.flow, u.reqs = w.reqs
    PROVE  FlowOK(u, m, t, still)
BY DEF FlowOK, WaitsFor, Unawaited

LEMMA OtherArrows ==
    ASSUME NEW w, NEW u, NEW m, NEW t, ArrowsOK(w, m, t), u.arrows = w.arrows, u.reqs = w.reqs
    PROVE  ArrowsOK(u, m, t)
BY DEF ArrowsOK, WaitsFor, Unawaited

LEMMA ConstructedFlags ==
    /\ DOMAIN Constructed = OverlayFields /\ DOMAIN NoOverlay = OverlayFields
    /\ Flags(Constructed) /\ Flags(NoOverlay)
    /\ Constructed.paused = FALSE /\ NoOverlay.alive = FALSE
BY DEF Constructed, NoOverlay, OverlayFields, Flags

\* A refresh of arrows that were set to a.
LEMMA RefreshOf ==
    ASSUME CInv, HasRoom, NEW a, DOMAIN a = OverlayFields, Flags(a)
    PROVE  LET u == _refresh([wind EXCEPT !.arrows = a], map.view)
           IN WindInv(u, map, slice, reduced) /\ u.flow = wind.flow /\ u.cache[Key(map.view, slice)] # Nothing
<1> DEFINE w == [wind EXCEPT !.arrows = a]
<1>1. Fetcher(w) /\ w.arrows = a /\ w.flow = wind.flow /\ w.reqs = wind.reqs
  BY Facts, SetArrows
<1> HIDE DEF w
<1>2. FlowOK(w, map, slice, reduced) /\ Room(w, map.view) /\ map.view \in Views /\ slice \in 0..MaxSlice
  BY <1>1, Facts, OtherFlow
<1> DEFINE u == _refresh(w, map.view)
<1>3. /\ Fetcher(u) /\ ArrowsOK(u, map, slice) /\ u.flow = w.flow
      /\ u.cache[Key(map.view, slice)] # Nothing
      /\ \A still : FlowOK(w, map, slice, still) => FlowOK(u, map, slice, still)
  BY <1>1, <1>2, RefreshCurrent
<1> HIDE DEF u
<1> QED
  BY <1>1, <1>2, <1>3 DEF WindInv, u, w

LEMMA StartArrowsCurrent ==
    ASSUME CInv, StartArrows
    PROVE  CInv'
<1> DEFINE u == _refresh([wind EXCEPT !.arrows = Constructed], map.view)
<1>1. HasRoom /\ wind' = u /\ UNCHANGED <<preload, slice, map, reduced>>
  BY DEF StartArrows
<1>2. WindInv(u, map, slice, reduced)
  BY <1>1, ConstructedFlags, RefreshOf
<1> HIDE DEF u
<1> QED
  BY <1>1, <1>2 DEF CInv

LEMMA DebouncedCurrent ==
    ASSUME CInv, Debounced
    PROVE  CInv'
<1> DEFINE a == [wind.arrows EXCEPT !.debounce = FALSE]
           u == _refresh([wind EXCEPT !.arrows = a], map.view)
<1>1. HasRoom /\ wind' = u /\ UNCHANGED <<preload, slice, map, reduced>>
  BY Facts DEF Debounced, Records
<1>2. DOMAIN a = OverlayFields /\ Flags(a)
  BY Facts DEF Records, Flags, OverlayFields
<1> HIDE DEF a
<1>3. WindInv(u, map, slice, reduced)
  BY <1>1, <1>2, RefreshOf
<1> HIDE DEF u
<1> QED
  BY <1>1, <1>3 DEF CInv

LEMMA ArrowsTickCurrent ==
    ASSUME CInv, ArrowsTick
    PROVE  CInv'
<1> DEFINE a == [wind.arrows EXCEPT !.due = FALSE]
           u == _refresh([wind EXCEPT !.arrows = a], map.view)
<1>1. HasRoom /\ wind' = u /\ UNCHANGED <<preload, slice, map, reduced>>
  BY Facts DEF ArrowsTick, Records
<1>2. DOMAIN a = OverlayFields /\ Flags(a)
  BY Facts DEF Records, Flags, OverlayFields
<1> HIDE DEF a
<1>3. WindInv(u, map, slice, reduced)
  BY <1>1, <1>2, RefreshOf
<1> HIDE DEF u
<1> QED
  BY <1>1, <1>3 DEF CInv

\* A restart of streamlines that were set to f and are not paused.
LEMMA RestartOf ==
    ASSUME CInv, HasRoom, NEW f, DOMAIN f = OverlayFields, Flags(f), f.paused = FALSE, NEW still
    PROVE  WindInv(_restart([wind EXCEPT !.flow = f], map.view, still), map, slice, still)
<1> DEFINE w == [wind EXCEPT !.flow = f]
<1>1. Fetcher(w) /\ w.flow = f /\ w.arrows = wind.arrows /\ w.reqs = wind.reqs
  BY Facts, SetFlow
<1> HIDE DEF w
<1>2. ArrowsOK(w, map, slice) /\ Room(w, map.view) /\ map.view \in Views /\ slice \in 0..MaxSlice
  BY <1>1, Facts, OtherArrows
<1> DEFINE u == _restart(w, map.view, still)
<1>3. /\ Fetcher(u) /\ FlowOK(u, map, slice, still)
      /\ ArrowsOK(w, map, slice) => ArrowsOK(u, map, slice)
  BY <1>1, <1>2, RestartCurrent
<1> HIDE DEF u
<1> QED
  BY <1>2, <1>3 DEF WindInv, u, w

LEMMA StartFlowCurrent ==
    ASSUME CInv, StartFlow
    PROVE  CInv'
<1> DEFINE u == _restart([wind EXCEPT !.flow = Constructed], map.view, reduced)
<1>1. HasRoom /\ wind' = u /\ UNCHANGED <<preload, slice, map, reduced>>
  BY DEF StartFlow
<1>2. WindInv(u, map, slice, reduced)
  BY <1>1, ConstructedFlags, RestartOf
<1> HIDE DEF u
<1> QED
  BY <1>1, <1>2 DEF CInv

LEMMA FlowTickCurrent ==
    ASSUME CInv, FlowTick
    PROVE  CInv'
<1> DEFINE f == [wind.flow EXCEPT !.due = FALSE]
           w == [wind EXCEPT !.flow = f]
<1>1. /\ wind' = IF w.flow.paused THEN fetch(w, "tick", map.view) ELSE _restart(w, map.view, reduced)
      /\ HasRoom /\ UNCHANGED <<preload, slice, map, reduced>>
  BY Facts DEF FlowTick, Records
<1>2. DOMAIN f = OverlayFields /\ Flags(f) /\ f.paused \in BOOLEAN
  BY Facts DEF Records, Flags, OverlayFields
<1> HIDE DEF f
<1>3. Fetcher(w) /\ w.flow = f /\ w.arrows = wind.arrows /\ w.reqs = wind.reqs
  BY <1>2, Facts, SetFlow
<1>4. CASE f.paused = FALSE
  <2> DEFINE u == _restart(w, map.view, reduced)
  <2>1. WindInv(u, map, slice, reduced)
    BY <1>1, <1>2, <1>4, RestartOf
  <2>2. wind' = u
    BY <1>1, <1>3, <1>4
  <2> HIDE DEF u
  <2> QED
    BY <1>1, <2>1, <2>2 DEF CInv
<1>5. CASE f.paused = TRUE
  <2> HIDE DEF w
  <2>1. ArrowsOK(w, map, slice) /\ Room(w, map.view) /\ map.view \in Views /\ slice \in 0..MaxSlice
    BY <1>1, <1>3, Facts, OtherArrows
  <2> DEFINE u == fetch(w, "tick", map.view)
  <2>2. /\ Fetcher(u) /\ FlowOK(u, map, slice, reduced)
        /\ ArrowsOK(w, map, slice) => ArrowsOK(u, map, slice)
    BY <1>2, <1>3, <1>5, <2>1, TickCurrent
  <2>3. wind' = u
    BY <1>1, <1>3, <1>5
  <2> HIDE DEF u
  <2> QED
    BY <1>1, <2>1, <2>2, <2>3 DEF CInv, WindInv
<1> QED
  BY <1>2, <1>4, <1>5

LEMMA DestroyArrowsCurrent ==
    ASSUME CInv, DestroyArrows
    PROVE  CInv'
<1> DEFINE g == Forgotten(wind, {"arrows"})
           u == [g EXCEPT !.arrows = NoOverlay]
<1>1. wind' = u /\ UNCHANGED <<preload, slice, map, reduced>>
  BY DEF DestroyArrows
<1>2. /\ Fetcher(g) /\ g.flow = wind.flow
      /\ \A r \in Ids : /\ g.reqs[r].waiters = wind.reqs[r].waiters \ {"arrows"}
                        /\ g.reqs[r].key = wind.reqs[r].key
  BY Facts, ForgottenFetcher
<1> HIDE DEF g
<1>3. Fetcher(u) /\ u.arrows = NoOverlay /\ u.flow = g.flow /\ u.reqs = g.reqs
  BY <1>2, ConstructedFlags, SetArrows
<1> HIDE DEF u
<1>4. SameWaits(wind, u, {"restart", "tick"})
  BY <1>2, <1>3 DEF SameWaits
<1>5. FlowOK(u, map, slice, reduced)
  BY <1>2, <1>3, <1>4, Facts, FlowFrame
<1>6. ArrowsOK(u, map, slice)
  BY <1>3, ConstructedFlags DEF ArrowsOK, ArrowsSettle
<1> QED
  BY <1>1, <1>3, <1>5, <1>6 DEF CInv, WindInv

LEMMA DestroyFlowCurrent ==
    ASSUME CInv, DestroyFlow
    PROVE  CInv'
<1> DEFINE g == Forgotten(wind, {"restart", "tick"})
           n == _stopLoop(wind.flow).frames
           f == [NoOverlay EXCEPT !.frames = n]
           u == [g EXCEPT !.flow = f]
<1>1. wind' = u /\ UNCHANGED <<preload, slice, map, reduced>>
  BY DEF DestroyFlow
<1>2. /\ Fetcher(g) /\ g.arrows = wind.arrows
      /\ \A r \in Ids : /\ g.reqs[r].waiters = wind.reqs[r].waiters \ {"restart", "tick"}
                        /\ g.reqs[r].key = wind.reqs[r].key
  BY Facts, ForgottenFetcher
<1> HIDE DEF g, n
<1>3. DOMAIN f = OverlayFields /\ Flags(f) /\ f.alive = FALSE
  BY DEF NoOverlay, OverlayFields, Flags
<1> HIDE DEF f
<1>4. Fetcher(u) /\ u.flow = f /\ u.arrows = g.arrows /\ u.reqs = g.reqs
  BY <1>2, <1>3, SetFlow
<1> HIDE DEF u
<1>5. SameWaits(wind, u, {"arrows"})
  BY <1>2, <1>4 DEF SameWaits
<1>6. ArrowsOK(u, map, slice)
  BY <1>2, <1>4, <1>5, Facts, ArrowsFrame
<1>7. FlowOK(u, map, slice, reduced)
  BY <1>2, <1>3, <1>4 DEF FlowOK, FlowSettle, Unawaited
<1> QED
  BY <1>1, <1>4, <1>6, <1>7 DEF CInv, WindInv

LEMMA MoveStartCurrent ==
    ASSUME CInv, MoveStart
    PROVE  CInv'
<1> DEFINE f == _stopLoop(wind.flow)
           u == [wind EXCEPT !.flow = f]
<1>1. wind' = u /\ map' = [map EXCEPT !.moving = TRUE] /\ UNCHANGED <<preload, slice, reduced>>
  BY DEF MoveStart
<1>2. map' \in [view : Views, moving : BOOLEAN] /\ map'.moving = TRUE
  BY <1>1 DEF CInv
<1>3. DOMAIN f = OverlayFields /\ Flags(f) /\ f.paused = wind.flow.paused
  BY Facts DEF _stopLoop, Records, OverlayFields, Flags
<1> HIDE DEF f
<1>4. Fetcher(u) /\ u.flow = f /\ u.arrows = wind.arrows /\ u.reqs = wind.reqs
  BY <1>3, Facts, SetFlow
<1> HIDE DEF u
<1>5. ArrowsOK(u, map', slice)
  BY <1>2, <1>4, Facts DEF ArrowsOK, ArrowsSettle
<1>6. FlowOK(u, map', slice, reduced)
  BY <1>2, <1>3, <1>4, Facts DEF FlowOK, FlowSettle, Unawaited
<1> QED
  BY <1>1, <1>2, <1>4, <1>5, <1>6 DEF CInv, WindInv

\* The arrows will be debounced, if they are to be current at all.
LEMMA MoveEndCurrent ==
    ASSUME CInv, NEW v \in Views, MoveEnd(v)
    PROVE  CInv'
<1> DEFINE b == wind.arrows.alive /\ ~wind.arrows.paused
           a == [wind.arrows EXCEPT !.debounce = b]
           w == [wind EXCEPT !.arrows = a]
           m == [view |-> v, moving |-> FALSE]
<1>1. /\ wind' = (IF w.flow.alive THEN _restart(w, v, reduced) ELSE w)
      /\ HasRoom /\ map' = m /\ UNCHANGED <<preload, slice, reduced>>
  BY Facts DEF MoveEnd, Records
<1>2. /\ DOMAIN a = OverlayFields /\ a.debounce = b
      /\ a.alive = wind.arrows.alive /\ a.paused = wind.arrows.paused
      /\ a.tick = wind.arrows.tick /\ a.due = wind.arrows.due
  BY Facts DEF Records, OverlayFields
<1>3. Flags(a) /\ ~ArrowsSettle(a, m)
  BY <1>2, Facts DEF Flags, ArrowsSettle
<1> HIDE DEF b, a
<1>4. Fetcher(w) /\ w.arrows = a /\ w.flow = wind.flow /\ w.reqs = wind.reqs
  BY <1>2, Facts, SetArrows
<1>5. m \in [view : Views, moving : BOOLEAN] /\ m.view = v
  OBVIOUS
<1> HIDE DEF w, m
<1>6. ArrowsOK(w, m, slice) /\ Room(w, v)
  BY <1>1, <1>3, <1>4, Facts DEF ArrowsOK
<1>7. Flags(w.flow) /\ w.flow.paused \in BOOLEAN /\ (~w.flow.paused => Unawaited(w, {"tick"}))
  BY <1>4, Facts DEF FlowOK, Flags, Unawaited
<1>8. CASE w.flow.alive /\ w.flow.paused = FALSE
  <2> DEFINE u == _restart(w, v, reduced)
  <2>1. Room(w, m.view) /\ m.view \in Views /\ slice \in 0..MaxSlice
    BY <1>5, <1>6, Facts
  <2>2. /\ Fetcher(_restart(w, m.view, reduced)) /\ FlowOK(_restart(w, m.view, reduced), m, slice, reduced)
        /\ ArrowsOK(w, m, slice) => ArrowsOK(_restart(w, m.view, reduced), m, slice)
    BY <1>4, <1>7, <1>8, <2>1, RestartCurrent
  <2>3. wind' = _restart(w, m.view, reduced)
    BY <1>1, <1>5, <1>8
  <2> QED
    BY <1>1, <1>5, <1>6, <2>2, <2>3 DEF CInv, WindInv
<1>9. CASE ~w.flow.alive \/ w.flow.paused = TRUE
  <2>1. wind' = w
    BY <1>1, <1>9 DEF _restart
  <2>2. FlowOK(w, m, slice, reduced)
    BY <1>7, <1>9 DEF FlowOK, FlowSettle
  <2> QED
    BY <1>1, <1>4, <1>5, <1>6, <2>1, <2>2 DEF CInv, WindInv
<1> QED
  BY <1>7, <1>8, <1>9

LEMMA ResizeCurrent ==
    ASSUME CInv, Resize
    PROVE  CInv'
<1> DEFINE f == wind.flow
           u == _restart(wind, map.view, reduced')
<1>1. HasRoom /\ wind' = u /\ reduced' \in BOOLEAN /\ UNCHANGED <<preload, slice, map>>
  BY DEF Resize
<1>2. f.paused \in BOOLEAN
  BY Facts DEF Flags
<1>3. Room(wind, map.view) /\ map.view \in Views /\ slice \in 0..MaxSlice
  BY <1>1, Facts
<1>4. CASE f.paused = FALSE
  <2>1. /\ Fetcher(u) /\ FlowOK(u, map, slice, reduced')
        /\ ArrowsOK(wind, map, slice) => ArrowsOK(u, map, slice)
    BY <1>3, <1>4, Facts, RestartCurrent
  <2> HIDE DEF u
  <2> QED
    BY <1>1, <2>1, Facts DEF CInv, WindInv
<1>5. CASE f.paused = TRUE
  <2>1. u = wind
    BY <1>5 DEF _restart
  <2>2. FlowOK(wind, map, slice, reduced')
    BY <1>5, Facts DEF FlowOK, FlowSettle
  <2> QED
    BY <1>1, <2>1, <2>2, Facts DEF CInv, WindInv
<1> QED
  BY <1>2, <1>4, <1>5

LEMMA HideCurrent ==
    ASSUME CInv, Hide
    PROVE  CInv'
<1> DEFINE a == pauseArrows(wind.arrows)
           f == pauseFlow(wind.flow)
           w == [wind EXCEPT !.arrows = a]
           u == [w EXCEPT !.flow = f]
<1>1. wind' = u /\ UNCHANGED <<preload, slice, map, reduced>>
  BY Facts DEF Hide, Records
<1>2. /\ DOMAIN a = OverlayFields
      /\ a = wind.arrows \/ (a.paused = TRUE /\ Flags(a))
  BY Facts DEF pauseArrows, Records, Flags, OverlayFields
<1>3. /\ DOMAIN f = OverlayFields
      /\ f = wind.flow \/ (f.paused = TRUE /\ Flags(f))
  <2>1. CASE ~wind.flow.alive
    BY <2>1, Facts DEF pauseFlow, Records
  <2>2. CASE wind.flow.alive
    <3> DEFINE g == _stopLoop(wind.flow)
               d == wind.flow.due /\ preload
    <3>1. DOMAIN g = OverlayFields /\ g.alive = wind.flow.alive
      BY Facts DEF _stopLoop, Records, OverlayFields
    <3>2. f = [g EXCEPT !.paused = TRUE, !.tick = preload, !.due = d]
      BY <2>2 DEF pauseFlow
    <3>3. d \in BOOLEAN /\ preload \in BOOLEAN /\ wind.flow.alive \in BOOLEAN
      BY Facts DEF CInv, Flags
    <3> HIDE DEF g, d, f
    <3> QED
      BY <3>1, <3>2, <3>3 DEF Flags, OverlayFields
  <2> QED
    BY <2>1, <2>2
<1> HIDE DEF a, f
<1>4. Fetcher(w) /\ w.arrows = a /\ w.flow = wind.flow /\ w.reqs = wind.reqs
  BY <1>2, Facts, SetArrows
<1> HIDE DEF w
<1>5. Fetcher(u) /\ u.arrows = a /\ u.flow = f /\ u.reqs = wind.reqs
  BY <1>3, <1>4, SetFlow
<1> HIDE DEF u
<1>6. ArrowsOK(u, map, slice)
  <2>1. CASE a = wind.arrows
    BY <1>5, <2>1, Facts, OtherArrows
  <2>2. CASE a.paused = TRUE /\ Flags(a)
    BY <1>5, <2>2 DEF ArrowsOK, ArrowsSettle
  <2> QED
    BY <1>2, <2>1, <2>2
<1>7. FlowOK(u, map, slice, reduced)
  <2>1. CASE f = wind.flow
    BY <1>5, <2>1, Facts, OtherFlow
  <2>2. CASE f.paused = TRUE /\ Flags(f)
    BY <1>5, <2>2 DEF FlowOK, FlowSettle
  <2> QED
    BY <1>3, <2>1, <2>2
<1> QED
  BY <1>1, <1>5, <1>6, <1>7 DEF CInv, WindInv

LEMMA ResumedFlags ==
    ASSUME NEW o, DOMAIN o = OverlayFields, Flags(o)
    PROVE  DOMAIN Resumed(o) = OverlayFields /\ Flags(Resumed(o)) /\ Resumed(o).paused = FALSE
BY DEF Resumed, Flags, OverlayFields

\* The arrows' fetch leaves room for the streamlines': the entry they share.
LEMMA ShowCurrent ==
    ASSUME CInv, Show
    PROVE  CInv'
<1> DEFINE a == Resumed(wind.arrows)
           v == [wind EXCEPT !.arrows = a]
           w == resumeArrows(wind)
           f == Resumed(w.flow)
           u == [w EXCEPT !.flow = f]
<1>1. wind' = resumeFlow(w) /\ HasRoom /\ UNCHANGED <<preload, slice, map, reduced>>
  BY DEF Show
<1>2. w = IF wind.arrows.paused THEN _refresh(v, map.view) ELSE wind
  BY Facts DEF resumeArrows, Records
<1>3. DOMAIN a = OverlayFields /\ Flags(a)
  BY Facts, ResumedFlags DEF Records
<1> HIDE DEF a
<1>4. /\ WindInv(_refresh(v, map.view), map, slice, reduced)
      /\ _refresh(v, map.view).cache[Key(map.view, slice)] # Nothing
  BY <1>1, <1>3, RefreshOf
<1>5. WindInv(wind, map, slice, reduced) /\ Room(wind, map.view)
  BY <1>1, Facts DEF CInv
<1> HIDE DEF v, w
<1>6. WindInv(w, map, slice, reduced) /\ Room(w, map.view)
  BY <1>2, <1>4, <1>5 DEF Room
<1>7. Fetcher(w) /\ Records(w) /\ Flags(w.flow) /\ ArrowsOK(w, map, slice)
  BY <1>6 DEF WindInv, Fetcher, FlowOK
<1>8. resumeFlow(w) = IF w.flow.paused THEN _restart(u, map.view, reduced) ELSE w
  BY <1>7 DEF resumeFlow, Records
<1>9. CASE w.flow.paused
  <2>1. DOMAIN f = OverlayFields /\ Flags(f) /\ f.paused = FALSE
    BY <1>7, ResumedFlags DEF Records
  <2> HIDE DEF f
  <2>2. Fetcher(u) /\ u.flow = f /\ u.arrows = w.arrows /\ u.reqs = w.reqs /\ u.cache = w.cache
    BY <1>7, <2>1, SetFlow
  <2> HIDE DEF u
  <2>3. /\ ArrowsOK(u, map, slice) /\ Room(u, map.view)
        /\ map.view \in Views /\ slice \in 0..MaxSlice
    BY <1>6, <1>7, <2>2, Facts, OtherArrows DEF Room
  <2>4. /\ Fetcher(_restart(u, map.view, reduced))
        /\ FlowOK(_restart(u, map.view, reduced), map, slice, reduced)
        /\ ArrowsOK(u, map, slice) => ArrowsOK(_restart(u, map.view, reduced), map, slice)
    BY <2>1, <2>2, <2>3, RestartCurrent
  <2> QED
    BY <1>1, <1>8, <1>9, <2>3, <2>4 DEF CInv, WindInv
<1>10. CASE ~w.flow.paused
  BY <1>1, <1>6, <1>8, <1>10 DEF CInv
<1> QED
  BY <1>9, <1>10

\* Every overlay that is to be current has its timer, and is due.
LEMMA HalfHourCurrent ==
    ASSUME CInv, HalfHour
    PROVE  CInv'
<1> DEFINE a == [wind.arrows EXCEPT !.due = wind.arrows.tick]
           f == [wind.flow EXCEPT !.due = wind.flow.tick]
           w == [wind EXCEPT !.arrows = a]
           u == [w EXCEPT !.flow = f]
<1>1. wind' = u /\ slice < MaxSlice /\ slice' = slice + 1 /\ UNCHANGED <<preload, map, reduced>>
  BY Facts DEF HalfHour, Records
<1>2. slice' \in 0..MaxSlice
  BY <1>1, WindAssumption DEF CInv
<1>3. DOMAIN a = OverlayFields /\ Flags(a) /\ ~ArrowsSettle(a, map)
  BY Facts DEF Records, OverlayFields, Flags, ArrowsSettle
<1>4. /\ DOMAIN f = OverlayFields /\ Flags(f) /\ ~FlowSettle(f, map, reduced)
      /\ f.paused = wind.flow.paused
  BY Facts DEF Records, OverlayFields, Flags, FlowSettle
<1> HIDE DEF a, f
<1>5. Fetcher(w) /\ w.arrows = a /\ w.flow = wind.flow /\ w.reqs = wind.reqs
  BY <1>3, Facts, SetArrows
<1> HIDE DEF w
<1>6. Fetcher(u) /\ u.arrows = a /\ u.flow = f /\ u.reqs = wind.reqs
  BY <1>4, <1>5, SetFlow
<1> HIDE DEF u
<1>7. ArrowsOK(u, map, slice')
  BY <1>3, <1>6 DEF ArrowsOK
<1>8. FlowOK(u, map, slice', reduced)
  BY <1>4, <1>6, Facts DEF FlowOK, Unawaited
<1> QED
  BY <1>1, <1>2, <1>6, <1>7, <1>8 DEF CInv, WindInv

-----------------------------------------------------------------------------
LEMMA InitCurrent ==
    ASSUME InitWind
    PROVE  CInv
<1>1. /\ DOMAIN wind = {"arrows", "flow", "cache", "reqs"}
      /\ wind.arrows = NoOverlay /\ wind.flow = NoOverlay
      /\ wind.reqs = [r \in Ids |-> Free] /\ wind.cache = [k \in Keys |-> Nothing]
      /\ slice = 0 /\ map \in [view : Views, moving : BOOLEAN]
      /\ preload \in BOOLEAN /\ reduced \in BOOLEAN
  BY DEF InitWind
<1>2. slice \in 0..MaxSlice
  BY <1>1, WindAssumption
<1>3. DOMAIN Free = {"key", "slice", "waiters"} /\ Free.waiters = {}
  BY DEF Free
<1>4. Records(wind) /\ Entries(wind) /\ Requests(wind)
  BY <1>1, <1>3, ConstructedFlags DEF Records, Entries, Requests
<1>5. ArrowsOK(wind, map, slice) /\ FlowOK(wind, map, slice, reduced)
  BY <1>1, <1>3, ConstructedFlags DEF ArrowsOK, ArrowsSettle, FlowOK, FlowSettle, Unawaited
<1> QED
  BY <1>1, <1>2, <1>4, <1>5 DEF CInv, WindInv, Fetcher

LEMMA NextCurrent ==
    ASSUME CInv, [NextWind]_windVars
    PROVE  CInv'
<1>1. CASE \E r \in Ids : GridAnswer(r) \/ GridFails(r)
  BY <1>1, AnswerCurrent
<1>2. CASE \E k \in Keys : EntryExpires(k)
  BY <1>2, ExpiresCurrent
<1>3. CASE StartArrows
  BY <1>3, StartArrowsCurrent
<1>4. CASE StartFlow
  BY <1>4, StartFlowCurrent
<1>5. CASE DestroyArrows
  BY <1>5, DestroyArrowsCurrent
<1>6. CASE DestroyFlow
  BY <1>6, DestroyFlowCurrent
<1>7. CASE MoveStart
  BY <1>7, MoveStartCurrent
<1>8. CASE \E v \in Views : MoveEnd(v)
  BY <1>8, MoveEndCurrent
<1>9. CASE Debounced
  BY <1>9, DebouncedCurrent
<1>10. CASE Resize
  BY <1>10, ResizeCurrent
<1>11. CASE Hide
  BY <1>11, HideCurrent
<1>12. CASE Show
  BY <1>12, ShowCurrent
<1>13. CASE HalfHour
  BY <1>13, HalfHourCurrent
<1>14. CASE ArrowsTick
  BY <1>14, ArrowsTickCurrent
<1>15. CASE FlowTick
  BY <1>15, FlowTickCurrent
<1>16. CASE UNCHANGED windVars
  BY <1>16 DEF CInv, windVars
<1> HIDE DEF CInv
<1> QED
  BY <1>1, <1>2, <1>3, <1>4, <1>5, <1>6, <1>7, <1>8, <1>9, <1>10, <1>11, <1>12,
     <1>13, <1>14, <1>15, <1>16, Zenon DEF NextWind

\* What each overlay has on screen, once nothing is under way or owed and its
\* last fetch came back, is of the box the map shows and of the slice nearest
\* to now: for any boxes, slices and number of requests, in whatever order these
\* are answered, shared, expire or fail.
THEOREM WindCurrentTheorem == SpecWind => []WindCurrent
<1>1. InitWind => CInv
  BY InitCurrent
<1>2. CInv /\ [NextWind]_windVars => CInv'
  BY NextCurrent
<1>3. CInv => WindCurrent
  <2> SUFFICES ASSUME CInv
               PROVE  WindCurrent
    OBVIOUS
  <2>1. Awaited({"arrows"}) \/ Unawaited(wind, {"arrows"})
    BY DEF Awaited, Unawaited
  <2>2. Awaited({"restart", "tick"}) \/ Unawaited(wind, {"restart", "tick"})
    BY DEF Awaited, Unawaited
  <2>3. \A grid : Current(grid, map, slice) => OfNow(grid)
    BY DEF Current, OfNow
  <2>4. ArrowsCurrent
    BY <2>1, <2>3, Facts DEF ArrowsCurrent, ArrowsOK, ArrowsSettle
  <2>5. FlowCurrent
    BY <2>2, <2>3, Facts DEF FlowCurrent, FlowOK, FlowSettle
  <2> QED
    BY <2>4, <2>5 DEF WindCurrent
<1> QED
  BY <1>1, <1>2, <1>3, PTL DEF SpecWind


-----------------------------------------------------------------------------
(* Basemap.  A style that waits for a lost context counts as the map's, and   *)
(* waits only as long as the context is lost.                                *)

MapStyles == {"full", "base", "labels", None}
MapLayers == [on : BOOLEAN, style : MapStyles, restyle : MapStyles, broken : BOOLEAN,
              error : BOOLEAN, holes : BOOLEAN, lost : BOOLEAN, grace : BOOLEAN]

\* A layer whose context is there, or lost only as long as it is on the map.
Steady(m) ==
  /\ m \in MapLayers
  /\ m.lost => m.on
  /\ m.grace => m.lost
  /\ ~m.lost => m.restyle = None

\* The inductive invariant.
LabelsInv ==
  /\ tabHidden \in BOOLEAN
  /\ Steady(base) /\ Steady(labels) /\ (labels.on => base.on) /\ LabelsOnce

\* What most steps do to a layer: whether it is there and its style stay.
Like(m, after) ==
  /\ Steady(after) /\ after.on = m.on
  /\ after.style = m.style /\ after.restyle = m.restyle

LEMMA KeepsLabels ==
  ASSUME LabelsInv, tabHidden' \in BOOLEAN, Like(base, base'), Like(labels, labels')
  PROVE  LabelsInv'
BY DEF LabelsInv, Like, LabelsOnce

LEMMA ReloadKeeps ==
  ASSUME NEW m, Steady(m), NEW token
  PROVE  Like(m, reloadLayer(m, token))
BY DEF Steady, Like, MapLayers, reloadLayer, Loaded, Refused

LEMMA OffKeeps ==
  Steady(NoLayer) /\ ~NoLayer.on
BY DEF Steady, MapLayers, MapStyles, NoLayer

LEMMA AddedSteady ==
  ASSUME NEW style \in {"full", "base", "labels"}, NEW token,
         NEW m, m = Loaded([NoLayer EXCEPT !.on = TRUE], style, token)
  PROVE  Steady(m) /\ m.on /\ m.style = style /\ m.restyle = None
<1>1. m = [on |-> TRUE, style |-> style, restyle |-> None, broken |-> Refused(token),
           error |-> Refused(token), holes |-> FALSE, lost |-> FALSE, grace |-> FALSE]
  BY DEF Loaded, NoLayer
<1>2. Refused(token) \in BOOLEAN
  BY DEF Refused
<1>3. \A st, none \in MapStyles, r \in BOOLEAN :
         [on |-> TRUE, style |-> st, restyle |-> none, broken |-> r, error |-> r,
          holes |-> FALSE, lost |-> FALSE, grace |-> FALSE] \in MapLayers
  BY DEF MapLayers
<1>4. style \in MapStyles /\ None \in MapStyles
  BY DEF MapStyles
<1>5. m \in MapLayers
  BY <1>1, <1>2, <1>3, <1>4, Zenon
<1>6. m.on = TRUE /\ m.lost = FALSE /\ m.grace = FALSE /\ m.style = style /\ m.restyle = None
  BY <1>1, SMT
<1> QED
  BY <1>5, <1>6 DEF Steady

\* A context that comes back has the style that waited for it, or its own.
LEMMA RestoredSteady ==
  ASSUME NEW l, Steady(l), l.on, NEW m, m = Restored(l)
  PROVE  Steady(m) /\ m.on /\ m.restyle = None /\ m.style = IF l.restyle = None THEN l.style ELSE l.restyle
<1>1. Refused(vector.token) \in BOOLEAN
  BY DEF Refused
<1>2. m = [l EXCEPT !.lost = FALSE, !.grace = FALSE, !.restyle = None,
                    !.style = IF l.restyle = None THEN l.style ELSE l.restyle,
                    !.broken = Refused(vector.token), !.error = Refused(vector.token),
                    !.holes = FALSE]
  BY DEF Restored, Loaded, Steady, MapLayers
<1> QED
  BY <1>1, <1>2 DEF Steady, MapLayers, MapStyles

LEMMA LabelsStep ==
  ASSUME LabelsInv, [NextMap]_mapVars
  PROVE  LabelsInv'
<1> DEFINE Still == UNCHANGED <<tabHidden, base, labels>>
<1>1. CASE Still
  BY <1>1, KeepsLabels DEF LabelsInv, Like
<1>2. ASSUME base' = NoLayer, labels' = NoLayer, tabHidden' = tabHidden
      PROVE  LabelsInv'
  BY <1>2, OffKeeps DEF LabelsInv, LabelsOnce
<1>3. ASSUME NEW v, Reload(v), tabHidden' = tabHidden
      PROVE  LabelsInv'
  BY <1>3, ReloadKeeps, KeepsLabels DEF Reload, LabelsInv
<1>4. ASSUME fallback, tabHidden' = tabHidden
      PROVE  LabelsInv'
  BY <1>2, <1>4 DEF fallback, Cleanup
<1>5. ASSUME NEW b \in BOOLEAN, NEW l \in BOOLEAN, Started(b, l)
      PROVE  LabelsInv'
  <2>1. CASE ~b
    BY <1>4, <1>5, <2>1 DEF Started
  <2>2. CASE b
    <3>1. tabHidden' = tabHidden
      BY <1>5, <2>2 DEF Started
    <3>2. CASE asked.labelsAbove /\ l
      <4>1. /\ base' = Loaded([NoLayer EXCEPT !.on = TRUE], "base", vector.token)
            /\ labels' = Loaded([NoLayer EXCEPT !.on = TRUE], "labels", vector.token)
        BY <1>5, <2>2, <3>2 DEF Started
      <4> QED
        BY BasemapAssumption, <3>1, <4>1, AddedSteady DEF LabelsInv, LabelsOnce
    <3>3. CASE ~(asked.labelsAbove /\ l)
      <4>1. /\ base' = Loaded([NoLayer EXCEPT !.on = TRUE], "full", vector.token)
            /\ labels' = NoLayer
        BY <1>5, <2>2, <3>3 DEF Started
      <4> QED
        BY <3>1, <4>1, AddedSteady, OffKeeps DEF LabelsInv, LabelsOnce
    <3> QED
      BY <3>2, <3>3
  <2> QED
    BY <2>1, <2>2
<1>6. CASE Refusal
  BY <1>6, KeepsLabels DEF Refusal, refused, LabelsInv, Like, Steady, MapLayers
<1>7. CASE onError
  BY <1>7, KeepsLabels DEF onError, LabelsInv, Like, Steady, MapLayers
<1>8. CASE BaseLost
  BY <1>8, KeepsLabels DEF BaseLost, Losing, LabelsInv, Like, Steady, MapLayers
<1>9. CASE LabelsLost
  BY <1>9, KeepsLabels DEF LabelsLost, Losing, LabelsInv, Like, Steady, MapLayers
<1>10. CASE BaseRestored
  BY <1>10, RestoredSteady DEF BaseRestored, LabelsOnce, LabelsInv, Steady
<1>11. CASE LabelsRestored
  BY <1>11, RestoredSteady DEF LabelsRestored, LabelsOnce, LabelsInv, Steady
<1>12. CASE BaseGivenUp
  BY <1>4, <1>12 DEF BaseGivenUp
<1>13. CASE LabelsGivenUp
  BY BasemapAssumption, <1>13, OffKeeps DEF LabelsGivenUp, labelsGone, applyStyle, Loaded, Refused,
               LabelsOnce, LabelsInv, Steady, MapLayers, MapStyles
<1>14. CASE TabSwitch
  BY <1>14, KeepsLabels DEF TabSwitch, LabelsInv, Like, Steady, MapLayers
<1>15. CASE _teardown
  BY <1>2, <1>15 DEF _teardown
<1>16. CASE LoadFails
  BY <1>4, <1>16 DEF LoadFails
<1>17. CASE TokenStep
  <2>1. CASE VectorToken
    BY <1>1, <1>3, <2>1 DEF VectorToken, TokenReloads
  <2> QED
    BY <1>1, <1>17, <2>1 DEF TokenStep, VectorAsks, RasterAsks, RasterToken
<1>18. CASE RecoverAnswered
  BY <1>1, <1>3, <1>18 DEF RecoverAnswered
<1>19. CASE ThrottleEnds \/ TilesRefused \/ TilesGiveUp \/ GoesDown \/ Reconnects \/ Serves
  BY <1>1, <1>19 DEF ThrottleEnds, TilesRefused, TilesGiveUp, GoesDown, Reconnects, Serves
<1>20. CASE \E webGL2 \in BOOLEAN : _setupBasemap(webGL2)
  BY <1>1, <1>20 DEF _setupBasemap
<1>21. CASE UNCHANGED mapVars
  BY <1>1, <1>21 DEF mapVars
<1> QED
  BY <1>5, <1>6, <1>7, <1>8, <1>9, <1>10, <1>11, <1>12, <1>13, <1>14, <1>15, <1>16, <1>17, <1>18,
     <1>19, <1>20, <1>21 DEF NextMap

\* The names are on the map once, however the labels' layer, the contexts and
\* Home Assistant come and go.
THEOREM LabelsOnceTheorem == SpecMap => []LabelsOnce
<1>1. InitMap => LabelsInv
  BY OffKeeps DEF InitMap, LabelsInv, LabelsOnce
<1>2. LabelsInv /\ [NextMap]_mapVars => LabelsInv'
  BY LabelsStep
<1>3. LabelsInv => LabelsOnce
  BY DEF LabelsInv
<1> QED
  BY <1>1, <1>2, <1>3, PTL DEF SpecMap
=============================================================================
