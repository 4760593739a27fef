---------------------------- MODULE FrameListing ----------------------------
(***************************************************************************)
(* Which times a loop has, as its source lists new ones                    *)
(* (src/src/radar-player.ts, noaa-frame-list.ts, stride-phase.ts): frames   *)
(* lie on a grid of the configured stride, picked from RainViewer's or      *)
(* NOAA's listing, or computed for NOAA's older server while its listing    *)
(* fails.  An update shifts in what is newer, one frame out for each in, or *)
(* rebuilds the loop where that cannot follow the listing.                  *)
(*                                                                         *)
(* A loop's times ascend, as its newest is always the latest, so it is a    *)
(* set.  Times are in units of the listing's own interval for RainViewer,   *)
(* and finer ones for NOAA.  FrameLoop models the arrays behind the times,  *)
(* and drops the frames that look alike, which this module does not.        *)
(***************************************************************************)
EXTENDS Integers, FiniteSets, FiniteSetsExt

CONSTANTS
    None,
    Ranges,     \* configurations: [source, stride, past, reach], reach: how far back its listing goes
    Tolerance,  \* SLOT_TOLERANCE_SEC
    Lag,        \* NOAA_LEGACY_LAG_MS
    Coarse,     \* NOAA_LEGACY_STRIDE_MIN
    FirstTime, EndTime  \* bounds

VARIABLES
    hour,   \* [now, scans]: the clock, and what the source has published
    loop,   \* _radarPaths' times, those of the older server, _listedFrameCount,
            \* _stridePhaseSec, and the configuration
    stored, \* the grid's phase in localStorage and when it was used
    heard   \* history: the last listing an update or a load answered with

listingVars == <<hour, loop, stored, heard>>

RainViewer == loop.range.source = "RainViewer"

-----------------------------------------------------------------------------
(* Picking                                                                   *)

gridPhase(t) == t % loop.range.stride

\* _stridePhase: the loop's own, else one in use lately, else the newest frame's.
Phase(list) ==
    IF loop.phase # None THEN loop.phase
    ELSE IF stored.at # None /\ 2 * (hour.now - stored.at) < loop.range.past THEN stored.phase
    ELSE gridPhase(Max(list))

\* pickRainViewerFrames; its 60 s of jitter are less than a unit.
PickedOnGrid(list, phase) ==
    LET onGrid == {t \in list : gridPhase(t) = phase}
    IN  {t \in onGrid : Max(onGrid) - t <= loop.range.past}

Distance(a, b) == IF a >= b THEN a - b ELSE b - a

\* nearestListed: of two as near the later one.
nearestListed(list, ideal) ==
    LET nearest == Min({Distance(t, ideal) : t \in list})
    IN  Max({t \in list : Distance(t, ideal) = nearest})

Slots(from) == {from - i * loop.range.stride : i \in 0 .. loop.range.past \div loop.range.stride}

\* The newest slot that a scan has reached.
LastSlot(list, phase) == Max(list) - gridPhase(Max(list) - phase)

pickFrameTimes(list, phase) ==
    UNION {{t \in {nearestListed(list, s)} : Distance(t, s) <= Tolerance} :
               s \in Slots(LastSlot(list, phase))}

Picked(list, phase) ==
    IF list = {} THEN {} ELSE IF RainViewer THEN PickedOnGrid(list, phase) ELSE pickFrameTimes(list, phase)

\* The older server's grid, behind its lag.
LegacyTimes ==
    LET snap == ((hour.now - Lag) \div Coarse) * Coarse
    IN  {snap - i * Coarse : i \in 0 .. loop.range.past \div Coarse}

-----------------------------------------------------------------------------
(* Following                                                                 *)

\* Mutant: a slot the listing does not reach back to counts as skipped.
NeedsRebuildAtReach(held, picks, start) == Cardinality(picks) # held

\* rainViewerNeedsRebuild
NeedsRebuild(held, picks, start) ==
    IF Cardinality(picks) >= held THEN Cardinality(picks) > held
    ELSE Cardinality(picks) + Cardinality({s \in Slots(Max(picks)) : s < start}) < held

Last(times, n) == {t \in times : Cardinality({u \in times : u > t}) < n}

\* Every frame newer than the newest held is shifted in.
Shifted(times, frames) ==
    Last(times \cup {t \in frames : t > Max(times)}, Cardinality(times))

Unloaded(phase) == [loop EXCEPT !.times = {}, !.legacy = {}, !.phase = phase]

\* _initRadarBody's and _updateRadar's use of the frames, from the older server or not.
Loaded(frames, legacy, phase) ==
    [loop EXCEPT !.times = frames, !.legacy = IF legacy THEN frames ELSE {},
                 !.listed = Cardinality(frames), !.phase = phase]

Followed(frames, legacy, phase) ==
    LET times == Shifted(loop.times, frames)
        older == IF legacy THEN loop.legacy \cup (times \ loop.times) ELSE loop.legacy
    IN  [loop EXCEPT !.times = times, !.legacy = older \cap times, !.phase = phase]

Heard(picks, list, rebuilt) ==
    [picks |-> picks, start |-> Min(list), rebuilt |-> rebuilt, was |-> loop.times,
     old |-> loop.times # {} /\ ((heard # None /\ heard.old) \/ Min(list) > Max(loop.times))]

Remembered(phase) == IF stored.blocked THEN stored ELSE [stored EXCEPT !.phase = phase, !.at = hour.now]

\* _fetchPaths comes back with the listing.
ListingArrives ==
    /\ hour.scans # {}
    /\ LET list == hour.scans
           phase == Phase(list)
           picks == Picked(list, phase)
           rebuild == \/ loop.legacy # {}
                      \/ RainViewer /\ NeedsRebuild(loop.listed, picks, Min(list))
       IN  /\ stored' = Remembered(phase)
           /\ picks # {}
           /\ CASE loop.times = {} ->
                     loop' = Loaded(picks, FALSE, phase) /\ heard' = Heard(picks, list, FALSE)
                [] loop.times # {} /\ rebuild ->
                     loop' = Unloaded(None) /\ heard' = Heard(picks, list, TRUE)
                [] loop.times # {} /\ ~rebuild ->
                     loop' = Followed(picks, FALSE, phase) /\ heard' = Heard(picks, list, FALSE)
    /\ UNCHANGED hour

\* Without any frame RainViewer's loop waits; the phase is fixed all the same.
ListingHasNone ==
    /\ hour.scans # {} /\ RainViewer
    /\ Picked(hour.scans, Phase(hour.scans)) = {}
    /\ stored' = Remembered(Phase(hour.scans))
    /\ loop' = [loop EXCEPT !.phase = Phase(hour.scans)]
    /\ UNCHANGED <<hour, heard>>

\* NOAA's listing fails, or lists nothing for the grid: the older server's frames.
ListingFails ==
    /\ ~RainViewer
    /\ LET phase == IF hour.scans # {} /\ Picked(hour.scans, Phase(hour.scans)) = {}
                    THEN Phase(hour.scans) ELSE loop.phase
       IN  loop' = IF loop.times = {} THEN Loaded(LegacyTimes, TRUE, phase)
                   ELSE Followed(LegacyTimes, TRUE, phase)
    /\ heard' = None
    /\ UNCHANGED <<hour, stored>>

\* _clearLayers and a new _initRadar: a reinit, a resume after a long hide.
Reinit ==
    /\ loop.times # {}
    /\ loop' = Unloaded(None) /\ heard' = None
    /\ UNCHANGED <<hour, stored>>

-----------------------------------------------------------------------------
(* The source                                                                *)

\* Time goes on and the source publishes, or skips, a scan.
Tick(scan) ==
    /\ hour.now < EndTime
    /\ LET scans == hour.scans \cup (IF scan THEN {hour.now + 1} ELSE {})
       IN  hour' = [now |-> hour.now + 1, scans |-> {t \in scans : Max(scans) - t <= loop.range.reach}]
    /\ UNCHANGED <<loop, stored, heard>>

InitListing ==
    /\ \E range \in Ranges : loop = [times |-> {}, legacy |-> {}, listed |-> 0, phase |-> None, range |-> range]
    /\ hour = [now |-> FirstTime, scans |-> FirstTime - loop.range.reach .. FirstTime]
    /\ stored \in [phase : {0}, at : {None, FirstTime - 1}, blocked : BOOLEAN]
    /\ heard = None

NextListing == ListingArrives \/ ListingHasNone \/ ListingFails \/ Reinit \/ \E scan \in BOOLEAN : Tick(scan)

SpecListing == InitListing /\ [][NextListing]_listingVars

-----------------------------------------------------------------------------
\* A loop of times has, of what a RainViewer listing reaches, what was picked.
HasPicks(times) == {t \in times : t >= heard.start} = heard.picks

\* Of what the listing no longer reaches, it has only frames of the window.
InWindow(times) == \A t \in times : Max(heard.picks) - t <= loop.range.past

StandsFor(t) == {s \in t - Tolerance .. t + Tolerance : gridPhase(s) = loop.phase}

\* A loop of times follows a NOAA listing: none that was picked is left out between
\* two that it has, no two of its frames stand for one slot, and none is of the
\* older server.
FollowsScans(times) ==
    /\ {t \in heard.picks : t > Min(times)} \subseteq times
    /\ \A t, u \in times : t # u => StandsFor(t) \cap StandsFor(u) = {}
    /\ loop.legacy = {}

\* After a listing has come in, and whatever was skipped, failed or rebuilt
\* before, the loop follows it, save that it may keep older frames once a listing did
\* not reach back to its newest; and it is rebuilt only where shifting would not
\* have followed.
LoopFollows ==
    heard # None =>
        /\ loop.times # {} =>
             IF RainViewer THEN HasPicks(loop.times) /\ (heard.old \/ InWindow(loop.times))
             ELSE FollowsScans(loop.times)
        /\ heard.rebuilt /\ RainViewer =>
             LET times == Shifted(heard.was, heard.picks) IN ~(HasPicks(times) /\ InWindow(times))
=============================================================================
